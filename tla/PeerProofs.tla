----------------------------- MODULE PeerProofs ----------------------------
(***************************************************************************)
(* Theorems about the sender and the receiver each against any peer that   *)
(* keeps to the wire protocol, for every file, payload, window, retry      *)
(* count and number of faults.                                             *)
(***************************************************************************)
EXTENDS ValTransferProofs, SenderWithPeer, ReceiverWithPeer

-----------------------------------------------------------------------------
(* The packets outstanding.                                                *)

\* Rounding up covers the bytes outstanding, and counts no more packets than
\* were needed for at least as many bytes
LEMMA CeilDivCovers ==
    ASSUME NEW a \in Nat, NEW b \in Nat \ {0}, NEW c \in Nat, a <= c * b
    PROVE  /\ CeilDiv(a, b) \in Nat
           /\ a <= CeilDiv(a, b) * b
           /\ CeilDiv(a, b) <= c
<1> DEFINE q == CeilDiv(a, b)
           n == a + (b - 1)
<1>1. q \in Nat
  BY CeilDivFacts
<1>2. n \in Nat /\ q = n \div b
  BY DEF CeilDiv
<1>3. b * q <= n /\ n < b * q + b
  BY <1>1, <1>2
<1>4. b * q = q * b /\ q * b \in Nat /\ c * b \in Nat
  BY <1>1
<1> HIDE DEF q
<1>5. a <= q * b
  BY <1>3, <1>4
<1>6. ASSUME c < q PROVE FALSE
  <2>1. (c + 1) * b <= q * b
    BY <1>1, <1>6
  <2>2. (c + 1) * b = c * b + b
    OBVIOUS
  <2> QED
    BY <1>3, <1>4, <2>1, <2>2
<1> QED
  BY <1>1, <1>5, <1>6 DEF q

\* wait_for_window_ack recomputes the packets outstanding when an acknowledgement
\* advances: they still cover what is unacknowledged, and are no more than before
LEMMA OutstandingCovers ==
    ASSUME NEW sent \in Nat, NEW old \in Nat, NEW new \in Nat, old <= new,
           NEW n \in Nat, sent - old <= n * MaxPayload
    PROVE  LET out == CeilDiv(Larger(sent - new, 0), MaxPayload)
           IN  /\ out \in Nat
               /\ out <= n
               /\ sent - new <= out * MaxPayload
<1> DEFINE a == Larger(sent - new, 0)
<1>1. MaxPayload \in Nat \ {0} /\ n * MaxPayload \in Nat
  BY PayloadAssumption
<1>2. a \in Nat /\ sent - new <= a /\ (a = 0 \/ a = sent - new)
  BY DEF Larger
<1>3. a <= n * MaxPayload
  BY <1>1, <1>2
<1> HIDE DEF a
<1>4. /\ CeilDiv(a, MaxPayload) \in Nat
      /\ a <= CeilDiv(a, MaxPayload) * MaxPayload
      /\ CeilDiv(a, MaxPayload) <= n
  BY <1>1, <1>2, <1>3, CeilDivCovers
<1>5. sent - new <= CeilDiv(a, MaxPayload) * MaxPayload
  <2>1. CeilDiv(a, MaxPayload) * MaxPayload \in Nat
    BY <1>1, <1>4
  <2> QED
    BY <1>2, <1>4, <2>1
<1> QED
  BY <1>4, <1>5 DEF a

-----------------------------------------------------------------------------
(* The sender against any receiver.                                        *)

\* DATA that lies within the file, and the frames without data
WithinFile == {m \in ToReceiver : m.type = "DATA" => m.src + m.len <= FileSize}

\* The invariant of SenderWithPeer in the terms of the lemmas above
LEMMA SenderPeerInvFacts ==
    ASSUME SenderPeerInv
    PROVE  /\ SenderTypeInv
           /\ seen \in Nat /\ seen <= FileSize /\ FileSize \in Nat
           /\ naks \in Nat
           /\ last_acked \in Nat /\ next_to_send \in Nat /\ inflight \in Nat
           /\ dataLink \in Seq(WithinFile)
           /\ ackLink \in Seq(Covered(seen))
<1>1. seen \in Nat /\ seen <= FileSize /\ naks \in Nat /\ FileSize \in Nat
  BY SizeAssumption, NakAssumption DEF SenderPeerInv, SenderPeerTypeOK
<1>2. last_acked \in Nat /\ next_to_send \in Nat /\ inflight \in Nat
  BY SizeAssumption DEF SenderPeerInv, SenderPeerTypeOK, SenderTypeOK
<1>3. SenderTypeInv
  BY <1>1, <1>2 DEF SenderPeerInv, SenderPeerTypeOK, SenderTypeInv
<1> QED
  BY <1>1, <1>2, <1>3 DEF SenderPeerInv, WithinFile, Covered

\* The sender puts no data on the link that its file does not hold
LEMMA SenderStaysWithin ==
    ASSUME SenderTypeInv, dataLink \in Seq(WithinFile),
           SenderLocal \/ SenderReads \/ SenderTimeout
    PROVE  dataLink' \in Seq(WithinFile)
<1>1. Done \in WithinFile
  BY DEF WithinFile, ToReceiver, Done
<1>2. CASE SendData
  <2>1. ToRead(IncludeOffset) \in 1..(FileSize - next_to_send)
    BY <1>2, ToReadType, Zenon DEF SendData, IncludeOffset, SenderTypeInv
  <2> DEFINE m == Data(IF IncludeOffset THEN next_to_send ELSE IMPLIED, next_to_send,
                       ToRead(IncludeOffset))
  <2>2. next_to_send \in Nat /\ FileSize \in Nat
    BY SizeAssumption DEF SenderTypeInv, SenderTypeOK
  <2>3. m \in ToReceiver
    BY <2>1, <2>2, FrameTypes DEF IMPLIED
  <2>4. m.src + m.len <= FileSize
    BY <2>1, <2>2 DEF Data
  <2>5. m \in WithinFile
    BY <2>3, <2>4 DEF WithinFile
  <2>6. dataLink' = Append(dataLink, m)
    BY <1>2 DEF SendData
  <2> HIDE DEF m
  <2> QED
    BY <2>5, <2>6, LinkFacts
<1>3. CASE ~SendData
  <2>1. dataLink' = dataLink \/ dataLink' = Append(dataLink, Done)
    BY <1>3 DEF SenderLocal, StartWindow, SendDone, StartWait, SenderTimeout,
       AckTimeout, AckTimeoutFatal, DoneTimeout, DoneTimeoutFatal, SenderReads,
       RecvAckPartial, RecvAckWindow, RecvAckStale, AckAdvances, RecvNak, RecvCancel,
       RecvDoneAck, RecvWhileDone, Read, linkVars
  <2> QED
    BY <1>1, <2>1, LinkFacts
<1> QED
  BY <1>2, <1>3

\* Each handler keeps the count of packets in flight between what is outstanding
\* and the window
LEMMA SenderCounts ==
    ASSUME SenderTypeInv, SenderTypeInv', InflightCovers, last_acked <= last_acked',
           SenderLocal \/ SenderReads \/ SenderTimeout
    PROVE  InflightCovers'
<1>1. /\ last_acked \in Nat /\ next_to_send \in Nat /\ inflight \in Nat /\ win \in Nat
      /\ last_acked' \in Nat /\ next_to_send' \in Nat /\ inflight' \in Nat
      /\ win' \in Nat /\ MaxPayload \in Nat \ {0} /\ FileSize \in Nat
      /\ inflight * MaxPayload \in Nat
  BY SizeAssumption, PayloadAssumption, WindowAssumption DEF SenderTypeInv, SenderTypeOK
<1>2. CASE UNCHANGED <<last_acked, next_to_send, inflight, win>>
  BY <1>2 DEF InflightCovers
<1>3. CASE Rewind
  <2>1. next_to_send' = last_acked' /\ inflight' = 0
    BY <1>3 DEF Rewind
  <2>2. inflight' * MaxPayload = 0
    <3>1. 0 * MaxPayload = 0
      BY <1>1
    <3> QED
      BY <2>1, <3>1
  <2>3. inflight' <= win'
    BY <1>1, <2>1
  <2>4. next_to_send' - last_acked' <= 0
    <3>1. \A n \in Nat : n - n <= 0
      OBVIOUS
    <3> QED
      BY <1>1, <2>1, <3>1, Zenon
  <2> QED
    BY <2>2, <2>3, <2>4 DEF InflightCovers
<1>4. CASE SendData
  <2>1. ToRead(IncludeOffset) \in 1..(FileSize - next_to_send)
    BY <1>4, ToReadType, Zenon DEF SendData, IncludeOffset, SenderTypeInv
  <2>2. ToRead(IncludeOffset) <= MaxPayload
    BY <1>1, PayloadAssumption DEF ToRead, Smaller, IncludeOffset
  <2>3. (inflight + 1) * MaxPayload = inflight * MaxPayload + MaxPayload
    BY <1>1
  <2>4. /\ next_to_send' = next_to_send + ToRead(IncludeOffset)
        /\ inflight' = inflight + 1 /\ inflight < win
        /\ UNCHANGED <<last_acked, win>>
    BY <1>4 DEF SendData
  <2>5. next_to_send' - last_acked' <= inflight * MaxPayload + MaxPayload
    BY <1>1, <2>1, <2>2, <2>4 DEF InflightCovers
  <2> QED
    BY <1>1, <2>3, <2>4, <2>5 DEF InflightCovers
<1>5. CASE AckAdvances
  <2>1. /\ inflight' = CeilDiv(Larger(next_to_send - last_acked', 0), MaxPayload)
        /\ UNCHANGED <<next_to_send, win>>
    BY <1>5 DEF AckAdvances, Outstanding
  <2>2. inflight' <= inflight /\ next_to_send - last_acked' <= inflight' * MaxPayload
    BY <1>1, <2>1, OutstandingCovers, Zenon DEF InflightCovers
  <2> QED
    BY <1>1, <2>1, <2>2 DEF InflightCovers
<1> QED
  BY <1>2, <1>3, <1>4, <1>5
     DEF SenderLocal, StartWindow, SendDone, StartWait, SenderTimeout, AckTimeout,
         AckTimeoutFatal, DoneTimeout, DoneTimeoutFatal, SenderReads, RecvAckPartial,
         RecvAckWindow, RecvAckStale, RecvNak, RecvCancel, RecvDoneAck, RecvWhileDone,
         windowVars, senderVars

\* DONE is sent only when the file is acknowledged
LEMMA DoneAfterLastAck ==
    ASSUME SenderTypeInv, last_acked <= FileSize, last_acked' <= FileSize,
           spc \in {"done", "ok"} => last_acked = FileSize,
           SenderLocal \/ SenderReads \/ SenderTimeout
    PROVE  spc' \in {"done", "ok"} => last_acked' = FileSize
<1>1. last_acked \in Nat /\ FileSize \in Nat
  BY SizeAssumption DEF SenderTypeInv, SenderTypeOK
<1>2. CASE spc' \notin {"done", "ok"}
  BY <1>2
<1>3. CASE UNCHANGED <<spc, last_acked>>
  BY <1>3
<1>4. CASE SendDone
  BY <1>1, <1>4 DEF SendDone, windowVars
<1>5. CASE spc = "done" /\ last_acked' = last_acked
  BY <1>5
<1> QED
  BY <1>2, <1>3, <1>4, <1>5, Zenon
     DEF SenderLocal, StartWindow, SendData, StartWait, SenderTimeout, AckTimeout,
         AckTimeoutFatal, DoneTimeout, DoneTimeoutFatal, SenderReads, RecvAckPartial,
         RecvAckWindow, RecvAckStale, AckAdvances, RecvNak, RecvCancel, RecvDoneAck,
         RecvWhileDone, Read, Rewind, windowVars, senderVars

\* A step of the sender
LEMMA SenderKeepsPeerInv ==
    ASSUME SenderPeerInv, SenderRuns
    PROVE  SenderPeerInv' /\ last_acked <= last_acked'
<1> USE SenderPeerInvFacts
<1>1. SenderLocal \/ SenderReads \/ SenderTimeout
  BY DEF SenderRuns
<1>2. seen' = seen /\ naks' = naks
  BY DEF SenderRuns, ackerVars
<1>3. SenderTypeInv'
  BY <1>1, SenderLocalType, SenderReadsType, SenderTimeoutType
<1>4. /\ last_acked' <= seen
      /\ last_acked <= last_acked'
      /\ ackLink' \in Seq(Covered(seen))
  BY <1>1, SenderActsOnAnswers DEF SenderPeerInv, SenderTypeInv
<1>5. dataLink' \in Seq(WithinFile)
  BY <1>1, SenderStaysWithin
<1>6. InflightCovers'
  BY <1>1, <1>3, <1>4, SenderCounts DEF SenderPeerInv
<1>7. last_acked' \in Nat
  BY <1>3 DEF SenderTypeInv, SenderTypeOK
<1>8. last_acked <= FileSize /\ last_acked' <= FileSize
  BY <1>4, <1>7 DEF SenderPeerInv
<1>9. spc' \in {"done", "ok"} => last_acked' = FileSize
  BY <1>1, <1>8, DoneAfterLastAck DEF SenderPeerInv
<1>10. ackLink' \in Seq(Covered(seen)')
  BY <1>2, <1>4 DEF Covered
<1> QED
  BY <1>2, <1>3, <1>4, <1>5, <1>6, <1>9, <1>10
     DEF SenderPeerInv, SenderPeerTypeOK, SenderTypeInv, WithinFile, Covered

\* A step of the peer: what it acknowledges lies within what it has received
LEMMA AckerKeepsPeerInv ==
    ASSUME SenderPeerInv, AckerStep
    PROVE  SenderPeerInv' /\ UNCHANGED senderVars
<1> USE SenderPeerInvFacts
<1>1. /\ UNCHANGED <<senderVars, losses, dups>>
      /\ dataLink # <<>> /\ dataLink' = Tail(dataLink)
  BY DEF AckerStep, PeerAcks, PeerNaks, PeerIgnores, PeerDone, PeerTakes
<1>2. dataLink' \in Seq(WithinFile) /\ Head(dataLink) \in WithinFile
  BY <1>1, LinkFacts
<1>3. ASSUME NEW w \in Nat, NEW off \in Nat, off <= w
      PROVE  DataAck(off) \in Covered(w) /\ DataNak(off) \in Covered(w)
  BY <1>3 DEF Covered, ToSender, Feedback, DataAck, DataNak
<1>4. /\ seen' \in Nat /\ seen <= seen' /\ seen' <= FileSize
      /\ naks' \in 0..MaxNaks
      /\ ackLink' \in Seq(Covered(seen'))
  <2>1. CASE PeerAcks
    <3>1. Head(dataLink).src \in Nat /\ Head(dataLink).len \in Nat
          /\ Head(dataLink).src + Head(dataLink).len <= FileSize
      BY <1>2, <2>1, FrameFields DEF WithinFile, PeerAcks, PeerTakes
    <3>2. seen' \in Nat /\ seen <= seen' /\ seen' <= FileSize
      BY <2>1, <3>1 DEF PeerAcks, Larger
    <3>3. ackLink \in Seq(Covered(seen'))
      BY <3>2, CoveredGrows
    <3>4. PICK off \in 0..seen' : ackLink' = Append(ackLink, DataAck(off))
      BY <2>1 DEF PeerAcks
    <3>5. DataAck(off) \in Covered(seen')
      BY <1>3, <3>2, <3>4
    <3>6. ackLink' \in Seq(Covered(seen'))
      BY <3>3, <3>4, <3>5, LinkFacts
    <3> QED
      BY <2>1, <3>2, <3>6 DEF PeerAcks, SenderPeerInv, SenderPeerTypeOK
  <2>2. CASE PeerNaks
    <3>1. Head(dataLink).src \in Nat
      BY <1>2, <2>2, FrameFields DEF WithinFile, PeerNaks, PeerTakes
    <3>2. PICK off \in 0..Smaller(seen, Head(dataLink).src - 1) :
             ackLink' = ackLink \o <<DataNak(off), DataAck(off)>>
      BY <2>2, Zenon DEF PeerNaks
    <3>3. off \in Nat /\ off <= seen
      BY <3>1 DEF Smaller
    <3>4. DataNak(off) \in Covered(seen) /\ DataAck(off) \in Covered(seen)
      BY <1>3, <3>3
    <3>5. <<DataNak(off), DataAck(off)>> \in Seq(Covered(seen))
      BY <3>4
    <3>6. ackLink' \in Seq(Covered(seen))
      BY <3>2, <3>5, LinkFacts
    <3> QED
      BY <2>2, <3>6, NakAssumption DEF PeerNaks, SenderPeerInv, SenderPeerTypeOK
  <2>3. CASE PeerIgnores
    BY <2>3 DEF PeerIgnores, ackerVars, SenderPeerInv, SenderPeerTypeOK
  <2>4. CASE PeerDone
    <3>1. DoneAck \in Covered(seen)
      BY DEF Covered, ToSender, DoneAck
    <3>2. ackLink' \in Seq(Covered(seen))
      BY <2>4, <3>1, LinkFacts DEF PeerDone
    <3> QED
      BY <2>4, <3>2 DEF PeerDone, ackerVars, SenderPeerInv, SenderPeerTypeOK
  <2> QED
    BY <2>1, <2>2, <2>3, <2>4 DEF AckerStep
<1>5. dataLink' \in Seq(ToReceiver) /\ ackLink' \in Seq(ToSender)
  BY <1>2, <1>4 DEF WithinFile, Covered
<1>6. LinkTypeOK' /\ SenderTypeOK'
  BY <1>1, <1>5 DEF LinkTypeOK, SenderTypeOK, SenderTypeInv, senderVars, windowVars, aimdVars
<1>7. InflightCovers'
  BY <1>1 DEF InflightCovers, SenderPeerInv, senderVars, windowVars
<1>8. /\ target_ack' <= FileSize
      /\ last_acked' <= seen'
      /\ spc' \in {"done", "ok"} => last_acked' = FileSize
  BY <1>1, <1>4 DEF SenderPeerInv, senderVars, windowVars
<1> QED
  BY <1>1, <1>2, <1>4, <1>6, <1>7, <1>8
     DEF SenderPeerInv, SenderPeerTypeOK, WithinFile, Covered

\* A fault of the transport, or a stutter
LEMMA FaultKeepsPeerInv ==
    ASSUME SenderPeerInv, LinkNext \/ UNCHANGED linkVars, UNCHANGED <<senderVars, ackerVars>>
    PROVE  SenderPeerInv'
<1> USE SenderPeerInvFacts
<1>1. LinkTypeOK'
  <2>1. CASE LinkNext
    BY <2>1, LinkSteps DEF SenderTypeInv
  <2>2. CASE UNCHANGED linkVars
    BY <2>2 DEF SenderTypeInv, LinkTypeOK, linkVars
  <2> QED
    BY <2>1, <2>2
<1>2. dataLink' \in Seq(WithinFile) /\ ackLink' \in Seq(Covered(seen))
  BY LinkFacts, Zenon DEF LinkNext, LoseData, LoseAck, DupData, DupAck, linkVars
<1>3. SenderTypeOK' /\ InflightCovers'
  BY DEF SenderTypeOK, SenderTypeInv, SenderPeerInv, InflightCovers, senderVars,
         windowVars, aimdVars
<1>4. seen' = seen /\ naks' = naks
  BY DEF ackerVars
<1> QED
  BY <1>1, <1>2, <1>3, <1>4
     DEF SenderPeerInv, SenderPeerTypeOK, WithinFile, Covered, senderVars, windowVars

LEMMA SenderPeerStep ==
    ASSUME SenderPeerInv, [SenderPeerNext]_senderPeerVars
    PROVE  SenderPeerInv' /\ last_acked <= last_acked'
<1> USE SenderPeerInvFacts
<1>1. CASE SenderRuns
  BY <1>1, SenderKeepsPeerInv
<1>2. CASE AckerStep
  BY <1>2, AckerKeepsPeerInv DEF senderVars, windowVars
<1>3. CASE \/ LinkNext /\ UNCHANGED <<senderVars, ackerVars>>
           \/ SenderEnded
           \/ UNCHANGED senderPeerVars
  <2>1. (LinkNext \/ UNCHANGED linkVars) /\ UNCHANGED <<senderVars, ackerVars>>
    BY <1>3 DEF SenderEnded, senderPeerVars
  <2> QED
    BY <2>1, FaultKeepsPeerInv DEF senderVars, windowVars
<1> QED
  BY <1>1, <1>2, <1>3 DEF SenderPeerNext

\* The sender starts with nothing sent beyond the resume offset
LEMMA SenderPeerStart == SenderPeerInit => SenderPeerInv
<1> SUFFICES ASSUME SenderPeerInit PROVE SenderPeerInv
  OBVIOUS
<1>1. LinkTypeOK
  BY EnvAssumption DEF SenderPeerInit, LinkInit, LinkTypeOK
<1>2. SenderTypeOK
  <2>1. in_retransmit \in BOOLEAN
    BY Zenon DEF SenderPeerInit, SenderInit
  <2>2. InitialCwnd \in 1..NegotiatedWindow /\ 0 \in 0..DegradeThreshold
          /\ 0 \in 0..RecoverThreshold
    BY WindowAssumption
  <2> QED
    BY <2>1, <2>2, SizeAssumption, RetryAssumption
       DEF SenderPeerInit, SenderInit, SenderTypeOK, SenderStates, SenderActive
<1>3. InflightCovers
  <2>1. 0 * MaxPayload = 0
    BY PayloadAssumption
  <2> QED
    BY <2>1, SizeAssumption, WindowAssumption DEF SenderPeerInit, SenderInit, InflightCovers
<1> QED
  BY <1>1, <1>2, <1>3, SizeAssumption, NakAssumption
     DEF SenderPeerInit, SenderInit, LinkInit, SenderPeerInv, SenderPeerTypeOK

\* Against any peer that acknowledges only what it was sent, the sender counts no
\* byte as acknowledged that the peer was not given, and sends DONE only when the
\* peer was given the whole file: no stale ACK, NAK or retransmission misleads
\* wait_for_window_ack
THEOREM AckedAlwaysSent == SenderPeerSpec => []AckedWasSent
<1>1. SenderPeerInv => AckedWasSent
  BY SenderPeerInvFacts DEF SenderPeerInv, AckedWasSent
<1> QED
  BY <1>1, SenderPeerStart, SenderPeerStep, PTL DEF SenderPeerSpec

\* The packets counted as in flight cover the bytes sent beyond last_acked and
\* stay within the window, across partial acknowledgements, restarts and the
\* growing and shrinking of the window, for packets of two different sizes
THEOREM InflightAlwaysCovers == SenderPeerSpec => []InflightCovers
<1>1. SenderPeerInv => InflightCovers
  BY DEF SenderPeerInv
<1> QED
  BY <1>1, SenderPeerStart, SenderPeerStep, PTL DEF SenderPeerSpec

\* No step takes back an acknowledgement, and a step that moves next_to_send back
\* moves it to the last acknowledged offset
THEOREM AlwaysGoesBackN == SenderPeerSpec => GoBackN
<1>1. SenderPeerInv /\ [SenderPeerNext]_senderPeerVars =>
        [ /\ last_acked' >= last_acked
          /\ next_to_send' < next_to_send => next_to_send' = last_acked' ]_senderPeerVars
  <2> SUFFICES ASSUME SenderPeerInv, [SenderPeerNext]_senderPeerVars
               PROVE  /\ last_acked' >= last_acked
                      /\ next_to_send' < next_to_send => next_to_send' = last_acked'
    OBVIOUS
  <2> USE SenderPeerInvFacts
  <2>1. SenderPeerInv' /\ last_acked <= last_acked'
    BY SenderPeerStep
  <2>2. last_acked' \in Nat
    BY <2>1 DEF SenderPeerInv, SenderPeerTypeOK, SenderTypeOK
  <2>3. CASE next_to_send' = next_to_send
    BY <2>1, <2>2, <2>3
  <2>4. CASE SendData
    <3>1. ToRead(IncludeOffset) \in 1..(FileSize - next_to_send)
      BY <2>4, ToReadType, Zenon DEF SendData, IncludeOffset, SenderTypeInv
    <3> QED
      BY <2>1, <2>2, <2>4, <3>1 DEF SendData
  <2>5. CASE Rewind
    BY <2>1, <2>2, <2>5 DEF Rewind
  <2>6. CASE SenderRuns
    BY <2>3, <2>4, <2>5, <2>6, Zenon
       DEF SenderRuns, SenderLocal, StartWindow, SendDone, StartWait, SenderTimeout,
           AckTimeout, AckTimeoutFatal, DoneTimeout, DoneTimeoutFatal, SenderReads,
           RecvAckPartial, RecvAckWindow, RecvAckStale, AckAdvances, RecvNak, RecvCancel,
           RecvDoneAck, RecvWhileDone, windowVars, senderVars
  <2>7. CASE AckerStep
    BY <2>3, <2>7, AckerKeepsPeerInv DEF senderVars, windowVars
  <2>8. CASE \/ LinkNext /\ UNCHANGED <<senderVars, ackerVars>>
             \/ SenderEnded
             \/ UNCHANGED senderPeerVars
    BY <2>3, <2>8 DEF SenderEnded, senderPeerVars, senderVars, windowVars
  <2> QED
    BY <2>6, <2>7, <2>8 DEF SenderPeerNext
<1> QED
  BY <1>1, SenderPeerStart, SenderPeerStep, PTL DEF SenderPeerSpec, GoBackN

-----------------------------------------------------------------------------
(* The receiver against any sender.                                        *)

\* Frames that name a position, and answers s that name ever greater ones from lo
\* to hi
Positioned(m) == m.type \in {"DATA_ACK", "DATA_NAK"}

Cumulative(s, lo, hi) ==
    \A i, j \in DOMAIN s :
        i <= j /\ Positioned(s[i]) /\ Positioned(s[j])
        => lo <= s[i].off /\ s[i].off <= s[j].off /\ s[j].off <= hi

\* Answers that name no position but w
AnswersAt(w) == {m \in ToSender : Positioned(m) => m.off = w}

\* The frames a sender may have on their way to a receiver that has written w
FeederFrames(w) ==
    {m \in DataPackets : m.off = m.src /\ m.src + m.len <= FileSize}
        \cup {Cancel} \cup {m \in {Done} : w = FileSize}

\* The peer takes the first answer: the others are for at least as much
LEMMA CumulativeTail ==
    ASSUME NEW s \in Seq(ToSender), s # <<>>, NEW lo \in Nat, NEW hi \in Nat,
           Cumulative(s, lo, hi)
    PROVE  /\ Cumulative(Tail(s), lo, hi)
           /\ Positioned(Head(s)) =>
                /\ lo <= Head(s).off /\ Head(s).off <= hi
                /\ Cumulative(Tail(s), Head(s).off, hi)
<1>1. /\ Tail(s) \in Seq(ToSender)
      /\ Len(Tail(s)) = Len(s) - 1
      /\ \A i \in 1..Len(Tail(s)) : Tail(s)[i] = s[i + 1]
  BY HeadTailProperties
<1>2. Len(s) \in Nat \ {0} /\ 1 \in DOMAIN s /\ Head(s) = s[1]
  OBVIOUS
<1>3. ASSUME NEW i \in DOMAIN Tail(s)
      PROVE  /\ i \in Nat /\ i + 1 \in DOMAIN s /\ 1 <= i + 1
             /\ Tail(s)[i] = s[i + 1]
  BY <1>1, <1>2
<1>4. Cumulative(Tail(s), lo, hi)
  <2> SUFFICES ASSUME NEW i \in DOMAIN Tail(s), NEW j \in DOMAIN Tail(s), i <= j,
                      Positioned(Tail(s)[i]), Positioned(Tail(s)[j])
               PROVE  /\ lo <= Tail(s)[i].off /\ Tail(s)[i].off <= Tail(s)[j].off
                      /\ Tail(s)[j].off <= hi
    BY DEF Cumulative
  <2>1. i + 1 \in DOMAIN s /\ j + 1 \in DOMAIN s /\ i + 1 <= j + 1
    BY <1>3
  <2> QED
    BY <1>3, <2>1 DEF Cumulative
<1>5. ASSUME Positioned(Head(s))
      PROVE  lo <= Head(s).off /\ Head(s).off <= hi
  BY <1>2, <1>5 DEF Cumulative
<1>6. ASSUME Positioned(Head(s)) PROVE Cumulative(Tail(s), Head(s).off, hi)
  <2> SUFFICES ASSUME NEW i \in DOMAIN Tail(s), NEW j \in DOMAIN Tail(s), i <= j,
                      Positioned(Tail(s)[i]), Positioned(Tail(s)[j])
               PROVE  /\ Head(s).off <= Tail(s)[i].off /\ Tail(s)[i].off <= Tail(s)[j].off
                      /\ Tail(s)[j].off <= hi
    BY DEF Cumulative
  <2>1. i + 1 \in DOMAIN s /\ 1 <= i + 1 /\ Tail(s)[i] = s[i + 1]
    BY <1>3
  <2>2. Head(s).off <= Tail(s)[i].off
    BY <1>2, <1>6, <2>1 DEF Cumulative
  <2> QED
    BY <1>4, <2>2 DEF Cumulative
<1> QED
  BY <1>4, <1>5, <1>6

\* The transport repeats the first answer
LEMMA CumulativeRepeat ==
    ASSUME NEW s \in Seq(ToSender), s # <<>>, NEW lo \in Nat, NEW hi \in Nat,
           Cumulative(s, lo, hi)
    PROVE  Cumulative(<<Head(s)>> \o s, lo, hi)
<1> DEFINE h == <<Head(s)>>
           t == h \o s
           Old(i) == IF i <= 1 THEN 1 ELSE i - 1
<1>1. Head(s) \in ToSender /\ Len(s) \in Nat \ {0} /\ 1 \in DOMAIN s /\ Head(s) = s[1]
  OBVIOUS
<1>2. h \in Seq(ToSender) /\ Len(h) = 1 /\ h[1] = s[1]
  BY <1>1
<1>3. /\ t \in Seq(ToSender)
      /\ Len(t) = Len(h) + Len(s)
      /\ \A i \in 1..(Len(h) + Len(s)) : t[i] = IF i <= Len(h) THEN h[i] ELSE s[i - Len(h)]
  <2> HIDE DEF h
  <2> QED
    BY <1>2, ConcatProperties, Zenon
<1> HIDE DEF h, t
<1>4. ASSUME NEW i \in DOMAIN t
      PROVE  i \in Nat /\ Old(i) \in DOMAIN s /\ t[i] = s[Old(i)]
  <2>1. i \in 1..(1 + Len(s))
    BY <1>2, <1>3
  <2>2. CASE i <= 1
    BY <1>1, <1>2, <1>3, <2>1, <2>2
  <2>3. CASE ~(i <= 1)
    <3>1. t[i] = s[i - 1]
      BY <1>2, <1>3, <2>1, <2>3
    <3> QED
      BY <1>1, <2>1, <2>3, <3>1
  <2> QED
    BY <2>2, <2>3
<1>5. ASSUME NEW i \in DOMAIN t, NEW j \in DOMAIN t, i <= j PROVE Old(i) <= Old(j)
  BY <1>4, <1>5
<1> HIDE DEF Old
<1>6. ASSUME NEW i \in DOMAIN t, NEW j \in DOMAIN t, i <= j,
             Positioned(t[i]), Positioned(t[j])
      PROVE  lo <= t[i].off /\ t[i].off <= t[j].off /\ t[j].off <= hi
  <2>1. /\ Old(i) \in DOMAIN s /\ Old(j) \in DOMAIN s /\ Old(i) <= Old(j)
        /\ t[i] = s[Old(i)] /\ t[j] = s[Old(j)]
    BY <1>4, <1>5, <1>6
  <2> QED
    BY <1>6, <2>1 DEF Cumulative
<1> QED
  BY <1>6 DEF Cumulative, h, t

\* The receiver answers with the position it has reached
LEMMA CumulativeReply ==
    ASSUME NEW s \in Seq(ToSender), NEW lo \in Nat, NEW hi \in Nat, NEW w \in Nat,
           lo <= hi, hi <= w, Cumulative(s, lo, hi), NEW t \in Seq(AnswersAt(w))
    PROVE  Cumulative(s \o t, lo, w)
<1> DEFINE u == s \o t
<1>1. t \in Seq(ToSender)
  BY DEF AnswersAt
<1>2. /\ u \in Seq(ToSender)
      /\ Len(u) = Len(s) + Len(t)
      /\ \A i \in 1..(Len(s) + Len(t)) : u[i] = IF i <= Len(s) THEN s[i] ELSE t[i - Len(s)]
  BY <1>1, ConcatProperties
<1>3. Len(s) \in Nat /\ Len(t) \in Nat
  OBVIOUS
<1> HIDE DEF u
<1>4. ASSUME NEW i \in DOMAIN u
      PROVE  /\ i \in Nat
             /\ i <= Len(s) => i \in DOMAIN s /\ u[i] = s[i]
             /\ ~(i <= Len(s)) /\ Positioned(u[i]) => u[i].off = w
  <2>1. i \in 1..(Len(s) + Len(t))
    BY <1>2
  <2>2. ASSUME ~(i <= Len(s)) PROVE u[i] \in AnswersAt(w)
    <3>1. u[i] = t[i - Len(s)]
      BY <1>2, <2>1, <2>2
    <3>2. i - Len(s) \in 1..Len(t)
      BY <1>3, <2>1, <2>2
    <3> QED
      BY <3>1, <3>2
  <2> QED
    BY <1>2, <1>3, <2>1, <2>2 DEF AnswersAt
<1>5. ASSUME NEW i \in DOMAIN u, NEW j \in DOMAIN u, i <= j,
             Positioned(u[i]), Positioned(u[j])
      PROVE  lo <= u[i].off /\ u[i].off <= u[j].off /\ u[j].off <= w
  <2>1. u[i].off \in Nat /\ u[j].off \in Nat
    BY <1>2, <1>5, FrameFields DEF Positioned
  <2>2. CASE i <= Len(s) /\ j <= Len(s)
    <3>1. lo <= u[i].off /\ u[i].off <= u[j].off /\ u[j].off <= hi
      BY <1>4, <1>5, <2>2 DEF Cumulative
    <3> QED
      BY <2>1, <3>1
  <2>3. CASE i <= Len(s) /\ ~(j <= Len(s))
    <3>1. i \in DOMAIN s /\ u[i] = s[i] /\ u[j].off = w /\ i <= i
      BY <1>4, <1>5, <2>3
    <3>2. lo <= u[i].off /\ u[i].off <= hi
      BY <1>5, <3>1 DEF Cumulative
    <3> QED
      BY <2>1, <3>1, <3>2
  <2>4. CASE ~(i <= Len(s))
    <3>1. ~(j <= Len(s))
      BY <1>3, <1>4, <1>5, <2>4
    <3>2. u[i].off = w /\ u[j].off = w
      BY <1>4, <1>5, <2>4, <3>1
    <3> QED
      BY <3>2
  <2> QED
    BY <2>2, <2>3, <2>4
<1> QED
  BY <1>5 DEF Cumulative, u

\* The invariant of ReceiverWithPeer in the terms of the lemmas above
LEMMA ReceiverPeerInvFacts ==
    ASSUME ReceiverPeerInv
    PROVE  /\ LinkTypeOK /\ ReceiverTypeOK
           /\ acked \in Nat /\ written \in Nat /\ FileSize \in Nat
           /\ acked <= written /\ written <= FileSize
           /\ FileIntegrity
           /\ delivered => written = FileSize
           /\ dataLink \in Seq(FeederFrames(written))
           /\ ackLink \in Seq(ToSender)
           /\ Cumulative(ackLink, acked, written)
<1>1. /\ LinkTypeOK /\ ReceiverTypeOK /\ acked \in Nat
      /\ FileIntegrity /\ (delivered => written = FileSize)
      /\ dataLink \in Seq(FeederFrames(written))
  BY DEF ReceiverPeerInv, ReceiverPeerTypeOK, DeliveredMeansWhole, FeederFrames
<1>2. Cumulative(ackLink, acked, written) /\ acked <= written
  BY DEF ReceiverPeerInv, AcksCumulative, Cumulative, Positioned
<1> QED
  BY <1>1, <1>2, SizeAssumption DEF LinkTypeOK, ReceiverTypeOK, FileIntegrity

\* ... and back, for the next state
LEMMA ReceiverPeerInvNext ==
    ASSUME LinkTypeOK', ReceiverTypeOK', acked' \in Nat, peer' \in {"sending", "done", "stopped"},
           acked' <= written', FileIntegrity', delivered' => written' = FileSize,
           dataLink' \in Seq(FeederFrames(written')), Cumulative(ackLink', acked', written')
    PROVE  ReceiverPeerInv'
<1>1. AcksCumulative'
  BY DEF AcksCumulative, Cumulative, Positioned
<1> QED
  BY <1>1 DEF ReceiverPeerInv, ReceiverPeerTypeOK, DeliveredMeansWhole, FeederFrames

\* What a frame of the peer tells the receiver
LEMMA FeederSays ==
    ASSUME NEW w, NEW m \in FeederFrames(w)
    PROVE  /\ m.type = "DATA" => /\ m.src \in Nat /\ m.len \in Nat \ {0}
                                 /\ m.off = m.src /\ m.off # IMPLIED
                                 /\ m.src + m.len <= FileSize
           /\ m.type = "DONE" => w = FileSize
  BY DEF FeederFrames, DataPackets, Done, Cancel, IMPLIED

\* The answers of the receiver name what it has written
LEMMA AnswersName ==
    ASSUME NEW w \in Nat
    PROVE  /\ <<>> \in Seq(AnswersAt(w))
           /\ Cancels \in Seq(AnswersAt(w))
           /\ <<DoneAck>> \in Seq(AnswersAt(w))
           /\ <<DoneAck>> \o Cancels \in Seq(AnswersAt(w))
           /\ <<DataAck(w)>> \in Seq(AnswersAt(w))
           /\ <<DataNak(w), DataAck(w)>> \in Seq(AnswersAt(w))
           /\ <<DataAck(w)>> \o Cancels \in Seq(AnswersAt(w))
           /\ <<DataNak(w), DataAck(w)>> \o Cancels \in Seq(AnswersAt(w))
<1>1. DoneAck \in AnswersAt(w) /\ Cancel \in AnswersAt(w)
  BY DEF AnswersAt, Positioned, ToSender, DoneAck, Cancel
<1>2. DataAck(w) \in AnswersAt(w) /\ DataNak(w) \in AnswersAt(w)
  BY DEF AnswersAt, Positioned, ToSender, Feedback, DataAck, DataNak
<1>3. /\ <<>> \in Seq(AnswersAt(w))
      /\ Cancels \in Seq(AnswersAt(w))
      /\ <<DoneAck>> \in Seq(AnswersAt(w))
      /\ <<DataAck(w)>> \in Seq(AnswersAt(w))
      /\ <<DataNak(w), DataAck(w)>> \in Seq(AnswersAt(w))
  BY <1>1, <1>2 DEF Cancels
<1>4. \A s \in Seq(AnswersAt(w)) : s \o Cancels \in Seq(AnswersAt(w))
  BY <1>3, LinkFacts
<1> QED
  BY <1>3, <1>4

\* A packet that is in order is the next part of the file
LEMMA ReceiverWrites ==
    ASSUME ReceiverPeerInv, RecvDataInOrder \/ RecvDataInOrderCancel
    PROVE  /\ written <= written'
           /\ FileIntegrity'
           /\ delivered' => written' = FileSize
           /\ dataLink' \in Seq(FeederFrames(written'))
           /\ written' \in Nat =>
                \E t \in Seq(AnswersAt(written')) : ackLink' = ackLink \o t
<1> USE ReceiverPeerInvFacts
<1>1. TakeData /\ EffOff = written /\ Write
  BY DEF RecvDataInOrder, RecvDataInOrderCancel
<1>2. Packet \in FeederFrames(written) /\ dataLink' \in Seq(FeederFrames(written))
  BY <1>1, LinkFacts DEF TakeData, Take, Packet
<1>3. /\ Packet.src \in Nat /\ Packet.len \in Nat \ {0}
      /\ Packet.src = written /\ Packet.src + Packet.len <= FileSize
  BY <1>1, <1>2, FeederSays DEF TakeData, EffOff
<1>4. /\ written' = written + Packet.len
      /\ file' = [p \in 0..(written + Packet.len - 1) |->
                     IF p < written THEN file[p] ELSE Packet.src + (p - written)]
  BY <1>1 DEF Write
<1>5. written <= written' /\ written' <= FileSize /\ written # FileSize
  BY <1>3, <1>4
<1>6. FileIntegrity'
  <2>1. \A p \in 0..(written - 1) : file[p] = p
    BY DEF FileIntegrity
  <2> SUFFICES ASSUME NEW p \in 0..(written' - 1) PROVE file'[p] = p
    BY <1>5 DEF FileIntegrity
  <2>2. p \in 0..(written + Packet.len - 1)
    BY <1>3, <1>4
  <2>3. CASE p < written
    BY <1>4, <2>1, <2>2, <2>3
  <2>4. CASE ~(p < written)
    <3>1. file'[p] = Packet.src + (p - written)
      BY <1>4, <2>2, <2>4
    <3> QED
      BY <1>3, <2>2, <3>1
  <2> QED
    BY <2>3, <2>4
<1>7. delivered' => written' = FileSize
  BY <1>1, <1>5 DEF TakeData
<1>8. dataLink' \in Seq(FeederFrames(written'))
  <2>1. \A m \in FeederFrames(written) : m \in FeederFrames(written')
    BY <1>5 DEF FeederFrames
  <2> QED
    BY <1>2, <2>1
<1>9. written' \in Nat => \E t \in Seq(AnswersAt(written')) : ackLink' = ackLink \o t
  BY AnswersName, Zenon DEF RecvDataInOrder, RecvDataInOrderCancel, Reply
<1> QED
  BY <1>5, <1>6, <1>7, <1>8, <1>9

\* Every other frame leaves the file alone
LEMMA ReceiverAnswers ==
    ASSUME ReceiverPeerInv, ~RecvDataInOrder, ~RecvDataInOrderCancel,
           ReceiverReads \/ ReceiverCancels \/ RecvDamaged \/ ReceiverTimeout
    PROVE  /\ UNCHANGED <<written, file>>
           /\ delivered' => written = FileSize
           /\ dataLink' \in Seq(FeederFrames(written))
           /\ ackLink' = ackLink \/ \E t \in Seq(AnswersAt(written)) : ackLink' = ackLink \o t
<1> USE ReceiverPeerInvFacts
<1>1. UNCHANGED <<written, file>>
  BY DEF ReceiverReads, ReceiverCancels, RecvDamaged, ReceiverTimeout, StartReceive,
         RecvDataDup, RecvDataAhead, RecvDone, RecvCancelFromSender, RecvWhileMeta,
         ReceiverCancel, RecvDataOutOfOrderCancel, RecvDoneCancel, DoneArrives
<1>2. dataLink' = dataLink \/ (dataLink # <<>> /\ dataLink' = Tail(dataLink))
  BY Zenon DEF ReceiverReads, ReceiverCancels, RecvDamaged, ReceiverTimeout, StartReceive,
         RecvDataDup, RecvDataAhead, RecvDone, RecvCancelFromSender, RecvWhileMeta,
         ReceiverCancel, RecvDataOutOfOrderCancel, RecvDoneCancel, TakeData, DoneArrives,
         Take, linkVars
<1>3. dataLink' \in Seq(FeederFrames(written))
  BY <1>2, LinkFacts, Zenon
<1>4. delivered' => written = FileSize
  <2>1. CASE DoneArrives
    <3>1. Packet \in FeederFrames(written) /\ Packet.type = "DONE"
      BY <2>1, LinkFacts DEF DoneArrives, Take, Packet
    <3> QED
      BY <3>1, FeederSays
  <2>2. CASE ~DoneArrives
    <3>1. delivered' = delivered
      BY <2>2 DEF ReceiverReads, ReceiverCancels, RecvDamaged, ReceiverTimeout,
           StartReceive, RecvDataDup, RecvDataAhead, RecvDone, RecvCancelFromSender,
           RecvWhileMeta, ReceiverCancel, RecvDataOutOfOrderCancel, RecvDoneCancel, TakeData
    <3> QED
      BY <3>1
  <2> QED
    BY <2>1, <2>2
<1>5. OutOfOrderReply \in Seq(AnswersAt(written))
      /\ OutOfOrderReply \o Cancels \in Seq(AnswersAt(written))
  BY AnswersName DEF OutOfOrderReply
<1>6. ackLink' = ackLink \/ \E t \in Seq(AnswersAt(written)) : ackLink' = ackLink \o t
  <2>1. CASE RecvDataDup \/ RecvDataAhead \/ RecvDataOutOfOrderCancel
    BY <1>5, <2>1, Zenon DEF RecvDataDup, RecvDataAhead, RecvDataOutOfOrderCancel, Reply
  <2>2. CASE RecvDone \/ RecvDoneCancel \/ ReceiverCancel
    BY <2>2, AnswersName, Zenon DEF RecvDone, RecvDoneCancel, ReceiverCancel, Reply
  <2>3. CASE \/ StartReceive \/ RecvCancelFromSender \/ RecvWhileMeta \/ RecvDamaged
             \/ ReceiverTimeout
    BY <2>3 DEF StartReceive, RecvCancelFromSender, RecvWhileMeta, RecvDamaged,
                ReceiverTimeout, linkVars
  <2> QED
    BY <2>1, <2>2, <2>3, Zenon DEF ReceiverReads, ReceiverCancels
<1> QED
  BY <1>1, <1>3, <1>4, <1>6, Zenon

\* A step of the receiver
LEMMA ReceiverKeepsPeerInv ==
    ASSUME ReceiverPeerInv, UNCHANGED feederVars,
           ReceiverReads \/ ReceiverCancels \/ RecvDamaged \/ ReceiverTimeout
    PROVE  ReceiverPeerInv'
<1> USE ReceiverPeerInvFacts
<1>1. LinkTypeOK' /\ ReceiverTypeOK' /\ written' \in Nat
  <2>1. LinkTypeOK' /\ ReceiverTypeOK'
    BY ReceiverType
  <2> QED
    BY <2>1, Zenon DEF ReceiverTypeOK
<1>2. /\ acked' = acked /\ acked' \in Nat /\ peer' \in {"sending", "done", "stopped"}
  BY DEF feederVars, ReceiverPeerInv, ReceiverPeerTypeOK
<1>3. /\ written <= written' /\ FileIntegrity' /\ (delivered' => written' = FileSize)
      /\ dataLink' \in Seq(FeederFrames(written'))
      /\ \/ ackLink' = ackLink /\ written' = written
         \/ \E t \in Seq(AnswersAt(written')) : ackLink' = ackLink \o t
  <2>1. CASE RecvDataInOrder \/ RecvDataInOrderCancel
    BY <1>1, <2>1, ReceiverWrites, Zenon
  <2>2. CASE ~RecvDataInOrder /\ ~RecvDataInOrderCancel
    <3>1. /\ UNCHANGED <<written, file>>
          /\ delivered' => written = FileSize
          /\ dataLink' \in Seq(FeederFrames(written))
          /\ ackLink' = ackLink \/ \E t \in Seq(AnswersAt(written)) : ackLink' = ackLink \o t
      BY <2>2, ReceiverAnswers, Zenon
    <3>2. FileIntegrity'
      BY <3>1 DEF FileIntegrity
    <3>3. written <= written'
      BY <3>1
    <3>4. dataLink' \in Seq(FeederFrames(written'))
      BY <3>1
    <3>5. \/ ackLink' = ackLink /\ written' = written
          \/ \E t \in Seq(AnswersAt(written')) : ackLink' = ackLink \o t
      BY <3>1, Zenon
    <3> QED
      BY <3>1, <3>2, <3>3, <3>4, <3>5
  <2> QED
    BY <2>1, <2>2, Zenon
<1>4. Cumulative(ackLink', acked, written')
  <2>1. CASE ackLink' = ackLink /\ written' = written
    BY <2>1
  <2>2. CASE \E t \in Seq(AnswersAt(written')) : ackLink' = ackLink \o t
    BY <1>1, <1>3, <2>2, CumulativeReply
  <2> QED
    BY <1>3, <2>1, <2>2, Zenon
<1>5. acked' <= written' /\ Cumulative(ackLink', acked', written')
  BY <1>1, <1>2, <1>3, <1>4
<1> QED
  BY <1>1, <1>2, <1>3, <1>5, ReceiverPeerInvNext

\* A step of the peer: it numbers its packets truly, and an acknowledgement of the
\* whole file tells it that the file is written
LEMMA FeederKeepsPeerInv ==
    ASSUME ReceiverPeerInv, FeederStep
    PROVE  ReceiverPeerInv'
<1> USE ReceiverPeerInvFacts
<1>1. /\ UNCHANGED receiverVars /\ losses' = losses /\ dups' = dups
      /\ written' = written /\ delivered' = delivered
  BY DEF FeederStep, PeerSendsData, PeerSendsDone, PeerCancels, PeerReads, PeerPuts,
         receiverVars
<1>2. ReceiverTypeOK' /\ FileIntegrity'
  BY <1>1 DEF ReceiverTypeOK, FileIntegrity, receiverVars
<1>3. peer' \in {"sending", "done", "stopped"}
  BY DEF FeederStep, PeerSendsData, PeerSendsDone, PeerCancels, PeerReads, PeerPuts,
         ReceiverPeerInv, ReceiverPeerTypeOK
<1>4. \A m \in FeederFrames(written) : m \in ToReceiver
  BY DEF FeederFrames, ToReceiver
<1>5. ASSUME NEW m \in FeederFrames(written), PeerPuts(m)
      PROVE  ReceiverPeerInv'
  <2>1. /\ dataLink' = Append(dataLink, m) /\ acked' = acked /\ ackLink' = ackLink
    BY <1>5 DEF PeerPuts
  <2>2. dataLink' \in Seq(FeederFrames(written)) /\ dataLink' \in Seq(ToReceiver)
    BY <1>4, <1>5, <2>1, LinkFacts DEF LinkTypeOK
  <2>3. LinkTypeOK'
    BY <1>1, <2>1, <2>2 DEF LinkTypeOK
  <2> QED
    BY <1>1, <1>2, <1>3, <2>1, <2>2, <2>3, ReceiverPeerInvNext
<1>6. CASE PeerSendsData
  <2>1. PICK off \in 0..(FileSize - 1), len \in 1..(MaxPayload - OffsetLen) :
           off + len <= FileSize /\ PeerPuts(Data(off, off, len))
    BY <1>6 DEF PeerSendsData
  <2>2. off \in Nat /\ len \in Nat \ {0}
    BY PayloadAssumption
  <2>3. Data(off, off, len) \in FeederFrames(written)
    BY <2>1, <2>2 DEF FeederFrames, DataPackets, Data
  <2> QED
    BY <1>5, <2>1, <2>3
<1>7. CASE PeerSendsDone
  <2>1. written = FileSize
    BY <1>7 DEF PeerSendsDone
  <2>2. Done \in FeederFrames(written)
    BY <2>1 DEF FeederFrames
  <2> QED
    BY <1>5, <1>7, <2>2 DEF PeerSendsDone
<1>8. CASE PeerCancels
  BY <1>5, <1>8 DEF PeerCancels, FeederFrames
<1>9. CASE PeerReads
  <2>1. /\ ackLink # <<>> /\ ackLink' = Tail(ackLink) /\ dataLink' = dataLink
    BY <1>9 DEF PeerReads
  <2>2. LinkTypeOK'
    BY <1>1, <2>1, LinkSteps DEF LinkTypeOK
  <2>3. Head(ackLink) \in ToSender /\ Cumulative(ackLink', acked, written)
    BY <2>1, LinkSteps, CumulativeTail
  <2>4. CASE Head(ackLink).type = "DATA_ACK" /\ Head(ackLink).off > acked
    <3>1. acked' = Head(ackLink).off /\ acked' \in Nat
      BY <1>9, <2>3, <2>4, FrameFields DEF PeerReads
    <3>2. acked' <= written /\ Cumulative(ackLink', acked', written)
      BY <2>1, <2>4, <3>1, CumulativeTail DEF Positioned
    <3> QED
      BY <1>1, <1>2, <1>3, <2>1, <2>2, <3>1, <3>2, ReceiverPeerInvNext
  <2>5. CASE ~(Head(ackLink).type = "DATA_ACK" /\ Head(ackLink).off > acked)
    <3>1. acked' = acked
      BY <1>9, <2>5 DEF PeerReads
    <3> QED
      BY <1>1, <1>2, <1>3, <2>1, <2>2, <2>3, <3>1, ReceiverPeerInvNext
  <2> QED
    BY <2>4, <2>5
<1> QED
  BY <1>6, <1>7, <1>8, <1>9 DEF FeederStep

\* A fault of the transport, or a stutter
LEMMA FaultKeepsFeederInv ==
    ASSUME ReceiverPeerInv, LinkNext \/ UNCHANGED linkVars,
           UNCHANGED <<receiverVars, feederVars>>
    PROVE  ReceiverPeerInv'
<1> USE ReceiverPeerInvFacts
<1>1. /\ written' = written /\ delivered' = delivered /\ acked' = acked
      /\ peer' \in {"sending", "done", "stopped"}
      /\ ReceiverTypeOK' /\ FileIntegrity'
  BY DEF receiverVars, feederVars, ReceiverTypeOK, FileIntegrity, ReceiverPeerInv,
         ReceiverPeerTypeOK
<1>2. LinkTypeOK'
  <2>1. CASE LinkNext
    BY <2>1, LinkSteps
  <2>2. CASE UNCHANGED linkVars
    BY <2>2 DEF LinkTypeOK, linkVars
  <2> QED
    BY <2>1, <2>2
<1>3. dataLink' \in Seq(FeederFrames(written))
  BY LinkFacts, Zenon DEF LinkNext, LoseData, LoseAck, DupData, DupAck, linkVars
<1>4. Cumulative(ackLink', acked, written)
  <2>1. \/ ackLink' = ackLink
        \/ ackLink # <<>> /\ ackLink' = Tail(ackLink)
        \/ ackLink # <<>> /\ ackLink' = <<Head(ackLink)>> \o ackLink
    BY DEF LinkNext, LoseData, LoseAck, DupData, DupAck, linkVars
  <2> QED
    BY <2>1, CumulativeTail, CumulativeRepeat, Zenon
<1> QED
  BY <1>1, <1>2, <1>3, <1>4, ReceiverPeerInvNext

LEMMA ReceiverPeerStep ==
    ReceiverPeerInv /\ [ReceiverPeerNext]_receiverPeerVars => ReceiverPeerInv'
<1> SUFFICES ASSUME ReceiverPeerInv, [ReceiverPeerNext]_receiverPeerVars
             PROVE  ReceiverPeerInv'
  OBVIOUS
<1>1. CASE ReceiverRuns
  BY <1>1, ReceiverKeepsPeerInv DEF ReceiverRuns
<1>2. CASE FeederStep
  BY <1>2, FeederKeepsPeerInv
<1>3. CASE RecvDamaged /\ UNCHANGED feederVars
  BY <1>3, ReceiverKeepsPeerInv
<1>4. CASE \/ LinkNext /\ UNCHANGED <<receiverVars, feederVars>>
           \/ ReceiverEnded
           \/ UNCHANGED receiverPeerVars
  <2>1. (LinkNext \/ UNCHANGED linkVars) /\ UNCHANGED <<receiverVars, feederVars>>
    BY <1>4 DEF ReceiverEnded, receiverPeerVars
  <2> QED
    BY <2>1, FaultKeepsFeederInv
<1> QED
  BY <1>1, <1>2, <1>3, <1>4 DEF ReceiverPeerNext

\* The receiver starts with the part of the file it resumes from
LEMMA ReceiverPeerStart == ReceiverPeerInit => ReceiverPeerInv
<1> SUFFICES ASSUME ReceiverPeerInit PROVE ReceiverPeerInv
  OBVIOUS
<1>1. LinkTypeOK
  BY EnvAssumption DEF ReceiverPeerInit, LinkInit, LinkTypeOK
<1>2. ReceiverTypeOK
  <2>1. delivered \in BOOLEAN
    BY Zenon DEF ReceiverPeerInit, ReceiverInit
  <2>2. file \in [0..(written - 1) -> Nat] /\ written \in Nat
    BY SizeAssumption DEF ReceiverPeerInit, ReceiverInit
  <2> QED
    BY <2>1, <2>2, ReceiverRetryAssumption
       DEF ReceiverPeerInit, ReceiverInit, ReceiverTypeOK, ReceiverStates, ReceiverActive
<1>3. FileIntegrity /\ DeliveredMeansWhole
  BY SizeAssumption DEF ReceiverPeerInit, ReceiverInit, FileIntegrity, DeliveredMeansWhole
<1>4. AcksCumulative
  BY SizeAssumption DEF ReceiverPeerInit, ReceiverInit, LinkInit, AcksCumulative
<1> QED
  BY <1>1, <1>2, <1>3, <1>4, SizeAssumption
     DEF ReceiverPeerInit, LinkInit, ReceiverPeerInv, ReceiverPeerTypeOK

\* Against any sender that numbers its packets the receiver's copy is right at
\* every step: whatever order, size and repetition the packets have, and whatever
\* is lost, the data loop appends each part once and where it belongs
THEOREM CopyAlwaysRight == ReceiverPeerSpec => []FileIntegrity
<1>1. ReceiverPeerInv => FileIntegrity
  BY DEF ReceiverPeerInv
<1> QED
  BY <1>1, ReceiverPeerStart, ReceiverPeerStep, PTL DEF ReceiverPeerSpec

\* Its ACKs and NAKs are cumulative at every step: none on its way is for more than
\* is written, none smaller than one before it
THEOREM AcksAlwaysCumulative == ReceiverPeerSpec => []AcksCumulative
<1>1. ReceiverPeerInv => AcksCumulative
  BY DEF ReceiverPeerInv
<1> QED
  BY <1>1, ReceiverPeerStart, ReceiverPeerStep, PTL DEF ReceiverPeerSpec

\* It reports VAL_OK only for a whole file, provided the sender sends DONE only when
\* the whole file is acknowledged
THEOREM DeliveredAlwaysWhole == ReceiverPeerSpec => []DeliveredMeansWhole
<1>1. ReceiverPeerInv => DeliveredMeansWhole
  BY DEF ReceiverPeerInv
<1> QED
  BY <1>1, ReceiverPeerStart, ReceiverPeerStep, PTL DEF ReceiverPeerSpec
=============================================================================
