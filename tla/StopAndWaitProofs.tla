------------------------- MODULE StopAndWaitProofs -------------------------
(***************************************************************************)
(* With a negotiated window of one packet, the default of the tests and of *)
(* a session that does not ask for more, the transfer is correct over a    *)
(* transport that loses, damages and repeats frames, and with timers that  *)
(* expire while the answer is on its way.                                  *)
(***************************************************************************)
EXTENDS ValTransferProofs

StopAndWaitInv == TypeInv /\ StopAndWait /\ FileIntegrity

-----------------------------------------------------------------------------
(* Chunks and frames.                                                      *)

\* A packet with its offset stays within the file, is empty only at its end, and
\* is what send_data_packet reads for the first packet of a window
LEMMA ChunkFacts ==
    /\ \A off \in 0..FileSize : Chunk(off) \in 0..(FileSize - off)
    /\ \A off \in 0..FileSize : off < FileSize => Chunk(off) >= 1
    /\ Chunk(FileSize) = 0
    /\ ToRead(TRUE) = Chunk(next_to_send)
  BY SizeAssumption, PayloadAssumption DEF Chunk, Smaller, ToRead

\* A step that takes back no acknowledgement leaves every frame to the receiver
\* a legal one
LEMMA FramesGrow ==
    ASSUME TypeInv, last_acked' \in Nat, last_acked <= last_acked', DoneSent => DoneSent'
    PROVE  StopAndWaitFrames \subseteq StopAndWaitFrames'
<1>1. last_acked \in Nat
  BY DEF TypeInv, TypeOK, SenderTypeOK
<1>2. \A m \in DataPackets : m.src <= last_acked => m.src <= last_acked'
  BY <1>1 DEF DataPackets
<1> QED
  BY <1>2 DEF StopAndWaitFrames, Chunk

\* The answers on their way stay legal when the receiver goes from last_acked to
\* the current packet and when the sender catches up
LEMMA AnswersGrow ==
    ASSUME TypeInv, last_acked' \in Nat, last_acked <= last_acked',
           written' = written \/ written <= last_acked,
           delivered => delivered'
    PROVE  StopAndWaitAnswers \subseteq StopAndWaitAnswers'
<1>1. last_acked \in Nat /\ written \in Nat
  BY DEF TypeInv, TypeOK, SenderTypeOK, ReceiverTypeOK
<1>2. \A m \in Feedback : m.off <= last_acked \/ m.off = written
                            => m.off <= last_acked' \/ m.off = written'
  BY <1>1 DEF Feedback
<1> QED
  BY <1>2 DEF StopAndWaitAnswers

\* The resume negotiation leaves the two sides at the same offset
LEMMA StopAndWaitInit == Init => StopAndWaitInv
<1> SUFFICES ASSUME Init PROVE StopAndWaitInv
  OBVIOUS
<1>1. TypeInv
  BY TypeInit
<1>2. OnePacketApart /\ StopAndWaitControl /\ DoneInOrder
  BY SizeAssumption
     DEF Init, SenderInit, ReceiverInit, OnePacketApart, StopAndWaitControl, AtPacket,
         DoneInOrder
<1>3. StopAndWaitLinks
  BY DEF Init, LinkInit, StopAndWaitLinks
<1>4. FileIntegrity
  BY SizeAssumption DEF Init, ReceiverInit, FileIntegrity
<1> QED
  BY <1>1, <1>2, <1>3, <1>4 DEF StopAndWaitInv, StopAndWait

-----------------------------------------------------------------------------
(* Steps of the sender.                                                    *)

\* What a step that leaves the acknowledgement and the receiver alone has to
\* show: the frames it adds are legal, and where the sender is
LEMMA SenderKeeps ==
    ASSUME StopAndWaitInv, UNCHANGED <<last_acked, receiverVars>>,
           DoneSent => DoneSent'
    PROVE  /\ OnePacketApart'
           /\ FileIntegrity'
           /\ dataLink \in Seq(StopAndWaitFrames')
           /\ ackLink \in Seq(StopAndWaitAnswers')
<1> USE DEF StopAndWaitInv, StopAndWait
<1>1. last_acked' = last_acked /\ written' = written /\ delivered' = delivered /\ file' = file
  BY DEF receiverVars
<1>2. last_acked' \in Nat /\ last_acked <= last_acked'
  BY <1>1 DEF TypeInv, TypeOK, SenderTypeOK
<1>3. StopAndWaitFrames \subseteq StopAndWaitFrames'
  BY <1>2, FramesGrow
<1>4. StopAndWaitAnswers \subseteq StopAndWaitAnswers'
  BY <1>1, <1>2, AnswersGrow
<1>5. OnePacketApart' /\ FileIntegrity'
  BY <1>1 DEF OnePacketApart, FileIntegrity, Chunk
<1>6. dataLink \in Seq(StopAndWaitFrames')
  BY <1>3, SeqMonotonic DEF StopAndWaitLinks
<1>7. ackLink \in Seq(StopAndWaitAnswers')
  BY <1>4, SeqMonotonic DEF StopAndWaitLinks
<1> QED
  BY <1>5, <1>6, <1>7

\* CANCEL is always a legal frame, in both directions
LEMMA CancelsLegal ==
    /\ Cancels \in Seq(StopAndWaitFrames')
    /\ Cancels \in Seq(StopAndWaitAnswers')
<1>1. Cancel \in StopAndWaitFrames' /\ Cancel \in StopAndWaitAnswers'
  BY DEF StopAndWaitFrames, StopAndWaitAnswers
<1> QED
  BY <1>1 DEF Cancels

\* A fill of the window is one packet, sent with its offset; DONE and a cancel
\* are legal frames
LEMMA StopAndWaitLocal ==
    ASSUME NegotiatedWindow = 1, StopAndWaitInv, SenderLocal \/ SenderCancel,
           UNCHANGED receiverVars
    PROVE  StopAndWait' /\ FileIntegrity'
<1> USE DEF StopAndWaitInv, StopAndWait
<1>0. /\ last_acked \in 0..FileSize /\ next_to_send \in 0..FileSize
      /\ win = 1 /\ inflight \in Nat
  BY SizeAssumption DEF TypeInv, TypeOK, SenderTypeOK, OnePacketApart
<1>00. UNCHANGED <<rpc, delivered>>
  BY DEF receiverVars
<1>1. CASE StartWindow
  <2>1. UNCHANGED <<last_acked, next_to_send, inflight, dataLink, ackLink>>
          /\ spc = "top" /\ spc' = "fill" /\ last_acked < FileSize
    BY <1>1 DEF StartWindow, windowVars, linkVars
  <2>2. DoneSent => DoneSent'
    BY <2>1 DEF DoneSent
  <2>3. OnePacketApart' /\ FileIntegrity' /\ StopAndWaitLinks'
    BY <2>1, <2>2, SenderKeeps DEF StopAndWaitLinks
  <2>4. StopAndWaitControl' /\ DoneInOrder'
    BY <2>1, <2>2, <1>00 DEF StopAndWaitControl, AtPacket, DoneInOrder, Chunk
  <2> QED
    BY <2>3, <2>4
<1>2. CASE SendDone
  <2>1. /\ UNCHANGED <<last_acked, ackLink>>
        /\ dataLink' = Append(dataLink, Done)
        /\ spc = "top" /\ spc' = "done" /\ last_acked = FileSize
    BY <1>0, <1>2, SizeAssumption DEF SendDone, windowVars
  <2>2. DoneSent' /\ ~DoneSent
    BY <2>1 DEF DoneSent
  <2>3. OnePacketApart' /\ FileIntegrity'
        /\ dataLink \in Seq(StopAndWaitFrames') /\ ackLink' \in Seq(StopAndWaitAnswers')
    BY <2>1, <2>2, SenderKeeps
  <2>4. Done \in StopAndWaitFrames'
    BY <2>2 DEF StopAndWaitFrames
  <2>5. dataLink' \in Seq(StopAndWaitFrames')
    BY <2>1, <2>3, <2>4, LinkFacts
  <2>6. StopAndWaitControl' /\ DoneInOrder'
    BY <2>1, <2>2, <1>00 DEF StopAndWaitControl, DoneInOrder
  <2> QED
    BY <2>3, <2>5, <2>6 DEF StopAndWaitLinks
<1>3. CASE SendData
  <2>1. /\ spc = "fill" /\ spc' = "fill" /\ last_acked < FileSize
        /\ inflight = 0 /\ inflight' = 1
        /\ next_to_send = last_acked
        /\ UNCHANGED <<last_acked, ackLink>>
    BY <1>0, <1>3 DEF SendData, StopAndWaitControl, AtPacket
  <2>2. IncludeOffset = TRUE
    BY <2>1 DEF IncludeOffset
  <2>3. /\ next_to_send' = last_acked + Chunk(last_acked)
        /\ dataLink' = Append(dataLink, Data(last_acked, last_acked, Chunk(last_acked)))
    BY <1>3, <2>1, <2>2, ChunkFacts, Zenon DEF SendData
  <2>4. DoneSent => DoneSent'
    BY <2>1 DEF DoneSent
  <2>5. OnePacketApart' /\ FileIntegrity'
        /\ dataLink \in Seq(StopAndWaitFrames') /\ ackLink' \in Seq(StopAndWaitAnswers')
    BY <2>1, <2>4, SenderKeeps
  <2>6. Data(last_acked, last_acked, Chunk(last_acked)) \in StopAndWaitFrames'
    <3>1. Chunk(last_acked) \in Nat \ {0}
      BY <1>0, <2>1, ChunkFacts, SizeAssumption
    <3>2. Data(last_acked, last_acked, Chunk(last_acked)) \in DataPackets
      BY <1>0, <3>1 DEF Data, DataPackets
    <3> QED
      BY <1>0, <2>1, <3>2 DEF StopAndWaitFrames, Data, Chunk
  <2>7. dataLink' \in Seq(StopAndWaitFrames')
    BY <2>3, <2>5, <2>6, LinkFacts
  <2>8. StopAndWaitControl' /\ DoneInOrder'
    BY <2>1, <2>3, <2>4, <1>00 DEF StopAndWaitControl, AtPacket, DoneInOrder, Chunk
  <2> QED
    BY <2>5, <2>7, <2>8 DEF StopAndWaitLinks
<1>4. CASE StartWait
  <2>1. /\ spc = "fill" /\ spc' = "wait" /\ last_acked < FileSize
        /\ inflight = 1
        /\ UNCHANGED <<last_acked, next_to_send, dataLink, ackLink>>
        /\ target_ack' = next_to_send
    BY <1>0, <1>4 DEF StartWait, linkVars, StopAndWaitControl, AtPacket
  <2>2. DoneSent => DoneSent'
    BY <2>1 DEF DoneSent
  <2>3. OnePacketApart' /\ FileIntegrity' /\ StopAndWaitLinks'
    BY <2>1, <2>2, SenderKeeps DEF StopAndWaitLinks
  <2>4. StopAndWaitControl' /\ DoneInOrder'
    BY <2>1, <2>2, <1>00 DEF StopAndWaitControl, AtPacket, DoneInOrder, Chunk
  <2> QED
    BY <2>3, <2>4
<1>5. CASE SenderCancel
  <2>1. /\ spc = "top" /\ spc' = "cancelled"
        /\ UNCHANGED <<last_acked, ackLink>>
        /\ dataLink' = dataLink \o Cancels
    BY <1>5 DEF SenderCancel, windowVars
  <2>2. ~DoneSent /\ ~delivered
    BY <2>1 DEF DoneSent, DoneInOrder
  <2>3. OnePacketApart' /\ FileIntegrity'
        /\ dataLink \in Seq(StopAndWaitFrames') /\ ackLink' \in Seq(StopAndWaitAnswers')
    BY <2>1, <2>2, SenderKeeps
  <2>4. dataLink' \in Seq(StopAndWaitFrames')
    BY <2>1, <2>3, CancelsLegal, LinkFacts
  <2>5. StopAndWaitControl' /\ DoneInOrder'
    BY <2>1, <2>2, <1>00 DEF StopAndWaitControl, DoneInOrder
  <2> QED
    BY <2>3, <2>4, <2>5 DEF StopAndWaitLinks
<1> QED
  BY <1>1, <1>2, <1>3, <1>4, <1>5 DEF SenderLocal

\* A timeout goes back to the one packet in flight, or sends DONE again
LEMMA StopAndWaitTimeout ==
    ASSUME NegotiatedWindow = 1, StopAndWaitInv, SenderTimeout, UNCHANGED receiverVars
    PROVE  StopAndWait' /\ FileIntegrity'
<1> USE DEF StopAndWaitInv, StopAndWait
<1>0. UNCHANGED <<rpc, delivered>>
  BY DEF receiverVars
<1>1. CASE AckTimeout
  <2>1. /\ spc = "wait" /\ spc' = "fill" /\ last_acked < FileSize
        /\ inflight' = 0 /\ next_to_send' = last_acked
        /\ UNCHANGED <<last_acked, dataLink, ackLink>>
    BY <1>1 DEF AckTimeout, Rewind, linkVars, StopAndWaitControl
  <2>2. DoneSent => DoneSent'
    BY <2>1 DEF DoneSent
  <2>3. OnePacketApart' /\ FileIntegrity' /\ StopAndWaitLinks'
    BY <2>1, <2>2, SenderKeeps DEF StopAndWaitLinks
  <2>4. StopAndWaitControl' /\ DoneInOrder'
    BY <1>0, <2>1, <2>2 DEF StopAndWaitControl, AtPacket, DoneInOrder
  <2> QED
    BY <2>3, <2>4
<1>2. CASE AckTimeoutFatal \/ DoneTimeoutFatal
  <2>1. /\ spc' = "fail"
        /\ spc \in {"wait", "done"}
        /\ UNCHANGED <<last_acked, dataLink, ackLink>>
    BY <1>2 DEF AckTimeoutFatal, DoneTimeoutFatal, linkVars, windowVars
  <2>2. DoneSent => DoneSent'
    BY <2>1 DEF DoneSent
  <2>3. OnePacketApart' /\ FileIntegrity' /\ StopAndWaitLinks'
    BY <2>1, <2>2, SenderKeeps DEF StopAndWaitLinks
  <2>4. StopAndWaitControl' /\ DoneInOrder'
    BY <1>0, <2>1, <2>2 DEF StopAndWaitControl, DoneInOrder
  <2> QED
    BY <2>3, <2>4
<1>3. CASE DoneTimeout
  <2>1. /\ spc' = spc /\ spc = "done"
        /\ UNCHANGED <<last_acked, ackLink>>
        /\ dataLink' = Append(dataLink, Done)
    BY <1>3 DEF DoneTimeout, windowVars
  <2>2. DoneSent /\ DoneSent'
    BY <2>1 DEF DoneSent, DoneInOrder
  <2>3. OnePacketApart' /\ FileIntegrity'
        /\ dataLink \in Seq(StopAndWaitFrames') /\ ackLink' \in Seq(StopAndWaitAnswers')
    BY <2>1, <2>2, SenderKeeps
  <2>4. Done \in StopAndWaitFrames'
    BY <2>2 DEF StopAndWaitFrames
  <2>5. dataLink' \in Seq(StopAndWaitFrames')
    BY <2>1, <2>3, <2>4, LinkFacts
  <2>6. StopAndWaitControl' /\ DoneInOrder'
    BY <1>0, <2>1, <2>2 DEF StopAndWaitControl, DoneInOrder
  <2> QED
    BY <2>3, <2>5, <2>6 DEF StopAndWaitLinks
<1> QED
  BY <1>1, <1>2, <1>3 DEF SenderTimeout

\* An acknowledgement that advances is for the current packet, so it catches up
\* with the receiver and ends the window
LEMMA AckCatchesUp ==
    ASSUME StopAndWaitInv, Read("wait"), HeadIs("DATA_ACK"), ~Stale(Head(ackLink).off)
    PROVE  /\ Head(ackLink).off = written
           /\ written = last_acked + Chunk(last_acked)
           /\ written = target_ack
           /\ last_acked < written
           /\ written \in 0..FileSize
           /\ ackLink' \in Seq(StopAndWaitAnswers)
<1> USE DEF StopAndWaitInv, StopAndWait
<1>1. Head(ackLink) \in StopAndWaitAnswers /\ ackLink' \in Seq(StopAndWaitAnswers)
  BY LinkFacts DEF Read, StopAndWaitLinks
<1>2. /\ Head(ackLink).off \in Nat
      /\ Head(ackLink).off <= last_acked \/ Head(ackLink).off = written
  BY <1>1 DEF HeadIs, StopAndWaitAnswers, Feedback, Cancel, DoneAck
<1>3. last_acked \in 0..FileSize /\ written \in Nat
  BY SizeAssumption DEF TypeInv, TypeOK, SenderTypeOK, ReceiverTypeOK, OnePacketApart
<1>4. Head(ackLink).off = written /\ last_acked < written
  BY <1>2, <1>3 DEF Stale
<1>5. written = last_acked + Chunk(last_acked) /\ written \in 0..FileSize
  BY <1>3, <1>4, ChunkFacts, SizeAssumption DEF OnePacketApart
<1>6. written = target_ack
  BY <1>5 DEF Read, StopAndWaitControl, AtPacket
<1> QED
  BY <1>1, <1>4, <1>5, <1>6

\* The sender catches up with the receiver: what is left to show is where the
\* sender goes
LEMMA CatchUpKeeps ==
    ASSUME StopAndWaitInv, Read("wait"), HeadIs("DATA_ACK"), ~Stale(Head(ackLink).off),
           last_acked' = Head(ackLink).off, UNCHANGED receiverVars
    PROVE  /\ OnePacketApart'
           /\ FileIntegrity'
           /\ dataLink \in Seq(StopAndWaitFrames')
           /\ ackLink' \in Seq(StopAndWaitAnswers')
           /\ ~delivered
<1> USE DEF StopAndWaitInv, StopAndWait
<1>0. /\ written' = written /\ delivered' = delivered /\ file' = file /\ spc = "wait"
  BY DEF receiverVars, Read
<1>1. /\ last_acked' = written
      /\ last_acked < written
      /\ written \in 0..FileSize
      /\ ackLink' \in Seq(StopAndWaitAnswers)
  BY AckCatchesUp
<1>2. last_acked \in Nat /\ last_acked' \in Nat /\ last_acked <= last_acked'
  BY <1>1, SizeAssumption DEF TypeInv, TypeOK, SenderTypeOK
<1>3. ~DoneSent /\ ~delivered
  BY <1>0 DEF DoneSent, DoneInOrder
<1>4. StopAndWaitFrames \subseteq StopAndWaitFrames'
  BY <1>2, <1>3, FramesGrow
<1>5. StopAndWaitAnswers \subseteq StopAndWaitAnswers'
  BY <1>0, <1>2, AnswersGrow
<1>6. dataLink \in Seq(StopAndWaitFrames')
  BY <1>4, SeqMonotonic DEF StopAndWaitLinks
<1>7. ackLink' \in Seq(StopAndWaitAnswers')
  BY <1>1, <1>5, SeqMonotonic
<1>8. OnePacketApart' /\ FileIntegrity'
  BY <1>0, <1>1, SizeAssumption DEF OnePacketApart, FileIntegrity
<1> QED
  BY <1>3, <1>6, <1>7, <1>8

\* In stop-and-wait the receiver has no reason to send a DATA_NAK, and sends
\* DONE_ACK only for a delivered file
LEMMA AnswerFacts ==
    ASSUME NEW m \in StopAndWaitAnswers
    PROVE  m.type # "DATA_NAK" /\ (m.type = "DONE_ACK" => delivered)
<1>1. CASE m \in Feedback /\ m.type = "DATA_ACK"
  BY <1>1
<1>2. CASE m = Cancel
  BY <1>2 DEF Cancel
<1>3. CASE m = DoneAck /\ delivered
  BY <1>3 DEF DoneAck
<1> QED
  BY <1>1, <1>2, <1>3 DEF StopAndWaitAnswers

\* An acknowledgement is stale or ends the window; DONE_ACK and CANCEL end the
\* file
LEMMA StopAndWaitReads ==
    ASSUME NegotiatedWindow = 1, StopAndWaitInv, SenderReads \/ RecvAckCancel,
           UNCHANGED receiverVars
    PROVE  StopAndWait' /\ FileIntegrity'
<1> USE DEF StopAndWaitInv, StopAndWait
<1>0. UNCHANGED <<rpc, delivered, written, file>>
  BY DEF receiverVars
<1>1. \A st : Read(st) => /\ Head(ackLink) \in StopAndWaitAnswers
                          /\ Tail(ackLink) \in Seq(StopAndWaitAnswers)
                          /\ ackLink' = Tail(ackLink)
                          /\ spc = st
  BY LinkFacts DEF Read, StopAndWaitLinks
<1>2. CASE RecvAckPartial
  <2>1. /\ Read("wait") /\ HeadIs("DATA_ACK") /\ ~Stale(Head(ackLink).off)
        /\ last_acked' = Head(ackLink).off /\ last_acked' < target_ack
    BY <1>2 DEF RecvAckPartial, AckAdvances
  <2>2. last_acked' = target_ack /\ target_ack \in Nat
    BY <2>1, AckCatchesUp, SizeAssumption
  <2> QED
    BY <2>1, <2>2
<1>3. CASE RecvAckWindow
  <2>1. /\ Read("wait") /\ HeadIs("DATA_ACK") /\ ~Stale(Head(ackLink).off)
        /\ last_acked' = Head(ackLink).off
        /\ spc' = "top"
        /\ inflight' = Outstanding(last_acked')
        /\ next_to_send' = next_to_send
        /\ dataLink' = dataLink
    BY <1>3 DEF RecvAckWindow, AckAdvances
  <2>2. /\ OnePacketApart' /\ FileIntegrity' /\ ~delivered
        /\ dataLink' \in Seq(StopAndWaitFrames')
        /\ ackLink' \in Seq(StopAndWaitAnswers')
    BY <2>1, CatchUpKeeps
  <2>3. next_to_send = last_acked' /\ last_acked' \in Nat
    BY <2>1, AckCatchesUp, SizeAssumption DEF Read, StopAndWaitControl
  <2>4. inflight' = 0
    <3>0. Larger(0, 0) = 0
      BY DEF Larger
    <3>1. next_to_send - last_acked' = 0
      <4>1. \A k \in Nat : k - k = 0
        OBVIOUS
      <4> QED
        BY <2>3, <4>1, Zenon
    <3>2. MaxPayload \in Nat \ {0}
      BY PayloadAssumption
    <3>3. CeilDiv(0, MaxPayload) = 0
      BY <3>2, CeilDivFacts
    <3> QED
      BY <2>1, <3>0, <3>1, <3>3 DEF Outstanding
  <2>5. StopAndWaitControl' /\ DoneInOrder'
    BY <1>0, <2>1, <2>2, <2>3, <2>4 DEF StopAndWaitControl, AtPacket, DoneInOrder
  <2> QED
    BY <2>2, <2>5 DEF StopAndWaitLinks
<1>4. CASE RecvAckCancel
  <2>1. /\ Read("wait") /\ HeadIs("DATA_ACK") /\ ~Stale(Head(ackLink).off)
        /\ last_acked' = Head(ackLink).off
        /\ spc' = "cancelled"
        /\ dataLink' = dataLink \o Cancels
    BY <1>4 DEF RecvAckCancel
  <2>2. /\ OnePacketApart' /\ FileIntegrity' /\ ~delivered
        /\ dataLink \in Seq(StopAndWaitFrames')
        /\ ackLink' \in Seq(StopAndWaitAnswers')
    BY <2>1, CatchUpKeeps
  <2>3. dataLink' \in Seq(StopAndWaitFrames')
    BY <2>1, <2>2, CancelsLegal, LinkFacts
  <2>4. StopAndWaitControl' /\ DoneInOrder'
    BY <1>0, <2>1, <2>2 DEF StopAndWaitControl, DoneInOrder
  <2> QED
    BY <2>2, <2>3, <2>4 DEF StopAndWaitLinks
<1>5. CASE RecvNak
  BY <1>1, <1>5, AnswerFacts DEF RecvNak, HeadIs
<1>6. CASE RecvAckStale \/ RecvWhileDone
  <2>1. UNCHANGED <<senderVars, dataLink>> /\ ackLink' \in Seq(StopAndWaitAnswers)
    BY <1>1, <1>6 DEF RecvAckStale, RecvWhileDone
  <2>2. /\ UNCHANGED <<spc, last_acked, next_to_send, inflight, target_ack>>
        /\ StopAndWaitFrames' = StopAndWaitFrames
        /\ StopAndWaitAnswers' = StopAndWaitAnswers
    BY <1>0, <2>1 DEF senderVars, windowVars, StopAndWaitFrames, StopAndWaitAnswers,
                      DoneSent, Chunk
  <2>3. OnePacketApart' /\ FileIntegrity' /\ StopAndWaitControl' /\ DoneInOrder'
    BY <1>0, <2>2 DEF OnePacketApart, FileIntegrity, StopAndWaitControl, AtPacket,
                      DoneInOrder, DoneSent, Chunk
  <2> QED
    BY <2>1, <2>2, <2>3 DEF StopAndWaitLinks
<1>7. CASE RecvCancel
  <2>1. /\ spc \in {"wait", "done"} /\ spc' = "aborted"
        /\ UNCHANGED <<last_acked, dataLink>>
        /\ ackLink' \in Seq(StopAndWaitAnswers)
    BY <1>1, <1>7 DEF RecvCancel, windowVars
  <2>2. DoneSent => DoneSent'
    BY <2>1 DEF DoneSent
  <2>3. OnePacketApart' /\ FileIntegrity' /\ dataLink' \in Seq(StopAndWaitFrames')
    BY <2>1, <2>2, SenderKeeps
  <2>4. StopAndWaitAnswers' = StopAndWaitAnswers
    BY <1>0, <2>1 DEF StopAndWaitAnswers
  <2>5. StopAndWaitControl' /\ DoneInOrder'
    BY <1>0, <2>1, <2>2 DEF StopAndWaitControl, DoneInOrder
  <2> QED
    BY <2>1, <2>3, <2>4, <2>5 DEF StopAndWaitLinks
<1>8. CASE RecvDoneAck
  <2>1. /\ spc = "done" /\ spc' = "ok"
        /\ UNCHANGED <<last_acked, dataLink>>
        /\ ackLink' \in Seq(StopAndWaitAnswers)
    BY <1>1, <1>8 DEF RecvDoneAck, windowVars
  <2>2. DoneSent => DoneSent'
    BY <2>1 DEF DoneSent
  <2>3. OnePacketApart' /\ FileIntegrity' /\ dataLink' \in Seq(StopAndWaitFrames')
    BY <2>1, <2>2, SenderKeeps
  <2>4. StopAndWaitAnswers' = StopAndWaitAnswers
    BY <1>0, <2>1 DEF StopAndWaitAnswers
  <2>5. delivered
    BY <1>1, <1>8, AnswerFacts DEF RecvDoneAck, HeadIs
  <2>6. StopAndWaitControl' /\ DoneInOrder'
    BY <1>0, <2>1, <2>2, <2>5 DEF StopAndWaitControl, DoneInOrder
  <2> QED
    BY <2>1, <2>3, <2>4, <2>6 DEF StopAndWaitLinks
<1> QED
  BY <1>2, <1>3, <1>4, <1>5, <1>6, <1>7, <1>8 DEF SenderReads

-----------------------------------------------------------------------------
(* Steps of the receiver.                                                  *)

\* What the type of a frame says about it
LEMMA FrameSays ==
    ASSUME NEW m \in StopAndWaitFrames
    PROVE  /\ m.type = "DATA" => /\ m \in DataPackets
                                 /\ m.off = m.src
                                 /\ m.src <= last_acked
                                 /\ m.len = Chunk(m.src)
           /\ m.type = "DONE" => DoneSent
<1>1. CASE m \in DataPackets /\ m.off = m.src /\ m.src <= last_acked /\ m.len = Chunk(m.src)
  BY <1>1 DEF DataPackets
<1>2. CASE m = Cancel
  BY <1>2 DEF Cancel
<1>3. CASE m = Done /\ DoneSent
  BY <1>3 DEF Done
<1> QED
  BY <1>1, <1>2, <1>3 DEF StopAndWaitFrames

\* A step of the receiver that writes nothing
LEMMA ReceiverKeeps ==
    ASSUME StopAndWaitInv, UNCHANGED <<senderVars, written, file>>, delivered => delivered'
    PROVE  /\ OnePacketApart'
           /\ FileIntegrity'
           /\ StopAndWaitControl'
           /\ DoneSent' = DoneSent
           /\ spc' = spc /\ last_acked' = last_acked
           /\ StopAndWaitFrames' = StopAndWaitFrames
           /\ ackLink \in Seq(StopAndWaitAnswers')
<1> USE DEF StopAndWaitInv, StopAndWait
<1>1. /\ UNCHANGED <<spc, last_acked, next_to_send, inflight, target_ack>>
      /\ written' = written
      /\ file' = file
  BY DEF senderVars, windowVars
<1>2. last_acked' \in Nat /\ last_acked <= last_acked'
  BY <1>1 DEF TypeInv, TypeOK, SenderTypeOK
<1>3. OnePacketApart' /\ FileIntegrity' /\ StopAndWaitControl'
  BY <1>1 DEF OnePacketApart, FileIntegrity, StopAndWaitControl, AtPacket, Chunk
<1>4. DoneSent' = DoneSent
  BY <1>1 DEF DoneSent
<1>5. StopAndWaitFrames' = StopAndWaitFrames
  BY <1>1, <1>4 DEF StopAndWaitFrames, Chunk
<1>6. StopAndWaitAnswers \subseteq StopAndWaitAnswers'
  BY <1>1, <1>2, AnswersGrow
<1>7. ackLink \in Seq(StopAndWaitAnswers')
  BY <1>6, SeqMonotonic DEF StopAndWaitLinks
<1> QED
  BY <1>1, <1>3, <1>4, <1>5, <1>7

\* The packet in order is the current one, and the write takes the receiver one
\* packet ahead of the acknowledgement
LEMMA WriteAdvances ==
    ASSUME StopAndWaitInv, TakeData, EffOff = written, Write, UNCHANGED senderVars
    PROVE  /\ written = last_acked
           /\ written' = last_acked + Chunk(last_acked)
           /\ written' \in 0..FileSize
           /\ FileIntegrity'
           /\ dataLink' \in Seq(StopAndWaitFrames)
<1> USE DEF StopAndWaitInv, StopAndWait
<1>1. Packet \in StopAndWaitFrames /\ dataLink' \in Seq(StopAndWaitFrames)
  BY LinkFacts DEF TakeData, Take, Packet, StopAndWaitLinks
<1>2. /\ Packet \in DataPackets /\ Packet.off = Packet.src /\ Packet.src <= last_acked
      /\ Packet.len = Chunk(Packet.src)
  BY <1>1, FrameSays DEF TakeData
<1>3. Packet.src \in Nat
  BY <1>2 DEF DataPackets
<1>4. last_acked \in 0..FileSize /\ written \in Nat /\ last_acked <= written
  <2>1. last_acked \in Nat /\ written \in Nat /\ last_acked <= FileSize
    BY DEF TypeInv, TypeOK, SenderTypeOK, ReceiverTypeOK, OnePacketApart
  <2>2. Chunk(last_acked) \in 0..(FileSize - last_acked)
    BY <2>1, ChunkFacts, SizeAssumption
  <2> QED
    BY <2>1, <2>2, SizeAssumption DEF OnePacketApart
<1>5. EffOff = Packet.src
  BY <1>2, <1>3 DEF EffOff, IMPLIED
<1>6. written = last_acked /\ Packet.src = last_acked
  BY <1>2, <1>3, <1>4, <1>5
<1>7. written' = last_acked + Chunk(last_acked)
  BY <1>2, <1>6 DEF Write
<1>8. Chunk(last_acked) \in 0..(FileSize - last_acked)
  BY <1>4, ChunkFacts
<1>9. written' \in 0..FileSize
  BY <1>4, <1>7, <1>8, SizeAssumption
<1>10. \A p \in 0..(written' - 1) : file'[p] = p
  <2> SUFFICES ASSUME NEW p \in 0..(written' - 1) PROVE file'[p] = p
    OBVIOUS
  <2>0. p \in 0..(written + Packet.len - 1)
    <3>1. written' = written + Packet.len
      BY DEF Write
    <3>2. Packet.len \in Nat /\ written \in Nat
      BY <1>2, <1>4 DEF DataPackets
    <3> QED
      BY <3>1, <3>2
  <2>1. file'[p] = IF p < written THEN file[p] ELSE Packet.src + (p - written)
    BY <2>0, Zenon DEF Write
  <2>2. CASE p < written
    BY <1>4, <2>1, <2>2 DEF FileIntegrity
  <2>3. CASE ~(p < written)
    BY <1>4, <1>6, <1>9, <2>1, <2>3
  <2> QED
    BY <2>2, <2>3
<1> QED
  BY <1>1, <1>6, <1>7, <1>9, <1>10, SizeAssumption DEF FileIntegrity

\* The packet in order takes the receiver one packet ahead, and is acknowledged
LEMMA StopAndWaitWrites ==
    ASSUME StopAndWaitInv, RecvDataInOrder \/ RecvDataInOrderCancel, UNCHANGED senderVars
    PROVE  StopAndWait' /\ FileIntegrity'
<1> USE DEF StopAndWaitInv, StopAndWait
<1>1. /\ TakeData /\ EffOff = written /\ Write
      /\ rpc = "data" /\ rpc' \in {"data", "cancelled"}
      /\ delivered' = delivered
  BY DEF RecvDataInOrder, RecvDataInOrderCancel, TakeData, Take
<1>2. /\ UNCHANGED <<spc, last_acked, next_to_send, inflight, target_ack>>
      /\ last_acked' = last_acked
  BY DEF senderVars, windowVars
<1>3. /\ written = last_acked
      /\ written' = last_acked + Chunk(last_acked)
      /\ written' \in 0..FileSize
      /\ FileIntegrity'
      /\ dataLink' \in Seq(StopAndWaitFrames)
  BY <1>1, WriteAdvances
<1>4. last_acked \in Nat /\ last_acked' \in Nat /\ last_acked <= last_acked' /\ written <= last_acked
  BY <1>2, <1>3 DEF TypeInv, TypeOK, SenderTypeOK
<1>5. OnePacketApart' /\ StopAndWaitControl' /\ DoneInOrder'
  BY <1>1, <1>2, <1>3
     DEF OnePacketApart, StopAndWaitControl, AtPacket, Chunk, DoneInOrder, DoneSent
<1>6. StopAndWaitFrames' = StopAndWaitFrames
  BY <1>2 DEF StopAndWaitFrames, Chunk, DoneSent
<1>7. ackLink \in Seq(StopAndWaitAnswers')
  <2>1. StopAndWaitAnswers \subseteq StopAndWaitAnswers'
    BY <1>1, <1>4, AnswersGrow
  <2> QED
    BY <2>1, SeqMonotonic DEF StopAndWaitLinks
<1>8. ackLink' \in Seq(StopAndWaitAnswers')
  <2>1. CASE RecvDataInOrder
    <3>1. DataAck(written') \in StopAndWaitAnswers'
      <4>1. DataAck(written') \in Feedback /\ DataAck(written').type = "DATA_ACK"
                                          /\ DataAck(written').off = written'
        BY <1>3, SizeAssumption DEF DataAck, Feedback
      <4> QED
        BY <4>1 DEF StopAndWaitAnswers
    <3>2. ackLink' = ackLink \o <<DataAck(written')>>
      BY <2>1 DEF RecvDataInOrder, Reply
    <3> QED
      BY <1>7, <3>1, <3>2, LinkFacts
  <2>2. CASE RecvDataInOrderCancel
    BY <1>7, <2>2, CancelsLegal, LinkFacts DEF RecvDataInOrderCancel, Reply
  <2> QED
    BY <2>1, <2>2
<1> QED
  BY <1>3, <1>5, <1>6, <1>8 DEF StopAndWaitLinks

\* Steps that send nothing
LEMMA StopAndWaitSilent ==
    ASSUME StopAndWaitInv, UNCHANGED senderVars,
           StartReceive \/ RecvCancelFromSender \/ RecvWhileMeta
               \/ RecvDamaged \/ ReceiverTimeout
    PROVE  StopAndWait' /\ FileIntegrity'
<1> USE DEF StopAndWaitInv, StopAndWait
<1>1. /\ UNCHANGED <<written, file>> /\ delivered' = delivered /\ ackLink' = ackLink
      /\ rpc' = "meta" => rpc = "meta"
  BY DEF StartReceive, RecvCancelFromSender, RecvWhileMeta, RecvDamaged, ReceiverTimeout,
         Retry, linkVars
<1>2. dataLink' = dataLink \/ (dataLink # <<>> /\ dataLink' = Tail(dataLink))
  BY DEF StartReceive, RecvCancelFromSender, RecvWhileMeta, RecvDamaged, ReceiverTimeout,
         Take, linkVars
<1>3. /\ OnePacketApart' /\ FileIntegrity' /\ StopAndWaitControl'
      /\ DoneSent' = DoneSent /\ spc' = spc /\ last_acked' = last_acked
      /\ StopAndWaitFrames' = StopAndWaitFrames
      /\ ackLink \in Seq(StopAndWaitAnswers')
  BY <1>1, ReceiverKeeps
<1>4. DoneInOrder'
  BY <1>1, <1>3 DEF DoneInOrder
<1>5. dataLink' \in Seq(StopAndWaitFrames)
  BY <1>2, LinkFacts DEF StopAndWaitLinks
<1> QED
  BY <1>1, <1>3, <1>4, <1>5 DEF StopAndWaitLinks

\* A repeated packet is answered with the position; no packet is ahead
LEMMA StopAndWaitRepeats ==
    ASSUME StopAndWaitInv, UNCHANGED senderVars,
           RecvDataDup \/ RecvDataAhead \/ RecvDataOutOfOrderCancel
    PROVE  StopAndWait' /\ FileIntegrity'
<1> USE DEF StopAndWaitInv, StopAndWait
<1>1. /\ TakeData /\ EffOff # written
      /\ UNCHANGED <<written, file>> /\ delivered' = delivered
      /\ rpc' = "meta" => rpc = "meta"
      /\ ackLink' \in {ackLink \o OutOfOrderReply, ackLink \o (OutOfOrderReply \o Cancels)}
  <2>1. written \in Nat /\ (EffOff < written \/ EffOff > written => EffOff # written)
    BY DEF TypeInv, TypeOK, ReceiverTypeOK
  <2> QED
    BY <2>1 DEF RecvDataDup, RecvDataAhead, RecvDataOutOfOrderCancel, TakeData, Reply
<1>2. Packet \in StopAndWaitFrames /\ dataLink' \in Seq(StopAndWaitFrames)
  BY <1>1, LinkFacts DEF TakeData, Take, Packet, StopAndWaitLinks
<1>3. /\ Packet \in DataPackets /\ Packet.off = Packet.src /\ Packet.src <= last_acked
  BY <1>1, <1>2, FrameSays DEF TakeData
<1>4. last_acked \in Nat /\ written \in Nat /\ last_acked <= written
  <2>1. last_acked \in Nat /\ written \in Nat /\ last_acked <= FileSize
    BY DEF TypeInv, TypeOK, SenderTypeOK, ReceiverTypeOK, OnePacketApart
  <2>2. Chunk(last_acked) \in 0..(FileSize - last_acked)
    BY <2>1, ChunkFacts, SizeAssumption
  <2> QED
    BY <2>1, <2>2, SizeAssumption DEF OnePacketApart
<1>5. EffOff < written
  <2>1. Packet.src \in Nat
    BY <1>3 DEF DataPackets
  <2>2. EffOff = Packet.src
    BY <1>3, <2>1 DEF EffOff, IMPLIED
  <2> QED
    BY <1>1, <1>3, <1>4, <2>1, <2>2
<1>6. OutOfOrderReply = <<DataAck(written)>>
  BY <1>5 DEF OutOfOrderReply
<1>7. /\ OnePacketApart' /\ FileIntegrity' /\ StopAndWaitControl'
      /\ DoneSent' = DoneSent /\ spc' = spc /\ last_acked' = last_acked
      /\ StopAndWaitFrames' = StopAndWaitFrames
      /\ ackLink \in Seq(StopAndWaitAnswers')
  BY <1>1, ReceiverKeeps
<1>8. DoneInOrder'
  BY <1>1, <1>7 DEF DoneInOrder
<1>9. DataAck(written) \in StopAndWaitAnswers'
  <2>1. DataAck(written) \in Feedback /\ DataAck(written).type = "DATA_ACK"
                                      /\ DataAck(written).off = written
    BY <1>4 DEF DataAck, Feedback
  <2> QED
    BY <1>1, <2>1 DEF StopAndWaitAnswers
<1>10. ackLink' \in Seq(StopAndWaitAnswers')
  <2>1. <<DataAck(written)>> \in Seq(StopAndWaitAnswers')
    BY <1>9
  <2>2. <<DataAck(written)>> \o Cancels \in Seq(StopAndWaitAnswers')
    BY <2>1, CancelsLegal, LinkFacts
  <2>3. \/ ackLink' = ackLink \o <<DataAck(written)>>
        \/ ackLink' = ackLink \o (<<DataAck(written)>> \o Cancels)
    BY <1>1, <1>6, Zenon
  <2>4. \A t \in Seq(StopAndWaitAnswers') : ackLink \o t \in Seq(StopAndWaitAnswers')
    BY <1>7, LinkFacts
  <2> QED
    BY <2>1, <2>2, <2>3, <2>4, Zenon
<1> QED
  BY <1>2, <1>7, <1>8, <1>10 DEF StopAndWaitLinks

\* DONE finds the whole file written
LEMMA StopAndWaitDone ==
    ASSUME StopAndWaitInv, UNCHANGED senderVars,
           RecvDone \/ RecvDoneCancel \/ ReceiverCancel
    PROVE  StopAndWait' /\ FileIntegrity'
<1> USE DEF StopAndWaitInv, StopAndWait
<1>1. UNCHANGED <<written, file>> /\ (delivered => delivered')
  BY DEF RecvDone, RecvDoneCancel, ReceiverCancel, DoneArrives
<1>2. /\ OnePacketApart' /\ FileIntegrity' /\ StopAndWaitControl'
      /\ DoneSent' = DoneSent /\ spc' = spc /\ last_acked' = last_acked
      /\ StopAndWaitFrames' = StopAndWaitFrames
      /\ ackLink \in Seq(StopAndWaitAnswers')
  BY <1>1, ReceiverKeeps
<1>3. CASE ReceiverCancel
  <2>1. /\ rpc' = "cancelled" /\ delivered' = delivered /\ dataLink' = dataLink
        /\ ackLink' = ackLink \o Cancels
    BY <1>3 DEF ReceiverCancel
  <2>2. DoneInOrder'
    BY <1>2, <2>1 DEF DoneInOrder
  <2>3. ackLink' \in Seq(StopAndWaitAnswers')
    BY <1>2, <2>1, CancelsLegal, LinkFacts
  <2> QED
    BY <1>2, <2>1, <2>2, <2>3 DEF StopAndWaitLinks
<1>4. CASE RecvDone \/ RecvDoneCancel
  <2>1. /\ DoneArrives /\ delivered'
        /\ ackLink' \in {ackLink \o <<DoneAck>>, ackLink \o (<<DoneAck>> \o Cancels)}
    BY <1>4 DEF RecvDone, RecvDoneCancel, DoneArrives, Reply
  <2>2. Packet \in StopAndWaitFrames /\ dataLink' \in Seq(StopAndWaitFrames)
    BY <2>1, LinkFacts DEF DoneArrives, Take, Packet, StopAndWaitLinks
  <2>3. DoneSent
    BY <2>1, <2>2, FrameSays DEF DoneArrives
  <2>4. DoneInOrder'
    BY <1>2, <2>1, <2>3 DEF DoneInOrder
  <2>5. <<DoneAck>> \in Seq(StopAndWaitAnswers')
    <3>1. DoneAck \in StopAndWaitAnswers'
      BY <2>1 DEF StopAndWaitAnswers
    <3> QED
      BY <3>1
  <2>6. <<DoneAck>> \o Cancels \in Seq(StopAndWaitAnswers')
    BY <2>5, CancelsLegal, LinkFacts
  <2>7. ackLink' \in Seq(StopAndWaitAnswers')
    BY <1>2, <2>1, <2>5, <2>6, LinkFacts, Zenon
  <2> QED
    BY <1>2, <2>2, <2>4, <2>7 DEF StopAndWaitLinks
<1> QED
  BY <1>3, <1>4

-----------------------------------------------------------------------------
(* Faults of the transport, and the theorem.                               *)

\* Losing or repeating a frame leaves only legal frames
LEMMA StopAndWaitFaults ==
    ASSUME StopAndWaitInv,
           \/ LinkNext /\ UNCHANGED <<senderVars, receiverVars>>
           \/ UNCHANGED vars
    PROVE  StopAndWait' /\ FileIntegrity'
<1> USE DEF StopAndWaitInv, StopAndWait
<1>1. UNCHANGED <<senderVars, receiverVars>>
  BY DEF vars
<1>2. /\ UNCHANGED <<senderVars, written, file>> /\ delivered' = delivered /\ rpc' = rpc
      /\ written' = written
  BY <1>1 DEF receiverVars
<1>3. /\ OnePacketApart' /\ FileIntegrity' /\ StopAndWaitControl'
      /\ DoneSent' = DoneSent /\ spc' = spc /\ last_acked' = last_acked
      /\ StopAndWaitFrames' = StopAndWaitFrames
      /\ ackLink \in Seq(StopAndWaitAnswers')
  BY <1>2, ReceiverKeeps
<1>4. DoneInOrder'
  BY <1>2, <1>3 DEF DoneInOrder
<1>5. /\ \/ dataLink' = dataLink
         \/ dataLink # <<>> /\ dataLink' \in {Tail(dataLink), <<Head(dataLink)>> \o dataLink}
      /\ \/ ackLink' = ackLink
         \/ ackLink # <<>> /\ ackLink' \in {Tail(ackLink), <<Head(ackLink)>> \o ackLink}
  BY DEF LinkNext, LoseData, LoseAck, DupData, DupAck, vars, linkVars
<1>6. dataLink' \in Seq(StopAndWaitFrames)
  BY <1>5, LinkFacts, Zenon DEF StopAndWaitLinks
<1>7. ackLink' \in Seq(StopAndWaitAnswers')
  BY <1>3, <1>5, LinkFacts, Zenon
<1> QED
  BY <1>3, <1>4, <1>6, <1>7 DEF StopAndWaitLinks

\* Every step keeps the inductive invariant
LEMMA StopAndWaitStep ==
    ASSUME NegotiatedWindow = 1, StopAndWaitInv, [Next]_vars
    PROVE  StopAndWaitInv'
<1>1. TypeInv'
  BY TypeStep DEF StopAndWaitInv
<1>2. CASE /\ SenderLocal \/ SenderReads \/ SenderTimeout \/ SenderCancels
           /\ UNCHANGED receiverVars
  BY <1>1, <1>2, StopAndWaitLocal, StopAndWaitReads, StopAndWaitTimeout
     DEF StopAndWaitInv, SenderCancels
<1>3. CASE /\ ReceiverReads \/ ReceiverCancels \/ RecvDamaged \/ ReceiverTimeout
           /\ UNCHANGED senderVars
  BY <1>1, <1>3, StopAndWaitSilent, StopAndWaitWrites, StopAndWaitRepeats, StopAndWaitDone
     DEF StopAndWaitInv, ReceiverReads, ReceiverCancels
<1>4. CASE \/ LinkNext /\ UNCHANGED <<senderVars, receiverVars>>
           \/ UNCHANGED vars
  BY <1>1, <1>4, StopAndWaitFaults DEF StopAndWaitInv
<1> QED
  BY <1>2, <1>3, <1>4, StepCases

\* The invariant holds in every reachable state
LEMMA StopAndWaitAlways ==
    ASSUME NegotiatedWindow = 1
    PROVE  Spec => []StopAndWaitInv
<1>1. StopAndWaitInv /\ [Next]_vars => StopAndWaitInv'
  BY StopAndWaitStep
<1> QED
  BY <1>1, StopAndWaitInit, PTL DEF Spec

\* With a window of one packet, sender and receiver stay at most one packet
\* apart, and what is on the two links is what that state of theirs allows, for
\* every file size, resume offset, payload size and retry budget, and however
\* often the transport loses, damages or repeats frames or a timer expires too
\* early
THEOREM StopAndWaitKept ==
    ASSUME NegotiatedWindow = 1
    PROVE  Spec => []StopAndWait
<1>1. StopAndWaitInv => StopAndWait
  BY DEF StopAndWaitInv
<1> QED
  BY <1>1, StopAndWaitAlways, PTL

\* With a window of one packet every unit the receiver writes is the sender's at
\* that position, under the same faults
THEOREM StopAndWaitCorrect ==
    ASSUME NegotiatedWindow = 1
    PROVE  Spec => []FileIntegrity
<1>1. StopAndWaitInv => FileIntegrity
  BY DEF StopAndWaitInv
<1> QED
  BY <1>1, StopAndWaitAlways, PTL

\* What the inductive invariant says of a file reported complete, of the
\* acknowledgements and of a cancel
LEMMA StopAndWaitImplies ==
    ASSUME StopAndWaitInv
    PROVE  /\ DeliveredMeansWhole
           /\ OkMeansDelivered
           /\ CancelMeansNotDelivered
           /\ AckedIsWritten
           /\ NeverAhead
<1> USE DEF StopAndWaitInv, StopAndWait
<1>1. /\ last_acked \in 0..FileSize /\ written \in 0..FileSize /\ last_acked <= written
      /\ last_acked = FileSize => written = FileSize
  <2>1. last_acked \in Nat /\ last_acked <= FileSize
    BY DEF TypeInv, TypeOK, SenderTypeOK, OnePacketApart
  <2>2. Chunk(last_acked) \in 0..(FileSize - last_acked) /\ Chunk(FileSize) = 0
    BY <2>1, ChunkFacts, SizeAssumption
  <2> QED
    BY <2>1, <2>2, SizeAssumption DEF OnePacketApart
<1>2. DeliveredMeansWhole
  BY <1>1 DEF DeliveredMeansWhole, DoneInOrder, DoneSent
<1>3. OkMeansDelivered
  BY <1>1 DEF OkMeansDelivered, DoneInOrder, FileIntegrity
<1>4. CancelMeansNotDelivered
  BY DEF CancelMeansNotDelivered, DoneInOrder, DoneSent
<1>5. \A i \in DOMAIN ackLink :
         /\ ackLink[i].type # "DATA_NAK"
         /\ ackLink[i].type = "DATA_ACK" => ackLink[i].off <= written
  <2> SUFFICES ASSUME NEW i \in DOMAIN ackLink
               PROVE  /\ ackLink[i].type # "DATA_NAK"
                      /\ ackLink[i].type = "DATA_ACK" => ackLink[i].off <= written
    OBVIOUS
  <2>1. ackLink[i] \in StopAndWaitAnswers
    BY ElementOfSeq DEF StopAndWaitLinks
  <2>2. ackLink[i].type = "DATA_ACK" =>
           ackLink[i] \in Feedback /\ (ackLink[i].off <= last_acked \/ ackLink[i].off = written)
    BY <2>1 DEF StopAndWaitAnswers, Cancel, DoneAck
  <2>3. ackLink[i] \in Feedback => ackLink[i].off \in Nat
    BY DEF Feedback
  <2> QED
    BY <1>1, <2>1, <2>2, <2>3, AnswerFacts, SizeAssumption
<1>6. \A i \in DOMAIN dataLink : dataLink[i].type = "DATA" => dataLink[i].off <= written
  <2> SUFFICES ASSUME NEW i \in DOMAIN dataLink, dataLink[i].type = "DATA"
               PROVE  dataLink[i].off <= written
    OBVIOUS
  <2>1. dataLink[i] \in StopAndWaitFrames
    BY ElementOfSeq DEF StopAndWaitLinks
  <2>2. dataLink[i] \in DataPackets /\ dataLink[i].off = dataLink[i].src
                                    /\ dataLink[i].src <= last_acked
    BY <2>1, FrameSays
  <2>3. dataLink[i].src \in Nat
    BY <2>2 DEF DataPackets
  <2> QED
    BY <1>1, <2>2, <2>3, SizeAssumption
<1> QED
  BY <1>1, <1>2, <1>3, <1>4, <1>5, <1>6 DEF AckedIsWritten, NeverAhead

\* A sender that returns VAL_OK has delivered the whole file: with a window of
\* one packet, over any transport that loses or repeats frames
THEOREM StopAndWaitDelivers ==
    ASSUME NegotiatedWindow = 1
    PROVE  Spec => []OkMeansDelivered
<1>1. StopAndWaitInv => OkMeansDelivered
  BY StopAndWaitImplies
<1> QED
  BY <1>1, StopAndWaitAlways, PTL

\* The receiver's on_file_complete reports VAL_OK only for a whole file: under the
\* same conditions
THEOREM StopAndWaitWhole ==
    ASSUME NegotiatedWindow = 1
    PROVE  Spec => []DeliveredMeansWhole
<1>1. StopAndWaitInv => DeliveredMeansWhole
  BY StopAndWaitImplies
<1> QED
  BY <1>1, StopAndWaitAlways, PTL

\* A sender that cancels while its data is under way finds no report of that file
\* as complete on the other side: under the same conditions
THEOREM StopAndWaitCancels ==
    ASSUME NegotiatedWindow = 1
    PROVE  Spec => []CancelMeansNotDelivered
<1>1. StopAndWaitInv => CancelMeansNotDelivered
  BY StopAndWaitImplies
<1> QED
  BY <1>1, StopAndWaitAlways, PTL

-----------------------------------------------------------------------------
(* With a window of one packet the transfer implements FileDelivery.       *)

\* Its reports are true of the receiver's copy
LEMMA StopAndWaitFaithful == StopAndWaitInv => Faithful
  BY StopAndWaitImplies DEF StopAndWaitInv, StopAndWait, DoneInOrder, Faithful

\* The transfer of one file with a window of one packet keeps the promises of
\* FileDelivery: what val_internal_send_file and the receiver's callbacks report
\* is true of the copy, over a transport that loses or repeats frames
THEOREM StopAndWaitImplements ==
    ASSUME NegotiatedWindow = 1
    PROVE  Spec => ImplementsDelivery
  BY StopAndWaitAlways, StopAndWaitFaithful, FaithfulImplements, PTL

\* A unit once written is never overwritten, and a file once reported complete
\* never changes: with a window of one packet, no resent packet finds the data
\* loop ready to write it again
THEOREM StopAndWaitStable ==
    ASSUME NegotiatedWindow = 1
    PROVE  Spec => FileStable
  BY StopAndWaitAlways, StopAndWaitFaithful, FaithfulStable, PTL
=============================================================================
