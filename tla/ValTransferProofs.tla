------------------------- MODULE ValTransferProofs -------------------------
(***************************************************************************)
(* Theorems about the data phase of one file, for every file size, resume  *)
(* offset, payload size, retry count, window and number of faults.         *)
(***************************************************************************)
EXTENDS ValTransfer, SequenceTheorems, TLAPS

-----------------------------------------------------------------------------
(* Lemmas about the operators of the model.                                *)

\* What the steps on a FIFO keep: its head, its tail, an appended frame, an
\* appended answer and a repeated head all stay within the frames S
LEMMA LinkFacts ==
    ASSUME NEW S, NEW s \in Seq(S)
    PROVE  /\ s # <<>> => /\ Head(s) \in S
                          /\ Tail(s) \in Seq(S)
                          /\ <<Head(s)>> \o s \in Seq(S)
           /\ \A e \in S : Append(s, e) \in Seq(S)
           /\ \A t \in Seq(S) : s \o t \in Seq(S)
<1>1. s # <<>> => Head(s) \in S /\ Tail(s) \in Seq(S)
  BY HeadTailProperties
<1>2. \A e \in S : Append(s, e) \in Seq(S)
  BY AppendProperties
<1>3. \A t \in Seq(S) : s \o t \in Seq(S)
  BY ConcatProperties
<1>4. ASSUME s # <<>> PROVE <<Head(s)>> \o s \in Seq(S)
  <2>1. <<Head(s)>> \in Seq(S)
    BY <1>1, <1>4
  <2> QED
    BY <2>1, ConcatProperties
<1> QED
  BY <1>1, <1>2, <1>3, <1>4

\* The packet counts of wait_for_window_ack are natural numbers, and nothing is
\* outstanding once everything sent is acknowledged
LEMMA CeilDivFacts ==
    ASSUME NEW a \in Nat, NEW b \in Nat \ {0}
    PROVE  /\ CeilDiv(a, b) \in Nat
           /\ CeilDiv(0, b) = 0
<1>1. CeilDiv(a, b) \in Nat
  BY DEF CeilDiv
<1>2. CeilDiv(0, b) = 0
  BY DEF CeilDiv
<1> QED
  BY <1>1, <1>2

\* record_transmission_error keeps the window between one packet and the
\* negotiated size
LEMMA RecordErrorType ==
    ASSUME SenderTypeOK, RecordError
    PROVE  /\ cwnd' \in 1..NegotiatedWindow
           /\ errs' \in 0..DegradeThreshold
           /\ succs' \in 0..RecoverThreshold
<1>1. Halved(cwnd) \in 1..NegotiatedWindow
  BY WindowAssumption DEF SenderTypeOK, Halved, Larger
<1> QED
  BY <1>1, WindowAssumption DEF SenderTypeOK, RecordError, Smaller

\* record_transmission_success keeps it there too
LEMMA RecordSuccessType ==
    ASSUME SenderTypeOK, RecordSuccess
    PROVE  /\ cwnd' \in 1..NegotiatedWindow
           /\ errs' \in 0..DegradeThreshold
           /\ succs' \in 0..RecoverThreshold
  BY WindowAssumption DEF SenderTypeOK, RecordSuccess, Smaller

\* The file stays a function on the positions written when a payload is appended
LEMMA WriteType ==
    ASSUME ReceiverTypeOK, Write, Packet.len \in Nat, Packet.src \in Nat
    PROVE  written' \in Nat /\ file' \in [0..(written' - 1) -> Nat]
  BY SMTT(30) DEF ReceiverTypeOK, Write

-----------------------------------------------------------------------------
(* The frames on the links.                                                *)

\* Every frame a handler sends has the type its link carries
LEMMA FrameTypes ==
    /\ Done \in ToReceiver
    /\ Cancels \in Seq(ToReceiver)
    /\ Cancels \in Seq(ToSender)
    /\ <<DoneAck>> \in Seq(ToSender)
    /\ <<DoneAck>> \o Cancels \in Seq(ToSender)
    /\ \A off \in Nat : /\ <<DataAck(off)>> \in Seq(ToSender)
                        /\ <<DataNak(off), DataAck(off)>> \in Seq(ToSender)
                        /\ <<DataAck(off)>> \o Cancels \in Seq(ToSender)
                        /\ <<DataNak(off), DataAck(off)>> \o Cancels \in Seq(ToSender)
    /\ \A off \in Nat \cup {IMPLIED}, src \in Nat, len \in Nat \ {0} :
          Data(off, src, len) \in ToReceiver
<1>1. Done \in ToReceiver /\ Cancels \in Seq(ToReceiver)
  BY DEF ToReceiver, Cancels
<1>2. Cancels \in Seq(ToSender) /\ <<DoneAck>> \in Seq(ToSender)
  BY DEF ToSender, Cancels
<1>3. \A off \in Nat : DataAck(off) \in ToSender /\ DataNak(off) \in ToSender
  BY DEF ToSender, Feedback, DataAck, DataNak
<1>4. \A off \in Nat : /\ <<DataAck(off)>> \in Seq(ToSender)
                       /\ <<DataNak(off), DataAck(off)>> \in Seq(ToSender)
  BY <1>3
<1>5. \A s \in Seq(ToSender) : s \o Cancels \in Seq(ToSender)
  BY <1>2, LinkFacts
<1>6. \A off \in Nat \cup {IMPLIED}, src \in Nat, len \in Nat \ {0} :
         Data(off, src, len) \in ToReceiver
  BY DEF ToReceiver, DataPackets, Data
<1> QED
  BY <1>1, <1>2, <1>4, <1>5, <1>6

\* What a handler may rely on when it reads a frame
LEMMA FrameFields ==
    /\ \A m \in ToReceiver : m.type = "DATA" =>
          m.off \in Nat \cup {IMPLIED} /\ m.src \in Nat /\ m.len \in Nat \ {0}
    /\ \A m \in ToSender : m.type \in {"DATA_ACK", "DATA_NAK"} => m.off \in Nat
  BY DEF ToReceiver, ToSender, DataPackets, Feedback, Done, Cancel, DoneAck

-----------------------------------------------------------------------------
(* Type correctness.                                                       *)

\* Taking the head off a link, adding to it and the transport's faults keep the
\* types of the links
LEMMA LinkSteps ==
    ASSUME LinkTypeOK
    PROVE  /\ dataLink # <<>> => /\ Head(dataLink) \in ToReceiver
                                 /\ Tail(dataLink) \in Seq(ToReceiver)
           /\ ackLink # <<>> => /\ Head(ackLink) \in ToSender
                                /\ Tail(ackLink) \in Seq(ToSender)
           /\ \A m \in ToReceiver : Append(dataLink, m) \in Seq(ToReceiver)
           /\ dataLink \o Cancels \in Seq(ToReceiver)
           /\ \A t \in Seq(ToSender) : ackLink \o t \in Seq(ToSender)
           /\ LinkNext => LinkTypeOK'
<1>1. dataLink \in Seq(ToReceiver) /\ ackLink \in Seq(ToSender)
  BY DEF LinkTypeOK
<1>2. dataLink # <<>> => /\ Head(dataLink) \in ToReceiver
                         /\ Tail(dataLink) \in Seq(ToReceiver)
                         /\ <<Head(dataLink)>> \o dataLink \in Seq(ToReceiver)
  BY <1>1, LinkFacts
<1>3. ackLink # <<>> => /\ Head(ackLink) \in ToSender
                        /\ Tail(ackLink) \in Seq(ToSender)
                        /\ <<Head(ackLink)>> \o ackLink \in Seq(ToSender)
  BY <1>1, LinkFacts
<1>4. /\ \A m \in ToReceiver : Append(dataLink, m) \in Seq(ToReceiver)
      /\ dataLink \o Cancels \in Seq(ToReceiver)
      /\ \A t \in Seq(ToSender) : ackLink \o t \in Seq(ToSender)
  BY <1>1, LinkFacts, FrameTypes
<1>5. LinkNext => LinkTypeOK'
  <2>1. CASE LoseData
    BY <2>1, <1>1, <1>2, EnvAssumption DEF LinkTypeOK, LoseData
  <2>2. CASE LoseAck
    BY <2>2, <1>1, <1>3, EnvAssumption DEF LinkTypeOK, LoseAck
  <2>3. CASE DupData
    BY <2>3, <1>1, <1>2, EnvAssumption DEF LinkTypeOK, DupData
  <2>4. CASE DupAck
    BY <2>4, <1>1, <1>3, EnvAssumption DEF LinkTypeOK, DupAck
  <2> QED
    BY <2>1, <2>2, <2>3, <2>4 DEF LinkNext
<1> QED
  BY <1>2, <1>3, <1>4, <1>5

\* The packet send_data_packet sends lies within the file and is not empty
LEMMA ToReadType ==
    ASSUME SenderTypeOK, next_to_send < FileSize, NEW explicit \in BOOLEAN
    PROVE  ToRead(explicit) \in 1..(FileSize - next_to_send)
  BY SizeAssumption, PayloadAssumption DEF SenderTypeOK, ToRead, Smaller

\* The state in which the data phase begins is well typed
LEMMA TypeInit == Init => TypeInv
<1> SUFFICES ASSUME Init PROVE TypeInv
  OBVIOUS
<1>1. LinkTypeOK
  BY EnvAssumption DEF Init, LinkInit, LinkTypeOK
<1>2. SenderTypeOK
  <2>1. in_retransmit \in BOOLEAN
    BY Zenon DEF Init, SenderInit
  <2>2. InitialCwnd \in 1..NegotiatedWindow /\ 0 \in 0..DegradeThreshold
          /\ 0 \in 0..RecoverThreshold
    BY WindowAssumption
  <2> QED
    BY <2>1, <2>2, SizeAssumption, RetryAssumption
       DEF Init, SenderInit, SenderTypeOK, SenderStates, SenderActive
<1>3. ReceiverTypeOK
  <2>1. delivered \in BOOLEAN
    BY Zenon DEF Init, ReceiverInit
  <2>2. file \in [0..(written - 1) -> Nat] /\ written \in Nat
    BY SizeAssumption DEF Init, ReceiverInit
  <2> QED
    BY <2>1, <2>2, ReceiverRetryAssumption
       DEF Init, ReceiverInit, ReceiverTypeOK, ReceiverStates, ReceiverActive
<1> QED
  BY <1>1, <1>2, <1>3, SizeAssumption DEF Init, SenderInit, TypeInv, TypeOK

\* TypeInv is about the links and the sender, and about the receiver
SenderTypeInv ==
    /\ LinkTypeOK
    /\ SenderTypeOK
    /\ target_ack <= FileSize
    /\ spc \in {"fill", "wait"} => last_acked <= FileSize

\* Each handler of the sender keeps its types
LEMMA SenderLocalType ==
    ASSUME SenderTypeInv, SenderLocal \/ SenderCancels
    PROVE  SenderTypeInv'
<1> USE DEF SenderTypeInv, SenderTypeOK, SenderStates, SenderActive, windowVars,
            aimdVars, linkVars
<1>0. LinkTypeOK /\ SenderTypeOK
  BY Zenon
<1>1. CASE StartWindow
  <2>1. TriesRem \in 0..255
    BY RetryAssumption DEF TriesRem
  <2> QED
    BY <1>1, <2>1, <1>0, SizeAssumption DEF StartWindow, LinkTypeOK
<1>2. CASE SendDone
  <2>1. dataLink' \in Seq(ToReceiver)
    BY <1>2, <1>0, LinkSteps, FrameTypes DEF SendDone
  <2>2. in_retransmit' \in BOOLEAN
    BY <1>2, Zenon DEF SendDone
  <2> QED
    BY <1>2, <2>1, <2>2, <1>0, RetryAssumption, Zenon DEF SendDone, LinkTypeOK
<1>3. CASE SendData
  <2>1. ToRead(IncludeOffset) \in 1..(FileSize - next_to_send)
    BY <1>3, <1>0, ToReadType, Zenon DEF SendData, IncludeOffset
  <2>2. dataLink' \in Seq(ToReceiver)
    <3>1. Data(IF IncludeOffset THEN next_to_send ELSE IMPLIED, next_to_send,
               ToRead(IncludeOffset)) \in ToReceiver
      BY <2>1, FrameTypes, SizeAssumption DEF IMPLIED
    <3> QED
      BY <1>3, <1>0, <3>1, LinkSteps, Zenon DEF SendData
  <2> QED
    BY <1>3, <2>1, <2>2, <1>0, SizeAssumption, SMTT(30) DEF SendData, LinkTypeOK
<1>4. CASE StartWait
  <2>1. in_retransmit' \in BOOLEAN
    BY <1>4, Zenon DEF StartWait
  <2> QED
    BY <1>4, <2>1, <1>0, SizeAssumption DEF StartWait, LinkTypeOK
<1>5. CASE SenderCancel
  <2>1. dataLink' \in Seq(ToReceiver)
    BY <1>5, <1>0, LinkSteps, Zenon DEF SenderCancel
  <2> QED
    BY <1>5, <2>1, <1>0 DEF SenderCancel, LinkTypeOK
<1>6. CASE RecvAckCancel
  <2>1. dataLink' \in Seq(ToReceiver) /\ ackLink' \in Seq(ToSender) /\ last_acked' \in Nat
    BY <1>6, <1>0, LinkSteps, FrameFields, Zenon DEF RecvAckCancel, Read, HeadIs
  <2>2. /\ cwnd' \in 1..NegotiatedWindow
        /\ errs' \in 0..DegradeThreshold
        /\ succs' \in 0..RecoverThreshold
    BY <1>6, <1>0, RecordSuccessType, Zenon DEF RecvAckCancel
  <2> QED
    BY <1>6, <2>1, <2>2, <1>0, Zenon DEF RecvAckCancel, Read, LinkTypeOK
<1> QED
  BY <1>1, <1>2, <1>3, <1>4, <1>5, <1>6 DEF SenderLocal, SenderCancels

\* Reading a frame keeps the sender well typed
LEMMA SenderReadsType ==
    ASSUME SenderTypeInv, SenderReads
    PROVE  SenderTypeInv'
<1> USE DEF SenderTypeInv, SenderTypeOK, SenderStates, SenderActive, windowVars,
            aimdVars, linkVars
<1>0. LinkTypeOK /\ SenderTypeOK
  BY Zenon
<1>1. \A st : Read(st) => ackLink' \in Seq(ToSender) /\ Head(ackLink) \in ToSender
                          /\ losses' = losses /\ dups' = dups /\ spc = st
  BY <1>0, LinkSteps, Zenon DEF Read
<1>2. ASSUME AckAdvances
      PROVE  /\ ackLink' \in Seq(ToSender)
             /\ last_acked' \in Nat
             /\ cwnd' \in 1..NegotiatedWindow
             /\ errs' \in 0..DegradeThreshold
             /\ succs' \in 0..RecoverThreshold
             /\ in_retransmit' \in BOOLEAN
             /\ inflight' \in Nat
             /\ UNCHANGED <<next_to_send, target_ack, win, losses, dups>>
  <2>1. ackLink' \in Seq(ToSender) /\ last_acked' \in Nat
    BY <1>1, <1>2, FrameFields, Zenon DEF AckAdvances, HeadIs
  <2>2. /\ cwnd' \in 1..NegotiatedWindow
        /\ errs' \in 0..DegradeThreshold
        /\ succs' \in 0..RecoverThreshold
    BY <1>0, <1>2, RecordSuccessType DEF AckAdvances
  <2>3. in_retransmit' \in BOOLEAN
    BY <1>2, Zenon DEF AckAdvances
  <2>4. inflight' \in Nat
    <3>1. Larger(next_to_send - last_acked', 0) \in Nat
      <4>1. next_to_send - last_acked' \in Int
        BY <2>1, SizeAssumption
      <4>2. \A n \in Int : Larger(n, 0) \in Nat
        BY DEF Larger
      <4> QED
        BY <4>1, <4>2, Zenon
    <3>2. MaxPayload \in Nat \ {0}
      BY PayloadAssumption
    <3>3. CeilDiv(Larger(next_to_send - last_acked', 0), MaxPayload) \in Nat
      BY <3>1, <3>2, CeilDivFacts, Zenon
    <3> QED
      BY <1>2, <3>3, Zenon DEF AckAdvances, Outstanding
  <2> QED
    BY <1>1, <1>2, <2>1, <2>2, <2>3, <2>4, Zenon DEF AckAdvances
<1>3. CASE RecvAckPartial
  BY <1>0, <1>2, <1>3, RetryAssumption, SizeAssumption DEF RecvAckPartial, LinkTypeOK
<1>4. CASE RecvAckWindow
  BY <1>0, <1>2, <1>4, RetryAssumption, Zenon DEF RecvAckWindow, LinkTypeOK
<1>5. CASE RecvAckStale
  BY <1>0, <1>1, <1>5, Zenon DEF RecvAckStale, LinkTypeOK, senderVars
<1>6. CASE RecvNak
  <2>1. /\ ackLink' \in Seq(ToSender)
        /\ losses' = losses /\ dups' = dups /\ spc = "wait"
        /\ Head(ackLink).off \in Nat
    BY <1>1, <1>6, FrameFields, Zenon DEF RecvNak, HeadIs
  <2>2. last_acked' \in 0..FileSize
    BY <1>6, <2>1, SizeAssumption DEF RecvNak, AdoptNak
  <2>3. /\ cwnd' \in 1..NegotiatedWindow
        /\ errs' \in 0..DegradeThreshold
        /\ succs' \in 0..RecoverThreshold
    BY <1>0, <1>6, RecordErrorType DEF RecvNak
  <2>4. in_retransmit' \in BOOLEAN
    BY <1>6, Zenon DEF RecvNak, Rewind
  <2> QED
    BY <1>0, <1>6, <2>1, <2>2, <2>3, <2>4 DEF RecvNak, Rewind, LinkTypeOK
<1>7. CASE RecvCancel
  BY <1>0, <1>1, <1>7, Zenon DEF RecvCancel, LinkTypeOK
<1>8. CASE RecvDoneAck
  <2>1. /\ cwnd' \in 1..NegotiatedWindow
        /\ errs' \in 0..DegradeThreshold
        /\ succs' \in 0..RecoverThreshold
    BY <1>0, <1>8, RecordSuccessType, Zenon DEF RecvDoneAck
  <2> QED
    BY <1>0, <1>1, <1>8, <2>1, Zenon DEF RecvDoneAck, LinkTypeOK
<1>9. CASE RecvWhileDone
  BY <1>0, <1>1, <1>9, Zenon DEF RecvWhileDone, LinkTypeOK, senderVars
<1> QED
  BY <1>3, <1>4, <1>5, <1>6, <1>7, <1>8, <1>9 DEF SenderReads

\* Timeouts keep the sender well typed
LEMMA SenderTimeoutType ==
    ASSUME SenderTypeInv, SenderTimeout
    PROVE  SenderTypeInv'
<1> USE DEF SenderTypeInv, SenderTypeOK, SenderStates, SenderActive, windowVars,
            aimdVars, linkVars
<1>0. LinkTypeOK /\ SenderTypeOK
  OBVIOUS
<1>1. RecordError => /\ cwnd' \in 1..NegotiatedWindow
                     /\ errs' \in 0..DegradeThreshold
                     /\ succs' \in 0..RecoverThreshold
  BY <1>0, RecordErrorType, Zenon
<1>2. CASE AckTimeout
  <2>1. in_retransmit' \in BOOLEAN
    BY <1>2, Zenon DEF AckTimeout, Rewind
  <2> QED
    BY <1>0, <1>1, <1>2, <2>1, SizeAssumption DEF AckTimeout, Rewind, LinkTypeOK
<1>3. CASE AckTimeoutFatal
  BY <1>0, <1>3, Zenon DEF AckTimeoutFatal, LinkTypeOK
<1>4. CASE DoneTimeout
  <2>1. in_retransmit' \in BOOLEAN
    BY <1>4, Zenon DEF DoneTimeout
  <2>2. dataLink' \in Seq(ToReceiver)
    BY <1>0, <1>4, LinkSteps, FrameTypes, Zenon DEF DoneTimeout
  <2> QED
    BY <1>0, <1>1, <1>4, <2>1, <2>2 DEF DoneTimeout, LinkTypeOK
<1>5. CASE DoneTimeoutFatal
  BY <1>0, <1>5 DEF DoneTimeoutFatal, LinkTypeOK
<1> QED
  BY <1>2, <1>3, <1>4, <1>5, Zenon DEF SenderTimeout

\* Each handler of the receiver keeps its types
LEMMA ReceiverType ==
    ASSUME LinkTypeOK, ReceiverTypeOK,
           ReceiverReads \/ ReceiverCancels \/ RecvDamaged \/ ReceiverTimeout
    PROVE  LinkTypeOK' /\ ReceiverTypeOK'
<1> DEFINE Counters == losses' \in 0..MaxLoss /\ dups' \in 0..MaxDup
<1>1. \A r : Take(r) => dataLink' \in Seq(ToReceiver) /\ Packet \in ToReceiver
  BY LinkSteps DEF Take, Packet
<1>2. ASSUME NEW t \in Seq(ToSender), Reply(t) PROVE ackLink' \in Seq(ToSender)
  BY <1>2, LinkSteps, Zenon DEF Reply
<1>3. ASSUME TakeData
      PROVE  /\ dataLink' \in Seq(ToReceiver)
             /\ Packet.off \in Nat \cup {IMPLIED}
             /\ Packet.src \in Nat
             /\ Packet.len \in Nat \ {0}
             /\ rtries' \in 0..255
             /\ delivered' \in BOOLEAN
             /\ Counters
  BY <1>1, <1>3, FrameFields, ReceiverRetryAssumption, Zenon
     DEF TakeData, ReceiverTypeOK, LinkTypeOK
<1>4. CASE StartReceive \/ ReceiverCancel
  <2>1. ackLink' \in Seq(ToSender)
    BY <1>4, LinkSteps, FrameTypes, Zenon DEF StartReceive, ReceiverCancel, LinkTypeOK, linkVars
  <2> QED
    BY <1>4, <2>1, Zenon DEF StartReceive, ReceiverCancel, LinkTypeOK, ReceiverTypeOK,
                      ReceiverStates, ReceiverActive, linkVars
<1>5. CASE RecvDataInOrder \/ RecvDataInOrderCancel
  <2>1. TakeData /\ Write
    BY <1>5 DEF RecvDataInOrder, RecvDataInOrderCancel
  <2>2. written' \in Nat /\ file' \in [0..(written' - 1) -> Nat]
    BY <1>3, <2>1, WriteType
  <2>3. ackLink' \in Seq(ToSender)
    BY <1>2, <1>5, <2>2, FrameTypes, Zenon DEF RecvDataInOrder, RecvDataInOrderCancel
  <2>4. rpc' \in ReceiverStates
    BY <1>5 DEF RecvDataInOrder, RecvDataInOrderCancel, ReceiverStates, ReceiverActive
  <2> QED
    BY <1>3, <2>1, <2>2, <2>3, <2>4, Zenon DEF LinkTypeOK, ReceiverTypeOK
<1>6. CASE RecvDataDup \/ RecvDataAhead \/ RecvDataOutOfOrderCancel
  <2>1. TakeData /\ UNCHANGED <<written, file>>
    BY <1>6 DEF RecvDataDup, RecvDataAhead, RecvDataOutOfOrderCancel
  <2>2. OutOfOrderReply \in Seq(ToSender) /\ OutOfOrderReply \o Cancels \in Seq(ToSender)
    BY FrameTypes DEF OutOfOrderReply, ReceiverTypeOK
  <2>3. ackLink' \in Seq(ToSender)
    BY <1>2, <1>6, <2>2, Zenon DEF RecvDataDup, RecvDataAhead, RecvDataOutOfOrderCancel
  <2>4. rpc' \in ReceiverStates
    BY <1>6, Zenon DEF RecvDataDup, RecvDataAhead, RecvDataOutOfOrderCancel, ReceiverTypeOK,
                ReceiverStates, ReceiverActive
  <2> QED
    BY <1>3, <2>1, <2>3, <2>4, Zenon DEF LinkTypeOK, ReceiverTypeOK
<1>7. CASE RecvDone \/ RecvDoneCancel
  <2>1. DoneArrives
    BY <1>7 DEF RecvDone, RecvDoneCancel
  <2>2. ackLink' \in Seq(ToSender)
    BY <1>2, <1>7, FrameTypes, Zenon DEF RecvDone, RecvDoneCancel
  <2>3. rpc' \in ReceiverStates
    BY <1>7 DEF RecvDone, RecvDoneCancel, ReceiverStates, ReceiverActive
  <2>4. delivered' \in BOOLEAN
    BY <2>1, Zenon DEF DoneArrives
  <2> QED
    BY <1>1, <2>1, <2>2, <2>3, <2>4, ReceiverRetryAssumption, Zenon
       DEF DoneArrives, LinkTypeOK, ReceiverTypeOK
<1>8. CASE RecvCancelFromSender \/ RecvWhileMeta
  BY <1>1, <1>8, Zenon DEF RecvCancelFromSender, RecvWhileMeta, LinkTypeOK, ReceiverTypeOK,
                    ReceiverStates, ReceiverActive
<1>9. Retry => rtries' \in 0..255 /\ rpc' \in ReceiverStates
  <2>1. rtries \in 0..255 /\ rpc \in ReceiverStates /\ "fail" \in ReceiverStates
    BY DEF ReceiverTypeOK, ReceiverStates
  <2>2. Retry => rtries' \in 0..255
    BY <2>1 DEF Retry
  <2>3. Retry => rpc' \in ReceiverStates
    BY <2>1 DEF Retry
  <2> QED
    BY <2>2, <2>3
<1>10. CASE RecvDamaged
  <2>1. /\ dataLink' \in Seq(ToReceiver)
        /\ rtries' \in 0..255
        /\ rpc' \in ReceiverStates
    BY <1>1, <1>9, <1>10, Zenon DEF RecvDamaged, ReceiverTypeOK, ReceiverStates, ReceiverActive
  <2> QED
    BY <1>10, <2>1, EnvAssumption DEF RecvDamaged, LinkTypeOK, ReceiverTypeOK
<1>11. CASE ReceiverTimeout
  BY <1>9, <1>11 DEF ReceiverTimeout, LinkTypeOK, ReceiverTypeOK, linkVars
<1> QED
  BY <1>4, <1>5, <1>6, <1>7, <1>8, <1>10, <1>11 DEF ReceiverReads, ReceiverCancels

\* Every step of the composition is a step of one side that leaves the other
\* alone, a fault of the transport or a stutter
LEMMA StepCases ==
    ASSUME [Next]_vars
    PROVE  \/ /\ SenderLocal \/ SenderReads \/ SenderTimeout \/ SenderCancels
              /\ UNCHANGED receiverVars
           \/ /\ ReceiverReads \/ ReceiverCancels \/ RecvDamaged \/ ReceiverTimeout
              /\ UNCHANGED senderVars
           \/ LinkNext /\ UNCHANGED <<senderVars, receiverVars>>
           \/ UNCHANGED vars
  BY DEF Next, SenderStep, ReceiverStep, EnvStep, Terminated

\* Every step keeps the types
LEMMA TypeStep == TypeInv /\ [Next]_vars => TypeInv'
<1> SUFFICES ASSUME TypeInv, [Next]_vars PROVE TypeInv'
  OBVIOUS
<1> USE DEF TypeInv, TypeOK
<1>1. CASE /\ SenderLocal \/ SenderReads \/ SenderTimeout \/ SenderCancels
           /\ UNCHANGED receiverVars
  <2>1. SenderTypeInv'
    BY <1>1, SenderLocalType, SenderReadsType, SenderTimeoutType, Zenon DEF SenderTypeInv
  <2>2. ReceiverTypeOK'
    BY <1>1, Zenon DEF ReceiverTypeOK, receiverVars
  <2> QED
    BY <2>1, <2>2 DEF SenderTypeInv
<1>2. CASE /\ ReceiverReads \/ ReceiverCancels \/ RecvDamaged \/ ReceiverTimeout
           /\ UNCHANGED senderVars
  <2>1. LinkTypeOK' /\ ReceiverTypeOK'
    BY <1>2, ReceiverType, Zenon
  <2> QED
    BY <1>2, <2>1 DEF senderVars, windowVars, aimdVars, SenderTypeOK
<1>3. CASE LinkNext /\ UNCHANGED <<senderVars, receiverVars>>
  <2>1. LinkTypeOK'
    BY <1>3, LinkSteps, Zenon
  <2> QED
    BY <1>3, <2>1 DEF senderVars, windowVars, aimdVars, SenderTypeOK,
                      receiverVars, ReceiverTypeOK
<1>4. CASE UNCHANGED vars
  BY <1>4 DEF vars, senderVars, windowVars, aimdVars, linkVars, receiverVars,
              LinkTypeOK, SenderTypeOK, ReceiverTypeOK
<1> QED
  BY <1>1, <1>2, <1>3, <1>4, StepCases

\* Every variable of the data phase keeps its type and range, whatever is lost,
\* repeated, cancelled or timed out: in particular the sender never reads beyond
\* its file and the window stays between one packet and the negotiated size
THEOREM TypeCorrect == Spec => []TypeInv
  BY TypeInit, TypeStep, PTL DEF Spec

-----------------------------------------------------------------------------
(* Acknowledgements never run ahead of the receiver, with any window.      *)

\* The answers that cover nothing beyond w
Covered(w) ==
    {m \in ToSender : m.type \in {"DATA_ACK", "DATA_NAK"} => m.off <= w}

AckedInv ==
    /\ TypeInv
    /\ last_acked <= written
    /\ ackLink \in Seq(Covered(written))

\* An answer on its way stays covered when the receiver writes more
LEMMA CoveredGrows ==
    ASSUME NEW w \in Nat, NEW v \in Nat, w <= v, NEW s \in Seq(Covered(w))
    PROVE  s \in Seq(Covered(v))
<1>1. \A m \in Covered(w) : m \in Covered(v)
  <2> SUFFICES ASSUME NEW m \in ToSender, m.type \in {"DATA_ACK", "DATA_NAK"},
                      m.off <= w
               PROVE  m.off <= v
    BY Zenon DEF Covered
  <2>1. m.off \in Nat
    BY FrameFields
  <2> QED
    BY <2>1
<1> QED
  BY <1>1

\* The answers the receiver sends cover what it has written
LEMMA CoveredAnswers ==
    ASSUME NEW w \in Nat
    PROVE  /\ Cancels \in Seq(Covered(w))
           /\ <<DoneAck>> \in Seq(Covered(w))
           /\ <<DoneAck>> \o Cancels \in Seq(Covered(w))
           /\ <<DataAck(w)>> \in Seq(Covered(w))
           /\ <<DataNak(w), DataAck(w)>> \in Seq(Covered(w))
           /\ <<DataAck(w)>> \o Cancels \in Seq(Covered(w))
           /\ <<DataNak(w), DataAck(w)>> \o Cancels \in Seq(Covered(w))
<1>1. DoneAck \in Covered(w) /\ Cancel \in Covered(w)
  BY Zenon DEF Covered, ToSender, DoneAck, Cancel
<1>2. DataAck(w) \in Covered(w) /\ DataNak(w) \in Covered(w)
  BY DEF Covered, ToSender, Feedback, DataAck, DataNak
<1>3. /\ Cancels \in Seq(Covered(w))
      /\ <<DoneAck>> \in Seq(Covered(w))
      /\ <<DataAck(w)>> \in Seq(Covered(w))
      /\ <<DataNak(w), DataAck(w)>> \in Seq(Covered(w))
  BY <1>1, <1>2 DEF Cancels
<1>4. \A s \in Seq(Covered(w)) : s \o Cancels \in Seq(Covered(w))
  BY <1>3, LinkFacts, Zenon
<1> QED
  BY <1>3, <1>4, Zenon

\* The sender acts on the offset of an answer it has read, or on none, and takes
\* back no acknowledgement
LEMMA SenderActsOnAnswers ==
    ASSUME LinkTypeOK, SenderTypeOK, NEW w \in Nat, last_acked <= w, ackLink \in Seq(Covered(w)),
           SenderLocal \/ SenderReads \/ SenderTimeout \/ SenderCancels
    PROVE  /\ last_acked' <= w
           /\ last_acked <= last_acked'
           /\ ackLink' \in Seq(Covered(w))
<1>1. last_acked \in Nat
  BY DEF SenderTypeOK
<1>2. ackLink # <<>> => /\ Tail(ackLink) \in Seq(Covered(w))
                        /\ Head(ackLink) \in Covered(w)
  BY LinkFacts, Zenon
<1>3. ackLink # <<>> /\ Head(ackLink).type \in {"DATA_ACK", "DATA_NAK"}
        => Head(ackLink).off <= w /\ Head(ackLink).off \in Nat
  BY <1>2, LinkSteps, FrameFields DEF Covered
<1>4. CASE UNCHANGED <<last_acked, ackLink>>
  BY <1>1, <1>4
<1>5. CASE ackLink # <<>> /\ ackLink' = Tail(ackLink) /\ last_acked' = last_acked
  BY <1>1, <1>2, <1>5
<1>6. CASE /\ ackLink # <<>> /\ ackLink' = Tail(ackLink)
           /\ Head(ackLink).type \in {"DATA_ACK", "DATA_NAK"}
           /\ \/ last_acked' = last_acked
              \/ last_acked' = Head(ackLink).off /\ ~(Head(ackLink).off <= last_acked)
  BY <1>1, <1>2, <1>3, <1>6
<1>7. CASE SenderLocal
  BY <1>4, <1>7, Zenon DEF SenderLocal, StartWindow, SendDone, SendData, StartWait, windowVars,
                    linkVars
<1>8. CASE SenderTimeout
  BY <1>4, <1>8, Zenon DEF SenderTimeout, AckTimeout, AckTimeoutFatal, DoneTimeout,
                    DoneTimeoutFatal, windowVars, linkVars
<1>9. CASE SenderCancels
  BY <1>4, <1>6, <1>9, Zenon DEF SenderCancels, SenderCancel, RecvAckCancel, Read, HeadIs,
                          Stale, windowVars
<1>10. CASE RecvNak
  <2>1. /\ ackLink # <<>> /\ ackLink' = Tail(ackLink)
        /\ Head(ackLink).type = "DATA_NAK"
        /\ last_acked' = AdoptNak(Head(ackLink).off)
    BY <1>10, Zenon DEF RecvNak, Read, HeadIs
  <2> QED
    BY <1>1, <1>3, <1>6, <2>1 DEF AdoptNak
<1>11. CASE SenderReads /\ ~RecvNak
  BY <1>5, <1>6, <1>11 DEF SenderReads, RecvAckPartial, RecvAckWindow, RecvAckStale,
       AckAdvances, RecvCancel, RecvDoneAck, RecvWhileDone, Read, HeadIs, Stale,
       windowVars, senderVars
<1> QED
  BY <1>7, <1>8, <1>9, <1>10, <1>11, Zenon

\* The receiver answers with no more than it has written by then
LEMMA ReceiverAnswersWritten ==
    ASSUME AckedInv, TypeInv',
           ReceiverReads \/ ReceiverCancels \/ RecvDamaged \/ ReceiverTimeout
    PROVE  written <= written' /\ ackLink' \in Seq(Covered(written'))
<1>1. written \in Nat /\ written' \in Nat
  BY DEF AckedInv, TypeInv, TypeOK, ReceiverTypeOK
<1>2. ASSUME written <= written',
             \/ ackLink' = ackLink
             \/ \E t \in Seq(Covered(written')) : ackLink' = ackLink \o t
      PROVE  written <= written' /\ ackLink' \in Seq(Covered(written'))
  <2>1. ackLink \in Seq(Covered(written'))
    BY <1>1, <1>2, CoveredGrows DEF AckedInv
  <2> QED
    BY <1>2, <2>1, LinkFacts, Zenon
<1>3. CASE \/ StartReceive \/ RecvCancelFromSender \/ RecvWhileMeta \/ RecvDamaged
           \/ ReceiverTimeout
  <2>1. written' = written /\ ackLink' = ackLink
    BY <1>3, Zenon DEF StartReceive, RecvCancelFromSender, RecvWhileMeta, RecvDamaged,
                ReceiverTimeout, linkVars
  <2> QED
    BY <1>1, <1>2, <2>1
<1>4. CASE RecvDataInOrder \/ RecvDataInOrderCancel
  <2>1. Packet.len \in Nat
    <3>1. LinkTypeOK
      BY DEF AckedInv, TypeInv, TypeOK
    <3>2. Packet \in ToReceiver /\ Packet.type = "DATA"
      BY <1>4, <3>1, LinkSteps
         DEF RecvDataInOrder, RecvDataInOrderCancel, TakeData, Take, Packet
    <3> QED
      BY <3>2, FrameFields
  <2>2. written <= written'
    BY <1>1, <1>4, <2>1 DEF RecvDataInOrder, RecvDataInOrderCancel, Write
  <2>3. \E t \in Seq(Covered(written')) : ackLink' = ackLink \o t
    BY <1>1, <1>4, CoveredAnswers, Zenon DEF RecvDataInOrder, RecvDataInOrderCancel, Reply
  <2> QED
    BY <1>2, <2>2, <2>3, Zenon
<1>5. CASE \/ RecvDataDup \/ RecvDataAhead \/ RecvDataOutOfOrderCancel
           \/ RecvDone \/ RecvDoneCancel \/ ReceiverCancel
  <2>1. written' = written
    BY <1>5 DEF RecvDataDup, RecvDataAhead, RecvDataOutOfOrderCancel, RecvDone,
                RecvDoneCancel, DoneArrives, ReceiverCancel
  <2>2. OutOfOrderReply \in Seq(Covered(written))
        /\ OutOfOrderReply \o Cancels \in Seq(Covered(written))
    BY <1>1, CoveredAnswers, Zenon DEF OutOfOrderReply
  <2>3. \E t \in Seq(Covered(written)) : ackLink' = ackLink \o t
    BY <1>1, <1>5, <2>2, CoveredAnswers, Zenon
       DEF RecvDataDup, RecvDataAhead, RecvDataOutOfOrderCancel, RecvDone,
           RecvDoneCancel, ReceiverCancel, Reply
  <2>4. \E t \in Seq(Covered(written')) : ackLink' = ackLink \o t
    BY <2>1, <2>3, Zenon
  <2>5. written <= written'
    BY <1>1, <2>1
  <2> QED
    BY <1>2, <2>4, <2>5, Zenon
<1> QED
  BY <1>3, <1>4, <1>5, Zenon DEF ReceiverReads, ReceiverCancels

\* Every step keeps it
LEMMA AckedStep == AckedInv /\ [Next]_vars => AckedInv'
<1> SUFFICES ASSUME AckedInv, [Next]_vars PROVE AckedInv'
  OBVIOUS
<1>1. TypeInv'
  BY TypeStep DEF AckedInv
<1>2. last_acked \in Nat /\ written \in Nat /\ written' \in Nat
  BY <1>1, Zenon DEF AckedInv, TypeInv, TypeOK, SenderTypeOK, ReceiverTypeOK
<1>3. CASE /\ SenderLocal \/ SenderReads \/ SenderTimeout \/ SenderCancels
           /\ UNCHANGED receiverVars
  <2>1. last_acked' <= written /\ ackLink' \in Seq(Covered(written))
    BY <1>2, <1>3, SenderActsOnAnswers, Zenon DEF AckedInv, TypeInv, TypeOK
  <2> QED
    BY <1>1, <1>3, <2>1 DEF AckedInv, receiverVars
<1>4. CASE /\ ReceiverReads \/ ReceiverCancels \/ RecvDamaged \/ ReceiverTimeout
           /\ UNCHANGED senderVars
  <2>1. written <= written' /\ ackLink' \in Seq(Covered(written'))
    BY <1>1, <1>4, ReceiverAnswersWritten
  <2>2. last_acked' = last_acked
    BY <1>4 DEF senderVars, windowVars
  <2> QED
    BY <1>1, <1>2, <2>1, <2>2 DEF AckedInv
<1>5. CASE LinkNext /\ UNCHANGED <<senderVars, receiverVars>>
  <2>1. last_acked' = last_acked /\ written' = written
    BY <1>5, Zenon DEF senderVars, windowVars, receiverVars
  <2>2. ackLink' \in Seq(Covered(written))
    BY <1>5, LinkFacts, Zenon DEF LinkNext, LoseData, LoseAck, DupData, DupAck, AckedInv
  <2> QED
    BY <1>1, <2>1, <2>2, Zenon DEF AckedInv
<1>6. CASE UNCHANGED vars
  BY <1>1, <1>6, Zenon DEF vars, senderVars, windowVars, receiverVars, linkVars, AckedInv
<1> QED
  BY <1>3, <1>4, <1>5, <1>6, StepCases, Zenon

\* With any window and whatever is lost, repeated or resent, the sender never
\* counts as acknowledged, and no DATA_ACK or DATA_NAK on its way covers, what the
\* receiver has not written
THEOREM AckedAlwaysWritten == Spec => []AckedIsWritten
<1>1. Init => AckedInv
  <2> SUFFICES ASSUME Init PROVE AckedInv
    OBVIOUS
  <2>1. TypeInv
    BY TypeInit
  <2> QED
    BY <2>1, SizeAssumption DEF AckedInv, Init, LinkInit, SenderInit, ReceiverInit
<1>2. AckedInv => AckedIsWritten
  <2> SUFFICES ASSUME AckedInv, NEW i \in DOMAIN ackLink,
                      ackLink[i].type \in {"DATA_ACK", "DATA_NAK"}
               PROVE  ackLink[i].off <= written
    BY Zenon DEF AckedIsWritten, AckedInv
  <2>1. ackLink[i] \in Covered(written)
    BY DEF AckedInv
  <2> QED
    BY <2>1 DEF Covered
<1> QED
  BY <1>1, <1>2, AckedStep, PTL DEF Spec

-----------------------------------------------------------------------------
(* The receiver never meets a packet from ahead, with any window.          *)

\* DATA that claims no position beyond w, and the frames without a position
NotBeyond(w) == {m \in ToReceiver : m.type = "DATA" => m.off <= w}

NoNaks == {m \in ToSender : m.type # "DATA_NAK"}

AheadInv ==
    /\ AckedInv
    /\ dataLink \in Seq(NotBeyond(written))
    /\ ackLink \in Seq(NoNaks)

\* A packet on its way stays behind a receiver that writes more
LEMMA NotBeyondGrows ==
    ASSUME NEW w \in Nat, NEW v \in Nat, w <= v, NEW s \in Seq(NotBeyond(w))
    PROVE  s \in Seq(NotBeyond(v))
<1>1. \A m \in NotBeyond(w) : m \in NotBeyond(v)
  <2> SUFFICES ASSUME NEW m \in ToReceiver, m.type = "DATA", m.off <= w
               PROVE  m.off <= v
    BY Zenon DEF NotBeyond
  <2>1. m.off \in Nat \cup {IMPLIED}
    BY FrameFields
  <2>2. m.off \in Int
    BY <2>1 DEF IMPLIED
  <2> QED
    BY <2>2
<1> QED
  BY <1>1

\* The answers of the receiver but DATA_NAK
LEMMA AnswersWithoutNak ==
    ASSUME NEW w \in Nat
    PROVE  /\ Cancels \in Seq(NoNaks)
           /\ <<DoneAck>> \in Seq(NoNaks)
           /\ <<DoneAck>> \o Cancels \in Seq(NoNaks)
           /\ <<DataAck(w)>> \in Seq(NoNaks)
           /\ <<DataAck(w)>> \o Cancels \in Seq(NoNaks)
<1>1. DoneAck \in NoNaks /\ Cancel \in NoNaks
  BY Zenon DEF NoNaks, ToSender, DoneAck, Cancel
<1>2. DataAck(w) \in NoNaks
  BY DEF NoNaks, ToSender, Feedback, DataAck
<1>3. /\ Cancels \in Seq(NoNaks)
      /\ <<DoneAck>> \in Seq(NoNaks)
      /\ <<DataAck(w)>> \in Seq(NoNaks)
  BY <1>1, <1>2 DEF Cancels
<1>4. \A s \in Seq(NoNaks) : s \o Cancels \in Seq(NoNaks)
  BY <1>3, LinkFacts
<1> QED
  BY <1>3, <1>4, Zenon

\* The sender gives a packet an offset only when it is last_acked
LEMMA SenderNotAhead ==
    ASSUME AheadInv, SenderLocal \/ SenderReads \/ SenderTimeout \/ SenderCancels
    PROVE  dataLink' \in Seq(NotBeyond(written)) /\ ackLink' \in Seq(NoNaks)
<1>1. /\ last_acked \in Nat /\ written \in Nat /\ last_acked <= written
      /\ SenderTypeOK
  BY DEF AheadInv, AckedInv, TypeInv, TypeOK, SenderTypeOK, ReceiverTypeOK
<1>2. ackLink' \in Seq(NoNaks)
  <2>1. ackLink' = ackLink \/ (ackLink # <<>> /\ ackLink' = Tail(ackLink))
    BY Zenon DEF SenderLocal, StartWindow, SendDone, SendData, StartWait, SenderTimeout,
       AckTimeout, AckTimeoutFatal, DoneTimeout, DoneTimeoutFatal, SenderCancels,
       SenderCancel, RecvAckCancel, SenderReads, RecvAckPartial, RecvAckWindow,
       RecvAckStale, AckAdvances, RecvNak, RecvCancel, RecvDoneAck, RecvWhileDone,
       Read, linkVars
  <2> QED
    BY <2>1, LinkFacts DEF AheadInv
<1>3. Done \in NotBeyond(written) /\ Cancels \in Seq(NotBeyond(written))
  <2>1. Done \in NotBeyond(written) /\ Cancel \in NotBeyond(written)
    BY DEF NotBeyond, ToReceiver, Done, Cancel
  <2> QED
    BY <2>1 DEF Cancels
<1>4. CASE SendData
  <2>1. ToRead(IncludeOffset) \in 1..(FileSize - next_to_send)
    BY <1>1, <1>4, ToReadType, Zenon DEF SendData, IncludeOffset
  <2> DEFINE m == Data(IF IncludeOffset THEN next_to_send ELSE IMPLIED, next_to_send,
                       ToRead(IncludeOffset))
  <2>2. next_to_send \in Nat
    BY <1>1, SizeAssumption DEF SenderTypeOK
  <2>3. m \in ToReceiver
    BY <2>1, <2>2, FrameTypes, SizeAssumption DEF IMPLIED
  <2>4. m.off <= written
    BY <1>1, <2>2 DEF Data, IncludeOffset, IMPLIED
  <2>5. m \in NotBeyond(written)
    BY <2>3, <2>4 DEF NotBeyond
  <2>6. dataLink' = Append(dataLink, m)
    BY <1>4, Zenon DEF SendData
  <2> HIDE DEF m
  <2> QED
    BY <1>2, <2>5, <2>6, LinkFacts, Zenon DEF AheadInv
<1>5. CASE ~SendData
  <2>1. \/ dataLink' = dataLink
        \/ dataLink' = Append(dataLink, Done)
        \/ dataLink' = dataLink \o Cancels
    BY <1>5, Zenon DEF SenderLocal, StartWindow, SendDone, StartWait, SenderTimeout,
       AckTimeout, AckTimeoutFatal, DoneTimeout, DoneTimeoutFatal, SenderCancels,
       SenderCancel, RecvAckCancel, SenderReads, RecvAckPartial, RecvAckWindow,
       RecvAckStale, AckAdvances, RecvNak, RecvCancel, RecvDoneAck, RecvWhileDone,
       Read, linkVars
  <2> QED
    BY <1>2, <1>3, <2>1, LinkFacts, Zenon DEF AheadInv
<1> QED
  BY <1>4, <1>5, Zenon

\* So the receiver never answers with DATA_NAK
LEMMA ReceiverNeverNaks ==
    ASSUME AheadInv, TypeInv',
           ReceiverReads \/ ReceiverCancels \/ RecvDamaged \/ ReceiverTimeout
    PROVE  dataLink' \in Seq(NotBeyond(written')) /\ ackLink' \in Seq(NoNaks)
<1>1. written \in Nat /\ written' \in Nat /\ AckedInv
  BY DEF AheadInv, AckedInv, TypeInv, TypeOK, ReceiverTypeOK
<1>2. dataLink' \in Seq(NotBeyond(written'))
  <2>1. written <= written'
    BY <1>1, ReceiverAnswersWritten, Zenon
  <2>2. dataLink' = dataLink \/ (dataLink # <<>> /\ dataLink' = Tail(dataLink))
    BY DEF ReceiverReads, ReceiverCancels, RecvDamaged, ReceiverTimeout, StartReceive,
       RecvDataInOrder, RecvDataDup, RecvDataAhead, RecvDone, RecvCancelFromSender,
       RecvWhileMeta, ReceiverCancel, RecvDataInOrderCancel, RecvDataOutOfOrderCancel,
       RecvDoneCancel, TakeData, DoneArrives, Take, linkVars
  <2>3. dataLink' \in Seq(NotBeyond(written))
    BY <2>2, LinkFacts, Zenon DEF AheadInv
  <2> QED
    BY <1>1, <2>1, <2>3, NotBeyondGrows
<1>3. TakeData => EffOff <= written
  <2>1. ASSUME TakeData PROVE Packet \in NotBeyond(written) /\ Packet.type = "DATA"
    BY <2>1, LinkFacts, Zenon DEF AheadInv, TakeData, Take, Packet
  <2> QED
    BY <1>1, <2>1 DEF NotBeyond, EffOff
<1>4. TakeData => Packet.off \in Nat \cup {IMPLIED}
  <2>1. LinkTypeOK
    BY <1>1, Zenon DEF AckedInv, TypeInv, TypeOK
  <2> QED
    BY <2>1, LinkSteps, FrameFields, Zenon DEF TakeData, Take, Packet
<1>5. ASSUME \/ ackLink' = ackLink
             \/ \E t \in Seq(NoNaks) : ackLink' = ackLink \o t
      PROVE  ackLink' \in Seq(NoNaks)
  BY <1>5, LinkFacts, Zenon DEF AheadInv
<1>6. CASE \/ StartReceive \/ RecvCancelFromSender \/ RecvWhileMeta \/ RecvDamaged
           \/ ReceiverTimeout
  BY <1>2, <1>5, <1>6, Zenon DEF StartReceive, RecvCancelFromSender, RecvWhileMeta, RecvDamaged,
                          ReceiverTimeout, linkVars
<1>7. CASE \/ RecvDataInOrder \/ RecvDataInOrderCancel
           \/ RecvDone \/ RecvDoneCancel \/ ReceiverCancel
  <2>1. \E t \in Seq(NoNaks) : ackLink' = ackLink \o t
    BY <1>1, <1>7, AnswersWithoutNak, Zenon
       DEF RecvDataInOrder, RecvDataInOrderCancel, RecvDone, RecvDoneCancel,
           ReceiverCancel, Reply
  <2> QED
    BY <1>2, <1>5, <2>1, Zenon
<1>8. CASE RecvDataDup \/ RecvDataAhead \/ RecvDataOutOfOrderCancel
  <2>1. TakeData /\ EffOff # written
    BY <1>1, <1>4, <1>8 DEF RecvDataDup, RecvDataAhead, RecvDataOutOfOrderCancel,
                            EffOff, IMPLIED
  <2>2. EffOff < written
    BY <1>1, <1>3, <1>4, <2>1 DEF EffOff, IMPLIED
  <2>3. OutOfOrderReply = <<DataAck(written)>>
    BY <2>2 DEF OutOfOrderReply
  <2>4. \E t \in Seq(NoNaks) : ackLink' = ackLink \o t
    BY <1>1, <1>8, <2>3, AnswersWithoutNak, Zenon
       DEF RecvDataDup, RecvDataAhead, RecvDataOutOfOrderCancel, Reply
  <2> QED
    BY <1>2, <1>5, <2>4
<1> QED
  BY <1>6, <1>7, <1>8, Zenon DEF ReceiverReads, ReceiverCancels

\* The links are empty at first
LEMMA AheadInit == Init => AheadInv
<1> SUFFICES ASSUME Init PROVE AheadInv
  OBVIOUS
<1>1. TypeInv
  BY TypeInit
<1> QED
  BY <1>1, SizeAssumption DEF AheadInv, AckedInv, Init, LinkInit, SenderInit, ReceiverInit

\* Every step keeps the frames within what the receiver has reached
LEMMA AheadStep == AheadInv /\ [Next]_vars => AheadInv'
<1> SUFFICES ASSUME AheadInv, [Next]_vars PROVE AheadInv'
  OBVIOUS
<1>1. AckedInv' /\ TypeInv'
  BY AckedStep, Zenon DEF AheadInv, AckedInv
<1>2. CASE /\ SenderLocal \/ SenderReads \/ SenderTimeout \/ SenderCancels
           /\ UNCHANGED receiverVars
  BY <1>1, <1>2, SenderNotAhead, Zenon DEF AheadInv, receiverVars
<1>3. CASE /\ ReceiverReads \/ ReceiverCancels \/ RecvDamaged \/ ReceiverTimeout
           /\ UNCHANGED senderVars
  BY <1>1, <1>3, ReceiverNeverNaks DEF AheadInv
<1>4. CASE LinkNext /\ UNCHANGED <<senderVars, receiverVars>>
  <2>1. written' = written
    BY <1>4, Zenon DEF receiverVars
  <2>2. dataLink' \in Seq(NotBeyond(written)) /\ ackLink' \in Seq(NoNaks)
    BY <1>4, LinkFacts, Zenon DEF LinkNext, LoseData, LoseAck, DupData, DupAck, AheadInv
  <2> QED
    BY <1>1, <2>1, <2>2 DEF AheadInv
<1>5. CASE UNCHANGED vars
  BY <1>1, <1>5, Zenon DEF vars, receiverVars, linkVars, AheadInv
<1> QED
  BY <1>2, <1>3, <1>4, <1>5, StepCases

\* Between two instances of this implementation, with any window and whatever is
\* lost, repeated or resent, no DATA frame names a position that the receiver has
\* not reached, and the sender_ahead branch of the data loop, with its DATA_NAK, is
\* never taken
THEOREM ReceiverNeverBehind == Spec => []NeverAhead
<1>1. AheadInv => NeverAhead
  <2> SUFFICES ASSUME AheadInv PROVE NeverAhead
    OBVIOUS
  <2>1. \A i \in DOMAIN dataLink : dataLink[i] \in NotBeyond(written)
    BY DEF AheadInv
  <2>2. \A i \in DOMAIN ackLink : ackLink[i] \in NoNaks
    BY DEF AheadInv
  <2> QED
    BY <2>1, <2>2, Zenon DEF NeverAhead, NotBeyond, NoNaks
<1> QED
  BY <1>1, AheadInit, AheadStep, PTL DEF Spec

-----------------------------------------------------------------------------
(* Faithful reports implement FileDelivery.                                *)

\* What makes the reports of the two sides true of the receiver's copy
Faithful ==
    /\ TypeInv
    /\ FileIntegrity
    /\ DeliveredMeansWhole
    /\ spc = "ok" => delivered

\* The copy is a prefix of the file
LEMMA CopyIsPrefix ==
    ASSUME Faithful
    PROVE  /\ file = Delivery!Prefix(written)
           /\ written \in 0..FileSize
           /\ DOMAIN file = 0..(written - 1)
<1>1. written \in Nat /\ file \in [0..(written - 1) -> Nat]
  BY Zenon DEF Faithful, TypeInv, TypeOK, ReceiverTypeOK
<1>2. written <= FileSize /\ \A p \in 0..(written - 1) : file[p] = p
  BY DEF Faithful, FileIntegrity
<1>3. file = [p \in 0..(written - 1) |-> p]
  BY <1>1, <1>2, Zenon
<1> QED
  BY <1>1, <1>2, <1>3, SizeAssumption DEF Delivery!Prefix

\* The same of the next state
LEMMA CopyIsPrefixNext ==
    ASSUME Faithful'
    PROVE  file' = Delivery!Prefix(written') /\ written' \in 0..FileSize
<1>1. written' \in Nat /\ file' \in [0..(written' - 1) -> Nat]
  BY Zenon DEF Faithful, TypeInv, TypeOK, ReceiverTypeOK
<1>2. written' <= FileSize /\ \A p \in 0..(written' - 1) : file'[p] = p
  BY Zenon DEF Faithful, FileIntegrity
<1>3. file' = [p \in 0..(written' - 1) |-> p]
  BY <1>1, <1>2, Zenon
<1> QED
  BY <1>1, <1>2, <1>3, SizeAssumption DEF Delivery!Prefix

\* The initial states map to initial states
LEMMA DeliveryStarts == Init => Delivery!DeliveryInit
  BY DEF Init, SenderInit, ReceiverInit, Delivery!DeliveryInit, Delivery!Prefix,
         SentResult, ReceivedResult, SenderActive, ReceiverActive

\* A step of the sender reports a delivered file, gives up, or is not seen
LEMMA SenderStepMaps ==
    ASSUME Faithful, Faithful', UNCHANGED receiverVars,
           SenderLocal \/ SenderReads \/ SenderTimeout \/ SenderCancels
    PROVE  Delivery!DeliveryNext \/ UNCHANGED Delivery!deliveryVars
<1>1. file' = file /\ ReceivedResult' = ReceivedResult
  BY DEF receiverVars, ReceivedResult
<1>2. spc \in SenderActive
  BY Zenon DEF SenderLocal, SenderReads, SenderTimeout, SenderCancels, SenderActive,
         StartWindow, SendDone, SendData, StartWait, SenderCancel, Read,
         RecvAckPartial, RecvAckWindow, RecvAckCancel, AckAdvances, RecvAckStale, RecvNak,
         RecvCancel, RecvDoneAck, RecvWhileDone,
         AckTimeout, AckTimeoutFatal, DoneTimeout, DoneTimeoutFatal
<1>3. SentResult = "running"
  BY <1>2 DEF SentResult, SenderActive
<1>4. CASE spc' = "ok"
  <2>1. delivered'
    BY <1>4, Zenon DEF Faithful
  <2>2. ReceivedResult = "ok" /\ SentResult' = "ok"
    BY <1>1, <1>4, <2>1 DEF ReceivedResult, SentResult
  <2>3. Delivery!SenderReports
    BY <1>1, <1>3, <2>2 DEF Delivery!SenderReports
  <2> QED
    BY <2>3 DEF Delivery!DeliveryNext
<1>5. CASE spc' # "ok" /\ spc' \notin SenderActive
  <2>1. Delivery!SenderGivesUp
    BY <1>1, <1>3, <1>5, Zenon DEF Delivery!SenderGivesUp, SentResult
  <2> QED
    BY <2>1 DEF Delivery!DeliveryNext
<1>6. CASE spc' # "ok" /\ spc' \in SenderActive
  BY <1>1, <1>3, <1>6, Zenon DEF Delivery!deliveryVars, SentResult
<1> QED
  BY <1>4, <1>5, <1>6, Zenon

\* A step of the receiver appends to the file only before it has reported it,
\* and takes back no report
LEMMA ReceiverAppends ==
    ASSUME Faithful, Faithful', UNCHANGED senderVars,
           ReceiverReads \/ ReceiverCancels \/ RecvDamaged \/ ReceiverTimeout
    PROVE  /\ rpc \in ReceiverActive
           /\ delivered => delivered' /\ file' = file
           /\ written <= written'
           /\ ~delivered /\ delivered' => file' = file
           /\ \A p \in 0..(written - 1) : file'[p] = file[p]
<1>0. written \in Nat
  BY Zenon DEF Faithful, TypeInv, TypeOK, ReceiverTypeOK
<1>1. CASE RecvDataInOrder \/ RecvDataInOrderCancel
  <2>1. /\ TakeData /\ EffOff = written /\ Write
        /\ rpc = "data" /\ delivered' = delivered
    BY <1>1, Zenon DEF RecvDataInOrder, RecvDataInOrderCancel, TakeData, Take
  <2>2. Packet.type = "DATA" /\ Packet \in ToReceiver
    BY <2>1, LinkSteps DEF TakeData, Take, Packet, Faithful, TypeInv, TypeOK
  <2>3. Packet.len \in Nat \ {0}
    BY <2>2, FrameFields
  <2>4. written' = written + Packet.len
    BY <2>1 DEF Write
  <2>5. written < written'
    BY <1>0, <2>3, <2>4
  <2>6. ~delivered
    <3>1. written' <= FileSize /\ (delivered => written = FileSize)
      BY DEF Faithful, FileIntegrity, DeliveredMeansWhole
    <3> QED
      BY <1>0, <2>3, <2>4, <3>1, SizeAssumption
  <2>7. ASSUME NEW p \in 0..(written - 1) PROVE file'[p] = file[p]
    <3>1. p \in 0..(written + Packet.len - 1) /\ p < written
      BY <1>0, <2>3, <2>7
    <3> QED
      BY <2>1, <3>1, Zenon DEF Write
  <2> QED
    BY <1>0, <2>1, <2>4, <2>5, <2>6, <2>7, <2>3 DEF ReceiverActive
<1>2. CASE \/ StartReceive \/ RecvDataDup \/ RecvDataAhead \/ RecvDataOutOfOrderCancel
           \/ RecvDone \/ RecvDoneCancel \/ ReceiverCancel
           \/ RecvCancelFromSender \/ RecvWhileMeta \/ RecvDamaged \/ ReceiverTimeout
  <2>1. UNCHANGED <<written, file>> /\ (delivered => delivered')
    BY <1>2 DEF StartReceive, RecvDataDup, RecvDataAhead, RecvDataOutOfOrderCancel, TakeData,
                RecvDone, RecvDoneCancel, DoneArrives, ReceiverCancel,
                RecvCancelFromSender, RecvWhileMeta, RecvDamaged, ReceiverTimeout
  <2>2. rpc \in ReceiverActive
    BY <1>2 DEF StartReceive, RecvDataDup, RecvDataAhead, RecvDataOutOfOrderCancel, TakeData,
                RecvDone, RecvDoneCancel, DoneArrives, ReceiverCancel, Take, ReceiverActive,
                RecvCancelFromSender, RecvWhileMeta, RecvDamaged, ReceiverTimeout
  <2> QED
    BY <1>0, <2>1, <2>2
<1> QED
  BY <1>1, <1>2, Zenon DEF ReceiverReads, ReceiverCancels

\* A step of the receiver appends, gives up, reports the whole file, or is not
\* seen
LEMMA ReceiverStepMaps ==
    ASSUME Faithful, Faithful', UNCHANGED senderVars,
           ReceiverReads \/ ReceiverCancels \/ RecvDamaged \/ ReceiverTimeout
    PROVE  Delivery!DeliveryNext \/ UNCHANGED Delivery!deliveryVars
<1>1. SentResult' = SentResult
  BY Zenon DEF senderVars, SentResult
<1>2. /\ rpc \in ReceiverActive
      /\ delivered => delivered' /\ file' = file
      /\ written <= written'
      /\ ~delivered /\ delivered' => file' = file
  BY ReceiverAppends, Zenon
<1>3. CASE delivered
  BY <1>1, <1>2, <1>3 DEF Delivery!deliveryVars, ReceivedResult
<1>4. CASE ~delivered /\ delivered'
  <2>1. DeliveredMeansWhole'
    BY Zenon DEF Faithful
  <2>2. file' = Delivery!Prefix(FileSize)
    BY <1>4, <2>1, CopyIsPrefixNext, Zenon DEF DeliveredMeansWhole
  <2>3. Delivery!ReceiverReports
    BY <1>1, <1>2, <1>4, <2>2 DEF Delivery!ReceiverReports, ReceivedResult
  <2> QED
    BY <2>3 DEF Delivery!DeliveryNext
<1>5. CASE ~delivered /\ ~delivered'
  <2>1. ReceivedResult = "running" /\ ReceivedResult' \in {"running", "failed"}
    BY <1>2, <1>5, Zenon DEF ReceivedResult
  <2>2. /\ file' = Delivery!Prefix(written') /\ written' \in 0..FileSize
        /\ written \in 0..FileSize /\ DOMAIN file = 0..(written - 1)
    BY CopyIsPrefix, CopyIsPrefixNext, Zenon
  <2>3. DOMAIN file \subseteq 0..(written' - 1)
    <3>1. written \in Nat /\ written' \in Nat
      BY <2>2, SizeAssumption
    <3>2. \A p \in 0..(written - 1) : p \in 0..(written' - 1)
      <4>1. \A a, b \in Nat : a <= b => \A p \in 0..(a - 1) : p \in 0..(b - 1)
        OBVIOUS
      <4> QED
        BY <1>2, <3>1, <4>1, Zenon
    <3> QED
      BY <2>2, <3>2, Zenon
  <2>4. Delivery!Store
    BY <1>1, <2>1, <2>2, <2>3, Zenon DEF Delivery!Store
  <2> QED
    BY <2>4, Zenon DEF Delivery!DeliveryNext
<1> QED
  BY <1>3, <1>4, <1>5, Zenon

\* While the reports are faithful every step of the sender, the receiver and the
\* transport is a step of FileDelivery, or changes nothing that the two
\* applications can see
LEMMA FaithfulImplements == Spec /\ []Faithful => ImplementsDelivery
<1>1. ASSUME Faithful, Faithful', [Next]_vars
      PROVE  [Delivery!DeliveryNext]_(Delivery!deliveryVars)
  <2>1. CASE \/ LinkNext /\ UNCHANGED <<senderVars, receiverVars>>
             \/ UNCHANGED vars
    <3>1. UNCHANGED <<file, spc, delivered, rpc>>
      BY <2>1 DEF vars, senderVars, receiverVars
    <3> QED
      BY <3>1 DEF Delivery!deliveryVars, SentResult, ReceivedResult
  <2> QED
    BY <1>1, <2>1, StepCases, SenderStepMaps, ReceiverStepMaps, Zenon
<1>2. Faithful /\ Faithful' /\ [Next]_vars
         => [Delivery!DeliveryNext]_(Delivery!deliveryVars)
  BY <1>1
<1> QED
  BY <1>2, DeliveryStarts, PTL DEF Spec, ImplementsDelivery, Delivery!DeliverySpec

\* And no unit once written is written again
LEMMA FaithfulStable == Spec /\ []Faithful => FileStable
<1> DEFINE Stable == /\ delivered => file' = file
                     /\ \A p \in 0..(written - 1) : file'[p] = file[p]
<1>1. ASSUME Faithful, Faithful', [Next]_vars PROVE Stable
  <2>1. CASE /\ ReceiverReads \/ ReceiverCancels \/ RecvDamaged \/ ReceiverTimeout
             /\ UNCHANGED senderVars
    BY <1>1, <2>1, ReceiverAppends, Zenon
  <2>2. CASE UNCHANGED receiverVars
    BY <2>2, Zenon DEF receiverVars
  <2> QED
    BY <1>1, <2>1, <2>2, StepCases, Zenon DEF vars
<1>2. Faithful /\ Faithful' /\ [Next]_vars => [Stable]_vars
  BY <1>1
<1> HIDE DEF Stable
<1>3. Spec /\ []Faithful => [][Stable]_vars
  BY <1>2, PTL DEF Spec
<1> QED
  BY <1>3, PTL DEF FileStable, Stable

-----------------------------------------------------------------------------
(* Windows of any size over a reliable transport.                          *)

\* The transport loses and repeats nothing, and the timers wait for the answers
\* on their way
Reliable == MaxLoss = 0 /\ MaxDup = 0 /\ ~Premature

\* The head of a row is the next packet in order, and the rest a row behind it
LEMMA RowTail ==
    ASSUME NEW s \in Seq(ToReceiver), NEW w \in Nat, NEW n \in Nat, NEW k \in Nat,
           Row(s, w, n, k), s # <<>>
    PROVE  IF Head(s).type = "DATA"
           THEN /\ Head(s).src = w /\ w + Head(s).len <= n
                /\ Head(s).off \in {IMPLIED, w}
                /\ Row(Tail(s), w + Head(s).len, n, k)
           ELSE Row(Tail(s), w, n, k)
<1> DEFINE t == Tail(s)
<1>1. /\ Len(s) \in Nat /\ Len(s) > 0 /\ Len(t) = Len(s) - 1 /\ Head(s) = s[1]
      /\ \A i \in 1..Len(t) : t[i] = s[i + 1]
  BY HeadTailProperties
<1> HIDE DEF t
<1>2. \A i : i \in 1..Len(t) => i \in 1..Len(s) /\ i + 1 \in 1..Len(s)
  BY <1>1
<1>3. \A i \in 1..Len(s) : /\ IsData(t, i) <=> IsData(s, i + 1)
                           /\ IsData(t, i) => t[i] = s[i + 1]
  BY <1>1 DEF IsData
<1>4. \A i \in 1..Len(s) : IsData(s, i) => s[i].src \in Nat /\ s[i].len \in Nat
  BY FrameFields DEF IsData
<1>5. IsData(s, 1) <=> Head(s).type = "DATA"
  BY <1>1 DEF IsData
<1>6. ASSUME NEW i \in 1..Len(t), IsData(t, i)
      PROVE  /\ i <= k
             /\ t[i].off \in {IMPLIED, t[i].src}
             /\ t[i].src + t[i].len <= n
             /\ ~IsData(t, i + 1) => t[i].src + t[i].len = n
  <2>1. i \in Nat /\ i + 1 \in 1..Len(s) /\ IsData(s, i + 1) /\ t[i] = s[i + 1]
    BY <1>1, <1>2, <1>3, <1>6
  <2>2. IsData(t, i + 1) <=> IsData(s, i + 2)
    BY <1>1, <2>1 DEF IsData
  <2>3. (i + 1) + 1 = i + 2
    BY <2>1
  <2>4. /\ i + 1 <= k
        /\ s[i + 1].off \in {IMPLIED, s[i + 1].src}
        /\ s[i + 1].src + s[i + 1].len <= n
        /\ ~IsData(s, i + 2) => s[i + 1].src + s[i + 1].len = n
    BY <2>1, <2>3, Zenon DEF Row
  <2> QED
    BY <2>1, <2>2, <2>4
<1>7. ASSUME NEW i \in 1..Len(t), IsData(t, i + 1)
      PROVE  IsData(t, i) /\ t[i + 1].src = t[i].src + t[i].len
  <2>1. i \in Nat /\ i + 1 \in 1..Len(s) /\ i + 1 \in 1..Len(t)
    BY <1>1, <1>2, <1>7 DEF IsData
  <2>2. IsData(s, (i + 1) + 1) /\ t[i] = s[i + 1] /\ t[i + 1] = s[(i + 1) + 1]
    BY <1>1, <1>3, <1>7, <2>1
  <2>3. IsData(s, i + 1) /\ s[(i + 1) + 1].src = s[i + 1].src + s[i + 1].len
    BY <2>1, <2>2, Zenon DEF Row
  <2> QED
    BY <1>2, <1>3, <2>2, <2>3, Zenon
<1>8. CASE Head(s).type = "DATA"
  <2>1. /\ s[1].src = w /\ s[1].off \in {IMPLIED, s[1].src}
        /\ s[1].src + s[1].len <= n
        /\ ~IsData(s, 2) => s[1].src + s[1].len = n
        /\ IsData(s, 2) => s[2].src = s[1].src + s[1].len
    BY <1>1, <1>5, <1>8 DEF Row
  <2>2. IsData(t, 1) <=> IsData(s, 2)
    BY <1>1, <1>3
  <2>3. IsData(t, 1) => t[1] = s[2]
    BY <1>1, <1>3
  <2>4. Row(t, w + Head(s).len, n, k)
    BY <1>1, <1>6, <1>7, <2>1, <2>2, <2>3, Zenon DEF Row
  <2> QED
    BY <1>1, <1>8, <2>1, <2>4, Zenon DEF t
<1>9. CASE Head(s).type # "DATA"
  <2>1. ~IsData(s, 1) /\ w = n
    BY <1>5, <1>9, Zenon DEF Row
  <2>2. ~IsData(t, 1)
    BY <1>1, <1>3, <2>1 DEF Row
  <2>3. Row(t, w, n, k)
    BY <1>6, <1>7, <2>1, <2>2, Zenon DEF Row
  <2> QED
    BY <1>9, <2>3, Zenon DEF t
<1> QED
  BY <1>8, <1>9, Zenon

\* A packet sent at the end of a row makes it one longer
LEMMA RowAppend ==
    ASSUME NEW s \in Seq(ToReceiver), NEW w \in Nat, NEW n \in Nat, NEW k \in Nat,
           Row(s, w, n, k), \A i \in 1..Len(s) : s[i].type = "DATA", Len(s) < k,
           NEW len \in Nat \ {0}, NEW off \in {IMPLIED, n}
    PROVE  Row(Append(s, Data(off, n, len)), w, n + len, k)
<1> DEFINE m == Data(off, n, len)
           t == Append(s, m)
<1>1. m.type = "DATA" /\ m.off = off /\ m.src = n /\ m.len = len
  BY Zenon DEF Data
<1> HIDE DEF m
<1>2. /\ Len(s) \in Nat /\ Len(t) = Len(s) + 1 /\ t[Len(s) + 1] = m
      /\ \A i \in 1..Len(s) : t[i] = s[i]
  BY AppendProperties
<1> HIDE DEF t
<1>3. \A i \in 1..Len(t) : IsData(t, i)
  <2> SUFFICES ASSUME NEW i \in 1..Len(t) PROVE t[i].type = "DATA"
    BY Zenon DEF IsData
  <2>1. i \in 1..Len(s) \/ i = Len(s) + 1
    BY <1>2
  <2> QED
    BY <1>1, <1>2, <2>1
<1>4. \A i \in 1..Len(s) : IsData(s, i) /\ s[i].src \in Nat /\ s[i].len \in Nat
  BY FrameFields DEF IsData
<1>5. ~IsData(s, Len(s) + 1) /\ ~IsData(t, (Len(s) + 1) + 1)
  BY <1>2 DEF IsData
<1>6. Len(s) > 0 => s[Len(s)].src + s[Len(s)].len = n
  BY <1>2, <1>4, <1>5 DEF Row
<1>7. IsData(t, 1) /\ t[1].src = w
  <2>1. IsData(t, 1)
    BY <1>2, <1>3
  <2>2. CASE Len(s) = 0
    <3>1. w = n
      BY <2>2 DEF Row, IsData
    <3> QED
      BY <1>1, <1>2, <2>1, <2>2, <3>1
  <2>3. CASE Len(s) > 0
    BY <1>2, <1>4, <2>1, <2>3 DEF Row
  <2> QED
    BY <1>2, <2>2, <2>3
<1>8. ASSUME NEW i \in 1..Len(t)
      PROVE  /\ i <= k
             /\ t[i].off \in {IMPLIED, t[i].src}
             /\ t[i].src + t[i].len <= n + len
             /\ ~IsData(t, i + 1) => t[i].src + t[i].len = n + len
  <2>1. CASE i = Len(s) + 1
    BY <1>1, <1>2, <2>1
  <2>2. CASE i \in 1..Len(s)
    <3>1. /\ i <= k /\ s[i].off \in {IMPLIED, s[i].src} /\ s[i].src + s[i].len <= n
      BY <1>4, <2>2, Zenon DEF Row
    <3>2. IsData(t, i + 1)
      BY <1>2, <1>3, <2>2
    <3> QED
      BY <1>2, <1>4, <2>2, <3>1, <3>2
  <2> QED
    BY <1>2, <2>1, <2>2
<1>9. ASSUME NEW i \in 1..Len(t), IsData(t, i + 1)
      PROVE  IsData(t, i) /\ t[i + 1].src = t[i].src + t[i].len
  <2>1. i \in 1..Len(s)
    BY <1>2, <1>9 DEF IsData
  <2>2. CASE i = Len(s)
    BY <1>1, <1>2, <1>3, <1>6, <2>1, <2>2
  <2>3. CASE i < Len(s)
    <3>1. i + 1 \in 1..Len(s)
      BY <1>2, <2>1, <2>3
    <3>2. s[i + 1].src = s[i].src + s[i].len
      BY <1>4, <2>1, <3>1 DEF Row
    <3> QED
      BY <1>2, <1>3, <2>1, <3>1, <3>2, Zenon
  <2> QED
    BY <1>2, <2>1, <2>2, <2>3
<1>10. Row(t, w, n + len, k)
  BY <1>7, <1>8, <1>9, Zenon DEF Row
<1> QED
  BY <1>10, Zenon DEF t, m

\* CANCEL behind a row, and DONE alone, leave the row as it is
LEMMA RowWords ==
    ASSUME NEW s \in Seq(ToReceiver), NEW w \in Nat, NEW n \in Nat, NEW k \in Nat
    PROVE  /\ Row(<<>>, w, w, k) /\ Row(<<Done>>, w, w, k)
           /\ Row(s, w, n, k) => Row(s \o Cancels, w, n, k)
<1>1. Row(<<>>, w, w, k) /\ Row(<<Done>>, w, w, k)
  BY DEF Row, IsData, Done
<1>2. ASSUME Row(s, w, n, k) PROVE Row(s \o Cancels, w, n, k)
  <2> DEFINE t == s \o Cancels
  <2>1. Cancels \in Seq(ToReceiver) /\ Len(Cancels) = 3
    BY FrameTypes, Zenon DEF Cancels
  <2>2. \A i \in 1..3 : Cancels[i].type = "CANCEL"
    BY DEF Cancels, Cancel
  <2>3. /\ Len(s) \in Nat /\ Len(t) = Len(s) + 3
        /\ \A i \in 1..Len(t) : t[i] = IF i <= Len(s) THEN s[i] ELSE Cancels[i - Len(s)]
    <3>1. \A u \in Seq(ToReceiver) :
             /\ Len(s \o u) = Len(s) + Len(u)
             /\ \A i \in 1..Len(s) + Len(u) :
                  (s \o u)[i] = IF i <= Len(s) THEN s[i] ELSE u[i - Len(s)]
      BY ConcatProperties, Zenon
    <3>2. Len(s) \in Nat
      OBVIOUS
    <3> QED
      BY <2>1, <3>1, <3>2, Zenon
  <2> HIDE DEF t
  <2>4. \A i \in Nat : IsData(t, i) <=> IsData(s, i)
    <3> SUFFICES ASSUME NEW i \in Nat PROVE IsData(t, i) <=> IsData(s, i)
      BY Zenon
    <3>1. CASE i \in 1..Len(s)
      BY <2>3, <3>1 DEF IsData
    <3>2. CASE i \in Len(s) + 1 .. Len(s) + 3
      <4>1. i - Len(s) \in 1..3 /\ t[i] = Cancels[i - Len(s)]
        BY <2>3, <3>2
      <4> QED
        BY <2>2, <2>3, <3>2, <4>1 DEF IsData
    <3>3. CASE i \notin 1..(Len(s) + 3)
      BY <2>3, <3>3 DEF IsData
    <3> QED
      BY <2>3, <3>1, <3>2, <3>3
  <2>5. \A i : IsData(s, i) => i \in 1..Len(s) /\ i \in Nat /\ i + 1 \in Nat /\ t[i] = s[i]
    BY <2>3 DEF IsData
  <2>6. \A i \in 1..Len(t) : i \in Nat /\ i + 1 \in Nat
    BY <2>3
  <2>7. (IsData(t, 1) <=> IsData(s, 1)) /\ 1 \in Nat
    BY <2>4
  <2>8. ASSUME NEW i \in 1..Len(t), IsData(t, i)
        PROVE  /\ i <= k
               /\ t[i].off \in {IMPLIED, t[i].src}
               /\ t[i].src + t[i].len <= n
               /\ ~IsData(t, i + 1) => t[i].src + t[i].len = n
    <3>1. IsData(s, i) /\ i \in 1..Len(s) /\ t[i] = s[i] /\ (IsData(t, i + 1) <=> IsData(s, i + 1))
      BY <2>4, <2>5, <2>6, <2>8, Zenon
    <3> QED
      BY <1>2, <3>1, Zenon DEF Row
  <2>9. ASSUME NEW i \in 1..Len(t), IsData(t, i + 1)
        PROVE  IsData(t, i) /\ t[i + 1].src = t[i].src + t[i].len
    <3>1. IsData(s, i + 1) /\ t[i + 1] = s[i + 1]
      BY <2>4, <2>5, <2>6, <2>9, Zenon
    <3>2. i \in 1..Len(s)
      BY <2>3, <3>1 DEF IsData
    <3>3. IsData(s, i) /\ s[i + 1].src = s[i].src + s[i].len
      BY <1>2, <3>1, <3>2, Zenon DEF Row
    <3> QED
      BY <2>4, <2>5, <2>6, <3>1, <3>3, Zenon
  <2>10. Row(t, w, n, k)
    BY <1>2, <2>5, <2>7, <2>8, <2>9, Zenon DEF Row
  <2> QED
    BY <2>10, Zenon DEF t
<1> QED
  BY <1>1, <1>2, Zenon

\* What a link ends with
LEMMA EndsFacts ==
    ASSUME NEW S, NEW s \in Seq(S)
    PROVE  /\ \A m \in S : EndsWith(s \o <<m>>, m)
           /\ Cancel \in S => EndsWith(s \o Cancels, Cancel)
           /\ s # <<>> => \A m : EndsWith(s, m) =>
                 EndsWith(Tail(s), m) \/ (Tail(s) = <<>> /\ Head(s) = m)
<1>0. \A t \in Seq(S) : t = <<>> <=> Len(t) = 0
  OBVIOUS
<1>1. Len(s) \in Nat
  OBVIOUS
<1>2. ASSUME NEW m \in S PROVE EndsWith(s \o <<m>>, m)
  <2>1. <<m>> \in Seq(S) /\ Len(<<m>>) = 1 /\ <<m>>[1] = m
    OBVIOUS
  <2>2. Len(s \o <<m>>) = Len(s) + 1 /\ (s \o <<m>>)[Len(s) + 1] = m
    BY <1>1, <2>1, ConcatProperties
  <2>3. s \o <<m>> \in Seq(S) /\ Len(s) + 1 # 0
    BY <1>1, <2>1, ConcatProperties
  <2> QED
    BY <1>0, <2>2, <2>3, Zenon DEF EndsWith
<1>3. ASSUME Cancel \in S PROVE EndsWith(s \o Cancels, Cancel)
  <2>1. Cancels \in Seq(S) /\ Len(Cancels) = 3 /\ Cancels[3] = Cancel
    BY <1>3 DEF Cancels
  <2>2. Len(s \o Cancels) = Len(s) + 3 /\ (s \o Cancels)[Len(s) + 3] = Cancel
    <3>1. \A u \in Seq(S) : Len(u) = 3 =>
             Len(s \o u) = Len(s) + 3 /\ (s \o u)[Len(s) + 3] = u[3]
      <4> SUFFICES ASSUME NEW u \in Seq(S), Len(u) = 3
                   PROVE  Len(s \o u) = Len(s) + 3 /\ (s \o u)[Len(s) + 3] = u[3]
        BY Zenon
      <4>1. /\ Len(s \o u) = Len(s) + Len(u)
            /\ \A i \in 1..Len(s) + Len(u) :
                 (s \o u)[i] = IF i <= Len(s) THEN s[i] ELSE u[i - Len(s)]
        BY ConcatProperties, Zenon
      <4> QED
        BY <1>1, <4>1
    <3> QED
      BY <2>1, <3>1, Zenon
  <2>3. s \o Cancels \in Seq(S) /\ Len(s) + 3 # 0
    BY <1>1, <2>1, ConcatProperties
  <2> QED
    BY <1>0, <2>2, <2>3, Zenon DEF EndsWith
<1>4. ASSUME s # <<>>, NEW m, EndsWith(s, m)
      PROVE  EndsWith(Tail(s), m) \/ (Tail(s) = <<>> /\ Head(s) = m)
  <2>1. /\ Len(s) > 0 /\ Len(Tail(s)) = Len(s) - 1 /\ Head(s) = s[1] /\ Tail(s) \in Seq(S)
        /\ \A i \in 1..Len(Tail(s)) : Tail(s)[i] = s[i + 1]
    BY <1>4, HeadTailProperties
  <2>2. CASE Len(s) = 1
    <3>1. Head(s) = m
      BY <1>4, <2>1, <2>2 DEF EndsWith
    <3>2. Tail(s) = <<>>
      <4>1. Len(Tail(s)) = 0
        BY <2>1, <2>2
      <4> QED
        BY <1>0, <2>1, <4>1, Zenon
    <3> QED
      BY <3>1, <3>2, Zenon
  <2>3. CASE Len(s) > 1
    <3>1. Tail(s)[Len(Tail(s))] = s[Len(s)] /\ Tail(s) # <<>>
      <4>1. Len(Tail(s)) \in 1..Len(Tail(s)) /\ Len(Tail(s)) + 1 = Len(s)
        BY <1>1, <2>1, <2>3
      <4>2. Len(Tail(s)) # 0
        BY <2>1, <2>3
      <4> QED
        BY <1>0, <2>1, <4>1, <4>2, Zenon
    <3> QED
      BY <1>4, <3>1 DEF EndsWith
  <2> QED
    BY <1>1, <2>1, <2>2, <2>3
<1> QED
  BY <1>2, <1>3, <1>4

\* The inductive invariant: what any transport keeps, and what a reliable one adds
WindowedInv == AheadInv /\ Windowed /\ FileIntegrity

\* What the invariant says of the variables
LEMMA WindowedFacts ==
    ASSUME WindowedInv
    PROVE  /\ LinkTypeOK /\ SenderTypeOK /\ ReceiverTypeOK
           /\ dataLink \in Seq(ToReceiver) /\ ackLink \in Seq(ToSender)
           /\ dataLink \in Seq(SenderWords) /\ ackLink \in Seq(ReceiverWords)
           /\ last_acked \in Nat /\ next_to_send \in Nat /\ inflight \in Nat /\ win \in Nat
           /\ target_ack \in Nat /\ written \in Nat /\ FileSize \in Nat
           /\ next_to_send <= FileSize /\ win >= 1 /\ win <= NegotiatedWindow
           /\ last_acked <= written /\ written <= next_to_send
           /\ Row(dataLink, written, next_to_send, win)
           /\ LastAnswer /\ WindowControl
<1>1. /\ LinkTypeOK /\ SenderTypeOK /\ ReceiverTypeOK /\ last_acked <= written
      /\ Row(dataLink, written, next_to_send, win) /\ LastAnswer /\ LastWords /\ WindowControl
  BY Zenon DEF WindowedInv, AheadInv, AckedInv, TypeInv, TypeOK, Windowed
<1>2. /\ dataLink \in Seq(ToReceiver) /\ ackLink \in Seq(ToSender)
      /\ dataLink \in Seq(SenderWords) /\ ackLink \in Seq(ReceiverWords)
  BY <1>1, Zenon DEF LinkTypeOK, LastWords
<1>3. /\ last_acked \in Nat /\ next_to_send \in Nat /\ inflight \in Nat /\ win \in Nat
      /\ target_ack \in Nat /\ written \in Nat /\ FileSize \in Nat
      /\ next_to_send <= FileSize /\ win >= 1 /\ win <= NegotiatedWindow
  BY <1>1, SizeAssumption, WindowAssumption DEF SenderTypeOK, ReceiverTypeOK
<1>4. written <= next_to_send
  <2>1. CASE IsData(dataLink, 1)
    <3>1. 1 \in 1..Len(dataLink) /\ dataLink[1].src \in Nat /\ dataLink[1].len \in Nat
      BY <1>2, <2>1, FrameFields DEF IsData
    <3>2. dataLink[1].src = written /\ dataLink[1].src + dataLink[1].len <= next_to_send
      BY <1>1, <2>1, <3>1, Zenon DEF Row
    <3> QED
      BY <1>3, <3>1, <3>2
  <2>2. CASE ~IsData(dataLink, 1)
    BY <1>1, <1>3, <2>2 DEF Row
  <2> QED
    BY <2>1, <2>2, Zenon
<1> QED
  BY <1>1, <1>2, <1>3, <1>4, Zenon

\* Before the sender is through it has sent nothing but DATA
LEMMA OnlyData ==
    ASSUME WindowedInv, spc \in {"fill", "wait"}
    PROVE  \A i \in 1..Len(dataLink) : dataLink[i].type = "DATA"
<1> SUFFICES ASSUME NEW i \in 1..Len(dataLink) PROVE dataLink[i].type = "DATA"
  BY Zenon
<1>1. dataLink[i] \in SenderWords
  BY WindowedFacts
<1>2. /\ dataLink[i] \in ToReceiver /\ dataLink[i].type # "CANCEL" /\ dataLink[i].type # "DONE"
  BY <1>1, Zenon DEF SenderWords
<1> QED
  BY <1>2 DEF ToReceiver, DataPackets, Done, Cancel

\* What the steps of the sender leave alone
LEMMA SenderLeaves ==
    ASSUME UNCHANGED receiverVars
    PROVE  /\ rpc' = rpc /\ written' = written /\ file' = file /\ delivered' = delivered
           /\ FileIntegrity => FileIntegrity'
           /\ ReceiverWords' = ReceiverWords
<1>1. rpc' = rpc /\ written' = written /\ file' = file /\ delivered' = delivered
  BY DEF receiverVars
<1> QED
  BY <1>1, Zenon DEF FileIntegrity, ReceiverWords

\* The turns of the outer loop and of the fill loop
LEMMA WindowedLocal ==
    ASSUME WindowedInv, AheadInv', SenderLocal, UNCHANGED receiverVars
    PROVE  Windowed' /\ FileIntegrity'
<1>1. /\ rpc' = rpc /\ written' = written /\ delivered' = delivered
      /\ FileIntegrity' /\ ReceiverWords' = ReceiverWords
  BY SenderLeaves, Zenon DEF WindowedInv
<1>2. /\ ackLink' = ackLink /\ last_acked' = last_acked /\ win' = win
      /\ spc \in SenderActive
  BY DEF SenderLocal, StartWindow, SendDone, SendData, StartWait, windowVars, linkVars,
         SenderActive
<1>3. LastAnswer'
  BY <1>1, <1>2, WindowedFacts, Zenon DEF LastAnswer
<1>4. ackLink' \in Seq(ReceiverWords)'
  BY <1>1, <1>2, WindowedFacts, Zenon
<1>5. CASE StartWindow
  <2>1. /\ spc = "top" /\ spc' = "fill" /\ dataLink' = dataLink /\ next_to_send' = next_to_send
        /\ inflight' = inflight /\ last_acked < FileSize
    BY <1>5, Zenon DEF StartWindow, windowVars, linkVars
  <2>2. dataLink = <<>> /\ next_to_send = last_acked /\ inflight = 0 /\ ~delivered
        /\ rpc # "meta"
    BY <2>1, WindowedFacts, Zenon DEF WindowControl
  <2>3. Row(dataLink', written', next_to_send', win')
    BY <1>1, <1>2, <2>1, WindowedFacts, Zenon
  <2>4. dataLink' \in Seq(SenderWords')
    BY <2>1, <2>2
  <2>5. WindowControl'
    BY <1>1, <1>2, <2>1, <2>2, WindowedFacts DEF WindowControl
  <2> QED
    BY <1>1, <1>3, <1>4, <2>3, <2>4, <2>5, Zenon DEF Windowed, LastWords
<1>6. CASE SendDone
  <2>1. /\ spc = "top" /\ spc' = "done" /\ dataLink' = Append(dataLink, Done)
        /\ next_to_send' = next_to_send /\ last_acked >= FileSize
    BY <1>6, Zenon DEF SendDone, windowVars
  <2>2. dataLink = <<>> /\ next_to_send = last_acked /\ ~delivered /\ rpc # "meta"
    BY <2>1, WindowedFacts, Zenon DEF WindowControl
  <2>3. written = FileSize /\ next_to_send = FileSize /\ last_acked = FileSize
    BY <2>1, <2>2, WindowedFacts
  <2>4. dataLink' = <<Done>>
    BY <2>1, <2>2
  <2>5. Row(dataLink', written', next_to_send', win')
    BY <1>1, <1>2, <2>1, <2>3, <2>4, RowWords, WindowedFacts, Zenon
  <2>6. dataLink' \in Seq(SenderWords')
    <3>1. Done \in SenderWords'
      BY <1>1, <2>1, <2>2, <2>3, <2>4, FrameTypes, Zenon DEF SenderWords, Done
    <3> QED
      BY <2>4, <3>1
  <2>7. WindowControl'
    BY <1>1, <1>2, <2>1, <2>2, <2>3, <2>4, Zenon DEF WindowControl
  <2> QED
    BY <1>1, <1>3, <1>4, <2>5, <2>6, <2>7, Zenon DEF Windowed, LastWords
<1>7. CASE SendData
  <2> DEFINE len == ToRead(IncludeOffset)
             off == IF IncludeOffset THEN next_to_send ELSE IMPLIED
  <2>1. /\ spc = "fill" /\ spc' = "fill"
        /\ dataLink' = Append(dataLink, Data(off, next_to_send, len))
        /\ next_to_send' = next_to_send + len /\ next_to_send < FileSize
        /\ inflight < win /\ inflight' = inflight + 1
    BY <1>7, Zenon DEF SendData
  <2>2. /\ last_acked < FileSize /\ Len(dataLink) <= inflight /\ last_acked <= next_to_send
        /\ ~delivered /\ rpc # "meta"
    BY <2>1, WindowedFacts, Zenon DEF WindowControl
  <2>3. len \in Nat \ {0} /\ off \in {IMPLIED, next_to_send}
    <3>1. IncludeOffset \in BOOLEAN
      BY Zenon DEF IncludeOffset
    <3>2. ToRead(IncludeOffset) \in 1..(FileSize - next_to_send)
      BY <2>1, <3>1, WindowedFacts, ToReadType, Zenon
    <3> QED
      BY <3>2, WindowedFacts
  <2> HIDE DEF len, off
  <2>4. Len(dataLink) \in Nat /\ Len(dataLink) < win
    BY <2>1, <2>2, WindowedFacts
  <2>5. Row(dataLink', written', next_to_send', win')
    <3>1. \A i \in 1..Len(dataLink) : dataLink[i].type = "DATA"
      BY <2>1, OnlyData, Zenon
    <3> QED
      BY <1>1, <1>2, <2>1, <2>3, <2>4, <3>1, RowAppend, WindowedFacts, Zenon
  <2>6. dataLink' \in Seq(SenderWords')
    <3>1. \A i \in 1..Len(dataLink') : dataLink'[i].type = "DATA"
      <4>1. Data(off, next_to_send, len).type = "DATA"
        BY DEF Data
      <4>2. \A i \in 1..Len(dataLink) : dataLink[i].type = "DATA"
        BY <2>1, OnlyData
      <4> QED
        BY <2>1, <2>4, <4>1, <4>2, WindowedFacts, AppendProperties
    <3>2. dataLink' \in Seq(ToReceiver)
      BY Zenon DEF AheadInv, AckedInv, TypeInv, TypeOK, LinkTypeOK
    <3> QED
      BY <3>1, <3>2 DEF SenderWords
  <2>7. Len(dataLink') = Len(dataLink) + 1
    BY <2>1, WindowedFacts, AppendProperties
  <2>8. WindowControl'
    <3>1. /\ Len(dataLink') <= inflight' /\ inflight' <= win /\ last_acked <= next_to_send'
          /\ inflight' # 0 /\ next_to_send' # last_acked
      BY <2>1, <2>2, <2>3, <2>7, <2>4, WindowedFacts
    <3> QED
      BY <1>1, <1>2, <2>1, <2>2, <3>1, Zenon DEF WindowControl
  <2> QED
    BY <1>1, <1>3, <1>4, <2>5, <2>6, <2>8, Zenon DEF Windowed, LastWords
<1>8. CASE StartWait
  <2>1. /\ spc = "fill" /\ spc' = "wait" /\ dataLink' = dataLink /\ next_to_send' = next_to_send
        /\ target_ack' = next_to_send /\ ~(inflight < win /\ next_to_send < FileSize)
    BY <1>8, Zenon DEF StartWait, linkVars
  <2>2. /\ last_acked < FileSize /\ last_acked <= next_to_send
        /\ inflight = 0 <=> next_to_send = last_acked
        /\ ~delivered /\ rpc # "meta"
    BY <2>1, WindowedFacts, Zenon DEF WindowControl
  <2>3. last_acked < next_to_send
    BY <2>1, <2>2, WindowedFacts
  <2>4. Row(dataLink', written', next_to_send', win')
    BY <1>1, <1>2, <2>1, WindowedFacts, Zenon
  <2>5. dataLink' \in Seq(SenderWords')
    <3>1. \A m \in SenderWords : m \in SenderWords'
      BY <1>1, <2>1 DEF SenderWords
    <3>2. dataLink' \in Seq(SenderWords)
      BY <2>1, WindowedFacts, Zenon
    <3> QED
      BY <3>1, <3>2
  <2>6. WindowControl'
    BY <1>1, <1>2, <2>1, <2>2, <2>3, Zenon DEF WindowControl
  <2> QED
    BY <1>1, <1>3, <1>4, <2>4, <2>5, <2>6, Zenon DEF Windowed, LastWords
<1> QED
  BY <1>5, <1>6, <1>7, <1>8, Zenon DEF SenderLocal

\* With an advancing or a stale DATA_ACK the sender knows of what the last one says,
\* and the last CANCEL or DONE_ACK is still to come
LEMMA AnswerRead ==
    ASSUME WindowedInv, ackLink # <<>>, ackLink' = Tail(ackLink),
           rpc' = rpc, written' = written, spc' \in SenderActive => spc \in SenderActive,
           Head(ackLink) = DataAck(written) => last_acked' = written,
           spc' \in SenderActive => Head(ackLink).type \notin {"CANCEL", "DONE_ACK"}
    PROVE  LastAnswer'
<1> DEFINE q == ackLink
<1>1. \A m : EndsWith(q, m) => EndsWith(Tail(q), m) \/ (Tail(q) = <<>> /\ Head(q) = m)
  BY EndsFacts, WindowedFacts, Zenon
<1>2. rpc \in {"open", "data"} => EndsWith(q, DataAck(written))
  BY WindowedFacts, Zenon DEF LastAnswer
<1>3. spc \in SenderActive =>
        /\ rpc = "meta" => EndsWith(q, DoneAck)
        /\ rpc = "cancelled" => EndsWith(q, Cancel)
        /\ rpc \notin {"aborted", "fail"}
  BY WindowedFacts, Zenon DEF LastAnswer
<1>4. DoneAck.type = "DONE_ACK" /\ Cancel.type = "CANCEL"
  BY DEF DoneAck, Cancel
<1>5. rpc \in {"open", "data"} =>
        (Tail(q) = <<>> /\ last_acked' = written) \/ EndsWith(Tail(q), DataAck(written))
  BY <1>1, <1>2, Zenon
<1>6. spc' \in SenderActive =>
        /\ rpc = "meta" => EndsWith(Tail(q), DoneAck)
        /\ rpc = "cancelled" => EndsWith(Tail(q), Cancel)
        /\ rpc \notin {"aborted", "fail"}
  BY <1>1, <1>3, <1>4, Zenon
<1> QED
  BY <1>5, <1>6, Zenon DEF LastAnswer, EndsWith

\* What the sender has read is no longer on its way
LEMMA WordRead ==
    ASSUME WindowedInv, UNCHANGED receiverVars, ackLink # <<>>, ackLink' = Tail(ackLink)
    PROVE  ackLink' \in Seq(ReceiverWords') /\ Head(ackLink) \in ReceiverWords
           /\ Head(ackLink) \in ToSender
<1>1. Tail(ackLink) \in Seq(ReceiverWords) /\ Head(ackLink) \in ReceiverWords
  BY WindowedFacts, LinkFacts, Zenon
<1> QED
  BY <1>1, SenderLeaves DEF ReceiverWords

\* CANCEL behind the DATA, from a sender that is through
LEMMA CancelsSent ==
    ASSUME WindowedInv, UNCHANGED receiverVars, spc \in {"top", "wait"}, spc' = "cancelled",
           dataLink' = dataLink \o Cancels, UNCHANGED <<next_to_send, win>>
    PROVE  Row(dataLink', written', next_to_send', win') /\ dataLink' \in Seq(SenderWords')
<1>1. Row(dataLink', written', next_to_send', win')
  BY RowWords, WindowedFacts, SenderLeaves, Zenon
<1>2. \A m \in SenderWords : m \in SenderWords'
  <2>1. \A m \in SenderWords : m \in ToReceiver /\ m.type # "DONE"
    BY DEF SenderWords
  <2> QED
    BY <2>1, Zenon DEF SenderWords
<1>3. Cancel \in SenderWords'
  <2>1. Cancel.type # "DONE"
    BY DEF Cancel
  <2>2. Cancel \in ToReceiver
    BY Zenon DEF ToReceiver
  <2> QED
    BY <2>1, <2>2, Zenon DEF SenderWords
<1>4. dataLink \in Seq(SenderWords') /\ Cancels \in Seq(SenderWords')
  BY <1>2, <1>3, WindowedFacts DEF Cancels
<1> QED
  BY <1>1, <1>4, LinkFacts, Zenon

\* The cancels of the application
LEMMA WindowedCancels ==
    ASSUME WindowedInv, AheadInv', SenderCancels, UNCHANGED receiverVars
    PROVE  Windowed' /\ FileIntegrity'
<1>1. /\ rpc' = rpc /\ written' = written /\ delivered' = delivered
      /\ FileIntegrity' /\ ReceiverWords' = ReceiverWords
  BY SenderLeaves, Zenon DEF WindowedInv
<1>2. /\ spc \in {"top", "wait"} /\ spc' = "cancelled" /\ dataLink' = dataLink \o Cancels
      /\ UNCHANGED <<next_to_send, win>>
  BY Zenon DEF SenderCancels, SenderCancel, RecvAckCancel, Read, windowVars
<1>3. Row(dataLink', written', next_to_send', win') /\ dataLink' \in Seq(SenderWords')
  BY <1>2, CancelsSent, Zenon
<1>4. spc' \notin SenderActive
  BY <1>2 DEF SenderActive
<1>5. WindowControl'
  <2>1. ~delivered /\ rpc # "meta"
    BY <1>2, WindowedFacts, Zenon DEF WindowControl
  <2> QED
    BY <1>1, <1>2, <2>1, Zenon DEF WindowControl
<1>6. CASE SenderCancel
  <2>1. ackLink' = ackLink /\ last_acked' = last_acked
    BY <1>6, Zenon DEF SenderCancel, windowVars
  <2>2. LastAnswer' /\ ackLink' \in Seq(ReceiverWords')
    BY <1>1, <1>4, <2>1, WindowedFacts, Zenon DEF LastAnswer
  <2> QED
    BY <1>1, <1>3, <1>5, <2>2, Zenon DEF Windowed, LastWords
<1>7. CASE RecvAckCancel
  <2>1. /\ ackLink # <<>> /\ ackLink' = Tail(ackLink) /\ last_acked' = Head(ackLink).off
    BY <1>7, Zenon DEF RecvAckCancel, Read
  <2>2. Head(ackLink) = DataAck(written) => last_acked' = written
    BY <2>1 DEF DataAck
  <2>3. LastAnswer' /\ ackLink' \in Seq(ReceiverWords')
    BY <1>1, <1>4, <2>1, <2>2, AnswerRead, WordRead, Zenon
  <2> QED
    BY <1>1, <1>3, <1>5, <2>3, Zenon DEF Windowed, LastWords
<1> QED
  BY <1>6, <1>7, Zenon DEF SenderCancels

\* What wait_for_window_ack and the wait for DONE_ACK read
LEMMA WindowedReads ==
    ASSUME WindowedInv, AheadInv', SenderReads, UNCHANGED receiverVars
    PROVE  Windowed' /\ FileIntegrity'
<1> DEFINE m == Head(ackLink)
<1>1. /\ rpc' = rpc /\ written' = written /\ delivered' = delivered
      /\ FileIntegrity' /\ ReceiverWords' = ReceiverWords
  BY SenderLeaves, Zenon DEF WindowedInv
<1>2. /\ ackLink # <<>> /\ ackLink' = Tail(ackLink) /\ dataLink' = dataLink
      /\ spc \in {"wait", "done"}
  BY Zenon DEF SenderReads, RecvAckPartial, RecvAckWindow, AckAdvances, RecvAckStale, RecvNak,
         RecvCancel, RecvDoneAck, RecvWhileDone, Read
<1>3. ackLink' \in Seq(ReceiverWords') /\ m \in ReceiverWords /\ m \in ToSender
  BY <1>2, WordRead, Zenon
<1>4. m.type # "DATA_NAK" /\ (m.type = "DATA_ACK" => m.off \in Nat /\ m.off <= written)
  <2>1. m \in NoNaks /\ m \in Covered(written)
    BY <1>2, LinkFacts, Zenon DEF WindowedInv, AheadInv, AckedInv
  <2> QED
    BY <1>3, <2>1, FrameFields DEF NoNaks, Covered
<1>5. /\ m = DataAck(written) => m.off = written /\ m.type = "DATA_ACK"
  BY DEF DataAck
<1> HIDE DEF m
<1>6. CASE RecvAckPartial \/ RecvAckWindow
  <2>1. /\ spc = "wait" /\ last_acked' = m.off /\ m.type = "DATA_ACK" /\ m.off > last_acked
        /\ next_to_send' = next_to_send /\ win' = win /\ target_ack' = target_ack
        /\ inflight' = Outstanding(last_acked')
    <3>1. /\ spc = "wait" /\ last_acked' = m.off /\ m.type = "DATA_ACK" /\ ~(m.off <= last_acked)
          /\ next_to_send' = next_to_send /\ win' = win /\ target_ack' = target_ack
          /\ inflight' = Outstanding(last_acked')
      BY <1>6, Zenon DEF RecvAckPartial, RecvAckWindow, AckAdvances, Read, HeadIs, Stale, m
    <3> QED
      BY <1>4, <3>1, WindowedFacts
  <2>2. spc \in SenderActive /\ LastAnswer'
    <3>1. spc \in SenderActive
      BY <2>1 DEF SenderActive
    <3>2. m = DataAck(written) => last_acked' = written
      BY <1>5, <2>1, Zenon
    <3> QED
      BY <1>1, <1>2, <2>1, <3>1, <3>2, AnswerRead, Zenon DEF m
  <2>3. Row(dataLink', written', next_to_send', win')
    BY <1>1, <1>2, <2>1, WindowedFacts, Zenon
  <2>4. /\ \A i \in 1..Len(dataLink) : dataLink[i].type = "DATA"
        /\ target_ack = next_to_send /\ ~delivered /\ rpc # "meta"
    BY <2>1, OnlyData, WindowedFacts, Zenon DEF WindowControl
  <2>5. dataLink' \in Seq(SenderWords')
    BY <1>2, <2>4, WindowedFacts DEF SenderWords
  <2>6. CASE RecvAckPartial
    <3>1. last_acked' < target_ack
      BY <2>6, Zenon DEF RecvAckPartial
    <3>2. spc' = "wait"
      BY <2>1, <2>6, Zenon DEF RecvAckPartial
    <3>3. WindowControl'
      BY <1>1, <1>2, <2>1, <2>4, <3>1, <3>2, Zenon DEF WindowControl
    <3> QED
      BY <1>1, <1>3, <2>2, <2>3, <2>5, <3>3, Zenon DEF Windowed, LastWords
  <2>7. CASE RecvAckWindow
    <3>1. spc' = "top" /\ last_acked' >= target_ack
      BY <2>7, Zenon DEF RecvAckWindow
    <3>2. last_acked' = next_to_send /\ written = next_to_send
      BY <1>4, <2>1, <2>4, <3>1, WindowedFacts
    <3>3. dataLink = <<>>
      <4>1. SUFFICES ASSUME dataLink # <<>> PROVE FALSE
        BY Zenon
      <4>2. Head(dataLink).type = "DATA" /\ Head(dataLink) \in ToReceiver
        BY <2>4, <4>1, WindowedFacts
      <4>3. Head(dataLink).len \in Nat \ {0}
        BY <4>2, FrameFields
      <4>4. written + Head(dataLink).len <= next_to_send
        BY <4>1, <4>2, RowTail, WindowedFacts, Zenon
      <4> QED
        BY <3>2, <4>3, <4>4, WindowedFacts
    <3>4. inflight' = 0
      <4>1. Outstanding(next_to_send) = CeilDiv(0, MaxPayload)
        BY WindowedFacts DEF Outstanding, Larger
      <4>2. CeilDiv(0, MaxPayload) = 0
        BY PayloadAssumption DEF CeilDiv
      <4>3. PICK a : a = last_acked'
        BY Zenon
      <4> QED
        BY <2>1, <3>2, <4>1, <4>2, <4>3, Zenon
    <3>5. WindowControl'
      BY <1>1, <1>2, <2>1, <2>4, <3>1, <3>2, <3>3, <3>4, Zenon DEF WindowControl
    <3> QED
      BY <1>1, <1>3, <2>2, <2>3, <2>5, <3>5, Zenon DEF Windowed, LastWords
  <2> QED
    BY <1>6, <2>6, <2>7, Zenon
<1>7. CASE RecvAckStale \/ RecvWhileDone
  <2>1. /\ UNCHANGED senderVars /\ m.type \in {"DATA_ACK", "DATA_NAK"}
        /\ spc = "wait" => m.off <= last_acked
    BY <1>7, Zenon DEF RecvAckStale, RecvWhileDone, HeadIs, Stale, Read, m
  <2>2. /\ spc' = spc /\ last_acked' = last_acked /\ next_to_send' = next_to_send /\ win' = win
        /\ inflight' = inflight /\ target_ack' = target_ack
    BY <2>1, Zenon DEF senderVars, windowVars
  <2>3. m = DataAck(written) => last_acked' = written
    <3>1. CASE spc = "wait"
      BY <1>5, <2>1, <2>2, <3>1, WindowedFacts
    <3>2. CASE spc = "done"
      <4>1. last_acked = FileSize
        BY <3>2, WindowedFacts, Zenon DEF WindowControl
      <4> QED
        BY <2>2, <4>1, WindowedFacts
    <3> QED
      BY <1>2, <3>1, <3>2, Zenon
  <2>4. LastAnswer'
    BY <1>1, <1>2, <2>1, <2>2, <2>3, AnswerRead, Zenon DEF m
  <2>5. Row(dataLink', written', next_to_send', win')
    BY <1>1, <1>2, <2>2, WindowedFacts, Zenon
  <2>6. SenderWords' = SenderWords
    BY <1>1, <1>2, <2>2 DEF SenderWords
  <2>7. WindowControl'
    BY <1>1, <1>2, <2>2, WindowedFacts, Zenon DEF WindowControl
  <2>8. dataLink' \in Seq(SenderWords')
    BY <1>2, <2>6, WindowedFacts, Zenon
  <2> QED
    BY <1>1, <1>3, <2>4, <2>5, <2>7, <2>8, Zenon DEF Windowed, LastWords
<1>8. CASE RecvNak
  BY <1>4, <1>8, Zenon DEF RecvNak, HeadIs, m
<1>9. CASE RecvCancel \/ RecvDoneAck
  <2>1. /\ UNCHANGED <<windowVars, win>> /\ m.type \notin {"DATA_ACK"}
        /\ spc' = "aborted" \/ (spc = "done" /\ spc' = "ok" /\ m.type = "DONE_ACK")
    BY <1>9 DEF RecvCancel, RecvDoneAck, HeadIs, Read, m
  <2>2. last_acked' = last_acked /\ next_to_send' = next_to_send /\ win' = win
    BY <2>1, Zenon DEF windowVars
  <2>3. spc' \notin SenderActive
    BY <2>1 DEF SenderActive
  <2>4. LastAnswer'
    BY <1>1, <1>2, <1>5, <2>1, <2>3, AnswerRead, Zenon DEF m
  <2>5. Row(dataLink', written', next_to_send', win')
    BY <1>1, <1>2, <2>2, WindowedFacts, Zenon
  <2>6. dataLink' \in Seq(SenderWords')
    <3>1. \A x \in SenderWords : x \in SenderWords'
      BY <1>1, <1>2, <2>1, Zenon DEF SenderWords
    <3>2. dataLink' \in Seq(SenderWords)
      BY <1>2, WindowedFacts, Zenon
    <3> QED
      BY <3>1, <3>2
  <2>7. WindowControl'
    <3>1. m.type = "DONE_ACK" => delivered
      BY <1>3, Zenon DEF ReceiverWords
    <3>2. /\ rpc = "meta" => delivered
          /\ delivered => rpc \notin {"open", "data"} /\ written = FileSize
      BY WindowedFacts, Zenon DEF WindowControl
    <3> QED
      BY <1>1, <2>1, <3>1, <3>2, Zenon DEF WindowControl
  <2> QED
    BY <1>1, <1>3, <2>4, <2>5, <2>6, <2>7, Zenon DEF Windowed, LastWords
<1> QED
  BY <1>6, <1>7, <1>8, <1>9, Zenon DEF SenderReads

\* A sender that waits is owed an answer, so that its timer does not expire
LEMMA TimerRests ==
    ASSUME WindowedInv, ~AnswerPending, SenderTimeout
    PROVE  FALSE
<1>1. spc \in {"wait", "done"} /\ spc \in SenderActive
  BY DEF SenderTimeout, AckTimeout, AckTimeoutFatal, DoneTimeout, DoneTimeoutFatal, SenderActive
<1>2. ackLink = <<>> /\ (dataLink = <<>> \/ rpc \notin {"open", "data"})
  BY Zenon DEF AnswerPending
<1>3. \A m : ~EndsWith(ackLink, m)
  BY <1>2, Zenon DEF EndsWith
<1>4. rpc \in {"open", "data"} /\ last_acked = written
  <2>1. rpc \in {"open", "data", "meta", "fail", "cancelled", "aborted"}
    BY WindowedFacts DEF ReceiverTypeOK, ReceiverStates, ReceiverActive
  <2> QED
    BY <1>1, <1>3, <2>1, WindowedFacts, Zenon DEF LastAnswer
<1>5. dataLink = <<>> /\ written = next_to_send
  <2>1. dataLink = <<>>
    BY <1>2, <1>4
  <2>2. ~IsData(dataLink, 1)
    BY <2>1 DEF IsData
  <2> QED
    BY <2>1, <2>2, WindowedFacts, Zenon DEF Row
<1>6. CASE spc = "wait"
  BY <1>4, <1>5, <1>6, WindowedFacts DEF WindowControl
<1>7. CASE spc = "done"
  BY <1>4, <1>5, <1>7, WindowedFacts DEF WindowControl
<1> QED
  BY <1>1, <1>6, <1>7, Zenon

\* A step of the receiver leaves the sender where it is
LEMMA ReceiverLeaves ==
    ASSUME UNCHANGED senderVars
    PROVE  /\ spc' = spc /\ last_acked' = last_acked /\ next_to_send' = next_to_send
           /\ inflight' = inflight /\ win' = win /\ target_ack' = target_ack
  BY Zenon DEF senderVars, windowVars

\* The packet at the head is the one in order: it is written where it belongs
LEMMA InOrderWrite ==
    ASSUME WindowedInv, TakeData
    PROVE  /\ EffOff = written
           /\ Packet.len \in Nat \ {0}
           /\ Row(Tail(dataLink), written + Packet.len, next_to_send, win)
           /\ Write => FileIntegrity' /\ written' = written + Packet.len
<1>1. dataLink # <<>> /\ Packet.type = "DATA" /\ Packet = Head(dataLink)
  BY Zenon DEF TakeData, Take, Packet
<1>2. Packet.len \in Nat \ {0}
  <2>1. Packet \in ToReceiver
    BY <1>1, WindowedFacts, LinkFacts, Zenon
  <2> QED
    BY <1>1, <2>1, FrameFields
<1>3. /\ Packet.src = written /\ written + Packet.len <= next_to_send
      /\ Packet.off \in {IMPLIED, written}
      /\ Row(Tail(dataLink), written + Packet.len, next_to_send, win)
  BY <1>1, RowTail, WindowedFacts, Zenon
<1>4. EffOff = written
  BY <1>3, Zenon DEF EffOff
<1>5. ASSUME Write PROVE FileIntegrity'
  <2>1. written' = written + Packet.len /\ written' <= FileSize
    BY <1>2, <1>3, <1>5, WindowedFacts DEF Write
  <2>2. ASSUME NEW p \in 0..(written' - 1) PROVE file'[p] = p
    <3>1. p \in 0..(written + Packet.len - 1) /\ p \in Nat
      BY <1>2, <2>1, <2>2, WindowedFacts
    <3>2. file'[p] = IF p < written THEN file[p] ELSE Packet.src + (p - written)
      BY <1>5, <3>1, Zenon DEF Write
    <3>3. p < written => file[p] = p
      BY <3>1, WindowedFacts DEF WindowedInv, FileIntegrity
    <3> QED
      BY <1>3, <3>1, <3>2, <3>3, WindowedFacts
  <2> QED
    BY <2>1, <2>2, Zenon DEF FileIntegrity
<1> QED
  BY <1>2, <1>3, <1>4, <1>5, Zenon DEF Write

\* DATA read in order: written, and acknowledged or answered with CANCEL
LEMMA WindowedWrites ==
    ASSUME WindowedInv, AheadInv', UNCHANGED senderVars,
           RecvDataInOrder \/ RecvDataInOrderCancel
    PROVE  Windowed' /\ FileIntegrity'
<1>1. /\ spc' = spc /\ last_acked' = last_acked /\ next_to_send' = next_to_send
      /\ inflight' = inflight /\ win' = win /\ target_ack' = target_ack
  BY ReceiverLeaves, Zenon
<1>2. /\ TakeData /\ Write /\ rpc = "data" /\ delivered' = delivered
      /\ dataLink # <<>> /\ dataLink' = Tail(dataLink) /\ Head(dataLink).type = "DATA"
  BY Zenon DEF RecvDataInOrder, RecvDataInOrderCancel, TakeData, Take, Packet
<1>3. FileIntegrity' /\ Row(dataLink', written', next_to_send', win')
  BY <1>1, <1>2, InOrderWrite, Zenon
<1>4. dataLink # <<Done>>
  BY <1>2 DEF Done
<1>5. ~delivered /\ spc \notin {"top", "done"}
  BY <1>2, <1>4, WindowedFacts, Zenon DEF WindowControl
<1>6. dataLink' \in Seq(SenderWords')
  <2>1. \A x \in SenderWords : x \in SenderWords'
    BY <1>1, <1>4 DEF SenderWords
  <2>2. dataLink' \in Seq(SenderWords)
    BY <1>2, WindowedFacts, LinkFacts, Zenon
  <2> QED
    BY <2>1, <2>2
<1>7. Len(dataLink') <= Len(dataLink) /\ Len(dataLink') \in Nat /\ Len(dataLink) \in Nat
  BY <1>2, WindowedFacts, HeadTailProperties
<1>8. CASE RecvDataInOrder
  <2>1. rpc' = "data" /\ ackLink' = ackLink \o <<DataAck(written')>>
    BY <1>8, Zenon DEF RecvDataInOrder, Reply
  <2>2. written' \in Nat
    BY <1>2, InOrderWrite, WindowedFacts
  <2>3. PICK a : a = DataAck(written')
    BY Zenon
  <2>4. a \in ToSender /\ a.type = "DATA_ACK"
    BY <2>2, <2>3 DEF DataAck, ToSender, Feedback
  <2>5. EndsWith(ackLink', DataAck(written'))
    BY <2>1, <2>3, <2>4, EndsFacts, WindowedFacts, Zenon
  <2>6. LastAnswer'
    BY <2>1, <2>5, Zenon DEF LastAnswer
  <2>7. ackLink' \in Seq(ReceiverWords')
    <3>1. ReceiverWords' = ReceiverWords
      BY <1>2, Zenon DEF ReceiverWords
    <3>2. <<a>> \in Seq(ReceiverWords)
      BY <2>4 DEF ReceiverWords
    <3> QED
      BY <2>1, <2>3, <3>1, <3>2, WindowedFacts, LinkFacts, Zenon
  <2>8. WindowControl'
    <3>1. spc = "fill" => Len(dataLink') <= inflight
      BY <1>7, WindowedFacts DEF WindowControl
    <3> QED
      BY <1>1, <1>2, <1>5, <2>1, <3>1, WindowedFacts, Zenon DEF WindowControl
  <2> QED
    BY <1>3, <1>6, <2>6, <2>7, <2>8, Zenon DEF Windowed, LastWords
<1>9. CASE RecvDataInOrderCancel
  <2>1. rpc' = "cancelled" /\ ackLink' = ackLink \o Cancels
    BY <1>9, Zenon DEF RecvDataInOrderCancel, Reply
  <2>2. Cancel \in ToSender /\ Cancel.type = "CANCEL"
    BY DEF Cancel, ToSender
  <2>3. EndsWith(ackLink', Cancel)
    BY <2>1, <2>2, EndsFacts, WindowedFacts, Zenon
  <2>4. LastAnswer'
    BY <2>1, <2>3, Zenon DEF LastAnswer
  <2>5. ackLink' \in Seq(ReceiverWords')
    <3>1. ReceiverWords' = ReceiverWords
      BY <1>2 DEF ReceiverWords
    <3>2. Cancels \in Seq(ReceiverWords)
      BY <2>2 DEF ReceiverWords, Cancels
    <3> QED
      BY <2>1, <3>1, <3>2, WindowedFacts, LinkFacts, Zenon
  <2>6. WindowControl'
    <3>1. spc = "fill" => Len(dataLink') <= inflight
      BY <1>7, WindowedFacts DEF WindowControl
    <3> QED
      BY <1>1, <1>2, <1>5, <2>1, <3>1, WindowedFacts, Zenon DEF WindowControl
  <2> QED
    BY <1>3, <1>6, <2>4, <2>5, <2>6, Zenon DEF Windowed, LastWords
<1> QED
  BY <1>8, <1>9

\* The answers stay words of the receiver when more are sent
LEMMA AnswersSent ==
    ASSUME WindowedInv, delivered => delivered', NEW t \in Seq(ReceiverWords'),
           ackLink' = ackLink \o t
    PROVE  ackLink' \in Seq(ReceiverWords')
<1>1. \A x \in ReceiverWords : x \in ReceiverWords'
  BY Zenon DEF ReceiverWords
<1>2. ackLink \in Seq(ReceiverWords')
  BY <1>1, WindowedFacts
<1> QED
  BY <1>2, LinkFacts, Zenon

\* DONE read: the file is whole, and reported
LEMMA WindowedDone ==
    ASSUME WindowedInv, AheadInv', UNCHANGED senderVars, RecvDone \/ RecvDoneCancel
    PROVE  Windowed' /\ FileIntegrity'
<1>1. /\ spc' = spc /\ last_acked' = last_acked /\ next_to_send' = next_to_send
      /\ inflight' = inflight /\ win' = win /\ target_ack' = target_ack
  BY ReceiverLeaves, Zenon
<1>2. /\ dataLink # <<>> /\ dataLink' = Tail(dataLink) /\ Head(dataLink).type = "DONE"
      /\ delivered' = TRUE /\ written' = written /\ file' = file
  BY Zenon DEF RecvDone, RecvDoneCancel, DoneArrives, Take, Packet
<1>3. FileIntegrity'
  BY <1>2, Zenon DEF WindowedInv, FileIntegrity
<1>4. /\ spc \in {"done", "ok", "aborted"} /\ dataLink = <<Done>>
      /\ written = FileSize /\ ~delivered
  <2>1. Head(dataLink) \in SenderWords
    BY <1>2, WindowedFacts, LinkFacts, Zenon
  <2> QED
    BY <1>2, <2>1, Zenon DEF SenderWords
<1>5. dataLink' = <<>> /\ dataLink' \in Seq(SenderWords')
  BY <1>2, <1>4
<1>6. Row(dataLink', written', next_to_send', win')
  <2>1. Row(Tail(dataLink), written, next_to_send, win)
    <3>1. Head(dataLink).type # "DATA"
      BY <1>2, Zenon
    <3> QED
      BY <1>2, <3>1, RowTail, WindowedFacts, Zenon
  <2> QED
    BY <1>1, <1>2, <2>1, Zenon
<1>7. DoneAck \in ToSender /\ Cancel \in ToSender /\ ToSender \subseteq ReceiverWords'
  <2>1. DoneAck \in ToSender /\ Cancel \in ToSender
    BY Zenon DEF ToSender
  <2> QED
    BY <1>2, <2>1 DEF ReceiverWords
<1>8. <<DoneAck>> \in Seq(ToSender) /\ Cancels \in Seq(ToSender)
  BY <1>7 DEF Cancels
<1>9. CASE RecvDone
  <2>1. rpc' = "meta" /\ ackLink' = ackLink \o <<DoneAck>>
    BY <1>9, Zenon DEF RecvDone, Reply
  <2>2. EndsWith(ackLink', DoneAck)
    BY <1>7, <2>1, EndsFacts, WindowedFacts, Zenon
  <2>3. LastAnswer'
    <3>1. EndsWith(ackLink, DoneAck)'
      BY <2>2, Zenon DEF EndsWith
    <3> QED
      BY <2>1, <3>1, Zenon DEF LastAnswer
  <2>4. ackLink' \in Seq(ReceiverWords')
    <3>1. <<DoneAck>> \in Seq(ReceiverWords')
      BY <1>7
    <3> QED
      BY <1>2, <2>1, <3>1, AnswersSent, Zenon
  <2>5. WindowControl'
    BY <1>1, <1>2, <1>4, <2>1, WindowedFacts, Zenon DEF WindowControl
  <2> QED
    BY <1>3, <1>5, <1>6, <2>3, <2>4, <2>5, Zenon DEF Windowed, LastWords
<1>10. CASE RecvDoneCancel
  <2>1. rpc' = "cancelled" /\ ackLink' = ackLink \o (<<DoneAck>> \o Cancels)
    BY <1>10, Zenon DEF RecvDoneCancel, Reply
  <2>2. EndsWith(ackLink', Cancel)
    <3>1. ackLink \o (<<DoneAck>> \o Cancels) = (ackLink \o <<DoneAck>>) \o Cancels
      <4>1. ASSUME NEW a \in Seq(ToSender), NEW b \in Seq(ToSender), NEW c \in Seq(ToSender)
            PROVE  a \o (b \o c) = (a \o b) \o c
        BY ConcatAssociative
      <4> QED
        BY <1>8, <4>1, WindowedFacts, Zenon
    <3>2. ackLink \o <<DoneAck>> \in Seq(ToSender)
      BY <1>8, WindowedFacts, LinkFacts, Zenon
    <3> QED
      BY <1>7, <2>1, <3>1, <3>2, EndsFacts, Zenon
  <2>3. LastAnswer'
    <3>1. EndsWith(ackLink, Cancel)'
      BY <2>2, Zenon DEF EndsWith
    <3> QED
      BY <2>1, <3>1, Zenon DEF LastAnswer
  <2>4. ackLink' \in Seq(ReceiverWords')
    <3>1. <<DoneAck>> \in Seq(ReceiverWords') /\ Cancels \in Seq(ReceiverWords')
      BY <1>7 DEF Cancels
    <3>2. <<DoneAck>> \o Cancels \in Seq(ReceiverWords')
      BY <3>1, LinkFacts, Zenon
    <3> QED
      BY <1>2, <2>1, <3>2, AnswersSent, Zenon
  <2>5. WindowControl'
    BY <1>1, <1>2, <1>4, <2>1, WindowedFacts, Zenon DEF WindowControl
  <2> QED
    BY <1>3, <1>5, <1>6, <2>3, <2>4, <2>5, Zenon DEF Windowed, LastWords
<1> QED
  BY <1>9, <1>10

\* The receiver's steps that write nothing: it starts, cancels before it has
\* started, reads the sender's CANCEL, or times out on a sender that has gone
LEMMA WindowedSilent ==
    ASSUME WindowedInv, AheadInv', UNCHANGED senderVars,
           \/ StartReceive \/ ReceiverCancel \/ RecvCancelFromSender
           \/ SenderGone /\ ReceiverTimeout
    PROVE  Windowed' /\ FileIntegrity'
<1>1. /\ spc' = spc /\ last_acked' = last_acked /\ next_to_send' = next_to_send
      /\ inflight' = inflight /\ win' = win /\ target_ack' = target_ack
  BY ReceiverLeaves, Zenon
<1>2. delivered' = delivered /\ written' = written /\ file' = file
  BY Zenon DEF StartReceive, ReceiverCancel, RecvCancelFromSender, ReceiverTimeout
<1>3. FileIntegrity' /\ ReceiverWords' = ReceiverWords
  BY <1>2, Zenon DEF WindowedInv, FileIntegrity, ReceiverWords
<1>4. ASSUME dataLink' = dataLink
      PROVE  /\ Row(dataLink', written', next_to_send', win')
             /\ dataLink' \in Seq(SenderWords')
  <2>1. SenderWords' = SenderWords
    BY <1>1, <1>2, <1>4, Zenon DEF SenderWords
  <2> QED
    BY <1>1, <1>2, <1>4, <2>1, WindowedFacts, Zenon
<1>5. CASE StartReceive
  <2>1. rpc = "open" /\ rpc' = "data" /\ dataLink' = dataLink /\ ackLink' = ackLink
    BY <1>5, Zenon DEF StartReceive, linkVars
  <2>2. LastAnswer'
    BY <1>1, <1>2, <2>1, WindowedFacts, Zenon DEF LastAnswer
  <2>3. WindowControl'
    BY <1>1, <1>2, <2>1, WindowedFacts, Zenon DEF WindowControl
  <2>4. ackLink' \in Seq(ReceiverWords')
    BY <1>3, <2>1, WindowedFacts, Zenon
  <2> QED
    BY <1>3, <1>4, <2>1, <2>2, <2>3, <2>4, Zenon DEF Windowed, LastWords
<1>6. CASE ReceiverCancel
  <2>1. /\ rpc = "open" /\ rpc' = "cancelled" /\ dataLink' = dataLink
        /\ ackLink' = ackLink \o Cancels
    BY <1>6, Zenon DEF ReceiverCancel
  <2>2. Cancel \in ToSender /\ Cancel.type = "CANCEL"
    BY DEF Cancel, ToSender
  <2>3. LastAnswer'
    <3>1. EndsWith(ackLink, Cancel)'
      <4>1. EndsWith(ackLink \o Cancels, Cancel)
        BY <2>2, EndsFacts, WindowedFacts, Zenon
      <4> QED
        BY <2>1, <4>1, Zenon DEF EndsWith
    <3> QED
      BY <2>1, <3>1, Zenon DEF LastAnswer
  <2>4. ackLink' \in Seq(ReceiverWords')
    <3>1. Cancels \in Seq(ReceiverWords')
      BY <2>2 DEF Cancels, ReceiverWords
    <3> QED
      BY <1>2, <2>1, <3>1, AnswersSent, Zenon
  <2>5. WindowControl'
    BY <1>1, <1>2, <2>1, WindowedFacts, Zenon DEF WindowControl
  <2> QED
    BY <1>3, <1>4, <2>1, <2>3, <2>4, <2>5, Zenon DEF Windowed, LastWords
<1>7. CASE RecvCancelFromSender
  <2>1. /\ dataLink # <<>> /\ dataLink' = Tail(dataLink) /\ Head(dataLink).type = "CANCEL"
        /\ rpc' = "aborted" /\ ackLink' = ackLink
    BY <1>7, Zenon DEF RecvCancelFromSender, Take, Packet
  <2>2. spc = "cancelled" /\ dataLink # <<Done>>
    <3>1. Head(dataLink) \in SenderWords
      BY <2>1, WindowedFacts, LinkFacts, Zenon
    <3>2. dataLink # <<Done>>
      BY <2>1 DEF Done
    <3> QED
      BY <2>1, <3>1, <3>2, Zenon DEF SenderWords
  <2>3. Row(dataLink', written', next_to_send', win')
    <3>1. Head(dataLink).type # "DATA"
      BY <2>1
    <3>2. Row(Tail(dataLink), written, next_to_send, win)
      BY <2>1, <3>1, RowTail, WindowedFacts, Zenon
    <3> QED
      BY <1>1, <1>2, <2>1, <3>2, Zenon
  <2>4. dataLink' \in Seq(SenderWords')
    <3>1. \A x \in SenderWords : x \in SenderWords'
      BY <1>1, <2>2 DEF SenderWords
    <3>2. dataLink' \in Seq(SenderWords)
      BY <2>1, WindowedFacts, LinkFacts, Zenon
    <3> QED
      BY <3>1, <3>2
  <2>5. LastAnswer'
    <3>1. spc' \notin SenderActive
      BY <1>1, <2>2 DEF SenderActive
    <3> QED
      BY <2>1, <3>1, Zenon DEF LastAnswer
  <2>6. WindowControl'
    BY <1>1, <1>2, <2>1, <2>2, WindowedFacts, Zenon DEF WindowControl
  <2>7. ackLink' \in Seq(ReceiverWords')
    BY <1>3, <2>1, WindowedFacts, Zenon
  <2> QED
    BY <1>3, <2>3, <2>4, <2>5, <2>6, <2>7, Zenon DEF Windowed, LastWords
<1>8. CASE SenderGone /\ ReceiverTimeout
  <2>1. /\ rpc' \in {rpc, "fail"} /\ dataLink' = dataLink /\ ackLink' = ackLink
        /\ spc \in {"fail", "cancelled", "aborted"}
    BY <1>8, Zenon DEF SenderGone, ReceiverTimeout, Retry, linkVars
  <2>2. LastAnswer'
    <3>1. spc' \notin SenderActive
      BY <1>1, <2>1 DEF SenderActive
    <3> QED
      BY <1>1, <1>2, <2>1, <3>1, WindowedFacts, Zenon DEF LastAnswer
  <2>3. WindowControl'
    BY <1>1, <1>2, <2>1, WindowedFacts, Zenon DEF WindowControl
  <2>4. ackLink' \in Seq(ReceiverWords')
    BY <1>3, <2>1, WindowedFacts, Zenon
  <2> QED
    BY <1>3, <1>4, <2>1, <2>2, <2>3, <2>4, Zenon DEF Windowed, LastWords
<1> QED
  BY <1>5, <1>6, <1>7, <1>8

\* The receiver never meets a packet out of order, nor any frame after DONE
LEMMA NothingOutOfOrder ==
    ASSUME WindowedInv,
           RecvDataDup \/ RecvDataAhead \/ RecvDataOutOfOrderCancel \/ RecvWhileMeta
    PROVE  FALSE
<1>1. CASE RecvDataDup \/ RecvDataAhead \/ RecvDataOutOfOrderCancel
  <2>1. TakeData /\ (EffOff < written \/ EffOff > written \/ EffOff # written)
    BY <1>1, Zenon DEF RecvDataDup, RecvDataAhead, RecvDataOutOfOrderCancel
  <2>2. EffOff = written /\ written \in Nat
    BY <2>1, InOrderWrite, WindowedFacts, Zenon
  <2> QED
    BY <2>1, <2>2
<1>2. CASE RecvWhileMeta
  <2>1. rpc = "meta" /\ dataLink # <<>> /\ Head(dataLink).type \in {"DATA", "DONE"}
    BY <1>2, Zenon DEF RecvWhileMeta, Take, Packet
  <2>2. delivered /\ written = FileSize
    BY <2>1, WindowedFacts, Zenon DEF WindowControl
  <2>3. Head(dataLink) \in SenderWords /\ Head(dataLink) \in ToReceiver
    BY <2>1, WindowedFacts, LinkFacts, Zenon
  <2>4. Head(dataLink).type # "DONE"
    BY <2>2, <2>3, Zenon DEF SenderWords
  <2>5. Head(dataLink).type = "DATA"
    BY <2>1, <2>4, Zenon
  <2>6. Head(dataLink).len \in Nat \ {0}
    BY <2>3, <2>5, FrameFields
  <2>7. written + Head(dataLink).len <= next_to_send
    BY <2>1, <2>5, RowTail, WindowedFacts, Zenon
  <2> QED
    BY <2>2, <2>6, <2>7, WindowedFacts
<1> QED
  BY <1>1, <1>2

\* The invariant holds at first, and every step over a reliable transport keeps it
LEMMA WindowedInit == Init => WindowedInv
<1> SUFFICES ASSUME Init PROVE WindowedInv
  OBVIOUS
<1>1. AheadInv
  BY AheadInit
<1>2. /\ dataLink = <<>> /\ ackLink = <<>> /\ spc = "top" /\ rpc = "open"
      /\ last_acked = ResumeOff /\ next_to_send = ResumeOff /\ inflight = 0
      /\ written = ResumeOff /\ file = [p \in 0..(ResumeOff - 1) |-> p] /\ ~delivered
  BY Zenon DEF Init, LinkInit, SenderInit, ReceiverInit
<1>3. FileIntegrity
  BY <1>2, SizeAssumption DEF FileIntegrity
<1>4. Row(dataLink, written, next_to_send, win)
  BY <1>2 DEF Row, IsData
<1>5. LastAnswer /\ LastWords /\ WindowControl
  BY <1>2 DEF LastAnswer, LastWords, WindowControl
<1> QED
  BY <1>1, <1>3, <1>4, <1>5, Zenon DEF WindowedInv, Windowed

\* Over a reliable transport no frame is lost, damaged or repeated
LEMMA NoFaults ==
    ASSUME Reliable, LinkTypeOK
    PROVE  ~LinkNext /\ ~RecvDamaged
<1>1. ~(losses < MaxLoss) /\ ~(dups < MaxDup)
  BY DEF Reliable, LinkTypeOK
<1> QED
  BY <1>1, Zenon DEF LinkNext, LoseData, LoseAck, DupData, DupAck, RecvDamaged

\* One case per kind of step; a timer that waits for the answers never expires
LEMMA WindowedStep ==
    ASSUME Reliable, WindowedInv, [Next]_vars
    PROVE  WindowedInv'
<1>1. AheadInv'
  BY AheadStep, Zenon DEF WindowedInv
<1>2. ~LinkNext /\ ~RecvDamaged /\ ~Premature
  BY NoFaults, WindowedFacts, Zenon DEF Reliable
<1>3. CASE (SenderLocal \/ SenderReads \/ SenderCancels) /\ UNCHANGED receiverVars
  BY <1>1, <1>3, WindowedLocal, WindowedReads, WindowedCancels, Zenon DEF WindowedInv
<1>4. CASE ~AnswerPending /\ SenderTimeout
  BY <1>4, TimerRests, Zenon
<1>5. CASE (ReceiverReads \/ ReceiverCancels) /\ UNCHANGED senderVars
  BY <1>1, <1>5, WindowedWrites, WindowedDone, WindowedSilent, NothingOutOfOrder, Zenon
     DEF WindowedInv, ReceiverReads, ReceiverCancels
<1>6. CASE SenderGone /\ ReceiverTimeout /\ UNCHANGED senderVars
  BY <1>1, <1>6, WindowedSilent, Zenon DEF WindowedInv
<1>7. CASE UNCHANGED vars
  <2>1. /\ spc' = spc /\ last_acked' = last_acked /\ next_to_send' = next_to_send
        /\ inflight' = inflight /\ win' = win /\ target_ack' = target_ack
    BY <1>7, ReceiverLeaves, Zenon DEF vars
  <2>2. /\ rpc' = rpc /\ written' = written /\ file' = file /\ delivered' = delivered
        /\ dataLink' = dataLink /\ ackLink' = ackLink
    BY <1>7, Zenon DEF vars, receiverVars, linkVars
  <2>3. FileIntegrity' /\ LastAnswer' /\ LastWords' /\ WindowControl'
    BY <2>1, <2>2, WindowedFacts, Zenon
       DEF WindowedInv, FileIntegrity, LastAnswer, LastWords, SenderWords, ReceiverWords,
           WindowControl
  <2>4. Row(dataLink, written, next_to_send, win)'
    BY <2>1, <2>2, WindowedFacts, Zenon
  <2> QED
    BY <1>1, <2>3, <2>4, Zenon DEF WindowedInv, Windowed
<1> QED
  BY <1>2, <1>3, <1>4, <1>5, <1>6, <1>7, Zenon
     DEF Next, SenderStep, ReceiverStep, EnvStep, Terminated

\* So it always holds
LEMMA WindowedAlways ==
    ASSUME Reliable
    PROVE  Spec => []WindowedInv
<1>1. WindowedInv /\ [Next]_vars => WindowedInv'
  BY WindowedStep
<1> QED
  BY <1>1, WindowedInit, PTL DEF Spec

\* Whatever the window, over a reliable transport the DATA on its way is one row
\* of packets that starts where the receiver's copy ends, and a side that waits
\* has something to wait for
THEOREM WindowedKept ==
    ASSUME Reliable
    PROVE  Spec => []Windowed
<1>1. WindowedInv => Windowed
  BY Zenon DEF WindowedInv
<1> QED
  BY <1>1, WindowedAlways, PTL

\* Over a reliable transport the DATA on its way never exceeds the window the
\* receiver agreed to
THEOREM WindowAlwaysRespected ==
    ASSUME Reliable
    PROVE  Spec => []WindowRespected
<1>1. ASSUME WindowedInv PROVE WindowRespected
  <2> SUFFICES ASSUME NEW i \in DOMAIN dataLink, dataLink[i].type = "DATA"
               PROVE  i <= NegotiatedWindow
    BY Zenon DEF WindowRespected
  <2>1. i \in 1..Len(dataLink)
    BY <1>1, WindowedFacts
  <2>2. i <= win
    BY <1>1, <2>1, WindowedFacts, Zenon DEF Row, IsData
  <2> QED
    BY <1>1, <2>1, <2>2, WindowedFacts, WindowAssumption
<1>2. WindowedInv => WindowRespected
  BY <1>1
<1> QED
  BY <1>2, WindowedAlways, PTL

\* What the invariant says of the reports
LEMMA WindowedImplies ==
    ASSUME WindowedInv
    PROVE  /\ Faithful
           /\ FileIntegrity /\ DeliveredMeansWhole
           /\ OkMeansDelivered /\ CancelMeansNotDelivered
<1>1. /\ delivered => written = FileSize /\ spc # "cancelled"
      /\ spc = "ok" => delivered
  BY WindowedFacts, Zenon DEF WindowControl
<1>2. FileIntegrity /\ TypeInv
  BY Zenon DEF WindowedInv, AheadInv, AckedInv
<1>3. spc = "ok" => \A p \in 0..(FileSize - 1) : file[p] = p
  BY <1>1, <1>2, Zenon DEF FileIntegrity
<1> QED
  BY <1>1, <1>2, <1>3, Zenon
     DEF Faithful, DeliveredMeansWhole, OkMeansDelivered, CancelMeansNotDelivered

\* With any window, over a reliable transport and whoever cancels, every unit the
\* receiver writes is the sender's at that position, the receiver reports only
\* whole files, the sender returns VAL_OK only for a file so reported, and no file
\* is reported that the sender has cancelled
THEOREM ReliableDelivers ==
    ASSUME Reliable
    PROVE  Spec => []( /\ FileIntegrity /\ DeliveredMeansWhole
                       /\ OkMeansDelivered /\ CancelMeansNotDelivered )
<1>1. WindowedInv => /\ FileIntegrity /\ DeliveredMeansWhole
                     /\ OkMeansDelivered /\ CancelMeansNotDelivered
  BY WindowedImplies
<1> QED
  BY <1>1, WindowedAlways, PTL

\* With any window, over a reliable transport, the transfer keeps the promises of
\* FileDelivery: what val_internal_send_file and the receiver's callbacks report is
\* true of the copy
THEOREM ReliableImplements ==
    ASSUME Reliable
    PROVE  Spec => ImplementsDelivery
<1>1. WindowedInv => Faithful
  BY WindowedImplies
<1> QED
  BY <1>1, WindowedAlways, FaithfulImplements, PTL

\* Under the same conditions a unit once written is never overwritten, and a file
\* once reported complete never changes
THEOREM ReliableStable ==
    ASSUME Reliable
    PROVE  Spec => FileStable
<1>1. WindowedInv => Faithful
  BY WindowedImplies
<1> QED
  BY <1>1, WindowedAlways, FaithfulStable, PTL
=============================================================================
