---------------------------- MODULE ValReceiver ----------------------------
(***************************************************************************)
(* The receiver's data phase: the data loop of val_internal_receive_files  *)
(* (val_receiver.c) after the output file is opened, up to and including   *)
(* the wait for the next metadata packet, where a repeated DONE arrives.   *)
(***************************************************************************)
EXTENDS ValLink

CONSTANTS
    DataRetries,  \* retries.data_retries
    MetaRetries   \* retries.meta_retries

ASSUME ReceiverRetryAssumption ==
    /\ DataRetries \in 0..255
    /\ MetaRetries \in 0..255

VARIABLES
    rpc,        \* where val_internal_receive_files is
    written,    \* bytes of the output file
    file,       \* the output file: file[p] is the source unit at position p
    rtries,     \* retries left in this receive
    delivered   \* on_file_complete was called with VAL_OK

receiverVars == <<rpc, written, file, rtries, delivered>>

\* open is before the data loop, data the data loop, meta the wait for the
\* next SEND_META or EOT.  The others are results of the whole call: fail a
\* timeout, CRC or protocol error, cancelled and aborted VAL_ERR_ABORTED after
\* a cancel of this side and of the peer
ReceiverActive == {"open", "data", "meta"}
ReceiverStates == ReceiverActive \cup {"fail", "cancelled", "aborted"}

ReceiverTypeOK ==
    /\ rpc \in ReceiverStates
    /\ written \in Nat
    /\ file \in [0..(written - 1) -> Nat]
    /\ rtries \in 0..255
    /\ delivered \in BOOLEAN

-----------------------------------------------------------------------------
\* The resume negotiation left the first ResumeOff units of the file in place
ReceiverInit ==
    /\ rpc = "open"
    /\ written = ResumeOff
    /\ file = [p \in 0..(ResumeOff - 1) |-> p]
    /\ rtries = DataRetries
    /\ delivered = FALSE

\* Enter the data loop
StartReceive ==
    /\ rpc = "open"
    /\ rpc' = "data"
    /\ UNCHANGED <<written, file, rtries, delivered, linkVars>>

\* The application cancels from on_file_start; the data loop sees it first
ReceiverCancel ==
    /\ CancelAllowed
    /\ rpc = "open"
    /\ rpc' = "cancelled"
    /\ ackLink' = ackLink \o Cancels
    /\ UNCHANGED <<written, file, rtries, delivered, dataLink, losses, dups>>

\* Take the next frame in state r
Take(r) ==
    /\ rpc = r
    /\ dataLink # <<>>
    /\ dataLink' = Tail(dataLink)

Packet == Head(dataLink)

\* Mutant: ignores the explicit offset
EffOffImplied == written

\* eff_off: without an explicit offset the data belongs at written
EffOff == IF Packet.off = IMPLIED THEN written ELSE Packet.off

\* Mutant: writes at the beginning of the file
WriteAtStart ==
    /\ file' = [p \in 0..(written + Packet.len - 1) |->
                   IF p < Packet.len THEN Packet.src + p
                   ELSE IF p < written THEN file[p] ELSE Packet.src + (p - written)]
    /\ written' = written + Packet.len

\* Append the payload of the packet to the file
Write ==
    /\ file' = [p \in 0..(written + Packet.len - 1) |->
                   IF p < written THEN file[p] ELSE Packet.src + (p - written)]
    /\ written' = written + Packet.len

Reply(packets) == ackLink' = ackLink \o packets

TakeData ==
    /\ Take("data")
    /\ Packet.type = "DATA"
    /\ rtries' = DataRetries
    /\ UNCHANGED <<delivered, losses, dups>>

\* Mutant: counts the offset field as content in the acknowledgement
RecvDataInOrderCountsHeader ==
    /\ TakeData
    /\ EffOff = written
    /\ Write
    /\ Reply(<<DataAck(written' + OffsetLen)>>)
    /\ rpc' = "data"

\* in_order: write and acknowledge.  on_progress may cancel before the ACK,
\* except on the packet that completes the file
RecvDataInOrder ==
    /\ TakeData
    /\ EffOff = written
    /\ Write
    /\ Reply(<<DataAck(written')>>)
    /\ rpc' = "data"

RecvDataInOrderCancel ==
    /\ CancelAllowed
    /\ TakeData
    /\ EffOff = written
    /\ Write
    /\ written' < FileSize
    /\ Reply(Cancels)
    /\ rpc' = "cancelled"

\* Mutant: answers a duplicate with its own position
OutOfOrderReplyBack ==
    IF EffOff < written THEN <<DataAck(EffOff)>>
                        ELSE <<DataNak(written), DataAck(written)>>

\* The two replies to a packet that is not in order, before on_progress:
\* dup_or_overlap reaffirms the position, sender_ahead sends NAK and ACK
OutOfOrderReply ==
    IF EffOff < written THEN <<DataAck(written)>>
                        ELSE <<DataNak(written), DataAck(written)>>

RecvDataDup ==
    /\ TakeData
    /\ EffOff < written
    /\ Reply(OutOfOrderReply)
    /\ UNCHANGED <<rpc, written, file>>

RecvDataAhead ==
    /\ TakeData
    /\ EffOff > written
    /\ Reply(OutOfOrderReply)
    /\ UNCHANGED <<rpc, written, file>>

RecvDataOutOfOrderCancel ==
    /\ CancelAllowed
    /\ TakeData
    /\ EffOff # written
    /\ Reply(OutOfOrderReply \o Cancels)
    /\ rpc' = "cancelled"
    /\ UNCHANGED <<written, file>>

\* DONE ends the file whatever written is: acknowledge, report VAL_OK and wait
\* for the next metadata.  on_file_complete may cancel the session
DoneArrives ==
    /\ Take("data")
    /\ Packet.type = "DONE"
    /\ delivered' = TRUE
    /\ rtries' = MetaRetries
    /\ UNCHANGED <<written, file, losses, dups>>

RecvDone ==
    /\ DoneArrives
    /\ Reply(<<DoneAck>>)
    /\ rpc' = "meta"

RecvDoneCancel ==
    /\ CancelAllowed
    /\ DoneArrives
    /\ Reply(<<DoneAck>> \o Cancels)
    /\ rpc' = "cancelled"

\* CANCEL, in the data loop or while waiting for metadata
RecvCancelFromSender ==
    /\ Take("data") \/ Take("meta")
    /\ Packet.type = "CANCEL"
    /\ rpc' = "aborted"
    /\ UNCHANGED <<written, file, rtries, delivered, ackLink, losses, dups>>

\* A packet that is not SEND_META, EOT or CANCEL while waiting for metadata
\* ends the session with VAL_ERR_PROTOCOL
RecvWhileMeta ==
    /\ Take("meta")
    /\ Packet.type \in {"DATA", "DONE"}
    /\ rpc' = "fail"
    /\ UNCHANGED <<written, file, rtries, delivered, ackLink, losses, dups>>

-----------------------------------------------------------------------------
\* Mutant: decrements a retry counter that is zero
RetryBelowZero ==
    /\ rtries' = rtries - 1
    /\ UNCHANGED rpc

\* A receive that yields nothing: one retry less, or the end of the session
Retry ==
    \/ /\ rtries > 0
       /\ rtries' = rtries - 1
       /\ UNCHANGED rpc
    \/ /\ rtries = 0
       /\ rpc' = "fail"
       /\ UNCHANGED rtries

\* A frame arrives damaged (VAL_ERR_CRC): the data loop retries, the wait for
\* metadata does not
RecvDamaged ==
    /\ losses < MaxLoss
    /\ losses' = losses + 1
    /\ \/ Take("data") /\ Retry
       \/ Take("meta") /\ rpc' = "fail" /\ UNCHANGED rtries
    /\ UNCHANGED <<written, file, delivered, ackLink, dups>>

ReceiverTimeout ==
    /\ rpc \in {"data", "meta"}
    /\ Retry
    /\ UNCHANGED <<written, file, delivered, linkVars>>

ReceiverReads ==
    \/ StartReceive \/ RecvDataInOrder \/ RecvDataDup \/ RecvDataAhead
    \/ RecvDone \/ RecvCancelFromSender \/ RecvWhileMeta

ReceiverCancels ==
    \/ ReceiverCancel \/ RecvDataInOrderCancel \/ RecvDataOutOfOrderCancel
    \/ RecvDoneCancel

-----------------------------------------------------------------------------
\* Every unit the receiver has written is the sender's unit for that position:
\* the write of the data loop never puts a payload at the wrong place and never
\* appends one twice, whatever is lost, repeated or resent
FileIntegrity ==
    /\ written <= FileSize
    /\ \A p \in 0..(written - 1) : file[p] = p

\* The receiver reports VAL_OK to on_file_complete only for a whole file, though
\* its handler of DONE looks at neither written nor total
DeliveredMeansWhole == delivered => written = FileSize
=============================================================================
