-------------------------- MODULE ReceiverWithPeer -------------------------
(***************************************************************************)
(* The receiver against any sender that puts an explicit offset in every   *)
(* DATA packet: chunks of any size, from any position, in any order and as *)
(* often as it likes, and DONE once the whole file is acknowledged.  This  *)
(* is where the sender-ahead branch of the data loop is reached.           *)
(***************************************************************************)
EXTENDS ValReceiver

CONSTANT MaxInLink     \* bound on the frames in each direction

ASSUME LinkBoundAssumption == MaxInLink \in Nat

VARIABLES
    acked,             \* highest acknowledgement the peer has seen
    peer               \* sending, done once it has sent DONE, or stopped

feederVars == <<acked, peer>>
receiverPeerVars == <<receiverVars, feederVars, linkVars>>

ReceiverPeerInit == LinkInit /\ ReceiverInit /\ acked = ResumeOff /\ peer = "sending"

PeerPuts(packet) ==
    /\ Len(dataLink) < MaxInLink
    /\ dataLink' = Append(dataLink, packet)
    /\ UNCHANGED <<receiverVars, acked, ackLink, losses, dups>>

PeerSendsData ==
    /\ peer = "sending"
    /\ \E off \in 0..(FileSize - 1), len \in 1..(MaxPayload - OffsetLen) :
          /\ off + len <= FileSize
          /\ PeerPuts(Data(off, off, len))
    /\ UNCHANGED peer

\* DONE, sent again if no DONE_ACK comes
PeerSendsDone ==
    /\ peer \in {"sending", "done"}
    /\ acked = FileSize
    /\ PeerPuts(Done)
    /\ peer' = "done"

PeerCancels ==
    /\ CancelAllowed
    /\ peer = "sending"
    /\ PeerPuts(Cancel)
    /\ peer' = "stopped"

PeerReads ==
    /\ ackLink # <<>>
    /\ ackLink' = Tail(ackLink)
    /\ acked' = IF Head(ackLink).type = "DATA_ACK" /\ Head(ackLink).off > acked
                THEN Head(ackLink).off ELSE acked
    /\ peer' = IF Head(ackLink).type \in {"DONE_ACK", "CANCEL"} THEN "stopped"
                                                               ELSE peer
    /\ UNCHANGED <<receiverVars, dataLink, losses, dups>>

FeederStep == PeerSendsData \/ PeerSendsDone \/ PeerCancels \/ PeerReads

\* The receiver works when there is room for its answers
ReceiverRuns ==
    /\ Len(ackLink) < MaxInLink
    /\ \/ ReceiverReads
       \/ ReceiverCancels
       \/ ReceiverTimeout
    /\ UNCHANGED feederVars

ReceiverEnded == rpc \notin ReceiverActive /\ UNCHANGED receiverPeerVars

ReceiverPeerNext ==
    \/ ReceiverRuns
    \/ FeederStep
    \/ RecvDamaged /\ UNCHANGED feederVars
    \/ LinkNext /\ UNCHANGED <<receiverVars, feederVars>>
    \/ ReceiverEnded

ReceiverPeerSpec == ReceiverPeerInit /\ [][ReceiverPeerNext]_receiverPeerVars

-----------------------------------------------------------------------------
ReceiverPeerTypeOK ==
    /\ LinkTypeOK
    /\ ReceiverTypeOK
    /\ acked \in Nat
    /\ peer \in {"sending", "done", "stopped"}

\* The acknowledgements on the way are cumulative: none is for more than is
\* written, none is smaller than one sent before it, and a NAK never asks for
\* what an earlier ACK has covered
AcksCumulative ==
    /\ acked <= written
    /\ \A i, j \in DOMAIN ackLink :
          /\ i <= j
          /\ ackLink[i].type \in {"DATA_ACK", "DATA_NAK"}
          /\ ackLink[j].type \in {"DATA_ACK", "DATA_NAK"}
          => acked <= ackLink[i].off /\ ackLink[i].off <= ackLink[j].off
             /\ ackLink[j].off <= written

\* What the safety properties need to be inductive: the peer numbers its packets
\* truly, and sends DONE only when the file is written
ReceiverPeerInv ==
    /\ ReceiverPeerTypeOK
    /\ FileIntegrity
    /\ AcksCumulative
    /\ DeliveredMeansWhole
    /\ dataLink \in Seq({m \in DataPackets : m.off = m.src /\ m.src + m.len <= FileSize}
                            \cup {Cancel} \cup {m \in {Done} : written = FileSize})
=============================================================================
