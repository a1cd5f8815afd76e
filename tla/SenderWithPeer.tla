--------------------------- MODULE SenderWithPeer --------------------------
(***************************************************************************)
(* The sender against any receiver that keeps to the wire protocol: it     *)
(* acknowledges only bytes it was sent, answers DATA with an ACK, a NAK    *)
(* with NAK's ACK behind it, or not at all, and DONE with DONE_ACK.  This  *)
(* is where DATA_NAK is reached: a receiver that checks every offset sends *)
(* one, the receiver of this repository never gets to.                     *)
(***************************************************************************)
EXTENDS ValSender

CONSTANT MaxNaks       \* bound on the NAKs the peer sends

ASSUME NakAssumption == MaxNaks \in Nat

VARIABLES
    seen,              \* end of the furthest data the peer has received
    naks               \* NAKs sent so far

ackerVars == <<seen, naks>>
senderPeerVars == <<senderVars, ackerVars, linkVars>>

SenderPeerInit == LinkInit /\ SenderInit /\ seen = ResumeOff /\ naks = 0

PeerTakes(type) ==
    /\ dataLink # <<>>
    /\ Head(dataLink).type = type
    /\ dataLink' = Tail(dataLink)
    /\ UNCHANGED <<senderVars, losses, dups>>

\* DATA is acknowledged up to any point received so far
PeerAcks ==
    /\ PeerTakes("DATA")
    /\ seen' = Larger(seen, Head(dataLink).src + Head(dataLink).len)
    /\ \E off \in 0..seen' : ackLink' = Append(ackLink, DataAck(off))
    /\ UNCHANGED naks

\* DATA beyond a gap is refused: NAK, then ACK, of the position before the gap
PeerNaks ==
    /\ naks < MaxNaks
    /\ PeerTakes("DATA")
    /\ naks' = naks + 1
    /\ \E off \in 0..Smaller(seen, Head(dataLink).src - 1) :
          ackLink' = ackLink \o <<DataNak(off), DataAck(off)>>
    /\ UNCHANGED seen

PeerIgnores ==
    /\ PeerTakes("DATA")
    /\ UNCHANGED <<ackerVars, ackLink>>

PeerDone ==
    /\ PeerTakes("DONE")
    /\ ackLink' = Append(ackLink, DoneAck)
    /\ UNCHANGED ackerVars

AckerStep == PeerAcks \/ PeerNaks \/ PeerIgnores \/ PeerDone

SenderRuns ==
    /\ SenderLocal \/ SenderReads \/ SenderTimeout
    /\ UNCHANGED ackerVars

SenderEnded == spc \notin SenderActive /\ UNCHANGED senderPeerVars

SenderPeerNext ==
    \/ SenderRuns
    \/ AckerStep
    \/ LinkNext /\ UNCHANGED <<senderVars, ackerVars>>
    \/ SenderEnded

SenderPeerSpec == SenderPeerInit /\ [][SenderPeerNext]_senderPeerVars

\* The sender is a blocking call that runs on; the peer may fall silent
SenderPeerFairSpec == SenderPeerSpec /\ WF_senderPeerVars(SenderRuns)

-----------------------------------------------------------------------------
SenderPeerTypeOK ==
    /\ LinkTypeOK
    /\ SenderTypeOK
    /\ seen \in 0..FileSize
    /\ naks \in 0..MaxNaks

\* The sender never counts a byte as acknowledged that no peer was given, so it
\* sends DONE only once the peer has been sent the whole file: neither a stale
\* ACK, a NAK nor an ACK that overtakes a rewound next_to_send moves last_acked
\* past what was sent
AckedWasSent ==
    /\ last_acked <= seen
    /\ spc \in {"done", "ok"} => seen = FileSize

\* The packets the sender counts against its window cover what it has sent
\* beyond last_acked, and never exceed the window it filled
InflightCovers ==
    /\ inflight <= win
    /\ next_to_send - last_acked <= inflight * MaxPayload

\* What AckedWasSent and InflightCovers need to be inductive: every packet on its
\* way lies within the file, every answer is for bytes received, and the sender
\* is past the outer loop only when the file is acknowledged
SenderPeerInv ==
    /\ SenderPeerTypeOK
    /\ target_ack <= FileSize
    /\ last_acked <= seen
    /\ spc \in {"done", "ok"} => last_acked = FileSize
    /\ dataLink \in Seq({m \in ToReceiver : m.type = "DATA" => m.src + m.len <= FileSize})
    /\ ackLink \in Seq({m \in ToSender : m.type \in {"DATA_ACK", "DATA_NAK"} => m.off <= seen})
    /\ InflightCovers

\* No ACK, NAK or timeout takes back an acknowledgement, and the offset the
\* sender goes back to on a restart is the last acknowledged one
GoBackN ==
    [][ /\ last_acked' >= last_acked
        /\ next_to_send' < next_to_send => next_to_send' = last_acked' ]_senderPeerVars

\* The sender gives up or succeeds, even against a silent peer or one that
\* repeats NAKs
SenderTerminates == <>(spc \notin SenderActive)
=============================================================================
