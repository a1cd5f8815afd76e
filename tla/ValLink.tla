------------------------------ MODULE ValLink ------------------------------
(***************************************************************************)
(* The packets of the data phase of one file and the two byte streams that *)
(* carry them.  The transport is external code (transport.send and         *)
(* transport.recv of val_config_t); it is modelled from how val_core.c     *)
(* uses it: a FIFO in each direction, from which the environment may drop  *)
(* or duplicate a frame, as the repository's test transport does.          *)
(*                                                                         *)
(* A file is a row of FileSize units; unit i of the sender's file has      *)
(* content i, so a copy is right exactly when it maps every i to i.        *)
(***************************************************************************)
EXTENDS Integers, Sequences

CONSTANTS
    FileSize,      \* size of the sender's file, in units
    ResumeOff,     \* offset agreed by the resume negotiation
    MaxPayload,    \* units of content in a frame of the negotiated MTU
    OffsetLen,     \* units the explicit offset takes from the content (8 bytes)
    CancelAllowed, \* may the application call val_emergency_cancel?
    Premature,     \* may a timer expire while the awaited answer is on its way?
    MaxLoss,       \* bound on the frames lost or damaged
    MaxDup         \* bound on the frames duplicated

ASSUME SizeAssumption ==
    /\ FileSize \in Nat
    /\ ResumeOff \in Nat
    /\ ResumeOff < FileSize \/ (ResumeOff = 0 /\ FileSize = 0)

ASSUME PayloadAssumption ==
    /\ MaxPayload \in Nat
    /\ OffsetLen \in Nat
    /\ OffsetLen < MaxPayload

ASSUME EnvAssumption ==
    /\ CancelAllowed \in BOOLEAN
    /\ Premature \in BOOLEAN
    /\ MaxLoss \in Nat
    /\ MaxDup \in Nat

VARIABLES
    dataLink,      \* frames from the sender to the receiver, oldest first
    ackLink,       \* frames from the receiver to the sender, oldest first
    losses,        \* frames lost so far
    dups           \* frames duplicated so far

linkVars == <<dataLink, ackLink, losses, dups>>

-----------------------------------------------------------------------------
(* Packets.  IMPLIED stands for UINT64_MAX, what val_internal_recv_packet  *)
(* reports as the offset of a DATA frame without VAL_DATA_OFFSET_PRESENT.  *)
(* src is where in its file the sender read the payload: the content.      *)

IMPLIED == -1

Data(off, src, len) == [type |-> "DATA", off |-> off, src |-> src, len |-> len]
Done == [type |-> "DONE"]
DataAck(off) == [type |-> "DATA_ACK", off |-> off]
DataNak(off) == [type |-> "DATA_NAK", off |-> off]
DoneAck == [type |-> "DONE_ACK"]
Cancel == [type |-> "CANCEL"]

\* Mutant: sends it once
CancelOnce == <<Cancel>>

\* val_emergency_cancel sends CANCEL three times
Cancels == <<Cancel, Cancel, Cancel>>

DataPackets ==
    [type : {"DATA"}, off : Nat \cup {IMPLIED}, src : Nat, len : Nat \ {0}]
Feedback == [type : {"DATA_ACK", "DATA_NAK"}, off : Nat]

\* The frames each side may put on its link
ToReceiver == DataPackets \cup {Done, Cancel}
ToSender == Feedback \cup {DoneAck, Cancel}

LinkTypeOK ==
    /\ dataLink \in Seq(ToReceiver)
    /\ ackLink \in Seq(ToSender)
    /\ losses \in 0..MaxLoss
    /\ dups \in 0..MaxDup

LinkInit ==
    /\ dataLink = <<>>
    /\ ackLink = <<>>
    /\ losses = 0
    /\ dups = 0

-----------------------------------------------------------------------------
(* Faults of the transport.                                                *)

LoseData ==
    /\ dataLink # <<>>
    /\ losses < MaxLoss
    /\ losses' = losses + 1
    /\ dataLink' = Tail(dataLink)
    /\ UNCHANGED <<ackLink, dups>>

\* A damaged frame is a lost one to the sender: val_internal_recv_until_deadline
\* reads on after VAL_ERR_CRC
LoseAck ==
    /\ ackLink # <<>>
    /\ losses < MaxLoss
    /\ losses' = losses + 1
    /\ ackLink' = Tail(ackLink)
    /\ UNCHANGED <<dataLink, dups>>

DupData ==
    /\ dataLink # <<>>
    /\ dups < MaxDup
    /\ dups' = dups + 1
    /\ dataLink' = <<Head(dataLink)>> \o dataLink
    /\ UNCHANGED <<ackLink, losses>>

DupAck ==
    /\ ackLink # <<>>
    /\ dups < MaxDup
    /\ dups' = dups + 1
    /\ ackLink' = <<Head(ackLink)>> \o ackLink
    /\ UNCHANGED <<dataLink, losses>>

LinkNext == LoseData \/ LoseAck \/ DupData \/ DupAck
=============================================================================
