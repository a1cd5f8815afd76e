---------------------------- MODULE FileDelivery ---------------------------
(***************************************************************************)
(* What the transfer of one file promises to the two applications: the     *)
(* copy is at every moment a prefix of the file, the receiver reports      *)
(* success only for the whole file, and the sender only after the          *)
(* receiver.  Either side may give up at any time before it has reported.  *)
(***************************************************************************)
EXTENDS Naturals

CONSTANTS
    Size,    \* length of the file
    Start    \* how much of it the receiver has at the beginning

VARIABLES
    content,   \* the copy: a function from positions to units of the file
    sent,      \* what the sender has told its application
    received   \* what the receiver has told its application

deliveryVars == <<content, sent, received>>

\* The first n units of the file
Prefix(n) == [p \in 0..(n - 1) |-> p]

DeliveryInit ==
    /\ content = Prefix(Start)
    /\ sent = "running"
    /\ received = "running"

\* Units are appended; a receiver that gives up may have just written some
Store ==
    /\ received = "running"
    /\ \E n \in 0..Size : DOMAIN content \subseteq 0..(n - 1) /\ content' = Prefix(n)
    /\ received' \in {"running", "failed"}
    /\ UNCHANGED sent

ReceiverReports ==
    /\ received = "running"
    /\ content = Prefix(Size)
    /\ received' = "ok"
    /\ UNCHANGED <<content, sent>>

SenderReports ==
    /\ sent = "running"
    /\ received = "ok"
    /\ sent' = "ok"
    /\ UNCHANGED <<content, received>>

SenderGivesUp ==
    /\ sent = "running"
    /\ sent' = "failed"
    /\ UNCHANGED <<content, received>>

DeliveryNext ==
    \/ Store
    \/ ReceiverReports
    \/ SenderReports
    \/ SenderGivesUp

DeliverySpec == DeliveryInit /\ [][DeliveryNext]_deliveryVars
=============================================================================
