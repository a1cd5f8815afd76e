---------------------------- MODULE ValHandshake ---------------------------
(***************************************************************************)
(* The HELLO exchange of val_core.c: val_internal_do_handshake_sender,     *)
(* val_internal_do_handshake_receiver, and what follows it on each side,   *)
(* the sender's first SEND_META and the receiver's wait for it.  The two   *)
(* calls may start in either order.                                        *)
(*                                                                         *)
(* VAL_BUILTIN_FEATURES is 0, so no feature can be required and the two    *)
(* feature checks always pass; they are left out.  No progress or file     *)
(* callback runs during the exchange, so neither side cancels in it.       *)
(***************************************************************************)
EXTENDS Integers, Sequences

CONSTANTS
    Mtus,              \* buffers.packet_size, within the bounds of session_create
    Caps,              \* tx_flow.window_cap_packets, 0 when not configured
    Cwnds,             \* tx_flow.initial_cwnd_packets, 0 when not configured
    Versions,          \* values of VAL_VERSION_MAJOR
    HandshakeRetries,  \* retries.handshake_retries
    Premature,         \* may a timer expire while its frame is on its way?
    MaxLoss            \* bound on the frames lost or damaged

ASSUME ConfigAssumption ==
    /\ \A n \in Mtus : n \in Nat /\ n > 0
    /\ \A n \in Caps : n \in Nat /\ n < 65536
    /\ \A n \in Cwnds : n \in Nat /\ n < 65536

ASSUME HandshakeAssumption ==
    /\ HandshakeRetries \in 0..255
    /\ Premature \in BOOLEAN
    /\ MaxLoss \in Nat

VARIABLES
    scfg, rcfg,  \* the two configurations
    spc, rpc,    \* where the two calls are
    sneg, rneg,  \* what each side has negotiated: MTU, window cap and cwnd
    helloTries,  \* resends of HELLO left
    toReceiver, toSender, losses

vars == <<scfg, rcfg, spc, rpc, sneg, rneg, helloTries, toReceiver, toSender, losses>>

Configs == [mtu : Mtus, cap : Caps, cwnd : Cwnds, version : Versions]

\* start is before the call, hello the exchange, ok after it: the sender sends
\* SEND_META and is past this module, the receiver waits for it.  timeout is
\* VAL_ERR_TIMEOUT, refused the answer to a HELLO that cannot be adopted,
\* protocol and crc the errors of the wait for metadata, ready the arrival of
\* SEND_META
SenderStates == {"start", "hello", "ok", "timeout"}
ReceiverStates == SenderStates \cup {"refused", "ready", "protocol", "crc"}

Smaller(a, b) == IF a <= b THEN a ELSE b

-----------------------------------------------------------------------------
\* val__fill_local_hello: a side with no configured window advertises 1
FillLocalHello(cfg, mtu) ==
    [type |-> "HELLO", mtu |-> mtu, version |-> cfg.version,
     rxcap |-> IF cfg.cap = 0 THEN 1 ELSE cfg.cap]

\* What a side may adopt: magic and bounds of the MTU are those of any peer
Adoptable(cfg, hello) == hello.version = cfg.version

\* Mutant: no default for a window that is not configured
NegotiatedWindowZero(cfg, hello) == Smaller(cfg.cap, hello.rxcap)

\* Mutant: the local window alone
NegotiatedWindowLocal(cfg, hello) == IF cfg.cap = 0 THEN 4 ELSE cfg.cap

\* negotiated_window: the local wish, 4 by default, within what the peer takes
NegotiatedWindow(cfg, hello) ==
    Smaller(IF cfg.cap = 0 THEN 4 ELSE cfg.cap, hello.rxcap)

\* current_window_packets: as configured within the negotiated cap, or up to 4
InitialCwnd(cfg, hello) ==
    Smaller(NegotiatedWindow(cfg, hello), IF cfg.cwnd = 0 THEN 4 ELSE cfg.cwnd)

\* Mutant: the MTU of the peer, whatever the own buffers hold
AdoptPeerMtu(cfg, hello) ==
    [mtu |-> hello.mtu,
     window |-> NegotiatedWindow(cfg, hello), cwnd |-> InitialCwnd(cfg, hello)]

\* val__adopt_peer_hello
AdoptPeerHello(cfg, hello) ==
    [mtu |-> Smaller(hello.mtu, cfg.mtu),
     window |-> NegotiatedWindow(cfg, hello), cwnd |-> InitialCwnd(cfg, hello)]

\* What val_session_create leaves before any HELLO
Unnegotiated(cfg) == [mtu |-> cfg.mtu, window |-> 1, cwnd |-> 1]

SendMeta == [type |-> "SEND_META"]

-----------------------------------------------------------------------------
Init ==
    /\ scfg \in Configs
    /\ rcfg \in Configs
    /\ spc = "start"
    /\ rpc = "start"
    /\ sneg = Unnegotiated(scfg)
    /\ rneg = Unnegotiated(rcfg)
    /\ helloTries = HandshakeRetries
    /\ toReceiver = <<>>
    /\ toSender = <<>>
    /\ losses = 0

SenderSide == <<spc, sneg, helloTries>>
ReceiverSide == <<rpc, rneg>>
Unconfigured == UNCHANGED <<scfg, rcfg>>

\* val_send_files is called: the first HELLO
SenderStarts ==
    /\ spc = "start"
    /\ spc' = "hello"
    /\ toReceiver' = Append(toReceiver, FillLocalHello(scfg, scfg.mtu))
    /\ UNCHANGED <<sneg, helloTries, ReceiverSide, toSender, losses>>

\* val_receive_files is called
ReceiverStarts ==
    /\ rpc = "start"
    /\ rpc' = "hello"
    /\ UNCHANGED <<rneg, SenderSide, toReceiver, toSender, losses>>

ReceiverTakes(state, type) ==
    /\ rpc = state
    /\ toReceiver # <<>>
    /\ Head(toReceiver).type = type
    /\ toReceiver' = Tail(toReceiver)
    /\ UNCHANGED <<SenderSide, losses>>

\* The receiver adopts a HELLO and answers with the MTU it has adopted
ReceiverHello ==
    /\ ReceiverTakes("hello", "HELLO")
    /\ Adoptable(rcfg, Head(toReceiver))
    /\ rneg' = AdoptPeerHello(rcfg, Head(toReceiver))
    /\ toSender' = Append(toSender, FillLocalHello(rcfg, rneg'.mtu))
    /\ rpc' = "ok"

\* It returns VAL_ERR_INCOMPATIBLE_VERSION and tells the sender nothing
ReceiverRefuses ==
    /\ ReceiverTakes("hello", "HELLO")
    /\ ~Adoptable(rcfg, Head(toReceiver))
    /\ rpc' = "refused"
    /\ UNCHANGED <<rneg, toSender>>

\* The sender adopts the answer and goes on to the metadata of the first file.
\* The answer comes from a receiver that has accepted the sender's version, so
\* the sender's own check of it cannot fail
SenderHello ==
    /\ spc = "hello"
    /\ toSender # <<>>
    /\ Adoptable(scfg, Head(toSender))
    /\ toSender' = Tail(toSender)
    /\ sneg' = AdoptPeerHello(scfg, Head(toSender))
    /\ spc' = "ok"
    /\ toReceiver' = Append(toReceiver, SendMeta)
    /\ UNCHANGED <<helloTries, ReceiverSide, losses>>

\* The wait for metadata takes SEND_META and nothing else of the handshake
ReceiverMeta ==
    /\ ReceiverTakes("ok", "SEND_META")
    /\ rpc' = "ready"
    /\ UNCHANGED <<rneg, toSender>>

ReceiverStray ==
    /\ ReceiverTakes("ok", "HELLO")
    /\ rpc' = "protocol"
    /\ UNCHANGED <<rneg, toSender>>

-----------------------------------------------------------------------------
\* The sender's timer expires: HELLO again while retries last
SenderResends ==
    /\ spc = "hello"
    /\ helloTries > 0
    /\ helloTries' = helloTries - 1
    /\ toReceiver' = Append(toReceiver, FillLocalHello(scfg, scfg.mtu))
    /\ UNCHANGED <<spc, sneg, ReceiverSide, toSender, losses>>

\* Mutant: waits on
SenderBudgetWaits ==
    /\ spc = "hello"
    /\ UNCHANGED <<SenderSide, ReceiverSide, toReceiver, toSender, losses>>

\* handshake_budget_ms is used up.  It may be before or after the retries are
SenderBudget ==
    /\ spc = "hello"
    /\ spc' = "timeout"
    /\ UNCHANGED <<sneg, helloTries, ReceiverSide, toReceiver, toSender, losses>>

\* The receiver's budget; the wait for metadata ends by its own retries
ReceiverBudget ==
    /\ rpc \in {"hello", "ok"}
    /\ rpc' = "timeout"
    /\ UNCHANGED <<rneg, SenderSide, toReceiver, toSender, losses>>

\* A frame is lost; a damaged one is waited out like a loss by both loops of the
\* handshake, and ends the wait for metadata
LoseToReceiver ==
    /\ losses < MaxLoss
    /\ toReceiver # <<>>
    /\ losses' = losses + 1
    /\ toReceiver' = Tail(toReceiver)
    /\ rpc' \in {rpc} \cup (IF rpc = "ok" THEN {"crc"} ELSE {})
    /\ UNCHANGED <<SenderSide, rneg, toSender>>

LoseToSender ==
    /\ losses < MaxLoss
    /\ toSender # <<>>
    /\ losses' = losses + 1
    /\ toSender' = Tail(toSender)
    /\ UNCHANGED <<SenderSide, ReceiverSide, toReceiver>>

SenderWaiting == spc \in {"start", "hello"}
ReceiverWaiting == rpc \in {"start", "hello", "ok"}

\* Unless Premature, a timer expires only when nothing it waits for can come any
\* more: no frame is on its way to a side that is up to read it
SenderTimer ==
    /\ \/ Premature
       \/ toSender = <<>> /\ (toReceiver = <<>> \/ rpc \notin {"hello", "ok"})
    /\ SenderResends \/ SenderBudget

ReceiverTimer ==
    /\ \/ Premature
       \/ toReceiver = <<>> /\ (~SenderWaiting \/ (toSender = <<>> /\ helloTries = 0))
    /\ ReceiverBudget

Step ==
    \/ SenderStarts \/ SenderHello \/ SenderTimer
    \/ ReceiverStarts \/ ReceiverHello \/ ReceiverRefuses \/ ReceiverMeta
    \/ ReceiverStray \/ ReceiverTimer

Finished ==
    /\ ~SenderWaiting
    /\ ~ReceiverWaiting
    /\ UNCHANGED vars

Next ==
    \/ Step /\ Unconfigured
    \/ (LoseToReceiver \/ LoseToSender) /\ Unconfigured
    \/ Finished

Spec == Init /\ [][Next]_vars

\* Both are loops that run until they return, and both are called
FairSpec == Spec /\ WF_vars(Step /\ Unconfigured)

-----------------------------------------------------------------------------
Hellos == [type : {"HELLO"}, mtu : Mtus, version : Versions, rxcap : 1..65535]
Negotiated == [mtu : Mtus, window : 1..65535, cwnd : 1..65535]

TypeOK ==
    /\ scfg \in Configs
    /\ rcfg \in Configs
    /\ spc \in SenderStates
    /\ rpc \in ReceiverStates
    /\ sneg \in Negotiated
    /\ rneg \in Negotiated
    /\ helloTries \in 0..HandshakeRetries
    /\ toReceiver \in Seq(Hellos \cup {SendMeta})
    /\ toSender \in Seq(Hellos)
    /\ losses \in 0..MaxLoss

\* When the sender's handshake succeeds both sides use the same MTU, and a frame
\* of that size fits the buffers of both
MtuAgreed ==
    spc = "ok" =>
        /\ sneg.mtu = rneg.mtu
        /\ sneg.mtu <= scfg.mtu
        /\ sneg.mtu <= rcfg.mtu

\* The sender never fills more than the receiver has advertised, and starts
\* within it: the assumption the data phase makes about its window
WindowWithinPeer ==
    spc = "ok" =>
        /\ sneg.window <= (IF rcfg.cap = 0 THEN 1 ELSE rcfg.cap)
        /\ sneg.cwnd \in 1..sneg.window

\* A receiver that loses no frame ends its wait for metadata by SEND_META or by
\* a timeout, never by a HELLO the sender repeated while the receiver was not
\* up yet: the handshake tolerates staggered starts
StaggeredStart == losses = 0 => rpc # "protocol"

\* Both calls come out of the handshake, whoever starts first and whatever is
\* lost
HandshakeEnds == <>(~SenderWaiting /\ ~ReceiverWaiting)
=============================================================================
