------------------------------ MODULE ValFrame -----------------------------
(***************************************************************************)
(* One direction of the wire, byte by byte: val__internal_send_packet_core *)
(* writes frames of header, content and trailer to the transport, and      *)
(* val_internal_recv_packet reads the three parts with val_recv_full, each *)
(* within its own timeout.  Nothing marks the start of a frame: the reader *)
(* takes the next bytes for a header, whatever they are.                   *)
(*                                                                         *)
(* The transports are the two of the examples: tcp, whose receive takes    *)
(* all the bytes asked for or none, and serial, which takes what there is. *)
(* The CRC is taken to be ideal: it holds exactly for the bytes of one     *)
(* whole frame, undamaged and in order.                                    *)
(***************************************************************************)
EXTENDS Integers, Sequences

CONSTANTS
    HeaderLen,    \* bytes of the header (8)
    TrailerLen,   \* bytes of the trailer (4)
    OffsetLen,    \* bytes of the explicit offset of DATA (8)
    HighLen,      \* bytes of the high half of an acknowledged offset (4)
    NakLen,       \* bytes of the content of DATA_NAK (12)
    LenMod,       \* content_len counts modulo this (2^16)
    Word,         \* type_data counts modulo this (2^32)
    MaxContent,   \* the MTU without header and trailer
    Lengths,      \* payload lengths of DATA and of control packets
    Offsets,      \* offsets of DATA, acknowledgements and DATA_NAK
    Transports,   \* "tcp", "serial"
    MaxFrames,    \* bound on the frames sent
    MaxFault      \* bound on the bytes damaged or lost

ASSUME FrameAssumption ==
    /\ HeaderLen \in Nat /\ HeaderLen > 0
    /\ TrailerLen \in Nat /\ TrailerLen > 0
    /\ OffsetLen \in Nat
    /\ HighLen \in Nat /\ HighLen > 0
    /\ NakLen \in Nat /\ NakLen >= HighLen
    /\ LenMod \in Nat /\ LenMod > NakLen
    /\ Word \in Nat /\ Word > 0
    /\ MaxContent \in Nat
    /\ \A n \in Lengths : n \in Nat
    /\ \A n \in Offsets : n \in 0..(Word * Word - 1)
    /\ MaxFrames \in Nat
    /\ MaxFault \in Nat

VARIABLES
    transport,  \* which of the two adapters
    sent,       \* history: the packets sent, as frames with what they were made of
    stream,     \* the bytes on their way, oldest first
    broken,     \* the transport has failed, perhaps in the middle of a frame
    reader,     \* where val_internal_recv_packet is and what it has read
    delivered,  \* history: what the callers of recv_packet were given, with the
                \* number of the frame it came in
    lastError,  \* the reader's last_error.code
    faults,     \* bytes damaged or lost so far
    unaligned   \* history: a fault, or a timeout that threw bytes away

frameVars == <<transport, sent, stream, broken, reader, delivered, lastError,
               faults, unaligned>>

-----------------------------------------------------------------------------
(* Packets and frames.                                                     *)

IMPLIED == -1

AckTypes == {"DATA_ACK", "DONE_ACK", "EOT_ACK"}

\* What val_internal_send_packet_ex is called with
Packets ==
    [type : {"DATA"}, len : Lengths, off : Offsets, explicit : BOOLEAN]
    \cup [type : AckTypes \cup {"DATA_NAK"}, off : Offsets]
    \cup [type : {"HELLO", "CANCEL"}, len : Lengths]

\* Mutant: the explicit offset is not counted in content_len
ContentLenNoOffset(p) ==
    CASE p.type = "DATA" -> p.len % LenMod
      [] p.type \in AckTypes -> IF p.off \div Word = 0 THEN 0 ELSE HighLen
      [] p.type = "DATA_NAK" -> NakLen
      [] OTHER -> p.len % LenMod

\* content_len, a uint16_t
ContentLen(p) ==
    CASE p.type = "DATA" -> (IF p.explicit THEN p.len + OffsetLen ELSE p.len) % LenMod
      [] p.type \in AckTypes -> IF p.off \div Word = 0 THEN 0 ELSE HighLen
      [] p.type = "DATA_NAK" -> NakLen
      [] OTHER -> p.len % LenMod

\* The fields of the frame: the header with the low half of an offset in
\* type_data, and what the content begins with
Encode(p) ==
    [type |-> p.type,
     offsetPresent |-> p.type = "DATA" /\ p.explicit,
     len |-> ContentLen(p),
     low |-> IF p.type \in AckTypes \cup {"DATA_NAK"} THEN p.off % Word ELSE 0,
     high |-> IF p.type \in AckTypes \cup {"DATA_NAK"} THEN p.off \div Word ELSE 0,
     off |-> IF p.type = "DATA" THEN p.off ELSE 0]

\* What recv_packet gives its caller: type, offset and payload length
Decode(f) ==
    [type |-> f.type,
     off |-> CASE f.type = "DATA" -> IF f.offsetPresent THEN f.off ELSE IMPLIED
               [] f.type \in AckTypes \cup {"DATA_NAK"} ->
                      Word * (IF f.len >= HighLen THEN f.high ELSE 0) + f.low
               [] OTHER -> 0,
     len |-> IF f.type = "DATA" /\ f.offsetPresent THEN f.len - OffsetLen ELSE f.len]

\* What the caller should see of a packet: an offset, a length, or both
Meant(p, seen) ==
    /\ seen.type = p.type
    /\ p.type = "DATA" => /\ seen.len = p.len
                          /\ seen.off = IF p.explicit THEN p.off ELSE IMPLIED
    /\ p.type \in AckTypes \cup {"DATA_NAK"} => seen.off = p.off
    /\ p.type \in {"HELLO", "CANCEL"} => seen.len = p.len

FrameLen(f) == HeaderLen + f.len + TrailerLen

\* A byte is the k-th of frame number n, or damaged (n = 0)
Bytes(n, f) == [k \in 1..FrameLen(f) |-> [n |-> n, k |-> k]]
Damaged == [n |-> 0, k |-> 0]

-----------------------------------------------------------------------------
(* The writer.                                                             *)

\* The content fits the MTU, or the packet is refused with VAL_ERR_INVALID_ARG
Fits(p) == ContentLen(p) <= MaxContent

\* How many bytes of a frame the loops of serial_write and tcp_send_all have passed
\* on when they end: all, or fewer after an error
Sends(f) == 0..FrameLen(f)

\* The whole frame goes to the transport, or the transport fails on the way and
\* the call ends with VAL_ERR_IO.  The reader's end does not tell it from silence:
\* tp_recv answers an error with no bytes
SendPacket ==
    /\ ~broken
    /\ Len(sent) < MaxFrames
    /\ \E p \in Packets :
        /\ Fits(p)
        /\ LET f == Encode(p)
               n == Len(sent) + 1
           IN  /\ sent' = Append(sent, [packet |-> p, frame |-> f])
               /\ \E upto \in Sends(f) :
                   /\ stream' = stream \o SubSeq(Bytes(n, f), 1, upto)
                   /\ broken' = (upto < FrameLen(f))
    /\ UNCHANGED <<transport, reader, delivered, lastError, faults, unaligned>>

-----------------------------------------------------------------------------
(* The reader.                                                             *)

\* Between two calls: about to read a header
Fresh == [part |-> "header", need |-> HeaderLen, seen |-> <<>>, len |-> 0]

Stopped == [part |-> "stopped", need |-> 0, seen |-> <<>>, len |-> 0]

\* The bytes are the first of one frame, in order
InOrder(bytes) ==
    /\ bytes[1].n > 0
    /\ \A i \in 1..Len(bytes) : bytes[i] = [n |-> bytes[1].n, k |-> i]

\* What content_len a header may hold: bytes that are no header hold anything
HeaderLens(bytes) ==
    IF InOrder(bytes) THEN {sent[bytes[1].n].frame.len} ELSE 0..(LenMod - 1)

\* The trailer matches: the bytes are those of a frame
CrcMatches(bytes) ==
    /\ InOrder(bytes)
    /\ Len(bytes) = FrameLen(sent[bytes[1].n].frame)

\* Mutant: a frame without content ends with its header
HeaderReadOnly(bytes) ==
    \E len \in HeaderLens(bytes) :
        /\ reader' = IF len > MaxContent THEN Stopped
                     ELSE IF len > 0
                     THEN [part |-> "content", need |-> len, seen |-> bytes, len |-> len]
                     ELSE Fresh
        /\ lastError' = IF len > MaxContent THEN "PROTOCOL" ELSE lastError
        /\ UNCHANGED delivered

\* The header is in: a length over the MTU ends the session with
\* VAL_ERR_PROTOCOL, no content goes straight to the trailer
HeaderRead(bytes) ==
    \E len \in HeaderLens(bytes) :
        /\ reader' = IF len > MaxContent THEN Stopped
                     ELSE IF len > 0
                     THEN [part |-> "content", need |-> len, seen |-> bytes, len |-> len]
                     ELSE [part |-> "trailer", need |-> TrailerLen, seen |-> bytes, len |-> 0]
        /\ lastError' = IF len > MaxContent THEN "PROTOCOL" ELSE lastError
        /\ UNCHANGED delivered

ContentRead(bytes) ==
    /\ reader' = [reader EXCEPT !.part = "trailer", !.need = TrailerLen, !.seen = bytes]
    /\ UNCHANGED <<delivered, lastError>>

\* The content cannot hold the offset that the flag announces: VAL_ERR_PROTOCOL
NoRoomForOffset(f) == f.type = "DATA" /\ f.offsetPresent /\ f.len < OffsetLen

\* The frame is in: delivered if its trailer matches, to a caller whose buffer
\* takes a whole packet.  After VAL_ERR_CRC the caller reads on (recv_until_deadline)
\* or gives up (the receiver's waits)
TrailerRead(bytes) ==
    IF CrcMatches(bytes)
    THEN LET n == bytes[1].n
             f == sent[n].frame
         IN  /\ lastError' = IF f.type = "CANCEL" THEN "ABORTED" ELSE lastError
             /\ IF NoRoomForOffset(f)
                THEN reader' = Stopped /\ UNCHANGED delivered
                ELSE /\ reader' = Fresh
                     /\ delivered' = Append(delivered, [n |-> n, seen |-> Decode(f)])
    ELSE /\ lastError' = "CRC"
         /\ reader' \in {Fresh, Stopped}
         /\ UNCHANGED delivered

\* tcp_recv_exact takes nothing before it can take all
TcpTakes(avail) == {reader.need} \cap (1..avail)

\* serial_read takes what has come when its time is up, or all
SerialTakes(avail) == (1..reader.need) \cap (1..avail)

\* What one call of transport.recv may return
Takes(avail) == IF transport = "tcp" THEN TcpTakes(avail) ELSE SerialTakes(avail)

\* val_recv_full takes bytes from the transport; with the last of them the part
\* is complete
Read ==
    /\ reader.part # "stopped"
    /\ \E got \in Takes(Len(stream)) :
        LET bytes == reader.seen \o SubSeq(stream, 1, got)
        IN  /\ stream' = SubSeq(stream, got + 1, Len(stream))
            /\ IF got < reader.need
               THEN /\ reader' = [reader EXCEPT !.need = @ - got, !.seen = bytes]
                    /\ UNCHANGED <<delivered, lastError>>
               ELSE CASE reader.part = "header" -> HeaderRead(bytes)
                      [] reader.part = "content" -> ContentRead(bytes)
                      [] reader.part = "trailer" -> TrailerRead(bytes)
    /\ UNCHANGED <<transport, sent, broken, faults, unaligned>>

\* The timeout of a part: VAL_ERR_TIMEOUT, and what has been read of the frame is
\* gone.  The caller calls recv_packet again
Timeout ==
    /\ reader.part # "stopped"
    /\ lastError' = "TIMEOUT"
    /\ unaligned' = (unaligned \/ reader.seen # <<>>)
    /\ reader' = Fresh
    /\ UNCHANGED <<transport, sent, stream, broken, delivered, faults>>

-----------------------------------------------------------------------------
(* Faults of a serial line.                                                *)

\* One byte is hit: what is on its way becomes one of these
Fault(streams) ==
    /\ transport = "serial"
    /\ faults < MaxFault
    /\ faults' = faults + 1
    /\ stream' \in streams
    /\ unaligned' = TRUE
    /\ UNCHANGED <<transport, sent, broken, reader, delivered, lastError>>

DamageByte == Fault({[stream EXCEPT ![i] = Damaged] : i \in 1..Len(stream)})
LoseByte ==
    Fault({SubSeq(stream, 1, i - 1) \o SubSeq(stream, i + 1, Len(stream)) :
               i \in 1..Len(stream)})

-----------------------------------------------------------------------------
Init ==
    /\ transport \in Transports
    /\ sent = <<>>
    /\ stream = <<>>
    /\ broken = FALSE
    /\ reader = Fresh
    /\ delivered = <<>>
    /\ lastError = "OK"
    /\ faults = 0
    /\ unaligned = FALSE

Next == SendPacket \/ Read \/ Timeout \/ DamageByte \/ LoseByte

Spec == Init /\ [][Next]_frameVars

-----------------------------------------------------------------------------
(* Properties.                                                             *)

\* Whatever bytes are damaged or lost and wherever the reader starts to take them
\* for a header, recv_packet hands over only packets that were sent, each at most
\* once, in the order sent, and as send_packet was given them: type, offset (its
\* two halves, or the implied one) and payload length
FramesFaithful ==
    /\ \A i \in 1..Len(delivered) :
           Meant(sent[delivered[i].n].packet, delivered[i].seen)
    /\ \A i, j \in 1..Len(delivered) : i < j => delivered[i].n < delivered[j].n

\* Without faults, and as long as no timeout of recv_packet strikes after bytes of
\* a frame were taken, the reader stays on the frame boundaries: it has delivered
\* every frame it has read and never reports VAL_ERR_CRC or VAL_ERR_PROTOCOL.
\* Timeouts between frames are harmless
BoundaryKept ==
    ~unaligned =>
        /\ \A i \in 1..Len(delivered) : delivered[i].n = i
        /\ lastError \notin {"CRC", "PROTOCOL"}
        /\ stream # <<>> /\ reader.seen = <<>> /\ reader.part = "header" =>
               stream[1] = [n |-> Len(delivered) + 1, k |-> 1]

-----------------------------------------------------------------------------
(* Not true of the code.                                                   *)

\* Without a fault no frame is lost to the CRC: the slices of recv_until_deadline
\* that miss are benign, as its comment says.  A slice that ends in the middle of
\* a frame throws away what it has read of it, and the rest is taken for a header
SliceMissBenign == faults = 0 => lastError # "CRC"
=============================================================================
