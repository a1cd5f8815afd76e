----------------------------- MODULE FrameProofs ---------------------------
(***************************************************************************)
(* The encoding of packets in frames loses nothing, whatever the widths of *)
(* the fields, as long as content_len does not overflow; and so the reader *)
(* hands over what was sent, in order, whatever bytes it loses.            *)
(***************************************************************************)
EXTENDS ValFrame, SequenceTheorems, TLAPS

\* An offset is put together again from its two halves
LEMMA Halves ==
    ASSUME NEW off \in Nat
    PROVE  /\ off % Word \in Nat
           /\ off \div Word \in Nat
           /\ off = Word * (off \div Word) + (off % Word)
<1>1. Word \in Nat /\ Word > 0
  BY FrameAssumption
<1>2. off % Word \in Nat
  BY <1>1
<1>3. off \div Word \in Nat
  BY <1>1
<1>4. off = Word * (off \div Word) + (off % Word)
  BY <1>1
<1> QED BY <1>2, <1>3, <1>4, Zenon

\* A length below the modulus of content_len is kept
LEMMA LenKept ==
    ASSUME NEW n \in Nat, n < LenMod
    PROVE  n % LenMod = n
  BY FrameAssumption

\* For every packet whose payload, with the explicit offset of DATA, stays below
\* the 16 bits of content_len, val_internal_recv_packet recovers what
\* val__internal_send_packet_core was given: the payload length, the explicit or
\* the implied offset, and the 64-bit offset of an acknowledgement
THEOREM RoundTrip ==
    ASSUME NEW p \in Packets,
           \A n \in Lengths : n + OffsetLen < LenMod
    PROVE  Meant(p, Decode(Encode(p)))
<1>1. CASE p \in [type : {"DATA"}, len : Lengths, off : Offsets, explicit : BOOLEAN]
  <2>1. p.type = "DATA" /\ p.len \in Nat /\ p.explicit \in BOOLEAN
    BY <1>1, FrameAssumption
  <2>2. p.len + OffsetLen < LenMod /\ OffsetLen \in Nat /\ LenMod \in Nat
    BY <1>1, FrameAssumption
  <2>3. (p.len + OffsetLen) % LenMod = p.len + OffsetLen
    BY <2>1, <2>2, LenKept
  <2>4. p.len % LenMod = p.len
    BY <2>1, <2>2, LenKept
  <2>5. CASE p.explicit
    <3> DEFINE f == Encode(p)
    <3>0. p.explicit = TRUE
      BY <1>1, <2>5, Zenon
    <3>1. ContentLen(p) = p.len + OffsetLen
      <4>1. ContentLen(p) = (p.len + OffsetLen) % LenMod
        BY <2>1, <3>0 DEF ContentLen, AckTypes
      <4> QED BY <4>1, <2>3, Zenon
    <3>2. f.type = "DATA" /\ f.off = p.off /\ f.len = ContentLen(p)
      BY <2>1 DEF Encode
    <3>3. f.offsetPresent = TRUE
      BY <2>1, <3>0, Zenon DEF Encode
    <3> HIDE DEF f
    <3>4. Decode(f).type = "DATA" /\ Decode(f).off = p.off
          /\ Decode(f).len = ContentLen(p) - OffsetLen
      BY <3>2, <3>3 DEF Decode, AckTypes
    <3>5. Decode(f).len = p.len
      BY <2>1, <2>2, <3>1, <3>4
    <3> QED BY <2>1, <2>5, <3>4, <3>5 DEF Meant, AckTypes, f
  <2>6. CASE ~p.explicit
    BY <2>1, <2>2, <2>4, <2>6 DEF Meant, Decode, Encode, ContentLen, AckTypes
  <2> QED BY <2>5, <2>6
<1>2. CASE p \in [type : AckTypes \cup {"DATA_NAK"}, off : Offsets]
  <2>1. p.off \in Nat
    BY <1>2, FrameAssumption
  <2> DEFINE h == p.off \div Word
             l == p.off % Word
  <2>2. h \in Nat /\ l \in Nat /\ p.off = Word * h + l
    BY <2>1, Halves, Zenon
  <2>3. HighLen \in Nat /\ HighLen > 0 /\ NakLen \in Nat /\ NakLen >= HighLen /\ Word \in Nat
    BY FrameAssumption
  <2>4. p.type \in AckTypes \cup {"DATA_NAK"}
    BY <1>2
  <2>5. Encode(p).low = l /\ Encode(p).high = h /\ Encode(p).type = p.type
        /\ Encode(p).len = ContentLen(p)
    BY <2>4 DEF Encode
  <2>6. ContentLen(p) \in {0, HighLen, NakLen} /\ (ContentLen(p) = 0 => h = 0)
    BY <2>3, <2>4 DEF ContentLen, AckTypes
  <2> HIDE DEF h, l
  <2>7. (IF ContentLen(p) >= HighLen THEN h ELSE 0) = h
    BY <2>2, <2>3, <2>6
  <2>8. Decode(Encode(p)).off = Word * h + l /\ Decode(Encode(p)).type = p.type
    BY <2>4, <2>5, <2>7, Zenon DEF Decode, AckTypes
  <2> QED BY <2>2, <2>4, <2>8 DEF Meant, AckTypes
<1>3. CASE p \in [type : {"HELLO", "CANCEL"}, len : Lengths]
  <2>1. p.type \in {"HELLO", "CANCEL"} /\ p.len \in Nat
    BY <1>3, FrameAssumption
  <2>2. p.len < LenMod
    BY <1>3, <2>1, FrameAssumption
  <2>3. p.len % LenMod = p.len
    BY <2>1, <2>2, LenKept
  <2> QED BY <2>1, <2>3 DEF Meant, Decode, Encode, ContentLen, AckTypes
<1> QED BY <1>1, <1>2, <1>3 DEF Packets

-----------------------------------------------------------------------------
(* The bytes between the writer and the end of recv_packet.                *)

\* Every payload, with the explicit offset of DATA, fits content_len
LengthsFit == \A n \in Lengths : n + OffsetLen < LenMod

Byte == [n : Nat, k : Nat]

\* What the reader has taken of the current frame, and what is on its way
Pending == reader.seen \o stream
Had == Len(reader.seen)

Sent == [packet : Packets, frame : {Encode(p) : p \in Packets}]

ReaderStates ==
    [part : {"header", "content", "trailer", "stopped"}, need : Nat, seen : Seq(Byte), len : Nat]

FrameTypeOK ==
    /\ sent \in Seq(Sent)
    /\ \A i \in 1..Len(sent) : sent[i].frame = Encode(sent[i].packet)
    /\ stream \in Seq(Byte)
    /\ reader \in ReaderStates
    /\ delivered \in Seq([n : Nat, seen : {Decode(Encode(p)) : p \in Packets}])

\* Of two undamaged bytes the first was sent first
Follows(b, c) == b.n > 0 /\ c.n > 0 => b.n < c.n \/ (b.n = c.n /\ b.k < c.k)

\* The undamaged bytes on their way are bytes of frames sent, in the order sent,
\* and of frames later than every one delivered
BytesInv ==
    /\ \A i \in 1..Len(Pending) :
           Pending[i].n > 0 => /\ Pending[i].n <= Len(sent)
                               /\ Pending[i].k <= FrameLen(sent[Pending[i].n].frame)
    /\ \A i, j \in 1..Len(Pending) : i < j => Follows(Pending[i], Pending[j])
    /\ \A d \in 1..Len(delivered), i \in 1..Len(Pending) :
           Pending[i].n > 0 => delivered[d].n < Pending[i].n

\* What was delivered are frames sent, in the order sent
DeliveredInv ==
    /\ \A d \in 1..Len(delivered) :
           /\ delivered[d].n \in 1..Len(sent)
           /\ delivered[d].seen = Decode(sent[delivered[d].n].frame)
    /\ \A i, j \in 1..Len(delivered) : i < j => delivered[i].n < delivered[j].n

FrameInv == FrameTypeOK /\ BytesInv /\ DeliveredInv


\* A frame has a length, and is never empty
LEMMA FrameLengths ==
    ASSUME NEW p \in Packets
    PROVE  /\ Encode(p).len = ContentLen(p)
           /\ ContentLen(p) \in Nat
           /\ FrameLen(Encode(p)) = HeaderLen + ContentLen(p) + TrailerLen
           /\ FrameLen(Encode(p)) \in Nat
<1>1. ContentLen(p) \in Nat
  <2>1. CASE p \in [type : {"DATA"}, len : Lengths, off : Offsets, explicit : BOOLEAN]
    <3>1. p.type = "DATA" /\ p.len \in Nat
      BY <2>1, FrameAssumption
    <3>2. ContentLen(p) \in {(p.len + OffsetLen) % LenMod, p.len % LenMod}
      BY <3>1 DEF ContentLen, AckTypes
    <3>3. (p.len + OffsetLen) % LenMod \in Nat /\ p.len % LenMod \in Nat
      BY <3>1, FrameAssumption
    <3> QED BY <3>2, <3>3
  <2>2. CASE p \in [type : AckTypes \cup {"DATA_NAK"}, off : Offsets]
    BY <2>2, FrameAssumption DEF ContentLen, AckTypes
  <2>3. CASE p \in [type : {"HELLO", "CANCEL"}, len : Lengths]
    <3>1. p.type \in {"HELLO", "CANCEL"} /\ p.len \in Nat
      BY <2>3, FrameAssumption
    <3>2. ContentLen(p) = p.len % LenMod
      BY <3>1 DEF ContentLen, AckTypes
    <3> QED BY <3>1, <3>2, FrameAssumption
  <2> QED BY <2>1, <2>2, <2>3 DEF Packets
<1>2. Encode(p).len = ContentLen(p)
  BY DEF Encode
<1> QED BY <1>1, <1>2, FrameAssumption DEF FrameLen

\* The frames sent are those of their packets
LEMMA SentFrames ==
    ASSUME FrameTypeOK, NEW i \in 1..Len(sent)
    PROVE  /\ sent[i].packet \in Packets
           /\ sent[i].frame = Encode(sent[i].packet)
           /\ sent[i].frame.len \in Nat
           /\ FrameLen(sent[i].frame) = HeaderLen + sent[i].frame.len + TrailerLen
           /\ FrameLen(sent[i].frame) \in Nat
<1>1. sent[i] \in Sent
  BY ElementOfSeq DEF FrameTypeOK
<1>2. sent[i].packet \in Packets /\ sent[i].frame = Encode(sent[i].packet)
  BY <1>1 DEF FrameTypeOK, Sent
<1> QED BY <1>2, FrameLengths

\* The elements of a concatenation
LEMMA ConcatParts ==
    ASSUME NEW S, NEW s \in Seq(S), NEW t \in Seq(S)
    PROVE  /\ s \o t \in Seq(S)
           /\ Len(s \o t) = Len(s) + Len(t)
           /\ Len(s) \in Nat /\ Len(t) \in Nat
           /\ \A i \in 1..Len(s) : (s \o t)[i] = s[i]
           /\ \A i \in 1..Len(t) : (s \o t)[Len(s) + i] = t[i]
<1>1. Len(s) \in Nat /\ Len(t) \in Nat
  OBVIOUS
<1>2. /\ s \o t \in Seq(S)
      /\ Len(s \o t) = Len(s) + Len(t)
      /\ \A i \in 1..(Len(s) + Len(t)) :
            (s \o t)[i] = IF i <= Len(s) THEN s[i] ELSE t[i - Len(s)]
  BY ConcatProperties
<1>3. \A i \in 1..Len(s) : (s \o t)[i] = s[i]
  BY <1>1, <1>2
<1>4. ASSUME NEW i \in 1..Len(t) PROVE (s \o t)[Len(s) + i] = t[i]
  <2>1. /\ Len(s) + i \in 1..(Len(s) + Len(t))
        /\ ~(Len(s) + i <= Len(s))
        /\ (Len(s) + i) - Len(s) = i
    BY <1>1
  <2> QED BY <1>2, <2>1
<1> QED BY <1>1, <1>2, <1>3, <1>4

\* The bytes on their way: those taken, then those of the stream
LEMMA PendingParts ==
    ASSUME FrameTypeOK
    PROVE  /\ Pending \in Seq(Byte)
           /\ Len(Pending) = Had + Len(stream)
           /\ Had \in Nat /\ Len(stream) \in Nat
           /\ \A i \in 1..Had : Pending[i] = reader.seen[i]
           /\ \A i \in 1..Len(stream) : Pending[Had + i] = stream[i]
<1>1. reader.seen \in Seq(Byte) /\ stream \in Seq(Byte)
  BY DEF FrameTypeOK, ReaderStates
<1> QED BY <1>1, ConcatParts DEF Pending, Had

\* The same of the next state
LEMMA PendingPartsNext ==
    ASSUME FrameTypeOK'
    PROVE  /\ Pending' \in Seq(Byte)
           /\ Len(Pending') = Had' + Len(stream')
           /\ Had' \in Nat /\ Len(stream') \in Nat
           /\ \A i \in 1..Had' : Pending'[i] = reader'.seen[i]
           /\ \A i \in 1..Len(stream') : Pending'[Had' + i] = stream'[i]
<1>1. reader'.seen \in Seq(Byte) /\ stream' \in Seq(Byte)
  BY DEF FrameTypeOK, ReaderStates
<1> QED BY <1>1, ConcatParts DEF Pending, Had

\* What val_recv_full takes in one call, and what it leaves
LEMMA Taken ==
    ASSUME FrameTypeOK, NEW got \in Takes(Len(stream))
    PROVE  LET bytes == reader.seen \o SubSeq(stream, 1, got)
               rest == SubSeq(stream, got + 1, Len(stream))
           IN  /\ got \in 1..Len(stream) /\ got <= reader.need
               /\ bytes \in Seq(Byte) /\ rest \in Seq(Byte)
               /\ Len(bytes) = Had + got
               /\ Len(rest) = Len(stream) - got
               /\ \A i \in 1..Len(bytes) : bytes[i] = Pending[i]
               /\ \A i \in 1..Len(rest) : rest[i] = Pending[Len(bytes) + i]
<1> DEFINE first == SubSeq(stream, 1, got)
           bytes == reader.seen \o first
           rest == SubSeq(stream, got + 1, Len(stream))
<1>1. /\ reader.seen \in Seq(Byte) /\ stream \in Seq(Byte) /\ reader.need \in Nat
      /\ Had \in Nat /\ Len(stream) \in Nat
  BY DEF FrameTypeOK, ReaderStates, Had
<1>2. got \in 1..Len(stream) /\ got <= reader.need
  BY <1>1 DEF Takes, TcpTakes, SerialTakes
<1>3. \A i \in 1..Len(stream) : stream[i] \in Byte
  BY <1>1, ElementOfSeq
<1>4. /\ first \in Seq(Byte)
      /\ Len(first) = got
      /\ \A i \in 1..got : first[i] = stream[i]
  <2>1. \A i \in 1..got : i \in 1..Len(stream) /\ 1 + (i - 1) = i
    BY <1>1, <1>2
  <2>2. 1 \in Int /\ got \in Int /\ (got - 1) + 1 = got /\ 1 <= got
    BY <1>1, <1>2
  <2>3. /\ SubSeq(stream, 1, got) \in Seq(Byte)
        /\ Len(SubSeq(stream, 1, got)) = IF 1 <= got THEN (got - 1) + 1 ELSE 0
        /\ \A i \in 1..((got - 1) + 1) : SubSeq(stream, 1, got)[i] = stream[1 + (i - 1)]
    BY <1>3, <2>1, <2>2, SubSeqProperties
  <2> QED BY <2>1, <2>2, <2>3
<1>5. /\ rest \in Seq(Byte)
      /\ Len(rest) = Len(stream) - got
      /\ \A i \in 1..(Len(stream) - got) : rest[i] = stream[got + i]
  <2>1. \A i \in (got + 1)..Len(stream) : i \in 1..Len(stream)
    BY <1>1, <1>2
  <2>2. /\ got + 1 \in Int /\ Len(stream) \in Int
        /\ (IF got + 1 <= Len(stream) THEN (Len(stream) - (got + 1)) + 1 ELSE 0) = Len(stream) - got
        /\ (Len(stream) - (got + 1)) + 1 = Len(stream) - got
        /\ \A i \in 1..(Len(stream) - got) : (got + 1) + (i - 1) = got + i
    BY <1>1, <1>2
  <2>3. /\ rest \in Seq(Byte)
        /\ Len(rest) = IF got + 1 <= Len(stream) THEN (Len(stream) - (got + 1)) + 1 ELSE 0
        /\ \A i \in 1..((Len(stream) - (got + 1)) + 1) : rest[i] = stream[(got + 1) + (i - 1)]
    BY <1>3, <2>1, <2>2, SubSeqProperties
  <2> QED BY <2>2, <2>3, Zenon
<1> HIDE DEF first, rest
<1>6. /\ bytes \in Seq(Byte)
      /\ Len(bytes) = Had + got
      /\ \A i \in 1..(Had + got) :
            bytes[i] = IF i <= Had THEN reader.seen[i] ELSE first[i - Had]
  BY <1>1, <1>4, ConcatProperties, Zenon DEF Had
<1> HIDE DEF bytes
<1>7. ASSUME NEW i \in 1..Len(bytes) PROVE bytes[i] = Pending[i]
  <2>1. CASE i <= Had
    <3>1. i \in 1..Had /\ i \in 1..(Had + got)
      BY <1>1, <1>2, <1>6, <2>1
    <3> QED BY <1>6, <2>1, <3>1, PendingParts, Zenon
  <2>2. CASE ~(i <= Had)
    <3>1. PICK j \in 1..got : i = Had + j
      <4>1. i - Had \in 1..got
            /\ i = Had + (i - Had)
        BY <1>1, <1>2, <1>6, <2>2
      <4> QED BY <4>1
    <3>2. j \in 1..Len(stream) /\ i - Had = j /\ i \in 1..(Had + got)
      BY <1>1, <1>2, <3>1
    <3>3. bytes[i] = first[j] /\ first[j] = stream[j]
      BY <1>4, <1>6, <2>2, <3>1, <3>2
    <3> QED BY <3>1, <3>2, <3>3, PendingParts
  <2> QED BY <2>1, <2>2
<1>8. ASSUME NEW i \in 1..Len(rest) PROVE rest[i] = Pending[Len(bytes) + i]
  <2>1. i \in 1..(Len(stream) - got) /\ got + i \in 1..Len(stream)
        /\ Len(bytes) + i = Had + (got + i)
    BY <1>1, <1>2, <1>5, <1>6
  <2> QED BY <1>5, <2>1, PendingParts, Zenon
<1> QED BY <1>2, <1>5, <1>6, <1>7, <1>8, Zenon DEF bytes, rest, first

\* When bytes are only left out or damaged, what BytesInv says of them stays true
LEMMA Thinned ==
    ASSUME FrameTypeOK, BytesInv, sent' = sent, delivered' = delivered,
           Pending' \in Seq(Byte),
           NEW h \in [1..Len(Pending') -> 1..Len(Pending)],
           \A i, j \in 1..Len(Pending') : i < j => h[i] < h[j],
           \A i \in 1..Len(Pending') : Pending'[i] = Pending[h[i]] \/ Pending'[i].n = 0
    PROVE  BytesInv'
<1>1. \A i \in 1..Len(Pending') : Pending'[i].n > 0 => Pending'[i] = Pending[h[i]]
  OBVIOUS
<1>2. \A i \in 1..Len(Pending') : h[i] \in 1..Len(Pending)
  OBVIOUS
<1>3. ASSUME NEW i \in 1..Len(Pending'), Pending'[i].n > 0
      PROVE  /\ Pending'[i].n <= Len(sent')
             /\ Pending'[i].k <= FrameLen(sent'[Pending'[i].n].frame)
             /\ \A d \in 1..Len(delivered') : delivered'[d].n < Pending'[i].n
  BY <1>1, <1>2, <1>3 DEF BytesInv
<1>4. ASSUME NEW i \in 1..Len(Pending'), NEW j \in 1..Len(Pending'), i < j
      PROVE  Follows(Pending'[i], Pending'[j])
  <2>1. CASE Pending'[i].n > 0 /\ Pending'[j].n > 0
    <3>1. Follows(Pending[h[i]], Pending[h[j]])
      BY <1>2, <1>4 DEF BytesInv
    <3> QED BY <1>1, <2>1, <3>1
  <2>2. CASE ~(Pending'[i].n > 0 /\ Pending'[j].n > 0)
    BY <2>2 DEF Follows
  <2> QED BY <2>1, <2>2
<1> QED BY <1>3, <1>4 DEF BytesInv

\* The same when the first bytes are taken and the rest stays
LEMMA Shortened ==
    ASSUME FrameTypeOK, BytesInv, sent' = sent, delivered' = delivered,
           Pending' \in Seq(Byte), NEW m \in Nat, Len(Pending) = m + Len(Pending'),
           \A i \in 1..Len(Pending') : Pending'[i] = Pending[m + i]
    PROVE  BytesInv'
<1> DEFINE h == [i \in 1..Len(Pending') |-> m + i]
<1>1. Len(Pending') \in Nat
  OBVIOUS
<1>2. \A i \in 1..Len(Pending') : m + i \in 1..Len(Pending)
  BY <1>1
<1>3. h \in [1..Len(Pending') -> 1..Len(Pending)] /\ \A i \in 1..Len(Pending') : h[i] = m + i
  BY <1>2
<1>4. \A i, j \in 1..Len(Pending') : i < j => h[i] < h[j]
  BY <1>1, <1>3
<1> HIDE DEF h
<1> QED BY <1>3, <1>4, Thinned

LEMMA FrameInit == Init => FrameInv
<1> SUFFICES ASSUME Init PROVE FrameInv
  OBVIOUS
<1>1. FrameTypeOK
  <2>1. <<>> \in Seq(Byte) /\ <<>> \in Seq(Sent) /\ Len(<<>>) = 0
    BY EmptySeq
  <2>2. Fresh \in ReaderStates
    BY <2>1, FrameAssumption DEF Fresh, ReaderStates
  <2> QED BY <2>1, <2>2, EmptySeq DEF Init, FrameTypeOK
<1>2. Len(Pending) = 0 /\ Len(delivered) = 0
  <2>1. Had = 0 /\ Len(stream) = 0
    BY EmptySeq DEF Init, Fresh, Had
  <2> QED BY <1>1, <2>1, PendingParts, EmptySeq DEF Init
<1> QED BY <1>1, <1>2 DEF FrameInv, BytesInv, DeliveredInv

\* DeliveredInv speaks of frames sent, and these stay
LEMMA DeliveredKept ==
    ASSUME FrameTypeOK, DeliveredInv, delivered' = delivered,
           Len(sent') >= Len(sent), Len(sent') \in Nat,
           \A i \in 1..Len(sent) : sent'[i] = sent[i]
    PROVE  DeliveredInv'
<1>1. Len(sent) \in Nat /\ 1..Len(sent) \subseteq 1..Len(sent')
  BY DEF FrameTypeOK
<1> QED BY <1>1, Zenon DEF DeliveredInv

\* What is on its way when a packet was sent, whole or in part
LEMMA SendAdds ==
    ASSUME FrameTypeOK, SendPacket
    PROVE  /\ UNCHANGED <<reader, delivered>>
           /\ FrameTypeOK'
           /\ Len(sent) \in Nat /\ Len(Pending) \in Nat /\ Len(sent') = Len(sent) + 1
           /\ \A i \in 1..Len(sent) : sent'[i] = sent[i]
           /\ \E p \in Packets, upto \in Nat :
                 LET f == Encode(p)
                     n == Len(sent) + 1
                 IN  /\ sent'[n].frame = f /\ Fits(p)
                     /\ FrameLen(f) \in Nat /\ upto <= FrameLen(f)
                     /\ broken' = (upto < FrameLen(f))
                     /\ Len(Pending') = Len(Pending) + upto
                     /\ \A i \in 1..Len(Pending') :
                           \/ i \in 1..Len(Pending) /\ Pending'[i] = Pending[i]
                           \/ /\ i > Len(Pending) /\ i - Len(Pending) \in 1..upto
                              /\ Pending'[i] = [n |-> n, k |-> i - Len(Pending)]
<1>1. PICK p \in Packets :
         LET f == Encode(p)
             n == Len(sent) + 1
         IN  /\ Fits(p)
             /\ sent' = Append(sent, [packet |-> p, frame |-> f])
             /\ \E upto \in Sends(f) : /\ stream' = stream \o SubSeq(Bytes(n, f), 1, upto)
                                       /\ broken' = (upto < FrameLen(f))
  BY Zenon DEF SendPacket
<1> DEFINE f == Encode(p)
           n == Len(sent) + 1
<1>2. PICK upto \in 0..FrameLen(f) : /\ stream' = stream \o SubSeq(Bytes(n, f), 1, upto)
                                     /\ broken' = (upto < FrameLen(f))
  BY <1>1 DEF Sends
<1>3. /\ sent \in Seq(Sent) /\ Len(sent) \in Nat /\ n \in Nat /\ FrameLen(f) \in Nat
      /\ [packet |-> p, frame |-> f] \in Sent
      /\ stream \in Seq(Byte) /\ Len(stream) \in Nat
  BY FrameLengths DEF FrameTypeOK, Sent
<1>4. /\ sent' \in Seq(Sent)
      /\ Len(sent') = Len(sent) + 1
      /\ \A i \in 1..Len(sent) : sent'[i] = sent[i]
      /\ sent'[n].frame = f /\ sent'[n].packet = p
  BY <1>1, <1>3, AppendProperties
<1> HIDE DEF f
<1> DEFINE new == SubSeq(Bytes(n, f), 1, upto)
<1>5. /\ new \in Seq(Byte) /\ Len(new) = upto
      /\ \A i \in 1..upto : new[i] = [n |-> n, k |-> i]
  <2>1. \A i \in 1..upto : Bytes(n, f)[i] = [n |-> n, k |-> i] /\ [n |-> n, k |-> i] \in Byte
    BY <1>3 DEF Bytes, Byte
  <2>2. /\ 1 \in Int /\ upto \in Int
        /\ (IF 1 <= upto THEN (upto - 1) + 1 ELSE 0) = upto /\ (upto - 1) + 1 = upto
        /\ \A i \in 1..upto : 1 + (i - 1) = i
    BY <1>3
  <2>3. /\ new \in Seq(Byte)
        /\ Len(new) = IF 1 <= upto THEN (upto - 1) + 1 ELSE 0
        /\ \A i \in 1..((upto - 1) + 1) : new[i] = Bytes(n, f)[1 + (i - 1)]
    <3> DEFINE all == Bytes(n, f)
    <3>1. \A i \in 1..upto : all[i] \in Byte
      BY <2>1, Zenon
    <3> HIDE DEF all
    <3>2. /\ SubSeq(all, 1, upto) \in Seq(Byte)
          /\ Len(SubSeq(all, 1, upto)) = IF 1 <= upto THEN (upto - 1) + 1 ELSE 0
          /\ \A i \in 1..((upto - 1) + 1) : SubSeq(all, 1, upto)[i] = all[1 + (i - 1)]
      BY <2>2, <3>1, SubSeqProperties
    <3> QED BY <3>2 DEF all
  <2> QED BY <2>1, <2>2, <2>3
<1>6. stream' \in Seq(Byte)
  BY <1>2, <1>3, <1>5, ConcatProperties
<1>7. UNCHANGED <<reader, delivered>>
  BY DEF SendPacket
<1>8. FrameTypeOK'
  <2>1. \A i \in 1..Len(sent') : sent'[i].frame = Encode(sent'[i].packet)
    <3>1. \A i \in 1..Len(sent') : i \in 1..Len(sent) \/ i = n
      BY <1>3, <1>4
    <3> QED BY <1>4, <3>1 DEF FrameTypeOK, f
  <2> QED BY <1>4, <1>6, <1>7, <2>1 DEF FrameTypeOK
<1>9. /\ Pending' = Pending \o new
      /\ Pending \in Seq(Byte) /\ Pending' \in Seq(Byte) /\ Len(Pending) \in Nat
      /\ Len(Pending') = Len(Pending) + upto
      /\ \A i \in 1..Len(Pending) : Pending'[i] = Pending[i]
      /\ \A i \in 1..upto : Pending'[Len(Pending) + i] = [n |-> n, k |-> i]
  <2>1. reader.seen \in Seq(Byte)
    BY DEF FrameTypeOK, ReaderStates
  <2>2. Pending' = Pending \o new
    <3>1. Pending' = reader.seen \o (stream \o new)
      BY <1>2, <1>7 DEF Pending
    <3>2. Pending = reader.seen \o stream
      BY DEF Pending
    <3>3. (reader.seen \o stream) \o new = reader.seen \o (stream \o new)
      <4>1. \A s1, s2, s3 \in Seq(Byte) : (s1 \o s2) \o s3 = s1 \o (s2 \o s3)
        BY ConcatAssociative
      <4>2. reader.seen \in Seq(Byte) /\ stream \in Seq(Byte) /\ new \in Seq(Byte)
        BY <1>3, <1>5, <2>1, Zenon
      <4> QED BY <4>1, <4>2, Zenon
    <3> QED BY <3>1, <3>2, <3>3, Zenon
  <2>3. Pending \in Seq(Byte) /\ Len(Pending) \in Nat
    BY PendingParts
  <2> HIDE DEF new
  <2>4. /\ Pending \o new \in Seq(Byte) /\ Len(Pending \o new) = Len(Pending) + upto
        /\ \A i \in 1..(Len(Pending) + upto) :
              (Pending \o new)[i] = IF i <= Len(Pending) THEN Pending[i] ELSE new[i - Len(Pending)]
    BY <1>5, <2>3, ConcatProperties
  <2>5. \A i \in 1..Len(Pending) : (Pending \o new)[i] = Pending[i]
    BY <2>3, <2>4, <1>3
  <2>6. ASSUME NEW i \in 1..upto PROVE (Pending \o new)[Len(Pending) + i] = [n |-> n, k |-> i]
    <3>1. /\ Len(Pending) + i \in 1..(Len(Pending) + upto) /\ ~(Len(Pending) + i <= Len(Pending))
          /\ (Len(Pending) + i) - Len(Pending) = i
      BY <1>3, <2>3
    <3> QED BY <1>5, <2>4, <3>1
  <2> QED BY <2>2, <2>3, <2>4, <2>5, <2>6
<1>10. ASSUME NEW i \in 1..Len(Pending'), i \notin 1..Len(Pending)
       PROVE  /\ i > Len(Pending) /\ i - Len(Pending) \in 1..upto
              /\ Pending'[i] = [n |-> n, k |-> i - Len(Pending)]
  <2>1. i > Len(Pending) /\ i - Len(Pending) \in 1..upto /\ i = Len(Pending) + (i - Len(Pending))
    BY <1>3, <1>9, <1>10
  <2>2. PICK m \in 1..upto : m = i - Len(Pending)
    BY <2>1
  <2>3. Pending'[i] = [n |-> n, k |-> m]
    BY <1>9, <2>1, <2>2, Zenon
  <2> QED BY <2>1, <2>2, <2>3
<1>11. upto \in Nat /\ upto <= FrameLen(f) /\ Fits(p)
  BY <1>1, <1>3
<1> QED BY <1>2, <1>3, <1>4, <1>7, <1>8, <1>9, <1>10, <1>11, Zenon DEF f

\* A packet is sent, whole or in part
LEMMA SendKeeps ==
    ASSUME FrameInv, SendPacket
    PROVE  FrameInv'
<1> USE DEF FrameInv
<1>1. /\ UNCHANGED <<reader, delivered>>
      /\ FrameTypeOK'
      /\ Len(sent) \in Nat /\ Len(Pending) \in Nat /\ Len(sent') = Len(sent) + 1
      /\ \A i \in 1..Len(sent) : sent'[i] = sent[i]
  BY SendAdds
<1> DEFINE n == Len(sent) + 1
<1>2. PICK p \in Packets, upto \in Nat :
         /\ sent'[n].frame = Encode(p)
         /\ FrameLen(Encode(p)) \in Nat /\ upto <= FrameLen(Encode(p))
         /\ Len(Pending') = Len(Pending) + upto
         /\ \A i \in 1..Len(Pending') :
               \/ i \in 1..Len(Pending) /\ Pending'[i] = Pending[i]
               \/ /\ i > Len(Pending) /\ i - Len(Pending) \in 1..upto
                  /\ Pending'[i] = [n |-> n, k |-> i - Len(Pending)]
  BY SendAdds, Zenon
<1>3. Pending \in Seq(Byte)
  BY PendingParts
<1>4. ASSUME NEW i \in 1..Len(Pending'), Pending'[i].n > 0
      PROVE  /\ Pending'[i].n <= Len(sent')
             /\ Pending'[i].k <= FrameLen(sent'[Pending'[i].n].frame)
             /\ \A d \in 1..Len(delivered') : delivered'[d].n < Pending'[i].n
  <2>1. CASE i \in 1..Len(Pending) /\ Pending'[i] = Pending[i]
    <3>1. Pending[i] \in Byte
      BY <1>3, <2>1, ElementOfSeq
    <3>2. Pending[i].n \in 1..Len(sent)
      BY <1>1, <1>4, <2>1, <3>1 DEF BytesInv, Byte
    <3> QED BY <1>1, <1>4, <2>1, <3>2 DEF BytesInv
  <2>2. CASE Pending'[i].n = n /\ Pending'[i].k \in 1..upto
    <3>1. Pending'[i].k <= FrameLen(Encode(p))
      BY <1>2, <2>2
    <3>2. ASSUME NEW d \in 1..Len(delivered) PROVE delivered[d].n < n
      BY <1>1 DEF DeliveredInv
    <3> QED BY <1>1, <1>2, <2>2, <3>1, <3>2
  <2> QED BY <1>2, <2>1, <2>2
<1>5. ASSUME NEW i \in 1..Len(Pending'), NEW j \in 1..Len(Pending'), i < j
      PROVE  Follows(Pending'[i], Pending'[j])
  <2>1. CASE j \in 1..Len(Pending) /\ Pending'[j] = Pending[j]
    <3>1. i \in 1..Len(Pending) /\ Pending'[i] = Pending[i]
      BY <1>1, <1>2, <1>5, <2>1
    <3> QED BY <1>5, <2>1, <3>1, Zenon DEF BytesInv
  <2>2. CASE j > Len(Pending) /\ Pending'[j].n = n /\ Pending'[j].k = j - Len(Pending)
    <3>1. CASE i \in 1..Len(Pending) /\ Pending'[i] = Pending[i]
      <4>1. Pending[i].n > 0 => Pending[i].n < n
        <5>1. Pending[i] \in Byte
          BY <1>3, <3>1, ElementOfSeq
        <5> QED BY <1>1, <3>1, <5>1 DEF BytesInv, Byte
      <4> QED BY <2>2, <3>1, <4>1 DEF Follows
    <3>2. CASE i > Len(Pending) /\ Pending'[i].n = n /\ Pending'[i].k = i - Len(Pending)
      BY <1>1, <1>5, <2>2, <3>2 DEF Follows
    <3> QED BY <1>2, <3>1, <3>2
  <2> QED BY <1>2, <2>1, <2>2
<1>6. DeliveredInv'
  <2>1. Len(sent') >= Len(sent) /\ Len(sent') \in Nat
    BY <1>1
  <2> QED BY <1>1, <2>1, DeliveredKept
<1> QED BY <1>1, <1>4, <1>5, <1>6, Zenon DEF BytesInv

\* The bytes read are kept, or dropped with the rest of the frame
LEMMA ReadMoves ==
    ASSUME FrameTypeOK, FrameTypeOK', NEW got \in Takes(Len(stream)),
           stream' = SubSeq(stream, got + 1, Len(stream))
    PROVE  LET bytes == reader.seen \o SubSeq(stream, 1, got)
           IN  /\ Len(bytes) \in Nat
               /\ reader'.seen = bytes => /\ Len(Pending') = Len(Pending)
                                          /\ \A i \in 1..Len(Pending') : Pending'[i] = Pending[i]
               /\ reader'.seen = <<>> =>
                     /\ Len(Pending) = Len(bytes) + Len(Pending')
                     /\ \A i \in 1..Len(Pending') : Pending'[i] = Pending[Len(bytes) + i]
<1> DEFINE bytes == reader.seen \o SubSeq(stream, 1, got)
           rest == SubSeq(stream, got + 1, Len(stream))
<1>1. /\ got \in 1..Len(stream)
      /\ bytes \in Seq(Byte) /\ rest \in Seq(Byte)
      /\ Len(bytes) = Had + got
      /\ Len(rest) = Len(stream) - got
      /\ \A i \in 1..Len(bytes) : bytes[i] = Pending[i]
      /\ \A i \in 1..Len(rest) : rest[i] = Pending[Len(bytes) + i]
  BY Taken, Zenon
<1>2. /\ Len(Pending) = Had + Len(stream) /\ Had \in Nat /\ Len(stream) \in Nat
  BY PendingParts
<1>3. /\ Len(Pending') = Had' + Len(stream') /\ Had' \in Nat /\ Len(stream') \in Nat
      /\ \A i \in 1..Had' : Pending'[i] = reader'.seen[i]
      /\ \A i \in 1..Len(stream') : Pending'[Had' + i] = stream'[i]
  BY PendingPartsNext, Zenon
<1>4. stream' = rest
  OBVIOUS
<1> HIDE DEF bytes, rest
<1>5. Len(bytes) \in Nat /\ Len(rest) \in Nat /\ Len(Pending) = Len(bytes) + Len(rest)
  BY <1>1, <1>2
<1>6. ASSUME reader'.seen = bytes
      PROVE  Len(Pending') = Len(Pending) /\ \A i \in 1..Len(Pending') : Pending'[i] = Pending[i]
  <2>1. Had' = Len(bytes)
    BY <1>6 DEF Had
  <2>2. Len(Pending') = Len(Pending)
    BY <1>3, <1>4, <1>5, <2>1, Zenon
  <2>3. ASSUME NEW i \in 1..Len(Pending') PROVE Pending'[i] = Pending[i]
    <3>1. CASE i <= Len(bytes)
      <4>1. i \in 1..Len(bytes) /\ i \in 1..Had'
        BY <1>5, <2>1, <2>2, <3>1
      <4> QED BY <1>1, <1>3, <1>6, <4>1, Zenon
    <3>2. CASE ~(i <= Len(bytes))
      <4>1. i - Len(bytes) \in 1..Len(rest) /\ Len(bytes) + (i - Len(bytes)) = i
        BY <1>5, <2>2, <3>2
      <4>2. PICK j \in 1..Len(rest) : Len(bytes) + j = i
        BY <4>1, Zenon
      <4> QED BY <1>1, <1>3, <1>4, <2>1, <4>2, Zenon
    <3> QED BY <3>1, <3>2
  <2> QED BY <2>2, <2>3
<1>7. ASSUME reader'.seen = <<>>
      PROVE  /\ Len(Pending) = Len(bytes) + Len(Pending')
             /\ \A i \in 1..Len(Pending') : Pending'[i] = Pending[Len(bytes) + i]
  <2>1. Had' = 0
    BY <1>7, EmptySeq DEF Had
  <2>2. Len(Pending') = Len(rest)
    <3>1. Len(stream') = Len(rest)
      BY <1>4, Zenon
    <3>2. Len(Pending') = 0 + Len(rest)
      BY <1>3, <2>1, <3>1, Zenon
    <3> QED BY <1>5, <3>2
  <2>3. ASSUME NEW i \in 1..Len(Pending') PROVE Pending'[i] = Pending[Len(bytes) + i]
    <3>1. i \in 1..Len(rest) /\ 0 + i = i
      BY <1>5, <2>2
    <3>2. Pending'[i] = rest[i]
      BY <1>3, <1>4, <2>1, <3>1, Zenon
    <3> QED BY <1>1, <3>1, <3>2
  <2> QED BY <1>5, <2>2, <2>3
<1> QED BY <1>5, <1>6, <1>7, Zenon DEF bytes

\* The whole of a frame was read: what is on its way is later
LEMMA FrameComplete ==
    ASSUME FrameTypeOK, BytesInv, NEW got \in Takes(Len(stream)),
           CrcMatches(reader.seen \o SubSeq(stream, 1, got))
    PROVE  LET bytes == reader.seen \o SubSeq(stream, 1, got)
           IN  /\ bytes[1].n \in 1..Len(sent)
               /\ \A d \in 1..Len(delivered) : delivered[d].n < bytes[1].n
               /\ \A j \in 1..Len(Pending) :
                     j > Len(bytes) /\ Pending[j].n > 0 => bytes[1].n < Pending[j].n
<1> DEFINE bytes == reader.seen \o SubSeq(stream, 1, got)
           n == bytes[1].n
<1>1. /\ bytes \in Seq(Byte) /\ got \in 1..Len(stream) /\ Len(bytes) = Had + got
      /\ \A i \in 1..Len(bytes) : bytes[i] = Pending[i]
  BY Taken, Zenon
<1>2. Len(Pending) = Had + Len(stream) /\ Had \in Nat /\ Len(stream) \in Nat /\ Pending \in Seq(Byte)
  BY PendingParts
<1>3. CrcMatches(bytes)
  OBVIOUS
<1> HIDE DEF bytes
<1>4. Len(bytes) \in Nat /\ Len(bytes) >= 1 /\ Len(bytes) <= Len(Pending)
  BY <1>1, <1>2
<1>5. 1 \in 1..Len(bytes) /\ 1 \in 1..Len(Pending) /\ bytes[1] = Pending[1]
      /\ Len(bytes) \in 1..Len(Pending) /\ Len(bytes) \in 1..Len(bytes)
  BY <1>1, <1>2, <1>4
<1>6. bytes[1] \in Byte /\ Len(sent) \in Nat
  BY <1>1, <1>5, ElementOfSeq DEF FrameTypeOK
<1>7. n > 0 /\ n \in Nat
  BY <1>3, <1>6 DEF CrcMatches, InOrder, Byte
<1>8. n \in 1..Len(sent)
  BY <1>5, <1>6, <1>7 DEF BytesInv
<1>9. \A d \in 1..Len(delivered) : delivered[d].n < n
  BY <1>5, <1>7, Zenon DEF BytesInv
<1>10. Pending[Len(bytes)] = [n |-> n, k |-> FrameLen(sent[n].frame)]
  <2>1. bytes[Len(bytes)] = [n |-> n, k |-> Len(bytes)] /\ Len(bytes) = FrameLen(sent[n].frame)
    BY <1>3, <1>5, Zenon DEF CrcMatches, InOrder
  <2> QED BY <1>1, <1>5, <2>1, Zenon
<1>11. ASSUME NEW j \in 1..Len(Pending), j > Len(bytes), Pending[j].n > 0 PROVE n < Pending[j].n
  <2>1. Pending[j] \in Byte
    BY <1>2, ElementOfSeq, Zenon
  <2>2. Follows(Pending[Len(bytes)], Pending[j])
    BY <1>5, <1>11, Zenon DEF BytesInv
  <2>3. n < Pending[j].n \/ (n = Pending[j].n /\ FrameLen(sent[n].frame) < Pending[j].k)
    BY <1>7, <1>10, <1>11, <2>2 DEF Follows
  <2>4. n = Pending[j].n => Pending[j].k <= FrameLen(sent[n].frame)
    BY <1>11, Zenon DEF BytesInv
  <2>5. FrameLen(sent[n].frame) \in Nat /\ Pending[j].k \in Nat
    BY <1>8, <2>1, SentFrames DEF Byte
  <2> QED BY <2>3, <2>4, <2>5
<1> QED BY <1>8, <1>9, <1>11, Zenon DEF bytes

\* The reader's record stays one, whatever the bytes hold
LEMMA ReadTypes ==
    ASSUME FrameInv, Read
    PROVE  /\ FrameTypeOK'
           /\ \E got \in Takes(Len(stream)) :
                 LET bytes == reader.seen \o SubSeq(stream, 1, got)
                 IN  /\ stream' = SubSeq(stream, got + 1, Len(stream))
                     /\ \/ reader'.seen = bytes /\ delivered' = delivered
                        \/ reader'.seen = <<>> /\ delivered' = delivered
                        \/ /\ reader'.seen = <<>>
                           /\ CrcMatches(bytes)
                           /\ delivered' = Append(delivered, [n |-> bytes[1].n,
                                                              seen |-> Decode(sent[bytes[1].n].frame)])
<1> USE DEF FrameInv
<1>1. PICK got \in Takes(Len(stream)) :
         LET bytes == reader.seen \o SubSeq(stream, 1, got)
         IN  /\ stream' = SubSeq(stream, got + 1, Len(stream))
             /\ IF got < reader.need
                THEN /\ reader' = [reader EXCEPT !.need = @ - got, !.seen = bytes]
                     /\ UNCHANGED <<delivered, lastError>>
                ELSE CASE reader.part = "header" -> HeaderRead(bytes)
                       [] reader.part = "content" -> ContentRead(bytes)
                       [] reader.part = "trailer" -> TrailerRead(bytes)
  BY Zenon DEF Read
<1> DEFINE bytes == reader.seen \o SubSeq(stream, 1, got)
<1>2. /\ got \in 1..Len(stream) /\ got <= reader.need
      /\ bytes \in Seq(Byte) /\ stream' \in Seq(Byte)
      /\ Len(bytes) = Had + got
      /\ \A i \in 1..Len(bytes) : bytes[i] = Pending[i]
  BY <1>1, Taken, Zenon
<1>3. /\ reader \in ReaderStates /\ reader.part # "stopped" /\ sent' = sent
      /\ Had \in Nat /\ Len(stream) \in Nat /\ Len(Pending) = Had + Len(stream)
      /\ Pending \in Seq(Byte)
  BY PendingParts DEF FrameTypeOK, Read
<1>4. /\ Fresh \in ReaderStates /\ Fresh.seen = <<>>
      /\ Stopped \in ReaderStates /\ Stopped.seen = <<>>
  BY FrameAssumption, EmptySeq, Zenon DEF Fresh, Stopped, ReaderStates
<1>5. InOrder(bytes) => bytes[1].n \in 1..Len(sent)
  <2> SUFFICES ASSUME InOrder(bytes) PROVE bytes[1].n \in 1..Len(sent)
    BY Zenon
  <2> HIDE DEF bytes
  <2>1. 1 \in 1..Len(bytes) /\ 1 \in 1..Len(Pending)
    BY <1>2, <1>3
  <2>2. bytes[1] = Pending[1] /\ Pending[1] \in Byte /\ Pending[1].n > 0
    BY <1>2, <1>3, <2>1, ElementOfSeq, Zenon DEF InOrder
  <2> QED BY <2>1, <2>2 DEF BytesInv, Byte, FrameTypeOK
<1>6. ASSUME reader' \in ReaderStates, delivered' = delivered,
             reader'.seen = bytes \/ reader'.seen = <<>>
      PROVE  FrameTypeOK' /\ (reader'.seen = bytes \/ reader'.seen = <<>>) /\ delivered' = delivered
  BY <1>2, <1>3, <1>6, Zenon DEF FrameTypeOK
<1> HIDE DEF bytes
<1>7. CASE got < reader.need
  <2>1. reader' = [reader EXCEPT !.need = @ - got, !.seen = bytes] /\ delivered' = delivered
    BY <1>1, <1>7 DEF bytes
  <2>2. reader.need - got \in Nat
    BY <1>2, <1>3, <1>7 DEF ReaderStates
  <2>3. reader' \in ReaderStates /\ reader'.seen = bytes
    BY <1>2, <1>3, <2>1, <2>2, Zenon DEF ReaderStates
  <2> QED BY <1>1, <1>6, <2>1, <2>3, Zenon DEF bytes
<1>8. CASE ~(got < reader.need) /\ reader.part = "header"
  <2>1. HeaderRead(bytes)
    BY <1>1, <1>8 DEF bytes
  <2>2. PICK len \in HeaderLens(bytes) :
           reader' = IF len > MaxContent THEN Stopped
                     ELSE IF len > 0
                     THEN [part |-> "content", need |-> len, seen |-> bytes, len |-> len]
                     ELSE [part |-> "trailer", need |-> TrailerLen, seen |-> bytes, len |-> 0]
    BY <2>1, Zenon DEF HeaderRead
  <2>3. len \in Nat
    <3>1. CASE InOrder(bytes)
      <4>1. len = sent[bytes[1].n].frame.len
        BY <2>2, <3>1 DEF HeaderLens
      <4>2. PICK n \in 1..Len(sent) : n = bytes[1].n
        BY <1>5, <3>1, Zenon
      <4>3. sent[n].frame.len \in Nat
        BY SentFrames, Zenon
      <4> QED BY <4>1, <4>2, <4>3
    <3>2. CASE ~InOrder(bytes)
      BY <2>2, <3>2, FrameAssumption DEF HeaderLens
    <3> QED BY <3>1, <3>2
  <2>4. reader' \in ReaderStates /\ (reader'.seen = bytes \/ reader'.seen = <<>>)
    BY <1>2, <1>4, <2>2, <2>3, FrameAssumption, Zenon DEF ReaderStates
  <2>5. delivered' = delivered
    BY <2>1, Zenon DEF HeaderRead
  <2> QED BY <1>1, <1>6, <2>4, <2>5, Zenon DEF bytes
<1>9. CASE ~(got < reader.need) /\ reader.part = "content"
  <2>1. ContentRead(bytes)
    BY <1>1, <1>9 DEF bytes
  <2>2. reader' \in ReaderStates /\ reader'.seen = bytes /\ delivered' = delivered
    BY <1>2, <1>3, <2>1, FrameAssumption, Zenon DEF ContentRead, ReaderStates
  <2> QED BY <1>1, <1>6, <2>2, Zenon DEF bytes
<1>10. CASE ~(got < reader.need) /\ reader.part = "trailer"
  <2>1. TrailerRead(bytes)
    BY <1>1, <1>10, Zenon DEF bytes
  <2> DEFINE d == [n |-> bytes[1].n, seen |-> Decode(sent[bytes[1].n].frame)]
  <2>2. reader' \in ReaderStates /\ reader'.seen = <<>>
    BY <1>4, <2>1, Zenon DEF TrailerRead
  <2>3. delivered' = delivered \/ (CrcMatches(bytes) /\ delivered' = Append(delivered, d))
    BY <2>1 DEF TrailerRead
  <2>4. CASE delivered' = delivered
    BY <1>1, <1>6, <2>2, <2>4, Zenon DEF bytes
  <2>5. CASE CrcMatches(bytes) /\ delivered' = Append(delivered, d)
    <3>1. bytes[1].n \in 1..Len(sent)
      BY <1>5, <2>5, Zenon DEF CrcMatches
    <3>2. d \in [n : Nat, seen : {Decode(Encode(p)) : p \in Packets}]
      <4>1. PICK n \in 1..Len(sent) : n = bytes[1].n
        BY <3>1
      <4>2. sent[n].packet \in Packets /\ sent[n].frame = Encode(sent[n].packet) /\ n \in Nat
        BY SentFrames
      <4> QED BY <4>1, <4>2
    <3>3. delivered' \in Seq([n : Nat, seen : {Decode(Encode(p)) : p \in Packets}])
      <4> HIDE DEF d
      <4> QED BY <2>5, <3>2, AppendProperties, Zenon DEF FrameTypeOK
    <3>4. FrameTypeOK'
      BY <1>2, <1>3, <2>2, <3>3, Zenon DEF FrameTypeOK
    <3> QED BY <1>1, <2>2, <2>5, <3>4, Zenon DEF bytes
  <2> QED BY <2>3, <2>4, <2>5, Zenon
<1> QED BY <1>3, <1>7, <1>8, <1>9, <1>10, Zenon DEF ReaderStates

\* Bytes are taken, and perhaps a frame is delivered with the last of them
LEMMA ReadKeeps ==
    ASSUME FrameInv, Read
    PROVE  FrameInv'
<1> USE DEF FrameInv
<1>1. FrameTypeOK' /\ sent' = sent
  BY ReadTypes, Zenon DEF Read
<1>2. PICK got \in Takes(Len(stream)) :
         LET bytes == reader.seen \o SubSeq(stream, 1, got)
         IN  /\ stream' = SubSeq(stream, got + 1, Len(stream))
             /\ \/ reader'.seen = bytes /\ delivered' = delivered
                \/ reader'.seen = <<>> /\ delivered' = delivered
                \/ /\ reader'.seen = <<>>
                   /\ CrcMatches(bytes)
                   /\ delivered' = Append(delivered, [n |-> bytes[1].n,
                                                      seen |-> Decode(sent[bytes[1].n].frame)])
  BY ReadTypes, Zenon
<1> DEFINE bytes == reader.seen \o SubSeq(stream, 1, got)
           d == [n |-> bytes[1].n, seen |-> Decode(sent[bytes[1].n].frame)]
<1>3. /\ Len(bytes) \in Nat
      /\ reader'.seen = bytes => /\ Len(Pending') = Len(Pending)
                                 /\ \A i \in 1..Len(Pending') : Pending'[i] = Pending[i]
      /\ reader'.seen = <<>> =>
            /\ Len(Pending) = Len(bytes) + Len(Pending')
            /\ \A i \in 1..Len(Pending') : Pending'[i] = Pending[Len(bytes) + i]
  BY <1>1, <1>2, ReadMoves, Zenon
<1>4. Pending' \in Seq(Byte) /\ Len(Pending') \in Nat /\ Len(Pending) \in Nat
  BY <1>1, PendingPartsNext, PendingParts
<1>5. CASE delivered' = delivered
  <2>1. DeliveredInv'
    BY <1>1, <1>5 DEF DeliveredInv
  <2>2. BytesInv'
    <3>1. CASE reader'.seen = bytes
      <4>1. Len(Pending) = 0 + Len(Pending') /\ \A i \in 1..Len(Pending') : 0 + i = i
        BY <1>3, <1>4, <3>1
      <4>2. \A i \in 1..Len(Pending') : Pending'[i] = Pending[0 + i]
        BY <1>3, <3>1, <4>1, Zenon
      <4> QED BY <1>1, <1>4, <1>5, <4>1, <4>2, Shortened, Zenon
    <3>2. CASE reader'.seen = <<>>
      BY <1>1, <1>3, <1>4, <1>5, <3>2, Shortened, Zenon
    <3>3. reader'.seen = bytes \/ reader'.seen = <<>>
      BY <1>2, Zenon
    <3> QED BY <3>1, <3>2, <3>3, Zenon
  <2> QED BY <1>1, <2>1, <2>2
<1>6. CASE /\ reader'.seen = <<>>
           /\ CrcMatches(bytes)
           /\ delivered' = Append(delivered, d)
  <2>1. /\ bytes[1].n \in 1..Len(sent)
        /\ \A e \in 1..Len(delivered) : delivered[e].n < bytes[1].n
        /\ \A j \in 1..Len(Pending) :
              j > Len(bytes) /\ Pending[j].n > 0 => bytes[1].n < Pending[j].n
    BY <1>6, FrameComplete, Zenon
  <2>2. d.n = bytes[1].n /\ d.seen = Decode(sent[bytes[1].n].frame)
    BY Zenon
  <2> HIDE DEF d, bytes
  <2>3. /\ Len(delivered) \in Nat /\ Len(delivered') = Len(delivered) + 1
        /\ \A i \in 1..Len(delivered) : delivered'[i] = delivered[i]
        /\ delivered'[Len(delivered) + 1] = d
    BY <1>6, AppendProperties DEF FrameTypeOK
  <2>4. \A i \in 1..Len(delivered') : i \in 1..Len(delivered) \/ i = Len(delivered) + 1
    BY <2>3
  <2>5. \A i \in 1..Len(delivered') : /\ delivered'[i].n \in 1..Len(sent')
                                      /\ delivered'[i].seen = Decode(sent'[delivered'[i].n].frame)
    BY <1>1, <2>1, <2>2, <2>3, <2>4, Zenon DEF DeliveredInv
  <2>6. ASSUME NEW i \in 1..Len(delivered'), NEW j \in 1..Len(delivered'), i < j
        PROVE  delivered'[i].n < delivered'[j].n
    <3>1. i \in 1..Len(delivered)
      BY <2>3, <2>6
    <3>2. CASE j \in 1..Len(delivered)
      BY <2>3, <2>6, <3>1, <3>2 DEF DeliveredInv
    <3>3. CASE j = Len(delivered) + 1
      BY <2>1, <2>2, <2>3, <3>1, <3>3, Zenon
    <3> QED BY <2>4, <3>2, <3>3
  <2>7. ASSUME NEW i \in 1..Len(Pending'), NEW e \in 1..Len(delivered'), Pending'[i].n > 0
        PROVE  delivered'[e].n < Pending'[i].n
    <3>1. Pending'[i] = Pending[Len(bytes) + i] /\ Len(bytes) + i \in 1..Len(Pending)
          /\ Len(bytes) + i > Len(bytes)
      BY <1>3, <1>4, <1>6
    <3>2. CASE e \in 1..Len(delivered)
      BY <2>3, <2>7, <3>1, <3>2, Zenon DEF BytesInv
    <3>3. CASE e = Len(delivered) + 1
      BY <2>1, <2>2, <2>3, <2>7, <3>1, <3>3, Zenon
    <3> QED BY <2>4, <3>2, <3>3
  <2>8. ASSUME NEW i \in 1..Len(Pending')
        PROVE  /\ Pending'[i] = Pending[Len(bytes) + i] /\ Len(bytes) + i \in 1..Len(Pending)
               /\ Pending'[i].n > 0 => /\ Pending'[i].n <= Len(sent')
                                       /\ Pending'[i].k <= FrameLen(sent'[Pending'[i].n].frame)
    <3>1. Pending'[i] = Pending[Len(bytes) + i] /\ Len(bytes) + i \in 1..Len(Pending)
      BY <1>3, <1>4, <1>6
    <3> QED BY <1>1, <3>1, Zenon DEF BytesInv
  <2>9. ASSUME NEW i \in 1..Len(Pending'), NEW j \in 1..Len(Pending'), i < j
        PROVE  Follows(Pending'[i], Pending'[j])
    <3>1. Len(bytes) + i < Len(bytes) + j
      BY <1>3, <1>4, <2>9
    <3> QED BY <2>8, <3>1 DEF BytesInv
  <2> QED BY <1>1, <2>5, <2>6, <2>7, <2>8, <2>9, Zenon DEF BytesInv, DeliveredInv
<1> QED BY <1>2, <1>5, <1>6, Zenon

\* What was taken of a frame is thrown away
LEMMA TimeoutKeeps ==
    ASSUME FrameInv, Timeout
    PROVE  FrameInv'
<1> USE DEF FrameInv
<1>1. reader' = Fresh /\ UNCHANGED <<sent, stream, delivered>>
  BY Zenon DEF Timeout
<1>2. Fresh \in ReaderStates /\ Fresh.seen = <<>>
  BY FrameAssumption, EmptySeq, Zenon DEF Fresh, ReaderStates
<1>3. FrameTypeOK'
  BY <1>1, <1>2, Zenon DEF FrameTypeOK
<1>4. Had' = 0
  BY <1>1, <1>2, EmptySeq DEF Had
<1>5. /\ Pending' \in Seq(Byte) /\ Len(Pending') = Had' + Len(stream')
      /\ Len(stream') \in Nat
      /\ \A i \in 1..Len(stream') : Pending'[Had' + i] = stream'[i]
  BY <1>3, PendingPartsNext
<1>6. /\ Len(Pending') = Len(stream)
      /\ \A i \in 1..Len(stream) : Pending'[i] = stream[i]
  <2>1. stream' = stream
    BY <1>1
  <2>2. \A i \in 1..Len(stream) : 0 + i = i
    OBVIOUS
  <2>3. 0 + Len(stream) = Len(stream)
    BY <1>5, <2>1
  <2> QED BY <1>4, <1>5, <2>1, <2>2, <2>3
<1>7. /\ Had \in Nat /\ Len(Pending) = Had + Len(stream)
      /\ \A i \in 1..Len(stream) : Pending[Had + i] = stream[i]
  BY PendingParts
<1>8. Len(Pending) = Had + Len(Pending') /\ \A i \in 1..Len(Pending') : Pending'[i] = Pending[Had + i]
  BY <1>6, <1>7, Zenon
<1>9. BytesInv'
  BY <1>1, <1>5, <1>7, <1>8, Shortened, Zenon
<1> QED BY <1>1, <1>3, <1>9 DEF DeliveredInv

\* The stream loses bytes or has some damaged: so does what is on its way
LEMMA FaultKeeps ==
    ASSUME FrameInv, UNCHANGED <<sent, reader, delivered>>, stream' \in Seq(Byte),
           NEW g \in [1..Len(stream') -> 1..Len(stream)],
           \A i, j \in 1..Len(stream') : i < j => g[i] < g[j],
           \A i \in 1..Len(stream') : stream'[i] = stream[g[i]] \/ stream'[i].n = 0
    PROVE  FrameInv'
<1> USE DEF FrameInv
<1>1. FrameTypeOK' /\ Had' = Had /\ reader' = reader
  BY Zenon DEF FrameTypeOK, Had
<1>2. /\ Pending' \in Seq(Byte) /\ Len(Pending') = Had + Len(stream') /\ Len(stream') \in Nat
      /\ \A i \in 1..Had : Pending'[i] = reader.seen[i]
      /\ \A i \in 1..Len(stream') : Pending'[Had + i] = stream'[i]
  BY <1>1, PendingPartsNext
<1>3. /\ Len(Pending) = Had + Len(stream) /\ Len(stream) \in Nat /\ Had \in Nat
      /\ \A i \in 1..Had : Pending[i] = reader.seen[i]
      /\ \A i \in 1..Len(stream) : Pending[Had + i] = stream[i]
  BY PendingParts, Zenon
<1> DEFINE h == [i \in 1..Len(Pending') |-> IF i <= Had THEN i ELSE Had + g[i - Had]]
<1>4. \A i \in 1..Len(stream') : g[i] \in 1..Len(stream)
  OBVIOUS
<1>5. ASSUME NEW i \in 1..Len(Pending'), ~(i <= Had)
      PROVE  i - Had \in 1..Len(stream') /\ Had + (i - Had) = i
  BY <1>2, <1>3, <1>5
<1>6. ASSUME NEW i \in 1..Len(Pending')
      PROVE  (IF i <= Had THEN i ELSE Had + g[i - Had]) \in 1..Len(Pending)
  <2>1. CASE i <= Had
    BY <1>2, <1>3, <2>1
  <2>2. CASE ~(i <= Had)
    <3>1. g[i - Had] \in 1..Len(stream)
      BY <1>4, <1>5, <2>2, Zenon
    <3> QED BY <1>3, <2>2, <3>1
  <2> QED BY <2>1, <2>2
<1>7. /\ h \in [1..Len(Pending') -> 1..Len(Pending)]
      /\ \A i \in 1..Len(Pending') : h[i] = IF i <= Had THEN i ELSE Had + g[i - Had]
  BY <1>6
<1> HIDE DEF h
<1>8. ASSUME NEW i \in 1..Len(Pending'), NEW j \in 1..Len(Pending'), i < j
      PROVE  h[i] < h[j]
  <2>1. CASE j <= Had
    <3>1. i <= Had
      BY <1>3, <1>8, <2>1
    <3> QED BY <1>7, <1>8, <2>1, <3>1
  <2>2. CASE ~(j <= Had) /\ i <= Had
    <3>1. g[j - Had] \in 1..Len(stream) /\ h[j] = Had + g[j - Had] /\ h[i] = i
      BY <1>4, <1>5, <1>7, <2>2, Zenon
    <3> QED BY <1>3, <2>2, <3>1
  <2>3. CASE ~(j <= Had) /\ ~(i <= Had)
    <3>1. /\ g[j - Had] \in 1..Len(stream) /\ h[j] = Had + g[j - Had]
          /\ g[i - Had] \in 1..Len(stream) /\ h[i] = Had + g[i - Had]
      BY <1>4, <1>5, <1>7, <2>3, Zenon
    <3>2. i - Had < j - Had /\ i - Had \in 1..Len(stream') /\ j - Had \in 1..Len(stream')
      BY <1>3, <1>5, <1>8, <2>3
    <3>3. g[i - Had] < g[j - Had]
      BY <3>2, Zenon
    <3> QED BY <1>3, <3>1, <3>3
  <2> QED BY <2>1, <2>2, <2>3
<1>9. ASSUME NEW i \in 1..Len(Pending')
      PROVE  Pending'[i] = Pending[h[i]] \/ Pending'[i].n = 0
  <2>1. CASE i <= Had
    <3>1. i \in 1..Had /\ h[i] = i
      BY <1>3, <1>7, <2>1
    <3> QED BY <1>2, <1>3, <3>1, Zenon
  <2>2. CASE ~(i <= Had)
    <3>1. PICK m \in 1..Len(stream') : m = i - Had /\ Had + m = i
      BY <1>5, <2>2
    <3>2. Pending'[i] = stream'[m] /\ h[i] = Had + g[m] /\ g[m] \in 1..Len(stream)
      BY <1>2, <1>4, <1>7, <2>2, <3>1
    <3>3. Pending[h[i]] = stream[g[m]]
      BY <1>3, <3>2, Zenon
    <3> QED BY <3>2, <3>3
  <2> QED BY <2>1, <2>2, Zenon
<1>10. BytesInv'
  BY <1>2, <1>7, <1>8, <1>9, Thinned, Zenon
<1> QED BY <1>1, <1>10, Zenon DEF DeliveredInv

LEMMA DamageKeeps ==
    ASSUME FrameInv, DamageByte
    PROVE  FrameInv'
<1>1. PICK b \in 1..Len(stream) : stream' = [stream EXCEPT ![b] = Damaged]
  BY DEF DamageByte, Fault
<1>2. stream \in Seq(Byte) /\ Damaged \in Byte /\ Damaged.n = 0
  BY DEF FrameInv, FrameTypeOK, Damaged, Byte
<1>3. /\ stream' \in Seq(Byte) /\ Len(stream') = Len(stream)
      /\ \A i \in 1..Len(stream) : stream'[i] = IF i = b THEN Damaged ELSE stream[i]
  BY <1>1, <1>2, ExceptSeq
<1> DEFINE g == [i \in 1..Len(stream) |-> i]
<1>4. /\ g \in [1..Len(stream') -> 1..Len(stream)]
      /\ \A i, j \in 1..Len(stream') : i < j => g[i] < g[j]
      /\ \A i \in 1..Len(stream') : stream'[i] = stream[g[i]] \/ stream'[i].n = 0
  BY <1>2, <1>3
<1>5. UNCHANGED <<sent, reader, delivered>>
  BY DEF DamageByte, Fault
<1> HIDE DEF g
<1> QED BY <1>3, <1>4, <1>5, FaultKeeps, Zenon

LEMMA LoseKeeps ==
    ASSUME FrameInv, LoseByte
    PROVE  FrameInv'
<1>1. PICK b \in 1..Len(stream) :
         stream' = SubSeq(stream, 1, b - 1) \o SubSeq(stream, b + 1, Len(stream))
  BY Zenon DEF LoseByte, Fault
<1>2. stream \in Seq(Byte) /\ Len(stream) \in Nat
  BY DEF FrameInv, FrameTypeOK
<1> DEFINE left == SubSeq(stream, 1, b - 1)
           right == SubSeq(stream, b + 1, Len(stream))
<1>3. \A i \in 1..Len(stream) : stream[i] \in Byte
  BY <1>2, ElementOfSeq
<1>4. /\ left \in Seq(Byte) /\ Len(left) = b - 1
      /\ \A i \in 1..(b - 1) : left[i] = stream[i]
  <2>1. /\ 1 \in Int /\ b - 1 \in Int
        /\ (IF 1 <= b - 1 THEN ((b - 1) - 1) + 1 ELSE 0) = b - 1
        /\ ((b - 1) - 1) + 1 = b - 1
        /\ \A i \in 1..(b - 1) : i \in 1..Len(stream) /\ 1 + (i - 1) = i
    BY <1>2
  <2>2. /\ left \in Seq(Byte)
        /\ Len(left) = IF 1 <= b - 1 THEN ((b - 1) - 1) + 1 ELSE 0
        /\ \A i \in 1..(((b - 1) - 1) + 1) : left[i] = stream[1 + (i - 1)]
    BY <1>3, <2>1, SubSeqProperties
  <2> QED BY <2>1, <2>2
<1>5. /\ right \in Seq(Byte) /\ Len(right) = Len(stream) - b
      /\ \A i \in 1..(Len(stream) - b) : right[i] = stream[b + i]
  <2>1. /\ b + 1 \in Int /\ Len(stream) \in Int
        /\ (IF b + 1 <= Len(stream) THEN (Len(stream) - (b + 1)) + 1 ELSE 0) = Len(stream) - b
        /\ (Len(stream) - (b + 1)) + 1 = Len(stream) - b
        /\ \A i \in (b + 1)..Len(stream) : i \in 1..Len(stream)
        /\ \A i \in 1..(Len(stream) - b) : (b + 1) + (i - 1) = b + i
    BY <1>2
  <2>2. /\ right \in Seq(Byte)
        /\ Len(right) = IF b + 1 <= Len(stream) THEN (Len(stream) - (b + 1)) + 1 ELSE 0
        /\ \A i \in 1..((Len(stream) - (b + 1)) + 1) : right[i] = stream[(b + 1) + (i - 1)]
    <3>1. \A i \in (b + 1)..Len(stream) : stream[i] \in Byte
      BY <1>3, <2>1, Zenon
    <3>2. b + 1 \in Int /\ Len(stream) \in Int
      BY <2>1, Zenon
    <3>3. \A m, n \in Int : (\A i \in m..n : stream[i] \in Byte) =>
             /\ SubSeq(stream, m, n) \in Seq(Byte)
             /\ Len(SubSeq(stream, m, n)) = IF m <= n THEN (n - m) + 1 ELSE 0
             /\ \A i \in 1..((n - m) + 1) : SubSeq(stream, m, n)[i] = stream[m + (i - 1)]
      BY SubSeqProperties
    <3> QED BY <3>1, <3>2, <3>3, Zenon
  <2> QED BY <2>1, <2>2, Zenon
<1>6. stream' = left \o right
  BY <1>1
<1> HIDE DEF left, right
<1>7. /\ stream' \in Seq(Byte) /\ Len(stream') = Len(left) + Len(right)
      /\ \A i \in 1..Len(left) : stream'[i] = left[i]
      /\ \A i \in 1..Len(right) : stream'[Len(left) + i] = right[i]
  <2>1. left \in Seq(Byte) /\ right \in Seq(Byte)
    BY <1>4, <1>5
  <2>2. /\ left \o right \in Seq(Byte) /\ Len(left \o right) = Len(left) + Len(right)
        /\ \A i \in 1..Len(left) : (left \o right)[i] = left[i]
        /\ \A i \in 1..Len(right) : (left \o right)[Len(left) + i] = right[i]
    BY <2>1, ConcatParts
  <2> QED BY <1>6, <2>2
<1>8. Len(stream') = Len(stream) - 1 /\ b \in Nat /\ b >= 1
  <2>1. Len(stream') = (b - 1) + (Len(stream) - b)
    BY <1>4, <1>5, <1>7
  <2> QED BY <1>2, <2>1
<1> DEFINE g == [i \in 1..Len(stream') |-> IF i < b THEN i ELSE i + 1]
<1>9. \A i \in 1..Len(stream') : (IF i < b THEN i ELSE i + 1) \in 1..Len(stream)
  BY <1>2, <1>8
<1>10. /\ g \in [1..Len(stream') -> 1..Len(stream)]
       /\ \A i \in 1..Len(stream') : g[i] = IF i < b THEN i ELSE i + 1
  BY <1>9
<1> HIDE DEF g
<1>11. \A i, j \in 1..Len(stream') : i < j => g[i] < g[j]
  BY <1>2, <1>8, <1>10
<1>12. ASSUME NEW i \in 1..Len(stream') PROVE stream'[i] = stream[g[i]]
  <2>1. CASE i < b
    <3>1. i \in 1..Len(left) /\ i \in 1..(b - 1) /\ g[i] = i
      BY <1>4, <1>8, <1>10, <2>1
    <3> QED BY <1>4, <1>7, <3>1
  <2>2. CASE ~(i < b)
    <3>1. /\ i - (b - 1) \in 1..Len(right) /\ (b - 1) + (i - (b - 1)) = i
          /\ b + (i - (b - 1)) = i + 1
      BY <1>2, <1>5, <1>8, <2>2
    <3>2. PICK m \in 1..Len(right) : (b - 1) + m = i /\ b + m = i + 1
      BY <3>1, Zenon
    <3>3. stream'[i] = right[m] /\ right[m] = stream[b + m]
      BY <1>4, <1>5, <1>7, <3>2, Zenon
    <3> QED BY <1>10, <2>2, <3>2, <3>3
  <2> QED BY <2>1, <2>2
<1>13. UNCHANGED <<sent, reader, delivered>>
  BY DEF LoseByte, Fault
<1> QED BY <1>7, <1>10, <1>11, <1>12, <1>13, FaultKeeps, Zenon

LEMMA FrameStep == FrameInv /\ [Next]_frameVars => FrameInv'
<1> SUFFICES ASSUME FrameInv, [Next]_frameVars PROVE FrameInv'
  OBVIOUS
<1>1. CASE UNCHANGED frameVars
  <2>1. UNCHANGED <<sent, stream, reader, delivered>>
    BY <1>1 DEF frameVars
  <2>2. Pending' = Pending
    BY <2>1 DEF Pending
  <2> QED BY <2>1, <2>2, Zenon DEF FrameInv, FrameTypeOK, BytesInv, DeliveredInv
<1> QED BY <1>1, SendKeeps, ReadKeeps, TimeoutKeeps, DamageKeeps, LoseKeeps DEF Next

\* For every transport, every number of frames, faults and timeouts, and whatever
\* bytes the reader takes for a header: recv_packet hands over only packets that
\* were sent, each at most once, in order and as send_packet was given them,
\* provided that the CRC tells and that every length fits content_len
THEOREM AlwaysFaithful ==
    ASSUME LengthsFit
    PROVE  Spec => []FramesFaithful
<1>1. FrameInv => FramesFaithful
  <2> SUFFICES ASSUME FrameInv PROVE FramesFaithful
    BY Zenon
  <2>1. ASSUME NEW i \in 1..Len(delivered)
        PROVE  Meant(sent[delivered[i].n].packet, delivered[i].seen)
    <3>1. PICK n \in 1..Len(sent) : n = delivered[i].n /\ delivered[i].seen = Decode(sent[n].frame)
      BY DEF FrameInv, DeliveredInv
    <3>2. sent[n].packet \in Packets /\ sent[n].frame = Encode(sent[n].packet)
      BY SentFrames DEF FrameInv
    <3>3. Meant(sent[n].packet, Decode(Encode(sent[n].packet)))
      BY <3>2, RoundTrip, Zenon DEF LengthsFit
    <3> QED BY <3>1, <3>2, <3>3
  <2> QED BY <2>1 DEF FramesFaithful, FrameInv, DeliveredInv
<1> QED BY <1>1, FrameInit, FrameStep, PTL DEF Spec

-----------------------------------------------------------------------------
(* The frame boundaries.                                                   *)

\* The frame of a byte on its way
FrameAt(i) == sent[Pending[i].n].frame
LenAt(i) == FrameLen(FrameAt(i))

\* Each frame is on its way from one of its bytes to the last, or to the last byte
\* that the transport took, and the next follows it
Contiguous ==
    /\ \A i \in 1..Len(Pending) : Pending[i].n \in 1..Len(sent) /\ Pending[i].k \in 1..LenAt(i)
    /\ \A i, j \in 1..Len(Pending) :
           i <= j /\ Pending[i].k + (j - i) <= LenAt(i) =>
               Pending[j] = [n |-> Pending[i].n, k |-> Pending[i].k + (j - i)]
    /\ \A i \in 1..(Len(Pending) - 1) :
           Pending[i].k = LenAt(i) => Pending[i + 1] = [n |-> Pending[i].n + 1, k |-> 1]
    /\ ~broken => \A i \in 1..Len(Pending) : i + (LenAt(i) - Pending[i].k) <= Len(Pending)

\* The number of the frame that the reader is in
Current == Len(delivered) + 1

\* The reader is in the frame after the last delivered, and knows its length once
\* the header is in
OnBoundary ==
    /\ Len(Pending) > 0 => Pending[1] = [n |-> Current, k |-> 1]
    /\ ~broken => IF Len(Pending) = 0 THEN Len(delivered) = Len(sent)
                  ELSE Pending[Len(Pending)].n = Len(sent)
    /\ reader.need > 0
    /\ reader.part # "header" => Had > 0
    /\ reader.part = "header" => Had + reader.need = HeaderLen
    /\ reader.part = "content" => Had + reader.need = HeaderLen + sent[Current].frame.len
    /\ reader.part = "trailer" => Had + reader.need = FrameLen(sent[Current].frame)

Aligned ==
    /\ \A i \in 1..Len(delivered) : delivered[i].n = i
    /\ lastError \notin {"CRC", "PROTOCOL"}
    /\ reader.part # "stopped" => Contiguous /\ OnBoundary

AlignedInv ==
    /\ \A i \in 1..Len(sent) : sent[i].frame.len <= MaxContent
    /\ ~unaligned => Aligned

\* What was said of the bytes on their way holds of the last of them
LEMMA ContiguousRest ==
    ASSUME FrameTypeOK, Contiguous, sent' = sent, broken' = broken,
           Len(Pending') \in Nat, NEW m \in Nat, Len(Pending) = m + Len(Pending'),
           \A i \in 1..Len(Pending') : Pending'[i] = Pending[m + i]
    PROVE  Contiguous'
<1>1. Len(Pending) \in Nat /\ Pending \in Seq(Byte)
  BY PendingParts
<1>2. \A i \in 1..Len(Pending') : m + i \in 1..Len(Pending)
  BY <1>1
<1>3. \A i \in 1..Len(Pending') : LenAt(i)' = LenAt(m + i)
  BY <1>2, Zenon DEF LenAt, FrameAt
<1>4. ASSUME NEW i \in 1..Len(Pending')
      PROVE  Pending'[i].n \in 1..Len(sent') /\ Pending'[i].k \in 1..LenAt(i)'
  BY <1>2, <1>3 DEF Contiguous
<1>5. ASSUME NEW i \in 1..Len(Pending')
      PROVE  /\ Pending'[i].n \in Nat /\ Pending'[i].k \in Nat /\ LenAt(i)' \in Nat
  <2>1. Pending[m + i] \in Byte
    BY <1>1, <1>2, ElementOfSeq, Zenon
  <2>2. LenAt(m + i) \in Nat
    BY <1>2, SentFrames, Zenon DEF Contiguous, LenAt, FrameAt
  <2> QED BY <1>3, <2>1, <2>2 DEF Byte
<1>6. ASSUME NEW i \in 1..Len(Pending'), NEW j \in 1..Len(Pending'),
             i <= j, Pending'[i].k + (j - i) <= LenAt(i)'
      PROVE  Pending'[j] = [n |-> Pending'[i].n, k |-> Pending'[i].k + (j - i)]
  <2>1. m + i <= m + j /\ (m + j) - (m + i) = j - i
    BY <1>6
  <2>2. Pending[m + i].k + ((m + j) - (m + i)) <= LenAt(m + i)
    BY <1>3, <1>6, <2>1
  <2>3. Pending[m + j] = [n |-> Pending[m + i].n, k |-> Pending[m + i].k + ((m + j) - (m + i))]
    BY <1>2, <2>1, <2>2, Zenon DEF Contiguous
  <2> QED BY <2>1, <2>3, Zenon
<1>7. ASSUME NEW i \in 1..(Len(Pending') - 1), Pending'[i].k = LenAt(i)'
      PROVE  Pending'[i + 1] = [n |-> Pending'[i].n + 1, k |-> 1]
  <2>1. /\ i \in 1..Len(Pending') /\ i + 1 \in 1..Len(Pending')
        /\ m + i \in 1..(Len(Pending) - 1) /\ (m + i) + 1 = m + (i + 1)
    BY <1>1
  <2>2. Pending[m + i].k = LenAt(m + i)
    BY <1>3, <1>7, <2>1, Zenon
  <2>3. Pending[(m + i) + 1] = [n |-> Pending[m + i].n + 1, k |-> 1]
    BY <2>1, <2>2 DEF Contiguous
  <2> QED BY <2>1, <2>3, Zenon
<1>8. ASSUME ~broken', NEW i \in 1..Len(Pending')
      PROVE  i + (LenAt(i)' - Pending'[i].k) <= Len(Pending')
  <2>1. (m + i) + (LenAt(m + i) - Pending[m + i].k) <= Len(Pending)
    BY <1>2, <1>8 DEF Contiguous
  <2>2. (m + i) + (LenAt(i)' - Pending'[i].k) <= m + Len(Pending')
    BY <1>3, <2>1, Zenon
  <2> QED BY <1>5, <2>2
<1> QED BY <1>4, <1>6, <1>7, <1>8 DEF Contiguous

\* The first bytes are those of the frame that the reader is in
LEMMA FirstFrame ==
    ASSUME FrameTypeOK, Contiguous, OnBoundary, Len(Pending) > 0
    PROVE  /\ Current \in 1..Len(sent)
           /\ FrameLen(sent[Current].frame) \in Nat
           /\ \A j \in 1..Len(Pending) :
                 j <= FrameLen(sent[Current].frame) => Pending[j] = [n |-> Current, k |-> j]
<1>1. Pending[1] = [n |-> Current, k |-> 1] /\ Len(Pending) \in Nat /\ 1 \in 1..Len(Pending)
  BY PendingParts DEF OnBoundary
<1>2. Current \in 1..Len(sent)
  BY <1>1 DEF Contiguous
<1>3. LenAt(1) = FrameLen(sent[Current].frame)
  BY <1>1 DEF LenAt, FrameAt
<1>4. ASSUME NEW j \in 1..Len(Pending), j <= FrameLen(sent[Current].frame)
      PROVE  Pending[j] = [n |-> Current, k |-> j]
  <2>1. 1 <= j /\ 1 + (j - 1) = j /\ Pending[1].k + (j - 1) = j /\ Pending[1].n = Current
    BY <1>1
  <2>2. Pending[1].k + (j - 1) <= LenAt(1)
    BY <1>3, <1>4, <2>1, Zenon
  <2>3. Pending[j] = [n |-> Pending[1].n, k |-> Pending[1].k + (j - 1)]
    BY <1>1, <2>1, <2>2 DEF Contiguous
  <2> QED BY <2>1, <2>3
<1> QED BY <1>2, <1>4, SentFrames, Zenon

\* A packet is sent, whole or in part
LEMMA SendAligned ==
    ASSUME FrameTypeOK, Contiguous, OnBoundary, reader.part # "stopped", SendPacket
    PROVE  Contiguous' /\ OnBoundary'
<1>1. /\ UNCHANGED <<reader, delivered>>
      /\ FrameTypeOK'
      /\ Len(sent) \in Nat /\ Len(Pending) \in Nat /\ Len(sent') = Len(sent) + 1
      /\ \A i \in 1..Len(sent) : sent'[i] = sent[i]
  BY SendAdds, Zenon
<1> DEFINE n == Len(sent) + 1
           old == Len(Pending)
<1>2. PICK p \in Packets, upto \in Nat :
         /\ sent'[n].frame = Encode(p)
         /\ FrameLen(Encode(p)) \in Nat /\ upto <= FrameLen(Encode(p))
         /\ broken' = (upto < FrameLen(Encode(p)))
         /\ Len(Pending') = old + upto
         /\ \A i \in 1..Len(Pending') :
               \/ i \in 1..old /\ Pending'[i] = Pending[i]
               \/ /\ i > old /\ i - old \in 1..upto
                  /\ Pending'[i] = [n |-> n, k |-> i - old]
  BY SendAdds, Zenon
<1> DEFINE L == FrameLen(Encode(p))
<1>3. L \in Nat /\ L > 0 /\ upto <= L /\ broken' = (upto < L) /\ Len(Pending') = old + upto
  BY <1>2, FrameLengths, FrameAssumption
<1>4. ~broken
  BY DEF SendPacket
<1>5. old \in Nat /\ n \in Nat /\ n = Len(sent) + 1
  BY <1>1
<1>6. Pending \in Seq(Byte)
  BY PendingParts, Zenon
<1> HIDE DEF n, old
<1>7. ASSUME NEW i \in 1..old
      PROVE  /\ i \in 1..Len(Pending')
             /\ Pending'[i] = Pending[i] /\ LenAt(i)' = LenAt(i)
             /\ Pending[i].n \in 1..Len(sent) /\ Pending[i].k \in 1..LenAt(i)
             /\ LenAt(i) \in Nat
             /\ i + (LenAt(i) - Pending[i].k) <= old
  <2>1. i \in 1..Len(Pending') /\ ~(i > old)
    BY <1>3, <1>5
  <2>2. Pending'[i] = Pending[i]
    BY <1>2, <2>1, Zenon
  <2>3. Pending[i].n \in 1..Len(sent) /\ Pending[i].k \in 1..LenAt(i)
        /\ i + (LenAt(i) - Pending[i].k) <= old
    BY <1>4, Zenon DEF Contiguous, old
  <2>4. LenAt(i)' = LenAt(i)
    BY <1>1, <2>2, <2>3, Zenon DEF LenAt, FrameAt
  <2>5. LenAt(i) \in Nat
    BY <2>3, SentFrames, Zenon DEF LenAt, FrameAt
  <2> QED BY <2>1, <2>2, <2>3, <2>4, <2>5
<1>8. ASSUME NEW i \in 1..Len(Pending'), ~(i <= old)
      PROVE  Pending'[i] = [n |-> n, k |-> i - old] /\ i - old \in 1..upto /\ LenAt(i)' = L
  <2>1. i \notin 1..old
    BY <1>5, <1>8
  <2>2. Pending'[i] = [n |-> n, k |-> i - old] /\ i - old \in 1..upto
    BY <1>2, <2>1
  <2> QED BY <1>2, <2>2 DEF LenAt, FrameAt
<1>9. \A i \in 1..Len(Pending') : i <= old => i \in 1..old
  BY <1>5
<1> HIDE DEF L
<1>10. ASSUME NEW i \in 1..Len(Pending')
       PROVE  Pending'[i].n \in 1..Len(sent') /\ Pending'[i].k \in 1..LenAt(i)'
  <2>1. CASE i <= old
    BY <1>1, <1>7, <1>9, <2>1
  <2>2. CASE ~(i <= old)
    <3>1. Pending'[i].n = n /\ Pending'[i].k \in 1..L /\ LenAt(i)' = L
      BY <1>3, <1>5, <1>8, <2>2
    <3>2. n \in 1..Len(sent')
      BY <1>1, <1>5
    <3> QED BY <3>1, <3>2
  <2> QED BY <2>1, <2>2, Zenon
<1>11. ASSUME NEW i \in 1..Len(Pending'), NEW j \in 1..Len(Pending'),
              i <= j, Pending'[i].k + (j - i) <= LenAt(i)'
       PROVE  Pending'[j] = [n |-> Pending'[i].n, k |-> Pending'[i].k + (j - i)]
  <2>1. CASE i <= old
    <3>1. i \in 1..old
      BY <1>9, <2>1
    <3> DEFINE ki == Pending[i].k
               li == LenAt(i)
    <3>2. Pending'[i] = Pending[i] /\ li \in Nat /\ ki \in 1..li /\ i + (li - ki) <= old
          /\ ki + (j - i) <= li
      BY <1>7, <1>11, <3>1, Zenon
    <3> HIDE DEF ki, li
    <3>3. j <= old
      BY <1>5, <3>1, <3>2
    <3>4. j \in 1..old
      BY <1>9, <3>3
    <3>5. Pending[j] = [n |-> Pending[i].n, k |-> Pending[i].k + (j - i)]
      BY <1>11, <3>1, <3>2, <3>4, Zenon DEF Contiguous, old, ki, li
    <3> QED BY <1>7, <3>2, <3>4, <3>5, Zenon
  <2>2. CASE ~(i <= old)
    <3>1. ~(j <= old) /\ (i - old) + (j - i) = j - old
      BY <1>5, <1>11, <2>2
    <3>2. /\ Pending'[i] = [n |-> n, k |-> i - old]
          /\ Pending'[j] = [n |-> n, k |-> j - old]
      BY <1>8, <2>2, <3>1, Zenon
    <3>3. Pending'[i].n = n /\ Pending'[i].k = i - old
      BY <3>2
    <3> QED BY <1>5, <3>1, <3>2, <3>3
  <2> QED BY <2>1, <2>2, Zenon
<1>12. ASSUME NEW i \in 1..(Len(Pending') - 1), Pending'[i].k = LenAt(i)'
       PROVE  Pending'[i + 1] = [n |-> Pending'[i].n + 1, k |-> 1]
  <2>1. i \in 1..Len(Pending') /\ i + 1 \in 1..Len(Pending')
    BY <1>3, <1>5
  <2>2. CASE i < old
    <3>1. i \in 1..old /\ i + 1 \in 1..old /\ i \in 1..(old - 1)
      BY <1>5, <2>2
    <3>2. Pending[i].k = LenAt(i)
      BY <1>7, <1>12, <3>1, Zenon
    <3>3. Pending[i + 1] = [n |-> Pending[i].n + 1, k |-> 1]
      BY <3>1, <3>2, Zenon DEF Contiguous, old
    <3> QED BY <1>7, <3>1, <3>3, Zenon
  <2>3. CASE i = old
    <3>1. i \in 1..old /\ ~(i + 1 <= old) /\ (i + 1) - old = 1 /\ old > 0
      BY <1>5, <2>3
    <3>2. Pending[i].n = Len(sent)
      BY <1>4, <2>3, <3>1 DEF OnBoundary, old
    <3>3. Pending'[i + 1] = [n |-> n, k |-> 1]
      BY <1>8, <2>1, <3>1, Zenon
    <3> QED BY <1>5, <1>7, <3>1, <3>2, <3>3, Zenon
  <2>4. CASE i > old
    <3>1. ~(i <= old) /\ i - old < upto
      BY <1>3, <1>5, <2>4
    <3>2. Pending'[i].k = i - old /\ LenAt(i)' = L
      BY <1>3, <1>5, <1>8, <2>1, <3>1
    <3>3. i - old = L
      BY <1>12, <3>2, Zenon
    <3> QED BY <1>3, <1>5, <3>1, <3>3
  <2> QED BY <1>5, <2>2, <2>3, <2>4
<1>13. ASSUME ~broken', NEW i \in 1..Len(Pending')
       PROVE  i + (LenAt(i)' - Pending'[i].k) <= Len(Pending')
  <2>1. upto = L
    <3>1. ~(upto < L)
      BY <1>3, <1>13, Zenon
    <3> QED BY <1>3, <3>1
  <2>2. CASE i <= old
    <3>1. i \in 1..old
      BY <1>9, <2>2
    <3>2. i + (LenAt(i)' - Pending'[i].k) <= old
      BY <1>7, <3>1
    <3>3. old <= Len(Pending')
      BY <1>3, <1>5
    <3>4. LenAt(i)' \in Int /\ Pending'[i].k \in Int /\ Len(Pending') \in Int
      BY <1>3, <1>5, <1>7, <3>1
    <3> QED BY <1>5, <3>2, <3>3, <3>4
  <2>3. CASE ~(i <= old)
    <3>1. LenAt(i)' = L /\ Pending'[i].k = i - old
      BY <1>3, <1>5, <1>8, <2>3
    <3>2. i + (L - (i - old)) <= Len(Pending')
      BY <1>3, <1>5, <2>1
    <3> QED BY <3>1, <3>2
  <2> QED BY <2>2, <2>3, Zenon
<1>14. Contiguous'
  BY <1>10, <1>11, <1>12, <1>13 DEF Contiguous
<1>15. Current' = Current /\ Had' = Had
  BY <1>1, Zenon DEF Current, Had
<1>16. Len(Pending') > 0 => Pending'[1] = [n |-> Current', k |-> 1]
  <2>1. CASE old > 0
    <3>1. 1 \in 1..old
      BY <1>5, <2>1
    <3> QED BY <1>7, <1>15, <2>1, <3>1, Zenon DEF OnBoundary, old
  <2>2. CASE old = 0
    <3>1. Current = n
      BY <1>4, <2>2 DEF OnBoundary, old, Current, n
    <3>2. ASSUME Len(Pending') > 0 PROVE 1 \in 1..Len(Pending') /\ ~(1 <= old) /\ 1 - old = 1
      BY <1>3, <2>2, <3>2
    <3> QED BY <1>8, <1>15, <3>1, <3>2, Zenon
  <2> QED BY <1>5, <2>1, <2>2
<1>17. ASSUME ~broken'
       PROVE  IF Len(Pending') = 0 THEN Len(delivered') = Len(sent')
              ELSE Pending'[Len(Pending')].n = Len(sent')
  <2>1. upto = L
    <3>1. ~(upto < L)
      BY <1>3, <1>17, Zenon
    <3> QED BY <1>3, <3>1
  <2>2. Len(Pending') \in 1..Len(Pending') /\ ~(Len(Pending') <= old) /\ ~(Len(Pending') = 0)
    BY <1>3, <1>5, <2>1
  <2>3. Pending'[Len(Pending')] = [n |-> n, k |-> Len(Pending') - old]
    BY <1>8, <2>2, Zenon
  <2> QED BY <1>1, <1>5, <2>2, <2>3
<1>18. Had > 0 => sent'[Current'] = sent[Current]
  <2> SUFFICES ASSUME Had > 0 PROVE sent'[Current'] = sent[Current]
    BY Zenon
  <2>1. Len(Pending) > 0
    BY PendingParts
  <2> QED BY <1>1, <1>15, <2>1, FirstFrame
<1>19. OnBoundary'
  <2>1. reader' = reader
    BY <1>1
  <2> QED BY <1>15, <1>16, <1>17, <1>18, <2>1, Zenon DEF OnBoundary
<1> QED BY <1>14, <1>19, Zenon

\* Bytes are taken of the frame that the reader is in, the last of it perhaps
LEMMA ReadAligned ==
    ASSUME FrameInv, FrameTypeOK', AlignedInv, Aligned, Read
    PROVE  Aligned'
<1>1. FrameTypeOK /\ Contiguous /\ OnBoundary /\ reader.part # "stopped"
      /\ UNCHANGED <<sent, broken>>
  BY DEF FrameInv, Aligned, Read
<1>2. PICK got \in Takes(Len(stream)) :
         LET bytes == reader.seen \o SubSeq(stream, 1, got)
         IN  /\ stream' = SubSeq(stream, got + 1, Len(stream))
             /\ IF got < reader.need
                THEN /\ reader' = [reader EXCEPT !.need = @ - got, !.seen = bytes]
                     /\ UNCHANGED <<delivered, lastError>>
                ELSE CASE reader.part = "header" -> HeaderRead(bytes)
                       [] reader.part = "content" -> ContentRead(bytes)
                       [] reader.part = "trailer" -> TrailerRead(bytes)
  BY Zenon DEF Read
<1> DEFINE bytes == reader.seen \o SubSeq(stream, 1, got)
           had == Len(bytes)
           F == sent[Current].frame
           L == FrameLen(F)
<1>3. /\ got \in 1..Len(stream) /\ got <= reader.need
      /\ bytes \in Seq(Byte) /\ Len(stream) \in Nat
      /\ had = Had + got /\ Had \in Nat
      /\ \A i \in 1..had : bytes[i] = Pending[i]
      /\ Len(Pending) = Had + Len(stream)
  BY <1>1, Taken, PendingParts, Zenon
<1>4. /\ had \in Nat
      /\ reader'.seen = bytes => /\ Len(Pending') = Len(Pending)
                                 /\ \A i \in 1..Len(Pending') : Pending'[i] = Pending[i]
      /\ reader'.seen = <<>> =>
            /\ Len(Pending) = had + Len(Pending')
            /\ \A i \in 1..Len(Pending') : Pending'[i] = Pending[had + i]
  BY <1>1, <1>2, ReadMoves, Zenon
<1>5. Len(Pending') \in Nat /\ Len(Pending) \in Nat
  BY <1>1, PendingPartsNext, PendingParts
<1>6. Had' = Len(reader'.seen) /\ reader \in ReaderStates /\ reader.need \in Nat
      /\ reader' \in ReaderStates
  BY <1>1 DEF Had, FrameTypeOK, ReaderStates
<1> HIDE DEF bytes
<1>7. had > 0 /\ had <= Len(Pending)
  BY <1>3, <1>4
<1>8. /\ Current \in 1..Len(sent) /\ Current > 0 /\ L \in Nat
      /\ F.len \in Nat /\ L = HeaderLen + F.len + TrailerLen /\ F.len <= MaxContent
      /\ \A j \in 1..Len(Pending) : j <= L => Pending[j] = [n |-> Current, k |-> j]
  <2>1. Len(Pending) > 0
    BY <1>4, <1>5, <1>7
  <2>2. /\ Current \in 1..Len(sent)
        /\ \A j \in 1..Len(Pending) : j <= L => Pending[j] = [n |-> Current, k |-> j]
    BY <1>1, <2>1, FirstFrame, Zenon
  <2>3. F.len \in Nat /\ L = HeaderLen + F.len + TrailerLen /\ L \in Nat
    BY <1>1, <2>2, SentFrames, Zenon
  <2>4. F.len <= MaxContent
    BY <2>2, Zenon DEF AlignedInv
  <2> QED BY <2>2, <2>3, <2>4
<1> HIDE DEF had, L, F
<1>9. ASSUME had <= L
      PROVE  /\ bytes[1] = [n |-> Current, k |-> 1] /\ InOrder(bytes)
             /\ Pending[had] = [n |-> Current, k |-> had]
  <2>1. \A i \in 1..had : i \in 1..Len(Pending) /\ i <= L
    BY <1>4, <1>5, <1>7, <1>8, <1>9
  <2>2. \A i \in 1..had : bytes[i] = [n |-> Current, k |-> i]
    BY <1>3, <1>8, <2>1
  <2>3. 1 \in 1..had /\ had \in 1..had
    BY <1>4, <1>7
  <2>4. bytes[1] = [n |-> Current, k |-> 1] /\ bytes[1].n = Current
    BY <2>2, <2>3
  <2>5. Pending[had] = [n |-> Current, k |-> had]
    BY <1>3, <2>2, <2>3, Zenon
  <2> QED BY <1>8, <2>2, <2>4, <2>5, Zenon DEF InOrder, had
<1>10. ASSUME reader'.seen = bytes, delivered' = delivered, lastError' = lastError,
              reader'.need > 0,
              reader'.part = "header" => had + reader'.need = HeaderLen,
              reader'.part = "content" => had + reader'.need = HeaderLen + F.len,
              reader'.part = "trailer" => had + reader'.need = L
       PROVE  Aligned'
  <2>1. Had' = had /\ Current' = Current /\ sent'[Current'].frame = F
        /\ FrameLen(sent'[Current'].frame) = L
    BY <1>1, <1>6, <1>10, Zenon DEF had, Current, F, L
  <2>2. Len(Pending') = Len(Pending) /\ \A i \in 1..Len(Pending') : Pending'[i] = Pending[i]
    BY <1>4, <1>10
  <2>3. Contiguous'
    <3>1. Len(Pending) = 0 + Len(Pending') /\ \A i \in 1..Len(Pending') : 0 + i = i
      BY <1>5, <2>2
    <3>2. \A i \in 1..Len(Pending') : Pending'[i] = Pending[0 + i]
      BY <2>2, <3>1
    <3> QED BY <1>1, <1>5, <3>1, <3>2, ContiguousRest, Zenon
  <2>4. /\ Len(Pending') > 0 => Pending'[1] = [n |-> Current', k |-> 1]
        /\ ~broken' => IF Len(Pending') = 0 THEN Len(delivered') = Len(sent')
                       ELSE Pending'[Len(Pending')].n = Len(sent')
    <3>1. 1 \in 1..Len(Pending) /\ Len(Pending) \in 1..Len(Pending)
      BY <1>4, <1>5, <1>7
    <3> QED BY <1>1, <1>10, <2>1, <2>2, <3>1 DEF OnBoundary
  <2>5. OnBoundary'
    BY <1>7, <1>10, <2>1, <2>4 DEF OnBoundary
  <2> QED BY <1>1, <1>10, <2>3, <2>5, Zenon DEF Aligned
<1>11. CASE got < reader.need
  <2>1. reader' = [reader EXCEPT !.need = @ - got, !.seen = bytes] /\ UNCHANGED <<delivered, lastError>>
    BY <1>2, <1>11 DEF bytes
  <2>2. reader'.seen = bytes /\ reader'.part = reader.part /\ reader'.need = reader.need - got
    BY <1>6, <2>1 DEF ReaderStates
  <2>3. reader'.need > 0 /\ had + reader'.need = Had + reader.need
    BY <1>3, <1>6, <1>11, <2>2
  <2> QED BY <1>1, <1>10, <2>1, <2>2, <2>3 DEF OnBoundary, F, L
<1>12. got = reader.need => had = Had + reader.need
  BY <1>3
<1>13. CASE got = reader.need /\ reader.part = "header"
  <2>1. had = HeaderLen /\ had <= L
    BY <1>1, <1>8, <1>12, <1>13, FrameAssumption DEF OnBoundary
  <2>2. HeaderLens(bytes) = {F.len}
    BY <1>9, <2>1 DEF HeaderLens, F
  <2>3. HeaderRead(bytes)
    BY <1>2, <1>6, <1>13 DEF bytes
  <2>4. /\ reader' = IF F.len > MaxContent THEN Stopped
                     ELSE IF F.len > 0
                     THEN [part |-> "content", need |-> F.len, seen |-> bytes, len |-> F.len]
                     ELSE [part |-> "trailer", need |-> TrailerLen, seen |-> bytes, len |-> 0]
        /\ lastError' = IF F.len > MaxContent THEN "PROTOCOL" ELSE lastError
        /\ delivered' = delivered
    BY <2>2, <2>3, Zenon DEF HeaderRead
  <2>5. ~(F.len > MaxContent)
    BY <1>8, FrameAssumption
  <2>6. CASE F.len > 0
    <3>1. reader' = [part |-> "content", need |-> F.len, seen |-> bytes, len |-> F.len]
      BY <2>4, <2>5, <2>6, Zenon
    <3> QED BY <1>10, <2>1, <2>4, <2>5, <2>6, <3>1
  <2>7. CASE ~(F.len > 0)
    <3>1. reader' = [part |-> "trailer", need |-> TrailerLen, seen |-> bytes, len |-> 0]
      BY <2>4, <2>5, <2>7, Zenon
    <3>2. had + TrailerLen = L
      BY <1>8, <2>1, <2>7, FrameAssumption
    <3> QED BY <1>10, <2>4, <2>5, <3>1, <3>2, FrameAssumption
  <2> QED BY <2>6, <2>7, Zenon
<1>14. CASE got = reader.need /\ reader.part = "content"
  <2>1. had = HeaderLen + F.len
    BY <1>1, <1>12, <1>14 DEF OnBoundary, F
  <2>2. ContentRead(bytes)
    BY <1>2, <1>6, <1>14 DEF bytes
  <2>3. /\ reader'.part = "trailer" /\ reader'.need = TrailerLen /\ reader'.seen = bytes
        /\ delivered' = delivered /\ lastError' = lastError
    BY <1>6, <2>2, Zenon DEF ContentRead, ReaderStates
  <2>4. had + TrailerLen = L
    BY <1>8, <2>1, FrameAssumption, Zenon
  <2> QED BY <1>10, <2>3, <2>4, FrameAssumption, Zenon
<1>15. CASE got = reader.need /\ reader.part = "trailer"
  <2>1. had = L
    BY <1>1, <1>12, <1>15, Zenon DEF OnBoundary, L, F
  <2>2. had <= L
    BY <1>8, <2>1
  <2>3. bytes[1].n = Current /\ CrcMatches(bytes)
    BY <1>9, <2>1, <2>2 DEF CrcMatches, had, L, F
  <2>4. TrailerRead(bytes)
    BY <1>2, <1>6, <1>15 DEF bytes
  <2>5. lastError' \in {"ABORTED", lastError}
    BY <2>3, <2>4, Zenon DEF TrailerRead
  <2>6. CASE reader' = Stopped /\ delivered' = delivered
    BY <2>5, <2>6, Zenon DEF Aligned, Stopped
  <2>7. CASE reader' = Fresh /\ delivered' = Append(delivered, [n |-> Current, seen |-> Decode(F)])
    <3> DEFINE d == [n |-> Current, seen |-> Decode(F)]
    <3>1. d.n = Current /\ delivered' = Append(delivered, d)
      BY <2>7, Zenon
    <3> HIDE DEF d
    <3>2. /\ Len(delivered) \in Nat /\ Len(delivered') = Len(delivered) + 1
          /\ \A i \in 1..Len(delivered) : delivered'[i] = delivered[i]
          /\ delivered'[Len(delivered) + 1] = d
      BY <1>1, <3>1, AppendProperties DEF FrameTypeOK
    <3>3. \A i \in 1..Len(delivered') : delivered'[i].n = i
      <4>1. \A i \in 1..Len(delivered') : i \in 1..Len(delivered) \/ i = Len(delivered) + 1
        BY <3>2
      <4> QED BY <3>1, <3>2, <4>1, Zenon DEF Aligned, Current
    <3>4. /\ reader'.seen = <<>> /\ reader'.need = HeaderLen /\ reader'.part = "header"
          /\ Had' = 0
      BY <1>6, <2>7, EmptySeq DEF Fresh
    <3>5. /\ Len(Pending) = had + Len(Pending')
          /\ \A i \in 1..Len(Pending') : Pending'[i] = Pending[had + i]
      BY <1>4, <3>4, Zenon
    <3>6. Contiguous'
      BY <1>1, <1>4, <1>5, <3>5, ContiguousRest
    <3>7. Current' = Current + 1
      BY <3>2, Zenon DEF Current
    <3>8. Len(Pending') > 0 => Pending'[1] = [n |-> Current', k |-> 1]
      <4> SUFFICES ASSUME Len(Pending') > 0 PROVE Pending'[1] = [n |-> Current', k |-> 1]
        OBVIOUS
      <4>1. had \in 1..(Len(Pending) - 1) /\ 1 \in 1..Len(Pending')
        BY <1>4, <1>5, <1>7, <3>5
      <4>2. Pending[had].n = Current /\ Pending[had].k = had
        BY <1>9, <2>2
      <4>3. LenAt(had) = L
        BY <4>2, Zenon DEF LenAt, FrameAt, L, F
      <4>4. Pending[had + 1] = [n |-> Current + 1, k |-> 1]
        BY <1>1, <2>1, <4>1, <4>2, <4>3 DEF Contiguous
      <4> QED BY <3>5, <3>7, <4>1, <4>4, Zenon
    <3>9. ASSUME ~broken'
          PROVE  IF Len(Pending') = 0 THEN Len(delivered') = Len(sent')
                 ELSE Pending'[Len(Pending')].n = Len(sent')
      <4>1. ~broken /\ ~(Len(Pending) = 0) /\ sent' = sent
        BY <1>1, <1>4, <1>5, <1>7, <3>9
      <4>2. Pending[Len(Pending)].n = Len(sent)
        BY <1>1, <4>1 DEF OnBoundary
      <4>3. CASE Len(Pending') = 0
        <5>1. Len(Pending) = had
          BY <1>4, <1>5, <3>5, <4>3
        <5>2. Current = Len(sent)
          BY <1>9, <2>2, <4>2, <5>1
        <5> QED BY <3>2, <4>1, <4>3, <5>2 DEF Current
      <4>4. CASE ~(Len(Pending') = 0)
        <5>1. Len(Pending') \in 1..Len(Pending')
          BY <1>5, <4>4
        <5>2. Pending'[Len(Pending')] = Pending[Len(Pending)]
          BY <3>5, <5>1, Zenon
        <5> QED BY <4>1, <4>2, <4>4, <5>2
      <4> QED BY <4>3, <4>4, Zenon
    <3>10. OnBoundary'
      <4>1. Had' + reader'.need = HeaderLen /\ reader'.need > 0
        BY <3>4, FrameAssumption
      <4> QED BY <3>4, <3>8, <3>9, <4>1, Zenon DEF OnBoundary
    <3> QED BY <2>5, <3>3, <3>6, <3>10 DEF Aligned
  <2> QED BY <2>3, <2>4, <2>6, <2>7, Zenon DEF TrailerRead, F
<1>16. got < reader.need \/ got = reader.need
  BY <1>3, <1>6
<1> QED BY <1>1, <1>6, <1>11, <1>13, <1>14, <1>15, <1>16 DEF ReaderStates

LEMMA AlignedInit == Init => AlignedInv
<1> SUFFICES ASSUME Init PROVE AlignedInv
  OBVIOUS
<1>1. FrameTypeOK
  BY FrameInit, Zenon DEF FrameInv
<1>2. Len(sent) = 0 /\ Len(delivered) = 0 /\ Len(stream) = 0 /\ Had = 0
  BY EmptySeq DEF Init, Fresh, Had
<1>3. Len(Pending) = 0
  BY <1>1, <1>2, PendingParts
<1>4. Contiguous
  BY <1>3 DEF Contiguous
<1>5. OnBoundary
  <2>1. reader.need = HeaderLen /\ reader.part = "header"
    BY DEF Init, Fresh
  <2> QED BY <1>2, <1>3, <2>1, FrameAssumption DEF OnBoundary
<1> QED BY <1>2, <1>4, <1>5 DEF AlignedInv, Aligned, Init

LEMMA AlignedStep == FrameInv /\ FrameInv' /\ AlignedInv /\ [Next]_frameVars => AlignedInv'
<1> SUFFICES ASSUME FrameInv, FrameInv', AlignedInv, [Next]_frameVars PROVE AlignedInv'
  BY Zenon
<1> USE DEF FrameInv
<1>1. CASE UNCHANGED frameVars
  <2>1. UNCHANGED <<sent, stream, broken, reader, delivered, lastError, unaligned>>
    BY <1>1 DEF frameVars
  <2>2. Pending' = Pending /\ Had' = Had /\ Current' = Current
    BY <2>1, Zenon DEF Pending, Had, Current
  <2>3. Contiguous => Contiguous'
    BY <2>1, <2>2, Zenon DEF Contiguous, LenAt, FrameAt
  <2>4. OnBoundary => OnBoundary'
    BY <2>1, <2>2, Zenon DEF OnBoundary
  <2> QED BY <2>1, <2>3, <2>4 DEF AlignedInv, Aligned
<1>2. CASE SendPacket
  <2>1. UNCHANGED <<reader, delivered, lastError, unaligned>>
    BY <1>2, Zenon DEF SendPacket
  <2>2. PICK p \in Packets :
           /\ Len(sent) \in Nat /\ Len(sent') = Len(sent) + 1
           /\ \A i \in 1..Len(sent) : sent'[i] = sent[i]
           /\ sent'[Len(sent) + 1].frame = Encode(p) /\ Fits(p)
    BY <1>2, SendAdds, Zenon
  <2>3. Encode(p).len <= MaxContent
    BY <2>2, FrameLengths, Zenon DEF Fits
  <2>4. \A i \in 1..Len(sent') : i \in 1..Len(sent) \/ i = Len(sent) + 1
    BY <2>2
  <2>5. \A i \in 1..Len(sent') : sent'[i].frame.len <= MaxContent
    BY <2>2, <2>3, <2>4, Zenon DEF AlignedInv
  <2>6. Aligned => Aligned'
    BY <1>2, <2>1, SendAligned DEF Aligned
  <2> QED BY <2>1, <2>5, <2>6, Zenon DEF AlignedInv
<1>3. CASE Read
  <2>1. UNCHANGED <<sent, unaligned>>
    BY <1>3, Zenon DEF Read
  <2> QED BY <1>3, <2>1, ReadAligned DEF AlignedInv
<1>4. CASE Timeout
  <2>1. /\ UNCHANGED <<sent, stream, broken, delivered>> /\ reader' = Fresh
        /\ reader.part # "stopped" /\ lastError' = "TIMEOUT"
        /\ ~unaligned' => ~unaligned /\ reader.seen = <<>>
    BY <1>4, Zenon DEF Timeout
  <2>2. ASSUME ~unaligned' PROVE Aligned'
    <3>1. Aligned /\ Contiguous /\ OnBoundary
      BY <2>1, <2>2, Zenon DEF AlignedInv, Aligned
    <3>2. reader'.seen = reader.seen /\ reader'.part = "header" /\ reader'.need = HeaderLen
      BY <2>1, <2>2 DEF Fresh
    <3>3. Pending' = Pending /\ Had' = 0 /\ Current' = Current
      BY <2>1, <2>2, <3>2, EmptySeq DEF Pending, Had, Current
    <3>4. Contiguous'
      BY <2>1, <3>1, <3>3, Zenon DEF Contiguous, LenAt, FrameAt
    <3>5. OnBoundary'
      BY <2>1, <3>1, <3>2, <3>3, FrameAssumption DEF OnBoundary
    <3> QED BY <2>1, <3>1, <3>4, <3>5, Zenon DEF Aligned
  <2> QED BY <2>1, <2>2, Zenon DEF AlignedInv
<1>5. CASE DamageByte \/ LoseByte
  BY <1>5, Zenon DEF DamageByte, LoseByte, Fault, AlignedInv
<1> QED BY <1>1, <1>2, <1>3, <1>4, <1>5 DEF Next

\* For every transport and every number of frames: without faults, and as long as no
\* timeout strikes after bytes of a frame were taken, recv_packet stays on the frame
\* boundaries, delivers every frame it has read, and reports neither VAL_ERR_CRC nor
\* VAL_ERR_PROTOCOL
THEOREM BoundaryAlwaysKept == Spec => []BoundaryKept
<1>1. FrameInv /\ AlignedInv => BoundaryKept
  <2> SUFFICES ASSUME FrameInv, AlignedInv, ~unaligned PROVE
        /\ \A i \in 1..Len(delivered) : delivered[i].n = i
        /\ lastError \notin {"CRC", "PROTOCOL"}
        /\ stream # <<>> /\ reader.seen = <<>> /\ reader.part = "header" =>
               stream[1] = [n |-> Len(delivered) + 1, k |-> 1]
    BY DEF BoundaryKept
  <2>1. Aligned /\ FrameTypeOK
    BY DEF AlignedInv, FrameInv
  <2>2. ASSUME stream # <<>>, reader.seen = <<>>, reader.part = "header"
        PROVE  stream[1] = [n |-> Len(delivered) + 1, k |-> 1]
    <3>1. Had = 0
      BY <2>2, EmptySeq DEF Had
    <3>2. Len(stream) > 0 /\ Len(stream) \in Nat
      BY <2>1, <2>2, EmptySeq DEF FrameTypeOK
    <3>3. 1 \in 1..Len(stream) /\ 0 + 1 = 1 /\ Len(Pending) > 0
      BY <2>1, <3>1, <3>2, PendingParts
    <3>4. Pending[1] = stream[1]
      BY <2>1, <3>1, <3>3, PendingParts
    <3> QED BY <2>1, <2>2, <3>3, <3>4 DEF Aligned, OnBoundary, Current
  <2> QED BY <2>1, <2>2, Zenon DEF Aligned
<1> QED BY <1>1, FrameInit, FrameStep, AlignedInit, AlignedStep, PTL DEF Spec
=============================================================================
