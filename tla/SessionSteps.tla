-------------------------- MODULE SessionSteps ----------------------------
(***************************************************************************)
(* The inductive invariant of a session of val_send_files and              *)
(* val_internal_receive_files, and that the steps of the sender keep it.   *)
(***************************************************************************)
EXTENDS ValSession, SequenceTheorems, TLAPS

-----------------------------------------------------------------------------
(* The inductive invariant.                                                *)

Reports == {"none", "ok", "skipped"}
Resps == [type : {"RESUME_RESP"}, action : {"START_ZERO", "SKIP_FILE", "VERIFY_FIRST"},
          off : Nat, len : Nat]

\* The frames each side may send
ReceiverFrames ==
    {SendMeta(f) : f \in Files} \cup {ResumeReq, Done, Eot}
        \cup [type : {"VERIFY"}, file : Files, start : Nat, len : Nat]
        \cup [type : {"DATA"}, file : Files, off : Nat]
SenderFrames ==
    Resps \cup {DoneAck, EotAck, Error}
        \cup [type : {"VERIFY"}, result : {"OK", "SKIPPED", "RESUME_VERIFY"}]
        \cup [type : {"DATA_ACK"}, off : Nat]

SessionTypes ==
    /\ policy \in [mode : {"NEVER", "SKIP_EXISTING", "TAIL"}, cap : Nat \ {0},
                   min : Nat, skip : BOOLEAN]
    /\ disk \in [Files -> Seq(Nat)]
    /\ old \in [Files -> Seq(Nat)]
    /\ spc \in SenderWaits \cup {"start", "ok", "failed", "crashed"}
    /\ rpc \in ReceiverWaits \cup {"ok", "failed", "aborted", "crashed"}
    /\ sfile \in 1..(Len(Sizes) + 1)
    /\ rfile \in Nat
    /\ soff \in Nat /\ roff \in Nat /\ rbase \in Nat
    /\ sres \in [Files -> Reports]
    /\ rres \in [Files -> Reports]
    /\ resp \in Resps
    /\ request \in ReceiverFrames

\* The receiver has taken the metadata of a file and not yet its DONE
InFile == rpc \in ReceiverWaits \ {"meta"}

\* The sender is at a file
AtFile == spc \in SenderWaits \ {"eot"}

\* The request a sender repeats
RequestFits ==
    /\ spc = "resume" => request = ResumeReq
    /\ spc = "verify" => request = Verify(sfile, soff - VerifyLen(soff), VerifyLen(soff))
    /\ spc = "data" => request = Data(sfile, soff)
    /\ spc \in {"done", "skip"} => request = Done
    /\ spc = "eot" => request = Eot

SenderAt ==
    /\ AtFile => sfile \in Files /\ soff <= Sizes[sfile]
    /\ spc = "verify" => soff > 0
    /\ spc = "data" => soff < Sizes[sfile]
    /\ spc \in {"eot", "ok"} => sfile = Len(Sizes) + 1
    /\ RequestFits

\* Where the two sides can be at the same time
InStep ==
    /\ InFile => rfile = sfile /\ sfile \in Files /\ spc \notin {"start", "eot", "ok"}
    /\ spc = "start" => toReceiver = <<>> /\ toSender = <<>> /\ sfile = 1
    /\ spc = "verify" => /\ rpc \notin {"meta", "req", "peek"}
                         /\ rpc = "verify" => soff = resp.off
    /\ spc = "data" => /\ rpc \notin {"meta", "req", "peek", "verify"}
                       /\ rpc = "data" => rbase <= soff /\ roff \in {soff, soff + 1}
    /\ spc = "done" => /\ rpc \notin {"req", "peek", "verify"}
                       /\ rpc = "data" => roff = Sizes[rfile]
    /\ spc = "skip" => rpc \notin {"req", "peek", "verify", "data"}

\* The files the two sides have dealt with
Reported(f) ==
    /\ sres[f] = "ok" => rres[f] \in {"ok", "skipped"}
    /\ sres[f] = "skipped" => rres[f] = "skipped"
    /\ sres[f] # "none"

BatchInOrder ==
    /\ \A f \in Files : f < sfile => Reported(f)
    /\ \A f \in Files : f > sfile => rres[f] = "none"
    /\ spc = "start" => \A f \in Files : rres[f] = "none"
    /\ InFile => rres[rfile] = "none"

\* What a frame on its way to the receiver may be, by the state it meets
Expected(m) ==
    /\ rpc = "meta" =>
         /\ m.type = "SEND_META" => /\ m = SendMeta(sfile) /\ rres[sfile] = "none"
                                    /\ spc \in {"resume", "failed", "crashed"}
         /\ m.type = "EOT" => ~AtFile
    /\ rpc \in {"req", "peek"} => m = ResumeReq
    /\ rpc = "verify" => \/ m = ResumeReq
                         \/ /\ m = Verify(rfile, resp.off - resp.len, resp.len)
                            /\ spc # "resume"
    /\ rpc \in {"data", "skip"} =>
         /\ m.type \in {"RESUME_REQ", "VERIFY", "DATA", "DONE"}
         /\ m.type = "DATA" => /\ m.file = rfile /\ m.off < Sizes[rfile]
                               /\ spc \notin {"resume", "verify"}
                               /\ spc = "data" => m.off <= soff
         /\ m.type = "DONE" => /\ spc \notin {"resume", "verify", "data"}
                               /\ rpc = "data" => roff = Sizes[rfile]

\* Behind the metadata of a file there are only requests to resume it
MetaFirst ==
    rpc = "meta" =>
        \A i, j \in DOMAIN toReceiver :
            toReceiver[i].type = "SEND_META" /\ i < j => toReceiver[j] = ResumeReq

\* What an answer on its way to a sender at a file may be
Agrees(m) ==
    /\ m.type = "DATA_ACK" => /\ m.off <= Sizes[sfile] /\ rpc # "verify"
                              /\ rpc = "data" => m.off <= roff
    /\ m.type = "DONE_ACK" => /\ spc \in {"done", "skip"} /\ ~InFile
                              /\ rres[sfile] \in {"ok", "skipped"}
                              /\ spc = "skip" => rres[sfile] = "skipped"
    /\ spc = "resume" =>
         /\ rpc \notin {"meta", "req", "peek"}
         /\ m.type # "VERIFY"
         /\ m.type = "RESUME_RESP" =>
              /\ m.action = "START_ZERO" => /\ rpc # "verify"
                                            /\ rpc = "data" => roff = 0 /\ rbase = 0
              /\ m.action = "SKIP_FILE" => rpc \notin {"verify", "data"}
              /\ m.action = "VERIFY_FIRST" =>
                   /\ rpc \notin {"data", "skip"}
                   /\ m.off \in 1..Sizes[sfile] /\ m.len = VerifyLen(m.off)
                   /\ rpc = "verify" => m = resp
    /\ spc = "verify" /\ m.type = "VERIFY" =>
         /\ rpc # "verify"
         /\ rpc = "data" => /\ m.result # "SKIPPED" /\ roff = rbase
                            /\ m.result = "OK" => rbase = soff
                            /\ m.result = "RESUME_VERIFY" => rbase = 0

\* DONE_ACK is the last answer for a file
DoneAckLast ==
    spc \in {"done", "skip"} =>
        \A i \in DOMAIN toSender : toSender[i].type = "DONE_ACK" => i = Len(toSender)

Inbound == {m \in ReceiverFrames : Expected(m)}
Outbound == {m \in SenderFrames : AtFile => Agrees(m)}

LinksFit ==
    /\ toReceiver \in Seq(Inbound)
    /\ toSender \in Seq(Outbound)
    /\ MetaFirst
    /\ DoneAckLast

\* The first n units of file f are the sender's, but for old content in front of
\* the verified tail
CopiedTo(f, n) ==
    \A p \in 1..n : \/ disk[f][p] = p
                    \/ p <= Unverified(f) /\ disk[f][p] = old[f][p]

ReceiverAt ==
    /\ rpc = "peek" => policy.mode = "NEVER"
    /\ rpc = "verify" =>
         /\ Len(disk[rfile]) \in 1..Sizes[rfile]
         /\ resp = ResumeResp("VERIFY_FIRST", Len(disk[rfile]), VerifyLen(Len(disk[rfile])))
         /\ policy.mode = "TAIL"
    /\ rpc = "data" =>
         /\ Len(disk[rfile]) = roff /\ rbase <= roff /\ roff <= Sizes[rfile]
         /\ CopiedTo(rfile, roff)

\* A file that is not reported and not open is as it was before the session
Untouched ==
    \A f \in Files : rres[f] = "none" /\ (f = rfile => rpc \in ReceiverWaits \ {"data"})
        => disk[f] = old[f]

DiskFits ==
    /\ ReceiverAt
    /\ Untouched
    /\ OkMeansCopied
    /\ SkipKeepsFile

SessionInv ==
    /\ SessionTypes
    /\ SenderAt
    /\ InStep
    /\ BatchInOrder
    /\ LinksFit
    /\ DiskFits

-----------------------------------------------------------------------------
(* Lemmas about the operators of the model.                                *)

\* What the steps on a FIFO keep
LEMMA FifoFacts ==
    ASSUME NEW S, NEW s \in Seq(S)
    PROVE  /\ s # <<>> => /\ Head(s) \in S
                          /\ Tail(s) \in Seq(S)
           /\ \A e \in S : Append(s, e) \in Seq(S)
           /\ \A t \in Seq(S) : s \o t \in Seq(S)
<1>1. s # <<>> => Head(s) \in S /\ Tail(s) \in Seq(S)
  BY HeadTailProperties
<1>2. \A e \in S : Append(s, e) \in Seq(S)
  BY AppendProperties
<1>3. \A t \in Seq(S) : s \o t \in Seq(S)
  BY ConcatProperties
<1> QED
  BY <1>1, <1>2, <1>3

\* The tail to verify lies within the file and is not empty
LEMMA VerifyLenFacts ==
    ASSUME SessionTypes, NEW n \in Nat
    PROVE  /\ VerifyLen(n) \in Nat
           /\ VerifyLen(n) <= n
           /\ n > 0 => VerifyLen(n) > 0
<1>1. policy.cap \in Nat \ {0} /\ policy.min \in Nat
  BY DEF SessionTypes
<1> QED
  BY <1>1 DEF VerifyLen, Larger, Smaller

\* MetaFirst and DoneAckLast as properties of a sequence
OnlyReqBehind(s) ==
    \A i, j \in DOMAIN s : s[i].type = "SEND_META" /\ i < j => s[j] = ResumeReq

AckLast(s) == \A i \in DOMAIN s : s[i].type = "DONE_ACK" => i = Len(s)

\* Reading a frame: behind metadata come only requests
LEMMA OnlyReqTail ==
    ASSUME NEW S, NEW s \in Seq(S), s # <<>>, OnlyReqBehind(s)
    PROVE  /\ OnlyReqBehind(Tail(s))
           /\ Head(s).type = "SEND_META" => Tail(s) \in Seq({ResumeReq})
<1>1. /\ Tail(s) \in Seq(S)
      /\ Len(Tail(s)) = Len(s) - 1
      /\ \A i \in 1..Len(Tail(s)) : Tail(s)[i] = s[i + 1]
  BY HeadTailProperties
<1>2. Len(s) \in Nat \ {0} /\ 1 \in DOMAIN s /\ Head(s) = s[1]
  OBVIOUS
<1>3. ASSUME NEW i \in DOMAIN Tail(s)
      PROVE  i \in Nat /\ i + 1 \in DOMAIN s /\ 1 < i + 1 /\ Tail(s)[i] = s[i + 1]
  BY <1>1, <1>2
<1>4. OnlyReqBehind(Tail(s))
  <2> SUFFICES ASSUME NEW i \in DOMAIN Tail(s), NEW j \in DOMAIN Tail(s),
                      Tail(s)[i].type = "SEND_META", i < j
               PROVE  Tail(s)[j] = ResumeReq
    BY DEF OnlyReqBehind
  <2>1. i + 1 \in DOMAIN s /\ j + 1 \in DOMAIN s /\ i + 1 < j + 1
    BY <1>3
  <2> QED
    BY <1>3, <2>1 DEF OnlyReqBehind
<1>5. ASSUME Head(s).type = "SEND_META" PROVE Tail(s) \in Seq({ResumeReq})
  <2>1. ASSUME NEW i \in DOMAIN Tail(s) PROVE Tail(s)[i] = ResumeReq
    <3>1. i + 1 \in DOMAIN s /\ 1 < i + 1 /\ Tail(s)[i] = s[i + 1]
      BY <1>3
    <3> QED
      BY <1>2, <1>5, <3>1 DEF OnlyReqBehind
  <2> DEFINE t == Tail(s)
  <2>2. t \in Seq(S) /\ \A i \in DOMAIN t : t[i] \in {ResumeReq}
    BY <1>1, <2>1
  <2> HIDE DEF t
  <2>3. t \in Seq({ResumeReq})
    BY <2>2
  <2> QED
    BY <2>3 DEF t
<1> QED
  BY <1>4, <1>5

\* Sending a request again, and sending metadata when there is none on its way
LEMMA OnlyReqSend ==
    ASSUME NEW S, NEW s \in Seq(S)
    PROVE  /\ OnlyReqBehind(s) => OnlyReqBehind(Append(s, ResumeReq))
           /\ (\A i \in DOMAIN s : s[i].type # "SEND_META") =>
                  /\ OnlyReqBehind(s)
                  /\ \A f : OnlyReqBehind(s \o <<SendMeta(f), ResumeReq>>)
<1>1. ASSUME OnlyReqBehind(s) PROVE OnlyReqBehind(Append(s, ResumeReq))
  <2> DEFINE u == Append(s, ResumeReq)
  <2>1. /\ Len(u) = Len(s) + 1 /\ Len(s) \in Nat
        /\ \A i \in 1..Len(s) : u[i] = s[i]
        /\ u[Len(s) + 1] = ResumeReq
        /\ DOMAIN u = 1..(Len(s) + 1) /\ DOMAIN s = 1..Len(s)
    OBVIOUS
  <2> HIDE DEF u
  <2> SUFFICES ASSUME NEW i \in DOMAIN u, NEW j \in DOMAIN u, u[i].type = "SEND_META",
                      i < j, j # Len(s) + 1
               PROVE  u[j] = ResumeReq
    BY <2>1 DEF OnlyReqBehind, u
  <2>2. i \in 1..Len(s) /\ j \in 1..Len(s)
    BY <2>1
  <2> QED
    BY <1>1, <2>1, <2>2 DEF OnlyReqBehind
<1>2. ASSUME \A i \in DOMAIN s : s[i].type # "SEND_META", NEW f
      PROVE  OnlyReqBehind(s \o <<SendMeta(f), ResumeReq>>)
  <2> DEFINE u == s \o <<SendMeta(f), ResumeReq>>
  <2>1. /\ Len(u) = Len(s) + 2 /\ Len(s) \in Nat
        /\ \A i \in 1..Len(s) : u[i] = s[i]
        /\ u[Len(s) + 2] = ResumeReq
        /\ DOMAIN u = 1..(Len(s) + 2) /\ DOMAIN s = 1..Len(s)
    OBVIOUS
  <2> HIDE DEF u
  <2> SUFFICES ASSUME NEW i \in DOMAIN u, NEW j \in DOMAIN u, u[i].type = "SEND_META", i < j
               PROVE  u[j] = ResumeReq
    BY DEF OnlyReqBehind, u
  <2>2. i \notin 1..Len(s)
    BY <1>2, <2>1
  <2>3. j = Len(s) + 2
    BY <2>1, <2>2
  <2> QED
    BY <2>1, <2>3
<1> QED
  BY <1>1, <1>2 DEF OnlyReqBehind

\* Reading an answer, and the one DONE_ACK
LEMMA AckLastFacts ==
    ASSUME NEW S, NEW s \in Seq(S)
    PROVE  /\ s # <<>> /\ AckLast(s) => /\ AckLast(Tail(s))
                                        /\ Head(s).type = "DONE_ACK" => Tail(s) = <<>>
           /\ (\A i \in DOMAIN s : s[i].type # "DONE_ACK") =>
                  AckLast(s) /\ AckLast(s \o <<DoneAck>>)
<1>1. ASSUME s # <<>>, AckLast(s)
      PROVE  AckLast(Tail(s)) /\ (Head(s).type = "DONE_ACK" => Tail(s) = <<>>)
  <2>1. /\ Tail(s) \in Seq(S)
        /\ Len(Tail(s)) = Len(s) - 1
        /\ \A i \in 1..Len(Tail(s)) : Tail(s)[i] = s[i + 1]
    BY <1>1, HeadTailProperties
  <2>2. Len(s) \in Nat \ {0} /\ 1 \in DOMAIN s /\ Head(s) = s[1]
    BY <1>1
  <2>3. ASSUME NEW i \in DOMAIN Tail(s), Tail(s)[i].type = "DONE_ACK"
        PROVE  i = Len(Tail(s))
    <3>1. i \in Nat /\ i + 1 \in DOMAIN s /\ Tail(s)[i] = s[i + 1]
      <4>1. i \in 1..Len(Tail(s)) /\ DOMAIN s = 1..Len(s)
        BY <2>1
      <4> QED
        BY <2>1, <2>2, <4>1
    <3>2. i + 1 = Len(s)
      BY <1>1, <2>3, <3>1 DEF AckLast
    <3>3. PICK n \in Nat, m \in Nat : n = Len(s) /\ m = Len(Tail(s)) /\ m = n - 1
      <4>1. Len(s) \in Nat /\ Len(Tail(s)) \in Nat
        BY <2>1, <2>2
      <4>2. Len(Tail(s)) = Len(s) - 1
        BY <2>1
      <4> QED
        BY <4>1, <4>2, Zenon
    <3>4. i = m
      BY <3>1, <3>2, <3>3
    <3> QED
      BY <3>3, <3>4
  <2>4. ASSUME Head(s).type = "DONE_ACK" PROVE Tail(s) = <<>>
    <3>1. Len(s) = 1
      BY <1>1, <2>2, <2>4, Zenon DEF AckLast
    <3>2. Len(Tail(s)) = 0
      BY <2>1, <3>1
    <3> QED
      BY <2>1, <3>2, EmptySeq, Zenon
  <2> QED
    BY <2>3, <2>4 DEF AckLast
<1>2. ASSUME \A i \in DOMAIN s : s[i].type # "DONE_ACK"
      PROVE  AckLast(s \o <<DoneAck>>)
  <2> DEFINE u == s \o <<DoneAck>>
  <2>1. /\ Len(u) = Len(s) + 1 /\ Len(s) \in Nat
        /\ \A i \in 1..Len(s) : u[i] = s[i]
        /\ DOMAIN u = 1..(Len(s) + 1) /\ DOMAIN s = 1..Len(s)
    OBVIOUS
  <2> HIDE DEF u
  <2> SUFFICES ASSUME NEW i \in DOMAIN u, u[i].type = "DONE_ACK" PROVE i = Len(u)
    BY DEF AckLast, u
  <2>2. i \notin 1..Len(s)
    BY <1>2, <2>1
  <2> QED
    BY <2>1, <2>2
<1> QED
  BY <1>1, <1>2 DEF AckLast

\* The sizes of the batch
LEMMA SizeFacts ==
    /\ Len(Sizes) \in Nat
    /\ Files = 1..Len(Sizes)
    /\ \A f \in Files : f \in Nat /\ Sizes[f] \in Nat
  BY SessionAssumption DEF Files

\* The frames have the types their links carry
LEMMA FrameTypes ==
    /\ ResumeReq \in ReceiverFrames /\ Done \in ReceiverFrames /\ Eot \in ReceiverFrames
    /\ \A f \in Files : SendMeta(f) \in ReceiverFrames
    /\ \A f \in Files, a, n \in Nat : Verify(f, a, n) \in ReceiverFrames
    /\ \A f \in Files, n \in Nat : Data(f, n) \in ReceiverFrames
    /\ DoneAck \in SenderFrames /\ EotAck \in SenderFrames /\ Error \in SenderFrames
    /\ \A n \in Nat : DataAck(n) \in SenderFrames
    /\ \A r \in {"OK", "SKIPPED", "RESUME_VERIFY"} : VerifyResult(r) \in SenderFrames
    /\ Resps \subseteq SenderFrames
    /\ \A a \in {"START_ZERO", "SKIP_FILE", "VERIFY_FIRST"}, n, k \in Nat :
          ResumeResp(a, n, k) \in Resps
<1>1. /\ ResumeReq \in ReceiverFrames /\ Done \in ReceiverFrames /\ Eot \in ReceiverFrames
      /\ \A f \in Files : SendMeta(f) \in ReceiverFrames
  BY DEF ReceiverFrames
<1>2. \A f \in Files, a, n \in Nat : Verify(f, a, n) \in ReceiverFrames
  BY DEF ReceiverFrames, Verify
<1>3. \A f \in Files, n \in Nat : Data(f, n) \in ReceiverFrames
  BY DEF ReceiverFrames, Data
<1>4. /\ DoneAck \in SenderFrames /\ EotAck \in SenderFrames /\ Error \in SenderFrames
      /\ Resps \subseteq SenderFrames
  BY DEF SenderFrames
<1>5. \A n \in Nat : DataAck(n) \in SenderFrames
  BY DEF SenderFrames, DataAck
<1>6. \A r \in {"OK", "SKIPPED", "RESUME_VERIFY"} : VerifyResult(r) \in SenderFrames
  BY DEF SenderFrames, VerifyResult
<1>7. \A a \in {"START_ZERO", "SKIP_FILE", "VERIFY_FIRST"}, n, k \in Nat :
         ResumeResp(a, n, k) \in Resps
  BY Zenon DEF Resps, ResumeResp
<1> QED
  BY <1>1, <1>2, <1>3, <1>4, <1>5, <1>6, <1>7

\* The type and the fields a handler relies on: of the frames a sender makes, of
\* those a receiver makes, and of what is read from a link
LEMMA RequestFields ==
    /\ \A f : SendMeta(f).type = "SEND_META" /\ SendMeta(f).file = f
    /\ ResumeReq.type = "RESUME_REQ" /\ Done.type = "DONE" /\ Eot.type = "EOT"
    /\ \A f, a, n : Verify(f, a, n).type = "VERIFY"
    /\ \A f, n : Data(f, n).type = "DATA" /\ Data(f, n).file = f /\ Data(f, n).off = n
  BY DEF SendMeta, ResumeReq, Done, Eot, Verify, Data

LEMMA AnswerFields ==
    /\ DoneAck.type = "DONE_ACK" /\ EotAck.type = "EOT_ACK" /\ Error.type = "ERROR"
    /\ \A n : DataAck(n).type = "DATA_ACK" /\ DataAck(n).off = n
    /\ \A x : VerifyResult(x).type = "VERIFY" /\ VerifyResult(x).result = x
  BY DEF DoneAck, EotAck, Error, DataAck, VerifyResult

LEMMA ResumeRespFields ==
    \A a, n, k : /\ ResumeResp(a, n, k).type = "RESUME_RESP"
                 /\ ResumeResp(a, n, k).action = a
                 /\ ResumeResp(a, n, k).off = n /\ ResumeResp(a, n, k).len = k
  BY DEF ResumeResp

LEMMA SenderFrameFields ==
    \A m \in SenderFrames :
        /\ m.type = "RESUME_RESP" => m \in Resps
        /\ m.type = "DATA_ACK" => m.off \in Nat
        /\ m.type = "VERIFY" => m.result \in {"OK", "SKIPPED", "RESUME_VERIFY"}
  BY DEF DoneAck, EotAck, Error, SenderFrames, Resps

LEMMA ReceiverFrameFields ==
    \A m \in ReceiverFrames :
        /\ m.type = "SEND_META" => m.file \in Files /\ m = SendMeta(m.file)
        /\ m.type = "DATA" => m.file \in Files /\ m.off \in Nat
  BY DEF SendMeta, ResumeReq, Done, Eot, ReceiverFrames

\* A step of the sender alone leaves disk and receiver as they are
LEMMA DiskUnchanged ==
    ASSUME DiskFits, UNCHANGED <<policy, old, disk, receiverVars>>
    PROVE  DiskFits'
  BY DEF DiskFits, ReceiverAt, Untouched, OkMeansCopied, SkipKeepsFile, CopiedTo,
         Unverified, VerifyLen, receiverVars

-----------------------------------------------------------------------------
(* The steps of the sender.                                                *)

LEMMA SendFromKeeps ==
    ASSUME SessionInv, UNCHANGED <<policy, old, diskVars, receiverVars, sres>>,
           spc \in {"resume", "verify", "data"},
           NEW off \in Nat, off <= Sizes[sfile], SendFrom(off), spc = "data" => soff <= off,
           rpc \notin {"meta", "req", "peek", "verify"},
           rpc = "data" => rbase <= off /\ roff = off,
           toSender # <<>>, toSender' = Tail(toSender)
    PROVE  SessionInv'
<1> USE DEF SessionInv
<1>1. /\ AtFile /\ AtFile' /\ sfile \in Files /\ Sizes[sfile] \in Nat
      /\ sfile' = sfile /\ soff' = off /\ sres' = sres /\ spc' \in {"data", "done"}
      /\ policy' = policy /\ old' = old /\ disk' = disk
      /\ rpc' = rpc /\ rfile' = rfile /\ roff' = roff /\ rbase' = rbase /\ resp' = resp
      /\ rres' = rres
  BY SizeFacts DEF AtFile, SenderWaits, SenderAt, SendFrom, Ask, diskVars, receiverVars
<1>2. /\ spc' = "data" => /\ off < Sizes[sfile] /\ request' = Data(sfile, off)
      /\ spc' = "done" => off = Sizes[sfile] /\ request' = Done
      /\ toReceiver' = toReceiver \o <<request'>>
  <2>1. \A x : Len(<<x>>) = 1 /\ <<x>>[1] = x
    OBVIOUS
  <2>2. CASE off < Sizes[sfile]
    BY <2>1, <2>2 DEF SendFrom, Ask
  <2>3. CASE ~(off < Sizes[sfile])
    BY <1>1, <2>1, <2>3 DEF SendFrom, Ask
  <2> QED
    BY <2>2, <2>3
<1>3. request' \in ReceiverFrames
  BY <1>1, <1>2, FrameTypes, Zenon
<1>4. SessionTypes'
  BY <1>1, <1>3, Zenon DEF SessionTypes, SenderWaits
<1>5. SenderAt'
  BY <1>1, <1>2, Zenon DEF SenderAt, RequestFits
<1>6. InStep'
  BY <1>1, <1>2 DEF InStep, InFile, ReceiverWaits
<1>7. BatchInOrder'
  BY <1>1 DEF BatchInOrder, InFile, Reported
<1>8. toReceiver' \in Seq(Inbound')
  <2>1. \A m \in Inbound : m \in Inbound'
    <3> SUFFICES ASSUME NEW m \in ReceiverFrames, Expected(m) PROVE Expected(m)'
      BY DEF Inbound
    <3>1. m.type = "DATA" => m.off \in Nat
      BY ReceiverFrameFields, Zenon
    <3> QED
      BY <1>1, <1>2, <3>1 DEF Expected, SessionTypes
  <2>2. request' \in Inbound'
    <3>1. Expected(request)'
      BY <1>1, <1>2, RequestFields DEF Expected, InStep, InFile, ReceiverWaits
    <3> QED
      BY <1>3, <3>1 DEF Inbound
  <2>3. toReceiver \in Seq(Inbound') /\ <<request'>> \in Seq(Inbound')
    BY <2>1, <2>2 DEF LinksFit
  <2> QED
    BY <1>2, <2>3, FifoFacts, Zenon
<1>9. Tail(toSender) \in Seq(Outbound)
  BY FifoFacts, Zenon DEF LinksFit
<1>10. \A m \in Outbound : m \in Outbound' /\ m.type # "DONE_ACK"
  BY <1>1, <1>2, Zenon DEF Outbound, Agrees
<1>11. toSender' \in Seq(Outbound')
  BY <1>9, <1>10
<1>12. MetaFirst' /\ DoneAckLast'
  <2>1. MetaFirst'
    BY <1>1, Zenon DEF MetaFirst
  <2>2. \A i \in DOMAIN Tail(toSender) : Tail(toSender)[i].type # "DONE_ACK"
    BY <1>9, <1>10
  <2> QED
    BY <2>1, <2>2, Zenon DEF DoneAckLast
<1>13. DiskFits'
  BY DiskUnchanged DEF diskVars
<1> QED
  BY <1>4, <1>5, <1>6, <1>7, <1>8, <1>11, <1>12, <1>13, Zenon DEF LinksFit

LEMMA SkipFileKeeps ==
    ASSUME SessionInv, UNCHANGED <<policy, old, diskVars, receiverVars, sres>>,
           spc \in {"resume", "verify"}, SkipFile,
           rpc \notin {"meta", "req", "peek", "verify", "data"},
           toSender # <<>>, toSender' = Tail(toSender)
    PROVE  SessionInv'
<1> USE DEF SessionInv
<1>1. /\ AtFile /\ AtFile' /\ sfile \in Files /\ Sizes[sfile] \in Nat
      /\ sfile' = sfile /\ soff' = soff /\ sres' = sres /\ spc' = "skip"
      /\ policy' = policy /\ old' = old /\ disk' = disk
      /\ rpc' = rpc /\ rfile' = rfile /\ roff' = roff /\ rbase' = rbase /\ resp' = resp
      /\ rres' = rres
  BY SizeFacts DEF AtFile, SenderWaits, SenderAt, SkipFile, Ask, diskVars, receiverVars
<1>2. request' = Done /\ toReceiver' = toReceiver \o <<request'>>
  <2>1. \A x : Len(<<x>>) = 1 /\ <<x>>[1] = x
    BY Zenon
  <2> QED
    BY <2>1 DEF SkipFile, Ask
<1>3. SessionTypes'
  BY <1>1, <1>2, FrameTypes, Zenon DEF SessionTypes, SenderWaits
<1>4. SenderAt'
  BY <1>1, <1>2, Zenon DEF SenderAt, RequestFits
<1>5. InStep' /\ BatchInOrder'
  BY <1>1 DEF InStep, BatchInOrder, InFile, Reported
<1>6. toReceiver' \in Seq(Inbound')
  <2>1. \A m \in Inbound : m \in Inbound'
    BY <1>1, Zenon DEF Inbound, Expected
  <2>2. Expected(request)'
    BY <1>1, <1>2, RequestFields, Zenon DEF Expected
  <2>3. toReceiver \in Seq(Inbound') /\ <<request'>> \in Seq(Inbound')
    BY <1>2, <2>1, <2>2, FrameTypes DEF LinksFit, Inbound
  <2> QED
    BY <1>2, <2>3, FifoFacts, Zenon
<1>7. Tail(toSender) \in Seq(Outbound)
  BY FifoFacts, Zenon DEF LinksFit
<1>8. \A m \in Outbound : m \in Outbound' /\ m.type # "DONE_ACK"
  BY <1>1 DEF Outbound, Agrees
<1>9. toSender' \in Seq(Outbound')
  BY <1>7, <1>8
<1>10. MetaFirst' /\ DoneAckLast'
  <2>1. MetaFirst'
    BY <1>1, Zenon DEF MetaFirst
  <2>2. \A i \in DOMAIN Tail(toSender) : Tail(toSender)[i].type # "DONE_ACK"
    BY <1>7, <1>8
  <2> QED
    BY <2>1, <2>2, Zenon DEF DoneAckLast
<1>11. DiskFits'
  BY DiskUnchanged DEF diskVars
<1> QED
  BY <1>3, <1>4, <1>5, <1>6, <1>9, <1>10, <1>11 DEF LinksFit

LEMMA VerifyTailKeeps ==
    ASSUME SessionInv, UNCHANGED <<policy, old, diskVars, receiverVars, sres>>,
           spc = "resume", NEW off \in Nat, off > 0, off <= Sizes[sfile],
           VerifyTail(off, VerifyLen(off)),
           rpc \notin {"meta", "req", "peek", "data", "skip"},
           rpc = "verify" => off = resp.off,
           toSender # <<>>, toSender' = Tail(toSender)
    PROVE  SessionInv'
<1> USE DEF SessionInv
<1>1. /\ AtFile /\ AtFile' /\ sfile \in Files /\ Sizes[sfile] \in Nat
      /\ sfile' = sfile /\ soff' = off /\ sres' = sres /\ spc' = "verify"
      /\ policy' = policy /\ old' = old /\ disk' = disk
      /\ rpc' = rpc /\ rfile' = rfile /\ roff' = roff /\ rbase' = rbase /\ resp' = resp
      /\ rres' = rres
  BY SizeFacts, Zenon DEF AtFile, SenderWaits, SenderAt, VerifyTail, Ask, diskVars, receiverVars
<1>2. /\ request' = Verify(sfile, off - VerifyLen(off), VerifyLen(off))
      /\ toReceiver' = toReceiver \o <<request'>>
  <2>1. \A x : Len(<<x>>) = 1 /\ <<x>>[1] = x
    OBVIOUS
  <2> QED
    BY <2>1 DEF VerifyTail, Ask
<1>3. request' \in ReceiverFrames
  <2>1. VerifyLen(off) \in Nat /\ off - VerifyLen(off) \in Nat
    BY VerifyLenFacts
  <2> QED
    BY <1>1, <1>2, <2>1, FrameTypes, Zenon
<1>4. SessionTypes'
  BY <1>1, <1>3, Zenon DEF SessionTypes, SenderWaits
<1>5. SenderAt'
  BY <1>1, <1>2, Zenon DEF SenderAt, RequestFits, VerifyLen
<1>6. InStep' /\ BatchInOrder'
  BY <1>1 DEF InStep, BatchInOrder, InFile, Reported
<1>7. toReceiver' \in Seq(Inbound')
  <2>1. \A m \in Inbound : m \in Inbound'
    BY <1>1, Zenon DEF Inbound, Expected
  <2>2. rpc = "verify" => request' = Verify(rfile, resp.off - resp.len, resp.len)
    BY <1>2, ResumeRespFields DEF DiskFits, ReceiverAt, InStep, InFile, ReceiverWaits
  <2>3. Expected(request)'
    BY <1>1, <2>2 DEF Expected
  <2>4. toReceiver \in Seq(Inbound') /\ <<request'>> \in Seq(Inbound')
    BY <1>3, <2>1, <2>3 DEF LinksFit, Inbound
  <2> QED
    BY <1>2, <2>4, FifoFacts, Zenon
<1>8. Tail(toSender) \in Seq(Outbound)
  BY FifoFacts, Zenon DEF LinksFit
<1>9. \A m \in Outbound : m \in Outbound'
  BY <1>1 DEF Outbound, Agrees
<1>10. toSender' \in Seq(Outbound')
  BY <1>8, <1>9
<1>11. MetaFirst' /\ DoneAckLast'
  BY <1>1 DEF MetaFirst, DoneAckLast
<1>12. DiskFits'
  BY DiskUnchanged DEF diskVars
<1> QED
  BY <1>4, <1>5, <1>6, <1>7, <1>10, <1>11, <1>12 DEF LinksFit

LEMMA RecvResumeRespKeeps ==
    ASSUME SessionInv, RecvResumeResp PROVE SessionInv'
<1> DEFINE rr == Head(toSender)
<1>1. /\ spc = "resume" /\ toSender # <<>> /\ toSender' = Tail(toSender)
      /\ rr.type = "RESUME_RESP"
      /\ UNCHANGED <<policy, old, diskVars, receiverVars, sres>>
  BY DEF RecvResumeResp, SenderTakes
<1>2. rr \in Outbound
  BY <1>1, FifoFacts, Zenon DEF SessionInv, LinksFit
<1>3. rr \in Resps /\ Agrees(rr) /\ sfile \in Files /\ Sizes[sfile] \in Nat
  BY <1>1, <1>2, SenderFrameFields, SizeFacts
     DEF Outbound, AtFile, SenderWaits, SessionInv, SenderAt
<1>4. rr.off \in Nat /\ rr.len \in Nat
  BY <1>3 DEF Resps
<1> HIDE DEF rr
<1>5. CASE rr.action = "START_ZERO"
  <2>1. SendFrom(0)
    BY <1>5, Zenon DEF RecvResumeResp, rr
  <2>2. /\ rpc \notin {"meta", "req", "peek", "verify"}
        /\ rpc = "data" => rbase <= 0 /\ roff = 0
    BY <1>1, <1>3, <1>5 DEF Agrees
  <2> QED
    BY <1>1, <1>3, <2>1, <2>2, SendFromKeeps
<1>6. CASE rr.action = "SKIP_FILE"
  <2>1. SkipFile
    BY <1>6, Zenon DEF RecvResumeResp, rr
  <2>2. rpc \notin {"meta", "req", "peek", "verify", "data"}
    BY <1>1, <1>3, <1>6 DEF Agrees
  <2> QED
    BY <1>1, <2>1, <2>2, SkipFileKeeps, Zenon
<1>7. CASE rr.action = "VERIFY_FIRST"
  <2>1. /\ rpc \notin {"meta", "req", "peek", "data", "skip"}
        /\ rr.off > 0 /\ rr.off <= Sizes[sfile] /\ rr.len = VerifyLen(rr.off)
        /\ rpc = "verify" => rr.off = resp.off
    BY <1>1, <1>3, <1>4, <1>7 DEF Agrees
  <2>2. VerifyLen(rr.off) \in Nat /\ VerifyLen(rr.off) <= rr.off /\ VerifyLen(rr.off) > 0
    BY <1>4, <2>1, VerifyLenFacts, Zenon DEF SessionInv
  <2>3. VerifyTail(rr.off, VerifyLen(rr.off))
    <3>1. ~(rr.off > Sizes[sfile])
      BY <1>3, <1>4, <2>1
    <3>2. Smaller(rr.len, rr.off) = VerifyLen(rr.off) /\ VerifyLen(rr.off) # 0
      BY <2>1, <2>2 DEF Smaller
    <3> QED
      BY <1>7, <3>1, <3>2 DEF RecvResumeResp, rr
  <2> QED
    BY <1>1, <1>4, <2>1, <2>3, VerifyTailKeeps, Zenon
<1> QED
  BY <1>3, <1>5, <1>6, <1>7, Zenon DEF Resps

LEMMA RecvVerifyResultKeeps ==
    ASSUME SessionInv, RecvVerifyResult PROVE SessionInv'
<1> DEFINE m == Head(toSender)
<1>1. /\ spc = "verify" /\ toSender # <<>> /\ toSender' = Tail(toSender)
      /\ m.type = "VERIFY"
      /\ UNCHANGED <<policy, old, diskVars, receiverVars, sres>>
  BY DEF RecvVerifyResult, SenderTakes
<1>2. m \in Outbound
  BY <1>1, FifoFacts, Zenon DEF SessionInv, LinksFit
<1>3. /\ Agrees(m) /\ sfile \in Files /\ Sizes[sfile] \in Nat
      /\ soff \in Nat /\ soff <= Sizes[sfile] /\ rbase \in Nat
  BY <1>1, <1>2, SizeFacts, Zenon
     DEF Outbound, AtFile, SenderWaits, SessionInv, SenderAt, SessionTypes
<1>4. rpc \notin {"meta", "req", "peek", "verify"}
  BY <1>1, <1>3 DEF Agrees, SessionInv, InStep
<1>5. CASE m.result = "OK" /\ SendFrom(soff)
  <2>1. rpc = "data" => rbase <= soff /\ roff = soff
    BY <1>1, <1>3, <1>5 DEF Agrees
  <2> QED
    BY <1>1, <1>3, <1>4, <1>5, <2>1, SendFromKeeps, Zenon
<1>6. CASE m.result = "SKIPPED" /\ SkipFile
  <2>1. rpc # "data"
    BY <1>1, <1>3, <1>6, Zenon DEF Agrees
  <2> QED
    BY <1>1, <1>4, <1>6, <2>1, SkipFileKeeps, Zenon
<1>7. CASE m.result = "RESUME_VERIFY" /\ SendFrom(0)
  <2>1. rpc = "data" => rbase <= 0 /\ roff = 0
    BY <1>1, <1>3, <1>7 DEF Agrees
  <2> QED
    BY <1>1, <1>3, <1>4, <1>7, <2>1, SendFromKeeps
<1> QED
  BY <1>5, <1>6, <1>7 DEF RecvVerifyResult

LEMMA RecvDataAckKeeps ==
    ASSUME SessionInv, RecvDataAck PROVE SessionInv'
<1> DEFINE m == Head(toSender)
<1>1. /\ spc = "data" /\ toSender # <<>> /\ toSender' = Tail(toSender)
      /\ m.type = "DATA_ACK" /\ m.off > soff /\ SendFrom(m.off)
      /\ UNCHANGED <<policy, old, diskVars, receiverVars, sres>>
  BY Zenon DEF RecvDataAck, SenderTakes
<1>2. m \in Outbound
  BY <1>1, FifoFacts, Zenon DEF SessionInv, LinksFit
<1>3. /\ Agrees(m) /\ m.off \in Nat
      /\ soff \in Nat /\ rbase \in Nat /\ roff \in Nat
  BY <1>1, <1>2, SenderFrameFields, Zenon
     DEF Outbound, AtFile, SenderWaits, SessionInv, SessionTypes
<1> HIDE DEF m
<1>4. /\ m.off <= Sizes[sfile] /\ soff <= m.off
      /\ rpc = "data" => m.off <= roff
  BY <1>1, <1>3 DEF Agrees
<1>5. /\ rpc \notin {"meta", "req", "peek", "verify"}
      /\ rpc = "data" => rbase <= soff /\ roff \in {soff, soff + 1}
  BY <1>1 DEF SessionInv, InStep
<1>6. rpc = "data" => rbase <= m.off /\ roff = m.off
  BY <1>1, <1>3, <1>4, <1>5
<1> QED
  BY <1>1, <1>3, <1>4, <1>5, <1>6, SendFromKeeps, Zenon

\* The next file, or EOT, when no frame of the batch's next step is on its way yet
LEMMA SendFileKeeps ==
    ASSUME SessionInv, UNCHANGED <<policy, old, diskVars, receiverVars>>, ~InFile,
           NEW f \in 1..(Len(Sizes) + 1), SendFile(f), sres' \in [Files -> Reports],
           \A g \in Files : g < f => Reported(g)',
           \A g \in Files : g >= f => rres[g] = "none",
           rpc = "meta" =>
               toReceiver \in Seq({m \in ReceiverFrames : m.type \notin {"SEND_META", "EOT"}}),
           toSender' = <<>>
    PROVE  SessionInv'
<1> USE DEF SessionInv
<1>1. /\ sfile' = f /\ soff' = 0
      /\ policy' = policy /\ old' = old /\ disk' = disk
      /\ rpc' = rpc /\ rfile' = rfile /\ roff' = roff /\ rbase' = rbase /\ resp' = resp
      /\ rres' = rres /\ ~InFile' /\ f \in Nat
      /\ rpc \notin {"req", "peek", "verify", "data", "skip"}
  BY DEF SendFile, diskVars, receiverVars, InFile, ReceiverWaits
<1>2. DiskFits'
  BY DiskUnchanged DEF diskVars
<1>3. BatchInOrder'
  <2>1. \A g \in Files : g > f => g >= f
    BY <1>1, SizeFacts
  <2>2. spc' # "start"
    BY DEF SendFile, Ask
  <2> QED
    BY <1>1, <2>1, <2>2 DEF BatchInOrder
<1>4. /\ toSender' \in Seq(Outbound')
      /\ \A S : <<>> \in Seq(S)
  OBVIOUS
<1>5. CASE f > Len(Sizes)
  <2>1. /\ spc' = "eot" /\ request' = Eot /\ toReceiver' = toReceiver \o <<Eot>>
    <3>1. \A x : Len(<<x>>) = 1 /\ <<x>>[1] = x
      OBVIOUS
    <3> QED
      BY <1>5, <3>1 DEF SendFile, Ask
  <2>2. f = Len(Sizes) + 1 /\ ~AtFile'
    BY <1>5, <2>1, SizeFacts DEF AtFile
  <2>3. SessionTypes'
    BY <1>1, <2>1, FrameTypes DEF SessionTypes, SenderWaits
  <2>4. SenderAt' /\ InStep'
    BY <1>1, <2>1, <2>2, Zenon DEF SenderAt, RequestFits, InStep
  <2>5. toReceiver' \in Seq(Inbound')
    <3>1. <<Eot>> \in Seq(Inbound')
      BY <1>1, <2>2, RequestFields, FrameTypes DEF Inbound, Expected
    <3>2. toReceiver \in Seq(Inbound')
      <4>1. CASE rpc = "meta"
        <5>1. \A m \in ReceiverFrames : m.type \notin {"SEND_META", "EOT"} => m \in Inbound'
          BY <1>1, <4>1, Zenon DEF Inbound, Expected
        <5> QED
          BY <4>1, <5>1
      <4>2. CASE rpc # "meta"
        <5>1. \A m \in Inbound : m \in Inbound'
          BY <1>1, <4>2, Zenon DEF Inbound, Expected
        <5> QED
          BY <5>1 DEF LinksFit
      <4> QED
        BY <4>1, <4>2
    <3> QED
      BY <2>1, <3>1, <3>2, FifoFacts, Zenon
  <2>6. MetaFirst'
    <3> SUFFICES ASSUME rpc = "meta" PROVE OnlyReqBehind(toReceiver')
      BY <1>1, Zenon DEF MetaFirst, OnlyReqBehind
    <3> DEFINE S == {m \in ReceiverFrames : m.type # "SEND_META"}
    <3>1. toReceiver \in Seq(S)
      OBVIOUS
    <3>2. toReceiver' \in Seq(S)
      <4>1. Eot \in S
        BY RequestFields, FrameTypes
      <4> HIDE DEF S
      <4>2. <<Eot>> \in Seq(S)
        BY <4>1
      <4> QED
        BY <2>1, <3>1, <4>2, FifoFacts, Zenon
    <3>3. \A i \in DOMAIN toReceiver' : toReceiver'[i].type # "SEND_META"
      BY <3>2
    <3> QED
      BY <3>2, <3>3, OnlyReqSend, Zenon
  <2> QED
    BY <1>2, <1>3, <1>4, <2>1, <2>3, <2>4, <2>5, <2>6 DEF LinksFit, DoneAckLast
<1>6. CASE ~(f > Len(Sizes))
  <2>1. /\ spc' = "resume" /\ request' = ResumeReq
        /\ toReceiver' = toReceiver \o <<SendMeta(f), ResumeReq>>
    <3>1. \A x, y : Len(<<x, y>>) = 2 /\ <<x, y>>[2] = y
      OBVIOUS
    <3> QED
      BY <1>6, <3>1, Zenon DEF SendFile, Ask
  <2>2. f \in Files /\ Sizes[f] \in Nat /\ f >= f
    BY <1>1, <1>6, SizeFacts
  <2>3. SessionTypes'
    BY <1>1, <2>1, FrameTypes DEF SessionTypes, SenderWaits
  <2>4. SenderAt' /\ InStep'
    <3>1. SenderAt'
      BY <1>1, <2>1, <2>2 DEF SenderAt, RequestFits
    <3>2. InStep'
      BY <1>1, <2>1, <2>2 DEF InStep
    <3> QED
      BY <3>1, <3>2, Zenon
  <2>5. toReceiver' \in Seq(Inbound')
    <3>1. SendMeta(f) \in Inbound'
      BY <1>1, <2>1, <2>2, RequestFields, FrameTypes, Zenon DEF Inbound, Expected
    <3>2. ResumeReq \in Inbound'
      BY <1>1, RequestFields, FrameTypes DEF Inbound, Expected
    <3>3. <<SendMeta(f), ResumeReq>> \in Seq(Inbound')
      BY <3>1, <3>2
    <3>4. toReceiver \in Seq(Inbound')
      <4>1. CASE rpc = "meta"
        <5>1. \A m \in ReceiverFrames : m.type \notin {"SEND_META", "EOT"} => m \in Inbound'
          BY <1>1, <4>1, Zenon DEF Inbound, Expected
        <5> QED
          BY <4>1, <5>1
      <4>2. CASE rpc # "meta"
        <5>1. \A m \in Inbound : m \in Inbound'
          BY <1>1, <4>2, Zenon DEF Inbound, Expected
        <5> QED
          BY <5>1 DEF LinksFit
      <4> QED
        BY <4>1, <4>2
    <3> QED
      BY <2>1, <3>3, <3>4, FifoFacts, Zenon
  <2>6. MetaFirst'
    <3> SUFFICES ASSUME rpc = "meta" PROVE OnlyReqBehind(toReceiver')
      BY <1>1, Zenon DEF MetaFirst, OnlyReqBehind
    <3> DEFINE S == {m \in ReceiverFrames : m.type # "SEND_META"}
    <3>1. toReceiver \in Seq(S)
      OBVIOUS
    <3>2. \A i \in DOMAIN toReceiver : toReceiver[i].type # "SEND_META"
      BY <3>1
    <3> QED
      BY <2>1, <3>1, <3>2, OnlyReqSend, Zenon
  <2> QED
    BY <1>2, <1>3, <1>4, <2>1, <2>3, <2>4, <2>5, <2>6, Zenon DEF LinksFit, DoneAckLast
<1> QED
  BY <1>5, <1>6

LEMMA SendFilesKeeps ==
    ASSUME SessionInv, SendFiles PROVE SessionInv'
<1>1. /\ spc = "start" /\ SendFile(1) /\ sres' = sres /\ toSender' = toSender
      /\ UNCHANGED <<policy, old, diskVars, receiverVars>> /\ rres' = rres
  BY Zenon DEF SendFiles, receiverVars
<1>2. /\ ~InFile /\ toSender = <<>> /\ toReceiver = <<>>
      /\ \A g \in Files : rres[g] = "none"
      /\ sres \in [Files -> Reports]
  BY <1>1 DEF SessionInv, InStep, BatchInOrder, SessionTypes
<1>3. \A g \in Files : ~(g < 1)
  BY SizeFacts
<1>4. \A S : <<>> \in Seq(S)
  OBVIOUS
<1>5. 1 \in 1..(Len(Sizes) + 1)
  BY SizeFacts
<1> QED
  BY <1>1, <1>2, <1>3, <1>4, <1>5, SendFileKeeps

LEMMA RecvDoneAckKeeps ==
    ASSUME SessionInv, RecvDoneAck PROVE SessionInv'
<1> DEFINE m == Head(toSender)
<1>1. /\ spc \in {"done", "skip"} /\ toSender # <<>> /\ toSender' = Tail(toSender)
      /\ m.type = "DONE_ACK" /\ SendFile(sfile + 1)
      /\ sres' = [sres EXCEPT ![sfile] = IF spc = "skip" THEN "skipped" ELSE "ok"]
      /\ UNCHANGED <<policy, old, diskVars, receiverVars>> /\ rres' = rres
  BY Zenon DEF RecvDoneAck, SenderTakes, receiverVars
<1>2. m \in Outbound
  BY <1>1, FifoFacts DEF SessionInv, LinksFit
<1>3. /\ AtFile /\ Agrees(m) /\ sfile \in Files /\ sfile \in Nat /\ Sizes[sfile] \in Nat
      /\ sres \in [Files -> Reports]
  BY <1>1, <1>2, SizeFacts
     DEF Outbound, AtFile, SenderWaits, SessionInv, SenderAt, SessionTypes
<1>4. /\ ~InFile /\ rres[sfile] \in {"ok", "skipped"}
      /\ spc = "skip" => rres[sfile] = "skipped"
  BY <1>1, <1>3, Zenon DEF Agrees
<1>5. Tail(toSender) = <<>>
  <2>1. AckLast(toSender)
    BY <1>1 DEF SessionInv, LinksFit, DoneAckLast, AckLast
  <2> QED
    BY <1>1, <2>1, AckLastFacts DEF SessionInv, LinksFit
<1>6. sres' \in [Files -> Reports]
  BY <1>1, <1>3 DEF Reports
<1>7. \A g \in Files : g < sfile + 1 => Reported(g)'
  <2> SUFFICES ASSUME NEW g \in Files, g < sfile + 1 PROVE Reported(g)'
    OBVIOUS
  <2>1. g = sfile \/ g < sfile
    BY <1>3, SizeFacts
  <2>2. CASE g = sfile
    BY <1>1, <1>3, <1>4, <2>2, Zenon DEF Reported
  <2>3. CASE g < sfile /\ g # sfile
    BY <1>1, <1>3, <2>3 DEF Reported, SessionInv, BatchInOrder
  <2> QED
    BY <1>3, <2>1, <2>2, <2>3, SizeFacts
<1>8. \A g \in Files : g >= sfile + 1 => rres[g] = "none"
  <2>1. \A g \in Files : g >= sfile + 1 => g > sfile
    BY <1>3, SizeFacts
  <2> QED
    BY <2>1 DEF SessionInv, BatchInOrder
<1>9. rpc = "meta" =>
        toReceiver \in Seq({x \in ReceiverFrames : x.type \notin {"SEND_META", "EOT"}})
  <2> SUFFICES ASSUME rpc = "meta"
               PROVE \A x \in Inbound : x.type \notin {"SEND_META", "EOT"} /\ x \in ReceiverFrames
    BY DEF SessionInv, LinksFit
  <2> QED
    BY <1>1, <1>3 DEF Inbound, Expected
<1>10. sfile + 1 \in 1..(Len(Sizes) + 1)
  BY <1>3, SizeFacts
<1> HIDE DEF m
<1> QED
  BY <1>1, <1>4, <1>5, <1>6, <1>7, <1>8, <1>9, <1>10, SendFileKeeps, Zenon

\* The sender returns or crashes
LEMMA SenderStopsKeeps ==
    ASSUME SessionInv, UNCHANGED <<policy, old, diskVars, receiverVars>>,
           UNCHANGED <<sfile, soff, request, sres, toReceiver>>,
           spc' \in {"ok", "failed", "crashed"}, spc' = "ok" => spc = "eot",
           toSender' = toSender \/ (toSender # <<>> /\ toSender' = Tail(toSender))
    PROVE  SessionInv'
<1> USE DEF SessionInv
<1>1. /\ policy' = policy /\ old' = old /\ disk' = disk
      /\ rpc' = rpc /\ rfile' = rfile /\ roff' = roff /\ rbase' = rbase /\ resp' = resp
      /\ rres' = rres /\ ~AtFile' /\ (InFile' <=> InFile)
  BY Zenon DEF diskVars, receiverVars, AtFile, SenderWaits, InFile
<1>2. SessionTypes' /\ SenderAt'
  BY <1>1, Zenon DEF SessionTypes, SenderAt, RequestFits
<1>3. InStep' /\ BatchInOrder'
  BY <1>1, Zenon DEF InStep, BatchInOrder, Reported
<1>4. toReceiver' \in Seq(Inbound')
  <2>1. \A m \in Inbound : m \in Inbound'
    <3> SUFFICES ASSUME NEW m \in ReceiverFrames, Expected(m) PROVE Expected(m)'
      BY DEF Inbound
    <3> QED
      BY <1>1, Zenon DEF Expected
  <2> QED
    BY <2>1 DEF LinksFit
<1>5. toSender' \in Seq(Outbound')
  <2>1. toSender' \in Seq(Outbound)
    BY FifoFacts, Zenon DEF LinksFit
  <2>2. \A m \in Outbound : m \in Outbound'
    BY <1>1, Zenon DEF Outbound
  <2> QED
    BY <2>1, <2>2
<1>6. MetaFirst' /\ DoneAckLast'
  BY <1>1 DEF LinksFit, MetaFirst, DoneAckLast
<1>7. DiskFits'
  BY DiskUnchanged DEF diskVars
<1> QED
  BY <1>2, <1>3, <1>4, <1>5, <1>6, <1>7, Zenon DEF LinksFit

\* An answer is passed over or lost
LEMMA AnswerGoneKeeps ==
    ASSUME SessionInv, UNCHANGED <<policy, old, diskVars, receiverVars, senderVars, toReceiver>>,
           toSender # <<>>, toSender' = Tail(toSender)
    PROVE  SessionInv'
<1> USE DEF SessionInv
<1>1. /\ policy' = policy /\ old' = old /\ disk' = disk
      /\ spc' = spc /\ sfile' = sfile /\ soff' = soff /\ request' = request /\ sres' = sres
      /\ rpc' = rpc /\ rfile' = rfile /\ roff' = roff /\ rbase' = rbase /\ resp' = resp
      /\ rres' = rres /\ (AtFile' <=> AtFile) /\ (InFile' <=> InFile)
      /\ toReceiver' = toReceiver
  BY Zenon DEF diskVars, receiverVars, senderVars, AtFile, InFile
<1>2. SessionTypes' /\ SenderAt'
  <2>1. SessionTypes'
    BY <1>1, Zenon DEF SessionTypes
  <2>2. SenderAt'
    BY <1>1, Zenon DEF SenderAt, RequestFits, VerifyLen
  <2> QED
    BY <2>1, <2>2, Zenon
<1>3. InStep' /\ BatchInOrder'
  BY <1>1, Zenon DEF InStep, BatchInOrder, Reported
<1>4. toReceiver' \in Seq(Inbound')
  <2>1. \A m \in Inbound : m \in Inbound'
    <3> SUFFICES ASSUME NEW m \in ReceiverFrames, Expected(m) PROVE Expected(m)'
      BY DEF Inbound
    <3> QED
      BY <1>1, Zenon DEF Expected
  <2> QED
    BY <1>1, <2>1 DEF LinksFit
<1>5. toSender' \in Seq(Outbound')
  <2>1. toSender' \in Seq(Outbound)
    BY FifoFacts, Zenon DEF LinksFit
  <2>2. \A m \in Outbound : m \in Outbound'
    <3>1. ASSUME NEW m PROVE Agrees(m)' <=> Agrees(m)
      BY <1>1, Zenon DEF Agrees, VerifyLen
    <3> QED
      BY <1>1, <3>1, Zenon DEF Outbound
  <2> QED
    BY <2>1, <2>2
<1>6. DoneAckLast'
  <2> SUFFICES ASSUME spc \in {"done", "skip"} PROVE AckLast(Tail(toSender))
    BY <1>1, Zenon DEF DoneAckLast, AckLast
  <2>1. AckLast(toSender)
    BY Zenon DEF LinksFit, DoneAckLast, AckLast
  <2> QED
    BY <2>1, AckLastFacts, Zenon DEF LinksFit
<1>7. MetaFirst'
  BY <1>1, Zenon DEF LinksFit, MetaFirst
<1>8. DiskFits'
  BY DiskUnchanged, Zenon DEF diskVars
<1> QED
  BY <1>2, <1>3, <1>4, <1>5, <1>6, <1>7, <1>8, Zenon DEF LinksFit

\* The request goes out again
LEMMA AskAgainKeeps ==
    ASSUME SessionInv, spc \in SenderWaits,
           UNCHANGED <<policy, old, diskVars, receiverVars>>,
           UNCHANGED <<spc, sfile, soff, request, sres, toSender>>,
           toReceiver' = Append(toReceiver, request)
    PROVE  SessionInv'
<1> USE DEF SessionInv
<1>1. /\ policy' = policy /\ old' = old /\ disk' = disk
      /\ spc' = spc /\ sfile' = sfile /\ soff' = soff /\ request' = request /\ sres' = sres
      /\ rpc' = rpc /\ rfile' = rfile /\ roff' = roff /\ rbase' = rbase /\ resp' = resp
      /\ rres' = rres /\ (AtFile' <=> AtFile) /\ (InFile' <=> InFile)
      /\ toSender' = toSender /\ spc # "start"
  BY Zenon DEF diskVars, receiverVars, AtFile, InFile, SenderWaits
<1>2. SessionTypes' /\ SenderAt'
  BY <1>1 DEF SessionTypes, SenderAt, RequestFits, VerifyLen
<1>3. InStep' /\ BatchInOrder'
  BY <1>1, Zenon DEF InStep, BatchInOrder, Reported
<1>4. Expected(request)
  <2>1. CASE spc = "resume"
    BY <2>1, RequestFields DEF SenderAt, RequestFits, Expected
  <2>2. CASE spc = "verify"
    <3>1. rpc = "verify" => request = Verify(rfile, resp.off - resp.len, resp.len)
      BY <2>2, ResumeRespFields
         DEF SenderAt, RequestFits, InStep, InFile, ReceiverWaits, DiskFits, ReceiverAt
    <3> QED
      BY <2>2, <3>1, RequestFields DEF SenderAt, RequestFits, InStep, Expected
  <2>3. CASE spc = "data"
    <3>1. soff \in Nat /\ soff <= soff
      BY DEF SessionTypes
    <3> QED
      BY <2>3, <3>1, RequestFields
         DEF SenderAt, RequestFits, InStep, InFile, ReceiverWaits, Expected
  <2>4. CASE spc \in {"done", "skip"}
    BY <2>4, RequestFields, Zenon DEF SenderAt, RequestFits, InStep, Expected
  <2>5. CASE spc = "eot"
    BY <2>5, RequestFields, Zenon
       DEF SenderAt, RequestFits, InStep, InFile, ReceiverWaits, Expected, AtFile
  <2> QED
    BY <2>1, <2>2, <2>3, <2>4, <2>5, Zenon DEF SenderWaits
<1>5. toReceiver' \in Seq(Inbound')
  <2>1. \A m \in Inbound : m \in Inbound'
    <3> SUFFICES ASSUME NEW m \in ReceiverFrames, Expected(m) PROVE Expected(m)'
      BY Zenon DEF Inbound
    <3> QED
      BY <1>1, Zenon DEF Expected
  <2>2. toReceiver \in Seq(Inbound) /\ request \in Inbound
    BY <1>4 DEF LinksFit, Inbound, SessionTypes
  <2>3. toReceiver' \in Seq(Inbound)
    BY <2>2, FifoFacts
  <2> QED
    BY <2>1, <2>3
<1>6. toSender' \in Seq(Outbound')
  <2>1. \A m \in Outbound : m \in Outbound'
    <3>1. ASSUME NEW m PROVE Agrees(m)' <=> Agrees(m)
      BY <1>1, Zenon DEF Agrees, VerifyLen
    <3> QED
      BY <1>1, <3>1, Zenon DEF Outbound
  <2> QED
    BY <1>1, <2>1 DEF LinksFit
<1>7. DoneAckLast'
  BY <1>1, Zenon DEF LinksFit, DoneAckLast
<1>8. MetaFirst'
  <2> SUFFICES ASSUME rpc = "meta" PROVE OnlyReqBehind(toReceiver')
    BY <1>1, Zenon DEF MetaFirst, OnlyReqBehind
  <2>1. CASE spc = "resume"
    <3>1. OnlyReqBehind(toReceiver) /\ request = ResumeReq
      BY <2>1, Zenon DEF LinksFit, MetaFirst, OnlyReqBehind, SenderAt, RequestFits
    <3> QED
      BY <3>1, OnlyReqSend, Zenon DEF LinksFit
  <2>2. CASE spc # "resume"
    <3> DEFINE S == {m \in ReceiverFrames : m.type # "SEND_META"}
    <3>1. \A m \in Inbound : m \in S
      BY <2>2, Zenon DEF Inbound, Expected, SenderWaits
    <3>2. request \in S
      BY <2>2, RequestFields
         DEF SenderAt, RequestFits, InStep, SessionTypes, SenderWaits
    <3> HIDE DEF S
    <3>3. toReceiver \in Seq(S)
      BY <3>1 DEF LinksFit
    <3>4. toReceiver' \in Seq(S)
      BY <3>2, <3>3, FifoFacts, Zenon
    <3>5. \A i \in DOMAIN toReceiver' : toReceiver'[i].type # "SEND_META"
      BY <3>4 DEF S
    <3> QED
      BY <3>4, <3>5, OnlyReqSend, Zenon
  <2> QED
    BY <2>1, <2>2, Zenon
<1>9. DiskFits'
  BY DiskUnchanged DEF diskVars
<1> QED
  BY <1>2, <1>3, <1>5, <1>6, <1>7, <1>8, <1>9, Zenon DEF LinksFit

LEMMA SenderStepKeeps ==
    ASSUME SessionInv, SenderStep PROVE SessionInv'
<1>1. CASE SendFiles
  BY <1>1, SendFilesKeeps
<1>2. CASE RecvResumeResp
  BY <1>2, RecvResumeRespKeeps
<1>3. CASE RecvVerifyResult
  BY <1>3, RecvVerifyResultKeeps
<1>4. CASE RecvDataAck
  BY <1>4, RecvDataAckKeeps
<1>5. CASE RecvDoneAck
  BY <1>5, RecvDoneAckKeeps
<1>6. CASE RecvEotAck
  BY <1>6, SenderStopsKeeps, Zenon DEF RecvEotAck, SenderTakes
<1>7. CASE RecvError
  BY <1>7, SenderStopsKeeps, Zenon DEF RecvError, SenderTakes
<1>8. CASE SenderIgnores
  BY <1>8, AnswerGoneKeeps, Zenon DEF SenderIgnores, SenderTakes
<1>9. CASE SenderTimer
  BY <1>9, AskAgainKeeps, SenderStopsKeeps DEF SenderTimer, SenderTimeout
<1> QED
  BY <1>1, <1>2, <1>3, <1>4, <1>5, <1>6, <1>7, <1>8, <1>9 DEF SenderStep, SenderReads
=============================================================================
