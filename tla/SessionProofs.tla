--------------------------- MODULE SessionProofs ---------------------------
(***************************************************************************)
(* Theorems about a session of val_send_files and                          *)
(* val_internal_receive_files, for every batch of files, every resume      *)
(* configuration, every old content of the receiver's disk and any number  *)
(* of losses, early timeouts, crashes and sessions.                        *)
(***************************************************************************)
EXTENDS SessionSteps

-----------------------------------------------------------------------------
(* The steps of the receiver.                                              *)

\* A step of the receiver alone leaves the sender where it is
LEMMA SenderUnchanged ==
    ASSUME SenderAt, UNCHANGED <<policy, senderVars>>
    PROVE  /\ SenderAt' /\ (AtFile' <=> AtFile)
           /\ spc' = spc /\ sfile' = sfile /\ soff' = soff /\ request' = request
           /\ sres' = sres /\ policy' = policy
  BY Zenon DEF SenderAt, RequestFits, VerifyLen, AtFile, senderVars

\* What a receiver may send as it ends, or before a validator skips or aborts
FarewellFrames == {EotAck, Error, DataAck(0), ResumeResp("START_ZERO", 0, 0)}

\* The receiver returns or crashes: a file that was being written may be cut
LEMMA ReceiverStopsKeeps ==
    ASSUME SessionInv, UNCHANGED <<policy, old, senderVars, rfile, roff, rbase, resp, rres>>,
           rpc' \in {"ok", "failed", "aborted", "crashed"},
           toReceiver' = toReceiver \/ (toReceiver # <<>> /\ toReceiver' = Tail(toReceiver)),
           NEW frames \in Seq(FarewellFrames), toSender' = toSender \o frames,
           frames = <<>> \/ spc \notin {"done", "skip", "start"},
           disk' \in [Files -> Seq(Nat)],
           \A f \in Files : f # rfile \/ rres[f] # "none" => disk'[f] = disk[f]
    PROVE  SessionInv'
<1> USE DEF SessionInv
<1>1. /\ SenderAt' /\ (AtFile' <=> AtFile) /\ ~InFile'
      /\ spc' = spc /\ sfile' = sfile /\ soff' = soff /\ request' = request /\ sres' = sres
      /\ policy' = policy /\ old' = old /\ rfile' = rfile /\ roff' = roff /\ rbase' = rbase
      /\ resp' = resp /\ rres' = rres
      /\ rpc' \notin ReceiverWaits
  BY SenderUnchanged DEF InFile, ReceiverWaits
<1>2. SessionTypes'
  BY <1>1 DEF SessionTypes
<1>3. BatchInOrder'
  BY <1>1 DEF BatchInOrder, Reported
<1>4. toReceiver' \in Seq(Inbound')
  <2>1. toReceiver' \in Seq(Inbound)
    BY FifoFacts, Zenon DEF LinksFit
  <2>2. \A m \in Inbound : m \in Inbound'
    BY DEF Inbound, Expected
  <2> QED
    BY <2>1, <2>2
<1>5. toSender' \in Seq(Outbound')
  <2>1. \A m \in Outbound : m \in Outbound'
    BY <1>1, Zenon DEF Outbound, Agrees, VerifyLen, ReceiverWaits
  <2>2. \A m \in FarewellFrames : m \in Outbound'
    <3>1. AtFile => Sizes[sfile] \in Nat
      BY SizeFacts DEF SenderAt
    <3>2. FarewellFrames \subseteq SenderFrames
      BY FrameTypes DEF FarewellFrames
    <3>3. ASSUME NEW m \in FarewellFrames, AtFile PROVE Agrees(m)'
      BY <1>1, <3>1, <3>3, AnswerFields, ResumeRespFields DEF FarewellFrames, Agrees, ReceiverWaits
    <3> QED
      BY <1>1, <3>2, <3>3 DEF Outbound
  <2>3. toSender \in Seq(Outbound') /\ frames \in Seq(Outbound')
    BY <2>1, <2>2 DEF LinksFit
  <2> QED
    BY <2>3, FifoFacts
<1>6. frames = <<>> => toSender' = toSender
  BY DEF LinksFit
<1>7. InStep'
  BY <1>1, <1>6 DEF InStep, ReceiverWaits
<1>8. MetaFirst' /\ DoneAckLast'
  BY <1>1, <1>6 DEF MetaFirst, DoneAckLast, LinksFit, ReceiverWaits
<1>9. DiskFits'
  <2>1. ReceiverAt'
    BY <1>1 DEF ReceiverAt, ReceiverWaits
  <2>2. Untouched'
    BY <1>1 DEF DiskFits, Untouched
  <2>3. OkMeansCopied'
    <3>1. \A f \in Files : Unverified(f)' = Unverified(f)
      BY <1>1 DEF Unverified, VerifyLen
    <3>2. \A f \in Files : rres[f] = "ok" => disk'[f] = disk[f]
      OBVIOUS
    <3> QED
      BY <1>1, <3>1, <3>2, ZenonT(30) DEF DiskFits, OkMeansCopied
  <2>4. SkipKeepsFile'
    BY <1>1 DEF DiskFits, SkipKeepsFile
  <2> QED
    BY <2>1, <2>2, <2>3, <2>4 DEF DiskFits
<1> QED
  BY <1>1, <1>2, <1>3, <1>4, <1>5, <1>7, <1>8, <1>9 DEF LinksFit

\* A frame to the receiver is passed over or lost
LEMMA FrameGoneKeeps ==
    ASSUME SessionInv, UNCHANGED <<policy, old, diskVars, receiverVars, senderVars, toSender>>,
           toReceiver # <<>>, toReceiver' = Tail(toReceiver)
    PROVE  SessionInv'
<1> USE DEF SessionInv
<1>1. /\ SenderAt' /\ (AtFile' <=> AtFile) /\ (InFile' <=> InFile)
      /\ spc' = spc /\ sfile' = sfile /\ soff' = soff /\ request' = request /\ sres' = sres
      /\ policy' = policy /\ old' = old /\ disk' = disk
      /\ rpc' = rpc /\ rfile' = rfile /\ roff' = roff /\ rbase' = rbase /\ resp' = resp
      /\ rres' = rres /\ toSender' = toSender
  BY SenderUnchanged, Zenon DEF diskVars, receiverVars, InFile
<1>2. SessionTypes' /\ BatchInOrder' /\ InStep'
  BY <1>1 DEF SessionTypes, BatchInOrder, Reported, InStep
<1>3. toReceiver' \in Seq(Inbound')
  <2>1. toReceiver' \in Seq(Inbound)
    BY FifoFacts, Zenon DEF LinksFit
  <2>2. \A m \in Inbound : m \in Inbound'
    <3> SUFFICES ASSUME NEW m \in ReceiverFrames, Expected(m) PROVE Expected(m)'
      BY DEF Inbound
    <3> QED
      BY <1>1 DEF Expected
  <2> QED
    BY <2>1, <2>2
<1>4. toSender' \in Seq(Outbound')
  <2>1. \A m \in Outbound : m \in Outbound'
    BY <1>1 DEF Outbound, Agrees, VerifyLen
  <2> QED
    BY <1>1, <2>1 DEF LinksFit
<1>5. MetaFirst'
  <2> SUFFICES ASSUME rpc = "meta" PROVE OnlyReqBehind(Tail(toReceiver))
    BY <1>1 DEF MetaFirst, OnlyReqBehind
  <2>1. OnlyReqBehind(toReceiver)
    BY DEF LinksFit, MetaFirst, OnlyReqBehind
  <2> QED
    BY <2>1, OnlyReqTail, Zenon DEF LinksFit
<1>6. DoneAckLast'
  BY <1>1 DEF LinksFit, DoneAckLast
<1>7. DiskFits'
  BY DiskUnchanged DEF diskVars
<1> QED
  BY <1>1, <1>2, <1>3, <1>4, <1>5, <1>6, <1>7 DEF LinksFit

LEMMA RecvMetaKeeps ==
    ASSUME SessionInv, RecvMeta PROVE SessionInv'
<1> USE DEF SessionInv
<1>1. /\ rpc = "meta" /\ toReceiver # <<>> /\ toReceiver' = Tail(toReceiver)
      /\ Head(toReceiver).type = "SEND_META"
      /\ UNCHANGED <<policy, old, senderVars>>
      /\ rfile' = Head(toReceiver).file /\ roff' = 0 /\ rbase' = 0
      /\ resp' = ResumeResp("START_ZERO", 0, 0)
      /\ disk' = disk /\ rres' = rres /\ toSender' = toSender /\ old' = old
      /\ rpc' \in {"peek", "req"} /\ (rpc' = "peek" => policy.mode = "NEVER")
  BY DEF RecvMeta, ReceiverTakes, diskVars
<1>2. Head(toReceiver) \in Inbound /\ Tail(toReceiver) \in Seq({ResumeReq})
  <2>1. OnlyReqBehind(toReceiver)
    BY <1>1, Zenon DEF LinksFit, MetaFirst, OnlyReqBehind
  <2> QED
    BY <1>1, <2>1, FifoFacts, OnlyReqTail DEF LinksFit
<1>3. /\ rfile' = sfile /\ sfile \in Files /\ sfile \in Nat /\ rres[sfile] = "none"
      /\ spc \in {"resume", "failed", "crashed"}
  BY <1>1, <1>2, ReceiverFrameFields, RequestFields, SizeFacts DEF Inbound, Expected
<1>4. /\ SenderAt' /\ (AtFile' <=> AtFile) /\ InFile'
      /\ spc' = spc /\ sfile' = sfile /\ soff' = soff /\ request' = request /\ sres' = sres
      /\ policy' = policy
  BY <1>1, SenderUnchanged, Zenon DEF InFile, ReceiverWaits
<1>5. SessionTypes'
  BY <1>1, <1>3, <1>4, FrameTypes, Zenon DEF SessionTypes, ReceiverWaits
<1>6. InStep' /\ BatchInOrder'
  BY <1>1, <1>3, <1>4 DEF InStep, BatchInOrder, Reported
<1>7. toReceiver' \in Seq(Inbound')
  <2>1. ResumeReq \in Inbound'
    BY <1>1, FrameTypes DEF Inbound, Expected
  <2> QED
    BY <1>1, <1>2, <2>1
<1>8. toSender' \in Seq(Outbound')
  <2>1. \A m \in Outbound : m \in Outbound'
    BY <1>1, <1>3, <1>4, Zenon DEF Outbound, Agrees, AtFile, SenderWaits
  <2> QED
    BY <1>1, <2>1 DEF LinksFit
<1>9. MetaFirst' /\ DoneAckLast'
  BY <1>1, <1>3, <1>4, Zenon DEF MetaFirst, DoneAckLast
<1>10. DiskFits'
  <2>1. \A f \in Files : rres[f] = "none" => disk[f] = old[f]
    BY <1>1, Zenon DEF DiskFits, Untouched, ReceiverWaits
  <2> QED
    BY <1>1, <1>4, <2>1, Zenon DEF DiskFits, ReceiverAt, Untouched, OkMeansCopied, SkipKeepsFile,
                           Unverified, VerifyLen
<1> QED
  BY <1>4, <1>5, <1>6, <1>7, <1>8, <1>9, <1>10 DEF LinksFit

\* What is reported of the files stays true when no reported file is written
LEMMA ReportsKept ==
    ASSUME policy' = policy, old' = old, rres' = rres, OkMeansCopied, SkipKeepsFile,
           \A f \in Files : rres[f] \in {"ok", "skipped"} => disk'[f] = disk[f]
    PROVE  OkMeansCopied' /\ SkipKeepsFile'
<1>1. OkMeansCopied'
  <2> SUFFICES ASSUME NEW f \in Files, rres[f] = "ok"
               PROVE  /\ Len(disk'[f]) = Sizes[f]
                      /\ \A p \in 1..Sizes[f] :
                            \/ disk'[f][p] = p
                            \/ p <= Unverified(f) /\ disk'[f][p] = old[f][p]
    BY DEF OkMeansCopied, Unverified, VerifyLen
  <2>1. disk'[f] = disk[f]
    OBVIOUS
  <2> QED
    BY <2>1, Zenon DEF OkMeansCopied
<1>2. SkipKeepsFile'
  BY DEF SkipKeepsFile
<1> QED
  BY <1>1, <1>2

\* The file is opened, or skipped, with the answer that says so
LEMMA OpenFileKeeps ==
    ASSUME SessionInv, UNCHANGED <<policy, old, senderVars, rfile, rres>>, resp' \in Resps,
           rpc \in {"req", "peek", "verify"}, rpc = "verify" => spc # "resume",
           NEW off \in Nat, NEW skipping \in BOOLEAN, OpenFile(off, skipping),
           ~skipping => \/ off = 0
                        \/ /\ off = Len(disk[rfile]) /\ off <= Sizes[rfile]
                           /\ CopiedTo(rfile, off),
           toReceiver' = toReceiver \/ (toReceiver # <<>> /\ toReceiver' = Tail(toReceiver)),
           NEW frames \in Seq(Outbound'), toSender' = toSender \o frames
    PROVE  SessionInv'
<1> USE DEF SessionInv
<1>1. /\ SenderAt' /\ (AtFile' <=> AtFile)
      /\ spc' = spc /\ sfile' = sfile /\ soff' = soff /\ request' = request /\ sres' = sres
      /\ policy' = policy /\ old' = old /\ rfile' = rfile /\ rres' = rres
      /\ roff' = off /\ rbase' = off /\ rpc' = IF skipping THEN "skip" ELSE "data"
      /\ disk' = IF off = 0 /\ ~skipping THEN [disk EXCEPT ![rfile] = <<>>] ELSE disk
  BY SenderUnchanged, Zenon DEF OpenFile
<1>2. /\ InFile /\ InFile' /\ rfile = sfile /\ rfile \in Files /\ rres[rfile] = "none"
      /\ spc \notin {"start", "eot", "ok", "data", "done", "skip"}
      /\ Sizes[rfile] \in Nat /\ disk \in [Files -> Seq(Nat)]
      /\ spc = "verify" => rpc = "verify"
  BY <1>1, SizeFacts, Zenon DEF InFile, ReceiverWaits, InStep, BatchInOrder, SessionTypes
<1>3. SessionTypes'
  <2>1. disk' \in [Files -> Seq(Nat)]
    <3>1. [disk EXCEPT ![rfile] = <<>>] \in [Files -> Seq(Nat)]
      BY <1>2
    <3> QED
      BY <1>1, <1>2, <3>1, Zenon
  <2>2. rpc' \in ReceiverWaits
    BY <1>1, Zenon DEF ReceiverWaits
  <2> QED
    BY <1>1, <2>1, <2>2, Zenon DEF SessionTypes
<1>4. InStep' /\ BatchInOrder'
  BY <1>1, <1>2, Zenon DEF InStep, BatchInOrder, Reported
<1>5. toReceiver' \in Seq(Inbound')
  <2>1. toReceiver' \in Seq(Inbound)
    BY FifoFacts, Zenon DEF LinksFit
  <2>2. \A m \in Inbound : m \in Inbound'
    <3> SUFFICES ASSUME NEW m \in ReceiverFrames, Expected(m) PROVE Expected(m)'
      BY DEF Inbound
    <3>1. m.type \in {"RESUME_REQ", "VERIFY"}
      BY RequestFields DEF Expected
    <3> QED
      BY <1>1, <3>1, Zenon DEF Expected
  <2> QED
    BY <2>1, <2>2
<1>6. toSender' \in Seq(Outbound')
  <2>1. \A m \in Outbound : m \in Outbound'
    BY <1>1, <1>2 DEF Outbound, Agrees, AtFile, SenderWaits
  <2>2. toSender \in Seq(Outbound')
    BY <2>1 DEF LinksFit
  <2> QED
    BY <2>2, FifoFacts
<1>7. MetaFirst' /\ DoneAckLast'
  BY <1>1, <1>2 DEF MetaFirst, DoneAckLast
<1>8. DiskFits'
  <2>1. \A f \in Files : f # rfile => disk'[f] = disk[f]
    BY <1>1, <1>2, Zenon
  <2>2. /\ skipping => disk' = disk
        /\ ~skipping => /\ Len(disk'[rfile]) = off /\ off <= Sizes[rfile]
                        /\ off # 0 => disk' = disk
    BY <1>1, <1>2
  <2>3. ReceiverAt'
    <3>1. ~skipping => CopiedTo(rfile, off)'
      <4>1. CASE off = 0
        <5>1. \A p : p \notin 1..0
          OBVIOUS
        <5> QED
          BY <1>1, <4>1, <5>1, Zenon DEF CopiedTo
      <4>2. CASE off # 0
        BY <1>1, <2>2, <4>2, Zenon DEF CopiedTo, Unverified, VerifyLen
      <4> QED
        BY <4>1, <4>2, Zenon
    <3> QED
      BY <1>1, <2>2, <3>1 DEF ReceiverAt, CopiedTo
  <2>4. Untouched'
    BY <1>1, <2>1, <2>2, Zenon DEF DiskFits, Untouched, ReceiverWaits
  <2>5. OkMeansCopied' /\ SkipKeepsFile'
    <3>1. \A f \in Files : rres[f] \in {"ok", "skipped"} => disk'[f] = disk[f]
      BY <1>2, <2>1, Zenon
    <3> QED
      BY <1>1, <3>1, ReportsKept, Zenon DEF DiskFits
  <2> QED
    BY <2>3, <2>4, <2>5, Zenon DEF DiskFits
<1> QED
  BY <1>1, <1>3, <1>4, <1>5, <1>6, <1>7, <1>8 DEF LinksFit

\* What determine_resume_action answers
LEMMA DetermineFacts ==
    ASSUME SessionTypes, NEW f \in Files
    PROVE  LET d == DetermineResumeAction(f)
               n == Len(disk[f])
           IN  /\ d \in Resps
               /\ d.action = "START_ZERO" => d = ResumeResp("START_ZERO", 0, 0)
               /\ d.action = "START_ZERO" /\ policy.mode = "TAIL" => n = 0 \/ n > Sizes[f]
               /\ d.action = "VERIFY_FIRST" =>
                     /\ n > 0 /\ n <= Sizes[f] /\ policy.mode = "TAIL"
                     /\ d = ResumeResp("VERIFY_FIRST", n, VerifyLen(n))
               /\ policy.mode = "NEVER" => d = ResumeResp("START_ZERO", 0, 0)
<1> DEFINE n == Len(disk[f])
<1>1. /\ n \in Nat /\ Sizes[f] \in Nat /\ policy.mode \in {"NEVER", "SKIP_EXISTING", "TAIL"}
      /\ policy.skip \in BOOLEAN
  BY SizeFacts DEF SessionTypes
<1>2. VerifyLen(n) \in Nat
  BY <1>1, VerifyLenFacts, Zenon
<1>3. DetermineResumeAction(f) =
        IF policy.mode = "NEVER" \/ n = 0 THEN ResumeResp("START_ZERO", 0, 0)
        ELSE IF policy.mode = "SKIP_EXISTING" THEN ResumeResp("SKIP_FILE", 0, 0)
        ELSE IF n > Sizes[f]
             THEN ResumeResp(IF policy.skip THEN "SKIP_FILE" ELSE "START_ZERO", 0, 0)
        ELSE ResumeResp("VERIFY_FIRST", n, VerifyLen(n))
  BY <1>1 DEF DetermineResumeAction
<1> HIDE DEF n
<1>4. /\ ResumeResp("START_ZERO", 0, 0) \in Resps
      /\ ResumeResp("SKIP_FILE", 0, 0) \in Resps
      /\ ResumeResp("VERIFY_FIRST", n, VerifyLen(n)) \in Resps
  BY <1>1, <1>2, FrameTypes, Zenon
<1>5. /\ ResumeResp("START_ZERO", 0, 0).action = "START_ZERO"
      /\ ResumeResp("SKIP_FILE", 0, 0).action = "SKIP_FILE"
      /\ ResumeResp("VERIFY_FIRST", n, VerifyLen(n)).action = "VERIFY_FIRST"
  BY ResumeRespFields
<1>6. CASE policy.mode = "NEVER" \/ n = 0
  BY <1>3, <1>4, <1>5, <1>6, Zenon DEF n
<1>7. CASE ~(policy.mode = "NEVER" \/ n = 0) /\ policy.mode = "SKIP_EXISTING"
  BY <1>3, <1>4, <1>5, <1>7, Zenon DEF n
<1>8. CASE /\ ~(policy.mode = "NEVER" \/ n = 0) /\ policy.mode # "SKIP_EXISTING"
           /\ n > Sizes[f]
  BY <1>3, <1>4, <1>5, <1>8, Zenon DEF n
<1>9. CASE /\ ~(policy.mode = "NEVER" \/ n = 0) /\ policy.mode # "SKIP_EXISTING"
           /\ ~(n > Sizes[f])
  <2>1. n > 0 /\ n <= Sizes[f] /\ policy.mode = "TAIL"
    BY <1>1, <1>9
  <2> QED
    BY <1>3, <1>4, <1>5, <1>9, <2>1 DEF n
<1> QED
  BY <1>6, <1>7, <1>8, <1>9

\* A file is skipped if it is to start at its end
LEMMA StartAtOpens ==
    ASSUME NEW off \in Nat, StartAt(off)
    PROVE  \/ OpenFile(off, TRUE) /\ off >= Sizes[rfile]
           \/ OpenFile(off, FALSE) /\ ~(off >= Sizes[rfile])
<1>1. CASE off >= Sizes[rfile]
  BY <1>1 DEF StartAt, OpenFile
<1>2. CASE ~(off >= Sizes[rfile])
  BY <1>2 DEF StartAt, OpenFile
<1> QED
  BY <1>1, <1>2, Zenon

\* The answer that announces a verification
LEMMA VerifyFirstKeeps ==
    ASSUME SessionInv, UNCHANGED <<policy, old, diskVars, senderVars, rfile, roff, rbase, rres>>,
           rpc = "req", rpc' = "verify", resp' = DetermineResumeAction(rfile),
           resp'.action = "VERIFY_FIRST",
           toReceiver # <<>>, toReceiver' = Tail(toReceiver), toSender' = toSender \o <<resp'>>
    PROVE  SessionInv'
<1> USE DEF SessionInv
<1>1. /\ SenderAt' /\ (AtFile' <=> AtFile)
      /\ spc' = spc /\ sfile' = sfile /\ soff' = soff /\ request' = request /\ sres' = sres
      /\ policy' = policy /\ old' = old /\ disk' = disk /\ rfile' = rfile /\ rres' = rres
      /\ roff' = roff /\ rbase' = rbase
  BY SenderUnchanged DEF diskVars
<1>2. /\ InFile /\ InFile' /\ rfile = sfile /\ rfile \in Files /\ rres[rfile] = "none"
      /\ spc \notin {"start", "eot", "ok", "verify", "data", "done", "skip"}
      /\ Sizes[rfile] \in Nat /\ disk[rfile] \in Seq(Nat)
  BY SizeFacts, Zenon DEF InFile, ReceiverWaits, InStep, BatchInOrder, SessionTypes
<1> DEFINE n == Len(disk[rfile])
<1>3. /\ n \in Nat /\ n > 0 /\ n <= Sizes[rfile] /\ policy.mode = "TAIL"
      /\ resp' = ResumeResp("VERIFY_FIRST", n, VerifyLen(n)) /\ resp' \in Resps
  BY <1>2, DetermineFacts
<1> HIDE DEF n
<1>4. SessionTypes'
  BY <1>1, <1>3 DEF SessionTypes, ReceiverWaits
<1>5. InStep' /\ BatchInOrder'
  BY <1>1, <1>2 DEF InStep, BatchInOrder, Reported
<1>6. toReceiver' \in Seq(Inbound')
  <2>1. toReceiver' \in Seq(Inbound)
    BY FifoFacts, Zenon DEF LinksFit
  <2>2. \A m \in Inbound : m \in Inbound'
    BY Zenon DEF Inbound, Expected
  <2> QED
    BY <2>1, <2>2
<1>7. toSender' \in Seq(Outbound')
  <2>1. \A m \in Outbound : m \in Outbound'
    BY <1>1, <1>2, Zenon DEF Outbound, Agrees, AtFile, SenderWaits
  <2>2. resp' \in Outbound'
    <3>1. Agrees(resp)'
      <4>1. resp'.type = "RESUME_RESP" /\ resp'.off = n /\ resp'.len = VerifyLen(n)
        BY <1>3, ResumeRespFields
      <4>2. VerifyLen(resp.off)' = VerifyLen(n)
        BY <1>1, <4>1 DEF VerifyLen
      <4>3. resp'.off \in 1..Sizes[sfile'] /\ resp'.len = VerifyLen(resp.off)'
        BY <1>1, <1>2, <1>3, <4>1, <4>2
      <4> QED
        BY <1>1, <1>2, <4>1, <4>3, Zenon DEF Agrees
    <3> QED
      BY <1>3, <3>1, FrameTypes, Zenon DEF Outbound
  <2>3. toSender \in Seq(Outbound') /\ <<resp'>> \in Seq(Outbound')
    BY <2>1, <2>2 DEF LinksFit
  <2> QED
    BY <2>3, FifoFacts, Zenon
<1>8. MetaFirst' /\ DoneAckLast'
  BY <1>1, <1>2, Zenon DEF MetaFirst, DoneAckLast
<1>9. DiskFits'
  <2>1. ReceiverAt'
    BY <1>1, <1>3 DEF ReceiverAt, VerifyLen, n
  <2>2. Untouched'
    BY <1>1, Zenon DEF DiskFits, Untouched, ReceiverWaits
  <2>3. OkMeansCopied' /\ SkipKeepsFile'
    BY <1>1 DEF DiskFits, OkMeansCopied, SkipKeepsFile, Unverified, VerifyLen
  <2> QED
    BY <2>1, <2>2, <2>3, Zenon DEF DiskFits
<1> QED
  BY <1>1, <1>4, <1>5, <1>6, <1>7, <1>8, <1>9, Zenon DEF LinksFit

LEMMA RecvResumeReqKeeps ==
    ASSUME SessionInv, RecvResumeReq PROVE SessionInv'
<1>1. /\ rpc = "req" /\ toReceiver # <<>> /\ toReceiver' = Tail(toReceiver)
      /\ UNCHANGED <<policy, old, senderVars, rfile, rres>>
      /\ resp' = DetermineResumeAction(rfile)
      /\ toSender' = toSender \o <<resp'>>
  BY Zenon DEF RecvResumeReq, ReceiverTakes, Reply
<1>2. /\ rfile = sfile /\ rfile \in Files /\ spc \notin {"start", "eot", "ok", "verify"}
      /\ Sizes[rfile] \in Nat /\ SessionTypes /\ SenderAt
  BY <1>1, SizeFacts, Zenon DEF SessionInv, InFile, ReceiverWaits, InStep
<1>3. /\ resp' \in Resps /\ (AtFile' <=> AtFile) /\ spc' = spc /\ sfile' = sfile
      /\ resp'.action = "START_ZERO" => resp' = ResumeResp("START_ZERO", 0, 0)
      /\ resp' \in SenderFrames /\ resp'.type = "RESUME_RESP"
  BY <1>1, <1>2, DetermineFacts, SenderUnchanged, FrameTypes, Zenon DEF Resps
<1>4. CASE resp'.action = "START_ZERO" /\ StartAt(0)
  <2>1. OpenFile(0, TRUE) \/ OpenFile(0, FALSE)
    BY <1>4, StartAtOpens, Zenon
  <2>2. roff' = 0 /\ rbase' = 0 /\ rpc' \in {"skip", "data"}
    BY <2>1 DEF OpenFile
  <2>3. Agrees(resp)'
    BY <1>2, <1>3, <1>4, <2>2, ResumeRespFields, Zenon DEF Agrees
  <2>4. <<resp'>> \in Seq(Outbound')
    BY <1>3, <2>3 DEF Outbound
  <2> QED
    BY <1>1, <1>3, <2>1, <2>4, OpenFileKeeps, Zenon
<1>5. CASE resp'.action = "SKIP_FILE" /\ StartAt(Sizes[rfile])
  <2>1. OpenFile(Sizes[rfile], TRUE)
    <3>1. (Sizes[rfile] >= Sizes[rfile]) = TRUE
      BY <1>2
    <3> QED
      BY <1>5, <3>1, Zenon DEF StartAt
  <2>2. rpc' = "skip"
    BY <2>1 DEF OpenFile
  <2>3. Agrees(resp)'
    BY <1>2, <1>3, <1>5, <2>2, ResumeRespFields, Zenon DEF Agrees
  <2>4. <<resp'>> \in Seq(Outbound')
    BY <1>3, <2>3 DEF Outbound
  <2> QED
    BY <1>1, <1>2, <1>3, <2>1, <2>4, OpenFileKeeps, Zenon
<1>6. CASE /\ resp'.action = "VERIFY_FIRST" /\ rpc' = "verify"
           /\ UNCHANGED <<diskVars, roff, rbase>>
  BY <1>1, <1>6, VerifyFirstKeeps, Zenon
<1> QED
  BY <1>4, <1>5, <1>6 DEF RecvResumeReq

LEMMA RecvVerifyKeeps ==
    ASSUME SessionInv, RecvVerify PROVE SessionInv'
<1> DEFINE v == Head(toReceiver)
           n == Len(disk[rfile])
<1>1. /\ rpc = "verify" /\ toReceiver # <<>> /\ toReceiver' = Tail(toReceiver)
      /\ v.type = "VERIFY"
      /\ UNCHANGED <<policy, old, senderVars, rfile, rres>> /\ resp' = resp
  BY Zenon DEF RecvVerify, ReceiverTakes
<1>2. /\ rfile = sfile /\ rfile \in Files /\ spc \in {"resume", "verify", "failed", "crashed"}
      /\ spc = "verify" => soff = resp.off
      /\ Sizes[rfile] \in Nat /\ SessionTypes /\ SenderAt /\ rres[rfile] = "none"
      /\ resp \in Resps /\ disk[rfile] \in Seq(Nat) /\ old[rfile] \in Seq(Nat)
  BY <1>1, SizeFacts, Zenon
     DEF SessionInv, InFile, ReceiverWaits, InStep, SessionTypes, BatchInOrder, SenderWaits
<1>3. /\ n \in Nat /\ n > 0 /\ n <= Sizes[rfile] /\ policy.mode = "TAIL"
      /\ resp = ResumeResp("VERIFY_FIRST", n, VerifyLen(n))
      /\ resp.off = n /\ resp.len = VerifyLen(n)
      /\ VerifyLen(n) \in Nat /\ VerifyLen(n) <= n
  <2>1. /\ n \in Nat /\ n > 0 /\ n <= Sizes[rfile] /\ policy.mode = "TAIL"
        /\ resp = ResumeResp("VERIFY_FIRST", n, VerifyLen(n))
    <3>1. ReceiverAt
      BY Zenon DEF SessionInv, DiskFits
    <3> QED
      BY <1>1, <1>2, <3>1 DEF ReceiverAt
  <2>2. resp.off = n /\ resp.len = VerifyLen(n)
    BY <2>1, ResumeRespFields
  <2> QED
    BY <1>2, <2>1, <2>2, VerifyLenFacts
<1>4. v = Verify(rfile, n - VerifyLen(n), VerifyLen(n)) /\ spc # "resume"
  <2>1. v \in Inbound
    BY <1>1, FifoFacts, Zenon DEF SessionInv, LinksFit
  <2> QED
    BY <1>1, <1>3, <2>1, RequestFields, Zenon DEF Inbound, Expected
<1>5. /\ (AtFile' <=> AtFile) /\ spc' = spc /\ sfile' = sfile /\ soff' = soff
  BY <1>1, <1>2, SenderUnchanged, Zenon
<1> HIDE DEF v
<1>6. CASE /\ TailMatches(v) /\ Reply(<<VerifyResult("OK")>>) /\ StartAt(n)
  <2>1. OpenFile(n, TRUE) \/ OpenFile(n, FALSE)
    BY <1>3, <1>6, StartAtOpens, Zenon
  <2>2. CopiedTo(rfile, n)
    <3>1. disk[rfile] = old[rfile]
      BY <1>1, <1>2, Zenon DEF SessionInv, DiskFits, Untouched, ReceiverWaits
    <3>2. Unverified(rfile) = n - VerifyLen(n)
      BY <1>3, <3>1, Zenon DEF Unverified
    <3>3. /\ v.start = n - VerifyLen(n) /\ v.len = VerifyLen(n)
      BY <1>4, Zenon DEF Verify
    <3> HIDE DEF n
    <3>4. \A p \in (n - VerifyLen(n)) + 1 .. (n - VerifyLen(n)) + VerifyLen(n) : disk[rfile][p] = p
      BY <1>6, <3>3 DEF TailMatches
    <3>5. \A p \in 1..n : \/ p <= n - VerifyLen(n)
                          \/ p \in (n - VerifyLen(n)) + 1 .. (n - VerifyLen(n)) + VerifyLen(n)
      BY <1>3
    <3> QED
      BY <3>1, <3>2, <3>4, <3>5 DEF CopiedTo
  <2>3. VerifyResult("OK") \in Outbound'
    <3>1. rpc' \in {"skip", "data"} /\ roff' = n /\ rbase' = n
      BY <2>1, Zenon DEF OpenFile
    <3>2. AtFile => Agrees(VerifyResult("OK"))'
      <4>1. VerifyResult("OK").type = "VERIFY" /\ VerifyResult("OK").result = "OK"
        BY AnswerFields, Zenon
      <4> QED
        BY <1>2, <1>3, <1>4, <1>5, <3>1, <4>1, Zenon DEF Agrees
    <3> QED
      BY <1>5, <3>2, FrameTypes DEF Outbound
  <2>4. <<VerifyResult("OK")>> \in Seq(Outbound')
    BY <2>3
  <2> QED
    BY <1>1, <1>2, <1>3, <1>4, <1>6, <2>1, <2>2, <2>4, OpenFileKeeps, Zenon DEF Reply
<1>7. CASE /\ Reply(<<VerifyResult("SKIPPED")>>) /\ StartAt(Sizes[rfile])
  <2>1. OpenFile(Sizes[rfile], TRUE)
    <3>1. (Sizes[rfile] >= Sizes[rfile]) = TRUE
      BY <1>2
    <3> QED
      BY <1>7, <3>1, Zenon DEF StartAt
  <2>2. VerifyResult("SKIPPED") \in Outbound'
    <3>1. rpc' = "skip"
      BY <2>1 DEF OpenFile
    <3>2. AtFile => Agrees(VerifyResult("SKIPPED"))'
      BY <1>2, <1>4, <1>5, <3>1, AnswerFields, Zenon DEF Agrees
    <3> QED
      BY <1>5, <3>2, FrameTypes, Zenon DEF Outbound
  <2>3. <<VerifyResult("SKIPPED")>> \in Seq(Outbound')
    BY <2>2
  <2> QED
    BY <1>1, <1>2, <1>4, <1>7, <2>1, <2>3, OpenFileKeeps, Zenon DEF Reply
<1>8. CASE /\ Reply(<<VerifyResult("RESUME_VERIFY")>>) /\ StartAt(0)
  <2>1. OpenFile(0, TRUE) \/ OpenFile(0, FALSE)
    BY <1>8, StartAtOpens, Zenon
  <2>2. VerifyResult("RESUME_VERIFY") \in Outbound'
    <3>1. rpc' \in {"skip", "data"} /\ roff' = 0 /\ rbase' = 0
      BY <2>1, Zenon DEF OpenFile
    <3>2. AtFile => Agrees(VerifyResult("RESUME_VERIFY"))'
      BY <1>2, <1>4, <1>5, <3>1, AnswerFields, Zenon DEF Agrees
    <3> QED
      BY <1>5, <3>2, FrameTypes DEF Outbound
  <2>3. <<VerifyResult("RESUME_VERIFY")>> \in Seq(Outbound')
    BY <2>2
  <2> QED
    BY <1>1, <1>2, <1>4, <1>8, <2>1, <2>3, OpenFileKeeps, Zenon DEF Reply
<1> QED
  BY <1>3, <1>6, <1>7, <1>8, Zenon DEF RecvVerify, v

\* The receiver answers and stays where it is
LEMMA AnswerKeeps ==
    ASSUME SessionInv, UNCHANGED <<policy, old, diskVars, receiverVars, senderVars>>, InFile,
           toReceiver # <<>>, toReceiver' = Tail(toReceiver),
           NEW m \in SenderFrames, AtFile => Agrees(m), m.type # "DONE_ACK",
           toSender' = toSender \o <<m>>
    PROVE  SessionInv'
<1> USE DEF SessionInv
<1>1. /\ SenderAt' /\ (AtFile' <=> AtFile) /\ (InFile' <=> InFile)
      /\ spc' = spc /\ sfile' = sfile /\ soff' = soff /\ request' = request /\ sres' = sres
      /\ policy' = policy /\ old' = old /\ disk' = disk
      /\ rpc' = rpc /\ rfile' = rfile /\ roff' = roff /\ rbase' = rbase /\ resp' = resp
      /\ rres' = rres
  BY SenderUnchanged, Zenon DEF diskVars, receiverVars, InFile
<1>2. SessionTypes' /\ BatchInOrder' /\ InStep'
  BY <1>1, Zenon DEF SessionTypes, BatchInOrder, Reported, InStep
<1>3. toReceiver' \in Seq(Inbound')
  <2>1. toReceiver' \in Seq(Inbound)
    BY FifoFacts DEF LinksFit
  <2>2. \A x \in Inbound : x \in Inbound'
    <3> SUFFICES ASSUME NEW x \in ReceiverFrames, Expected(x) PROVE Expected(x)'
      BY DEF Inbound
    <3> QED
      BY <1>1, Zenon DEF Expected
  <2> QED
    BY <2>1, <2>2
<1>4. toSender \in Seq(Outbound) /\ toSender' \in Seq(Outbound)
  <2>1. toSender \in Seq(Outbound) /\ <<m>> \in Seq(Outbound)
    BY DEF LinksFit, Outbound
  <2> QED
    BY <2>1, FifoFacts
<1>5. toSender' \in Seq(Outbound')
  <2>1. \A x \in Outbound : x \in Outbound'
    <3> SUFFICES ASSUME NEW x \in SenderFrames, Agrees(x) PROVE Agrees(x)'
      BY <1>1, Zenon DEF Outbound
    <3> QED
      BY <1>1, Zenon DEF Agrees, VerifyLen
  <2> QED
    BY <1>4, <2>1
<1>6. MetaFirst'
  BY <1>1, Zenon DEF MetaFirst, InFile
<1>7. DoneAckLast'
  <2> SUFFICES ASSUME spc \in {"done", "skip"}
               PROVE  \A i \in DOMAIN toSender' : toSender'[i].type # "DONE_ACK"
    BY <1>1, Zenon DEF DoneAckLast
  <2> DEFINE S == {x \in SenderFrames : x.type # "DONE_ACK"}
  <2>1. \A x \in Outbound : x \in S
    BY Zenon DEF Outbound, Agrees, AtFile, SenderWaits
  <2>2. toSender' \in Seq(S)
    BY <1>4, <2>1
  <2> QED
    BY <2>2
<1>8. DiskFits'
  BY DiskUnchanged, Zenon DEF diskVars
<1> QED
  BY <1>1, <1>2, <1>3, <1>5, <1>6, <1>7, <1>8, Zenon DEF LinksFit

LEMMA RecvResumeReqAgainKeeps ==
    ASSUME SessionInv, RecvResumeReqAgain PROVE SessionInv'
<1>1. /\ rpc = "verify" /\ toReceiver # <<>> /\ toReceiver' = Tail(toReceiver)
      /\ UNCHANGED <<policy, old, diskVars, receiverVars, senderVars>>
      /\ toSender' = toSender \o <<resp>>
  BY Zenon DEF RecvResumeReqAgain, ReceiverTakes, Reply
<1>2. /\ InFile /\ rfile = sfile /\ resp \in Resps
      /\ spc \in {"resume", "verify", "failed", "crashed"}
  BY <1>1, Zenon DEF SessionInv, InFile, ReceiverWaits, InStep, SessionTypes, SenderWaits
<1>3. resp.type = "RESUME_RESP" /\ resp \in SenderFrames
  BY <1>2, FrameTypes, Zenon DEF Resps
<1>4. Agrees(resp)
  <2> DEFINE n == Len(disk[rfile])
  <2>1. n \in 1..Sizes[rfile] /\ resp = ResumeResp("VERIFY_FIRST", n, VerifyLen(n))
    BY <1>1, Zenon DEF SessionInv, DiskFits, ReceiverAt
  <2>2. resp.action = "VERIFY_FIRST" /\ resp.off = n /\ resp.len = VerifyLen(n)
    BY <2>1, ResumeRespFields
  <2> HIDE DEF n
  <2> QED
    BY <1>1, <1>2, <1>3, <2>1, <2>2, Zenon DEF Agrees
<1> QED
  BY <1>1, <1>2, <1>3, <1>4, AnswerKeeps

LEMMA RecvDataAgainKeeps ==
    ASSUME SessionInv, RecvDataAgain PROVE SessionInv'
<1>1. /\ rpc = "data" /\ toReceiver # <<>> /\ toReceiver' = Tail(toReceiver)
      /\ UNCHANGED <<policy, old, diskVars, receiverVars, senderVars>>
      /\ toSender' = toSender \o <<DataAck(roff)>>
      /\ Head(toReceiver).type = "DATA"
  BY Zenon DEF RecvDataAgain, ReceiverTakes, Reply
<1>2. /\ InFile /\ rfile = sfile /\ roff \in Nat /\ roff <= Sizes[rfile]
  BY <1>1 DEF SessionInv, InFile, ReceiverWaits, InStep, SessionTypes, DiskFits, ReceiverAt
<1>3. spc # "resume"
  <2>1. Head(toReceiver) \in Inbound
    BY <1>1, FifoFacts DEF SessionInv, LinksFit
  <2> QED
    BY <1>1, <2>1, Zenon DEF Inbound, Expected
<1>4. Agrees(DataAck(roff))
  BY <1>1, <1>2, <1>3, AnswerFields DEF Agrees
<1>5. DataAck(roff) \in SenderFrames /\ DataAck(roff).type # "DONE_ACK"
  BY <1>2, FrameTypes, AnswerFields
<1> QED
  BY <1>1, <1>2, <1>4, <1>5, AnswerKeeps, Zenon

\* Mode NEVER: the answer, the validator's decision, and what it does to the file
LEMMA ValidateKeeps ==
    ASSUME SessionInv, rpc = "peek", UNCHANGED <<policy, old, senderVars>>,
           toReceiver' = toReceiver \/ (toReceiver # <<>> /\ toReceiver' = Tail(toReceiver)),
           NEW m \in {DataAck(0), ResumeResp("START_ZERO", 0, 0)},
           NEW skipAck \in {<<>>, <<DataAck(Sizes[rfile])>>},
           Validate(<<m>>, skipAck)
    PROVE  SessionInv'
<1>1. UNCHANGED <<rfile, resp, rres>>
  BY Zenon DEF Validate
<1>2. /\ rfile = sfile /\ rfile \in Files /\ Sizes[rfile] \in Nat
      /\ spc \in {"resume", "failed", "crashed"}
      /\ resp \in Resps /\ SenderAt /\ disk \in [Files -> Seq(Nat)]
  BY SizeFacts DEF SessionInv, InFile, ReceiverWaits, InStep, SessionTypes, SenderWaits
<1>3. /\ (AtFile' <=> AtFile) /\ spc' = spc /\ sfile' = sfile
  BY <1>2, SenderUnchanged, Zenon
<1>4. m \in SenderFrames /\ DataAck(Sizes[rfile]) \in SenderFrames
  BY <1>2, FrameTypes, Zenon
<1>5. /\ m.type \in {"DATA_ACK", "RESUME_RESP"}
      /\ m.type = "DATA_ACK" => m.off = 0
      /\ m.type = "RESUME_RESP" => m.action = "START_ZERO"
      /\ 0 <= Sizes[sfile] /\ 0 <= 0
  BY <1>2, AnswerFields, ResumeRespFields
<1>6. CASE Reply(<<m>>) /\ OpenFile(0, FALSE)
  <2>1. rpc' = "data" /\ roff' = 0 /\ rbase' = 0
    BY <1>6, Zenon DEF OpenFile
  <2>2. Agrees(m)'
    BY <1>2, <1>3, <1>5, <2>1, Zenon DEF Agrees
  <2>3. <<m>> \in Seq(Outbound')
    BY <1>4, <2>2 DEF Outbound
  <2> QED
    BY <1>1, <1>2, <1>6, <2>3, OpenFileKeeps, Zenon DEF Reply
<1>7. CASE Reply(<<m>> \o skipAck) /\ OpenFile(Sizes[rfile], TRUE)
  <2>1. rpc' = "skip"
    BY <1>7, Zenon DEF OpenFile
  <2>2. PICK a : a = DataAck(Sizes[sfile])
    BY Zenon
  <2>3. m \in Outbound' /\ a \in Outbound'
    <3>1. Sizes[sfile] <= Sizes[sfile] /\ 0 <= Sizes[sfile]
      BY <1>2
    <3>2. Agrees(m)'
      BY <1>2, <1>3, <1>5, <2>1, <3>1, Zenon DEF Agrees
    <3>3. Agrees(a)'
      BY <1>2, <1>3, <2>1, <2>2, <3>1, AnswerFields, Zenon DEF Agrees
    <3> QED
      BY <1>2, <1>4, <2>2, <3>2, <3>3, Zenon DEF Outbound
  <2>4. <<m>> \o skipAck \in Seq(Outbound')
    <3>1. <<m>> \in Seq(Outbound') /\ <<a>> \in Seq(Outbound')
      BY <2>3
    <3>2. skipAck \in Seq(Outbound')
      <4>1. skipAck = <<>> \/ skipAck = <<a>>
        BY <1>2, <2>2
      <4>2. \A S : <<>> \in Seq(S)
        OBVIOUS
      <4> QED
        BY <3>1, <4>1, <4>2, Zenon
    <3> QED
      BY <3>1, <3>2, FifoFacts, Zenon
  <2> QED
    BY <1>1, <1>2, <1>7, <2>4, OpenFileKeeps, Zenon DEF Reply
<1>8. CASE Reply(<<m>> \o <<Error>>) /\ rpc' = "aborted" /\ UNCHANGED <<diskVars, roff, rbase>>
  <2>1. <<m>> \o <<Error>> \in Seq(FarewellFrames)
    <3>1. m \in FarewellFrames /\ Error \in FarewellFrames
      BY Zenon DEF FarewellFrames
    <3> QED
      BY <3>1
  <2>2. disk' = disk
    BY <1>8, Zenon DEF diskVars
  <2> QED
    BY <1>1, <1>2, <1>8, <2>1, <2>2, ReceiverStopsKeeps, Zenon DEF Reply
<1> QED
  BY <1>6, <1>7, <1>8, Zenon DEF Validate

LEMMA RecvResumeReqNeverKeeps ==
    ASSUME SessionInv, RecvResumeReqNever PROVE SessionInv'
<1>1. /\ rpc = "peek" /\ toReceiver # <<>> /\ toReceiver' = Tail(toReceiver)
      /\ UNCHANGED <<policy, old, senderVars>>
      /\ Validate(<<DetermineResumeAction(rfile)>>, <<DataAck(Sizes[rfile])>>)
  BY Zenon DEF RecvResumeReqNever, ReceiverTakes
<1>2. rfile \in Files /\ policy.mode = "NEVER" /\ SessionTypes
  BY <1>1, Zenon DEF SessionInv, InFile, ReceiverWaits, InStep, DiskFits, ReceiverAt
<1>3. DetermineResumeAction(rfile) = ResumeResp("START_ZERO", 0, 0)
  BY <1>2, DetermineFacts, Zenon
<1> QED
  BY <1>1, <1>3, ValidateKeeps, Zenon

LEMMA PeekTimeoutKeeps ==
    ASSUME SessionInv, PeekTimeout PROVE SessionInv'
  BY ValidateKeeps, Zenon DEF PeekTimeout

\* A packet is written where the file ends
LEMMA RecvDataInOrderKeeps ==
    ASSUME SessionInv, RecvDataInOrder PROVE SessionInv'
<1> USE DEF SessionInv
<1> DEFINE m == Head(toReceiver)
<1>1. /\ rpc = "data" /\ toReceiver # <<>> /\ toReceiver' = Tail(toReceiver)
      /\ UNCHANGED <<policy, old, senderVars>> /\ old' = old
      /\ m.type = "DATA" /\ m.off = roff
      /\ disk' = [disk EXCEPT ![rfile] =
                     Append(disk[rfile], IF m.file = rfile THEN roff + 1 ELSE 0)]
      /\ roff' = roff + 1 /\ toSender' = toSender \o <<DataAck(roff + 1)>>
      /\ rpc' = rpc /\ rfile' = rfile /\ rbase' = rbase /\ resp' = resp /\ rres' = rres
  BY Zenon DEF RecvDataInOrder, ReceiverTakes, Reply
<1>2. /\ SenderAt' /\ (AtFile' <=> AtFile) /\ (InFile' <=> InFile)
      /\ spc' = spc /\ sfile' = sfile /\ soff' = soff /\ request' = request /\ sres' = sres
      /\ policy' = policy
  BY <1>1, SenderUnchanged DEF InFile
<1>3. /\ InFile /\ rfile = sfile /\ rfile \in Files /\ rres[rfile] = "none"
      /\ spc \notin {"start", "eot", "ok", "skip"}
      /\ roff \in Nat /\ soff \in Nat /\ rbase \in Nat /\ Sizes[rfile] \in Nat
      /\ disk \in [Files -> Seq(Nat)]
      /\ Len(disk[rfile]) = roff /\ rbase <= roff /\ CopiedTo(rfile, roff)
      /\ spc = "data" => rbase <= soff /\ roff \in {soff, soff + 1}
      /\ spc = "done" => roff = Sizes[rfile]
  BY <1>1, SizeFacts, Zenon
     DEF InFile, ReceiverWaits, InStep, BatchInOrder, SessionTypes, DiskFits, ReceiverAt
<1>4. /\ m.file = rfile /\ roff < Sizes[rfile] /\ spc \notin {"resume", "verify"}
      /\ spc = "data" => roff <= soff
  <2>1. m \in Inbound
    BY <1>1, FifoFacts, Zenon DEF LinksFit
  <2> QED
    BY <1>1, <2>1, Zenon DEF Inbound, Expected
<1> HIDE DEF m
<1>5. /\ spc \in {"data", "failed", "crashed"}
      /\ spc = "data" => roff = soff
      /\ roff + 1 \in Nat /\ roff + 1 <= Sizes[rfile] /\ rbase <= roff + 1
  <2>1. spc # "done"
    BY <1>3, <1>4
  <2>2. spc \in {"data", "failed", "crashed"}
    BY <1>3, <1>4, <2>1, Zenon DEF SessionTypes, SenderWaits
  <2>3. spc = "data" => roff = soff
    BY <1>3, <1>4
  <2> QED
    BY <1>3, <1>4, <2>2, <2>3
<1>6. disk' = [disk EXCEPT ![rfile] = Append(disk[rfile], roff + 1)]
  BY <1>1, <1>4, Zenon
<1>7. /\ disk'[rfile] \in Seq(Nat) /\ Len(disk'[rfile]) = roff + 1
      /\ disk'[rfile][roff + 1] = roff + 1
      /\ \A p \in 1..roff : disk'[rfile][p] = disk[rfile][p]
      /\ \A f \in Files : f # rfile => disk'[f] = disk[f]
      /\ disk' \in [Files -> Seq(Nat)]
  <2> DEFINE s == disk[rfile]
  <2>1. s \in Seq(Nat) /\ Len(s) = roff
    BY <1>3, Zenon
  <2>2. disk'[rfile] = Append(s, roff + 1)
    BY <1>3, <1>6
  <2> HIDE DEF s
  <2>3. /\ Append(s, roff + 1) \in Seq(Nat) /\ Len(Append(s, roff + 1)) = roff + 1
        /\ Append(s, roff + 1)[roff + 1] = roff + 1
        /\ \A p \in 1..roff : Append(s, roff + 1)[p] = s[p]
    BY <1>5, <2>1, AppendProperties
  <2>4. \A f \in Files : f # rfile => disk'[f] = disk[f]
    BY <1>3, <1>6, Zenon
  <2>5. disk' \in [Files -> Seq(Nat)]
    BY <1>3, <1>6, <2>3, Zenon DEF s
  <2> QED
    BY <2>2, <2>3, <2>4, <2>5, Zenon DEF s
<1>8. SessionTypes'
  BY <1>1, <1>2, <1>5, <1>7, Zenon DEF SessionTypes
<1>9. InStep'
  BY <1>1, <1>2, <1>3, <1>5, Zenon DEF InStep
<1>10. BatchInOrder'
  BY <1>1, <1>2 DEF BatchInOrder, Reported
<1>11. toReceiver' \in Seq(Inbound')
  <2>1. toReceiver' \in Seq(Inbound)
    BY <1>1, FifoFacts DEF LinksFit
  <2>2. \A x \in Inbound : x \in Inbound'
    <3> SUFFICES ASSUME NEW x \in ReceiverFrames, Expected(x) PROVE Expected(x)'
      BY DEF Inbound
    <3>1. x.type # "DONE"
      <4>1. roff # Sizes[rfile]
        BY <1>3, <1>4
      <4> QED
        BY <1>1, <4>1, Zenon DEF Expected
    <3> QED
      BY <1>1, <1>2, <3>1, Zenon DEF Expected
  <2> QED
    BY <2>1, <2>2
<1>12. toSender' \in Seq(Outbound')
  <2>1. \A x \in Outbound : x \in Outbound'
    <3> SUFFICES ASSUME NEW x \in SenderFrames, AtFile, Agrees(x) PROVE Agrees(x)'
      BY <1>2 DEF Outbound
    <3>1. x.type = "DATA_ACK" => x.off \in Nat
      BY SenderFrameFields, Zenon
    <3>2. x.type = "DATA_ACK" => x.off <= roff'
      <4>1. x.type = "DATA_ACK" => x.off <= roff
        BY <1>1, Zenon DEF Agrees
      <4>2. \A a, b \in Nat : a <= b => a <= b + 1
        OBVIOUS
      <4> QED
        BY <1>1, <1>3, <3>1, <4>1, <4>2, Zenon
    <3>3. spc = "data"
      BY <1>5 DEF AtFile, SenderWaits
    <3> QED
      BY <1>1, <1>2, <3>2, <3>3, Zenon DEF Agrees
  <2>2. PICK a : a = DataAck(roff + 1)
    OBVIOUS
  <2>3. Agrees(a)'
    <3>1. a.type = "DATA_ACK" /\ a.off = roff + 1 /\ roff + 1 <= roff + 1
      BY <1>5, <2>2, AnswerFields
    <3> QED
      BY <1>1, <1>2, <1>3, <1>4, <1>5, <3>1, Zenon DEF Agrees
  <2>4. a \in Outbound'
    BY <1>5, <2>2, <2>3, FrameTypes DEF Outbound
  <2>5. toSender \in Seq(Outbound') /\ <<a>> \in Seq(Outbound')
    BY <2>1, <2>4 DEF LinksFit
  <2> QED
    BY <1>1, <2>2, <2>5, FifoFacts, Zenon
<1>13. MetaFirst' /\ DoneAckLast'
  BY <1>1, <1>2, <1>5, Zenon DEF MetaFirst, DoneAckLast
<1>14. DiskFits'
  <2>1. \A f \in Files : Unverified(f)' = Unverified(f)
    BY <1>1, <1>2, Zenon DEF Unverified, VerifyLen
  <2>2. CopiedTo(rfile, roff)'
    <3> SUFFICES ASSUME NEW p \in 1..(roff + 1)
                 PROVE  \/ disk'[rfile][p] = p
                        \/ p <= Unverified(rfile) /\ disk'[rfile][p] = old[rfile][p]
      BY <1>1, <1>3, <2>1, Zenon DEF CopiedTo
    <3>1. p = roff + 1 \/ p \in 1..roff
      BY <1>3
    <3> QED
      BY <1>3, <1>7, <3>1 DEF CopiedTo
  <2>3. ReceiverAt'
    BY <1>1, <1>5, <1>7, <2>2, Zenon DEF ReceiverAt
  <2>4. Untouched'
    BY <1>1, <1>7 DEF DiskFits, Untouched, ReceiverWaits
  <2>5. OkMeansCopied' /\ SkipKeepsFile'
    <3>1. \A f \in Files : rres[f] # "none" => disk'[f] = disk[f]
      BY <1>3, <1>7, Zenon
    <3>2. SkipKeepsFile'
      BY <1>1, <3>1 DEF DiskFits, SkipKeepsFile
    <3>3. rres' = rres /\ old' = old
      BY <1>1, Zenon
    <3>4. OkMeansCopied'
      <4> SUFFICES ASSUME NEW f \in Files, rres[f] = "ok"
                   PROVE  /\ Len(disk'[f]) = Sizes[f]
                          /\ \A p \in 1..Sizes[f] :
                                \/ disk'[f][p] = p
                                \/ p <= Unverified(f) /\ disk'[f][p] = old[f][p]
        BY <2>1, <3>3 DEF OkMeansCopied
      <4>1. disk'[f] = disk[f]
        BY <3>1, Zenon
      <4> QED
        BY <4>1, Zenon DEF DiskFits, OkMeansCopied
    <3> QED
      BY <3>2, <3>4, Zenon
  <2> QED
    BY <2>3, <2>4, <2>5, Zenon DEF DiskFits
<1> QED
  BY <1>2, <1>8, <1>9, <1>10, <1>11, <1>12, <1>13, <1>14, Zenon DEF LinksFit

\* DONE ends the file on the receiver's side
LEMMA RecvDoneKeeps ==
    ASSUME SessionInv, RecvDone PROVE SessionInv'
<1> USE DEF SessionInv
<1> DEFINE m == Head(toReceiver)
<1>1. /\ rpc \in {"data", "skip"} /\ toReceiver # <<>> /\ toReceiver' = Tail(toReceiver)
      /\ UNCHANGED <<policy, old, senderVars>> /\ old' = old
      /\ m.type = "DONE" /\ toSender' = toSender \o <<DoneAck>>
      /\ rres' = [rres EXCEPT ![rfile] = IF rpc = "skip" THEN "skipped" ELSE "ok"]
      /\ rpc' = "meta" /\ disk' = disk
      /\ rfile' = rfile /\ roff' = roff /\ rbase' = rbase /\ resp' = resp
  BY Zenon DEF RecvDone, ReceiverTakes, Reply, diskVars
<1>2. /\ SenderAt' /\ (AtFile' <=> AtFile) /\ ~InFile'
      /\ spc' = spc /\ sfile' = sfile /\ soff' = soff /\ request' = request /\ sres' = sres
      /\ policy' = policy
  BY <1>1, SenderUnchanged, Zenon DEF InFile
<1>3. /\ InFile /\ rfile = sfile /\ rfile \in Files /\ rfile \in Nat
      /\ spc \notin {"start", "eot", "ok"} /\ rres \in [Files -> Reports]
      /\ spc = "skip" => rpc = "skip"
  BY <1>1, SizeFacts, Zenon DEF InFile, ReceiverWaits, InStep, SessionTypes
<1>4. /\ spc \in {"done", "skip", "failed", "crashed"}
      /\ rpc = "data" => roff = Sizes[rfile]
  <2>1. m \in Inbound
    BY <1>1, FifoFacts, Zenon DEF LinksFit
  <2> QED
    BY <1>1, <1>3, <2>1, Zenon DEF Inbound, Expected, SessionTypes, SenderWaits
<1> HIDE DEF m
<1>5. /\ rres' \in [Files -> Reports]
      /\ rres'[rfile] = IF rpc = "skip" THEN "skipped" ELSE "ok"
      /\ \A f \in Files : f # rfile => rres'[f] = rres[f]
  BY <1>1, <1>3, Zenon DEF Reports
<1>6. SessionTypes'
  BY <1>1, <1>2, <1>5, Zenon DEF SessionTypes, ReceiverWaits
<1>7. InStep'
  BY <1>1, <1>2, <1>3, <1>4, Zenon DEF InStep
<1>8. BatchInOrder'
  <2>1. \A f \in Files : f < sfile \/ f > sfile => f # rfile
    BY <1>3, SizeFacts
  <2> QED
    BY <1>2, <1>3, <1>5, <2>1 DEF BatchInOrder, Reported
<1>9. \A x \in Inbound : x.type \notin {"SEND_META", "EOT"} /\ x \in Inbound'
  BY <1>1, Zenon DEF Inbound, Expected
<1>10. toReceiver' \in Seq(Inbound)
  BY <1>1, FifoFacts, Zenon DEF LinksFit
<1>11. toReceiver' \in Seq(Inbound') /\ MetaFirst'
  BY <1>9, <1>10 DEF MetaFirst
<1>12. \A x \in Outbound : /\ x \in Outbound'
                           /\ spc \in {"done", "skip"} => x.type # "DONE_ACK"
  BY <1>1, <1>2, <1>3, <1>4, Zenon DEF Outbound, Agrees, AtFile, SenderWaits
<1>13. toSender' \in Seq(Outbound')
  <2>1. Agrees(DoneAck)' \/ ~AtFile'
    BY <1>1, <1>2, <1>3, <1>4, <1>5, AnswerFields, Zenon DEF Agrees, AtFile, SenderWaits
  <2>2. DoneAck \in Outbound'
    BY <2>1, FrameTypes DEF Outbound
  <2>3. toSender \in Seq(Outbound') /\ <<DoneAck>> \in Seq(Outbound')
    BY <1>12, <2>2 DEF LinksFit
  <2> QED
    BY <1>1, <2>3, FifoFacts
<1>14. DoneAckLast'
  <2> SUFFICES ASSUME spc \in {"done", "skip"} PROVE AckLast(toSender \o <<DoneAck>>)
    BY <1>1, <1>2, Zenon DEF DoneAckLast, AckLast
  <2>1. \A i \in DOMAIN toSender : toSender[i].type # "DONE_ACK"
    BY <1>12 DEF LinksFit
  <2> QED
    BY <2>1, AckLastFacts, Zenon DEF LinksFit
<1>15. DiskFits'
  <2>1. \A f \in Files : Unverified(f)' = Unverified(f)
    BY <1>1, <1>2, Zenon DEF Unverified, VerifyLen
  <2>2. ReceiverAt'
    BY <1>1, Zenon DEF ReceiverAt
  <2>3. Untouched'
    BY <1>1, <1>5, Zenon DEF DiskFits, Untouched
  <2>4. SkipKeepsFile'
    <3>1. rpc = "skip" => disk[rfile] = old[rfile]
      <4>1. rres[rfile] = "none"
        BY <1>3, Zenon DEF BatchInOrder
      <4> QED
        BY <1>3, <4>1 DEF DiskFits, Untouched, ReceiverWaits
    <3> QED
      BY <1>1, <1>5, <3>1, Zenon DEF DiskFits, SkipKeepsFile
  <2>5. OkMeansCopied'
    <3> SUFFICES ASSUME NEW f \in Files, rres'[f] = "ok"
                 PROVE  Len(disk[f]) = Sizes[f] /\ CopiedTo(f, Sizes[f])
      BY <1>1, <2>1, Zenon DEF OkMeansCopied, CopiedTo
    <3>1. CASE f = rfile
      <4>1. rpc = "data"
        BY <1>1, <1>5, <3>1, Zenon
      <4> QED
        BY <1>4, <3>1, <4>1, Zenon DEF DiskFits, ReceiverAt
    <3>2. CASE f # rfile
      BY <1>5, <3>2, Zenon DEF DiskFits, OkMeansCopied, CopiedTo
    <3> QED
      BY <3>1, <3>2
  <2> QED
    BY <2>2, <2>3, <2>4, <2>5, Zenon DEF DiskFits
<1> QED
  BY <1>2, <1>6, <1>7, <1>8, <1>11, <1>13, <1>14, <1>15, Zenon DEF LinksFit

LEMMA RecvEotKeeps ==
    ASSUME SessionInv, RecvEot PROVE SessionInv'
<1>1. /\ rpc \in {"meta", "skip"} /\ toReceiver # <<>> /\ toReceiver' = Tail(toReceiver)
      /\ Head(toReceiver).type = "EOT" /\ toSender' = toSender \o <<EotAck>> /\ rpc' = "ok"
      /\ UNCHANGED <<policy, old, senderVars, rfile, roff, rbase, resp, rres>> /\ disk' = disk
  BY Zenon DEF RecvEot, ReceiverTakes, Reply, ReceiverEnds, diskVars
<1>2. spc \notin {"done", "skip", "start"} /\ disk \in [Files -> Seq(Nat)]
  <2>1. Head(toReceiver) \in Inbound
    BY <1>1, FifoFacts DEF SessionInv, LinksFit
  <2>2. ~AtFile
    BY <1>1, <2>1 DEF Inbound, Expected
  <2> QED
    BY <1>1, <2>2 DEF SessionInv, InStep, AtFile, SenderWaits, SessionTypes
<1>3. <<EotAck>> \in Seq(FarewellFrames)
  BY DEF FarewellFrames
<1> QED
  BY <1>1, <1>2, <1>3, ReceiverStopsKeeps, Zenon

\* The receiver fails without a word
LEMMA ReceiverFailsKeeps ==
    ASSUME SessionInv, UNCHANGED <<policy, old, senderVars, rfile, roff, rbase, resp, rres>>,
           rpc' \in {"failed", "crashed"}, toSender' = toSender,
           toReceiver' = toReceiver \/ (toReceiver # <<>> /\ toReceiver' = Tail(toReceiver)),
           disk' \in [Files -> Seq(Nat)],
           \A f \in Files : f # rfile \/ rres[f] # "none" => disk'[f] = disk[f]
    PROVE  SessionInv'
<1>1. toSender' = toSender \o <<>>
  BY DEF SessionInv, LinksFit
<1>2. <<>> \in Seq(FarewellFrames)
  OBVIOUS
<1> QED
  BY <1>1, <1>2, ReceiverStopsKeeps, Zenon

LEMMA ReceiverStepKeeps ==
    ASSUME SessionInv, ReceiverStep PROVE SessionInv'
<1>1. disk \in [Files -> Seq(Nat)]
  BY DEF SessionInv, SessionTypes
<1>2. CASE RecvMeta
  BY <1>2, RecvMetaKeeps
<1>3. CASE RecvEot
  BY <1>3, RecvEotKeeps, Zenon
<1>4. CASE RecvOutOfPlace
  BY <1>1, <1>4, ReceiverFailsKeeps, Zenon DEF RecvOutOfPlace, ReceiverTakes, ReceiverEnds, diskVars
<1>5. CASE RecvResumeReq
  BY <1>5, RecvResumeReqKeeps
<1>6. CASE RecvResumeReqAgain
  BY <1>6, RecvResumeReqAgainKeeps
<1>7. CASE RecvVerify
  BY <1>7, RecvVerifyKeeps
<1>8. CASE RecvResumeReqNever
  BY <1>8, RecvResumeReqNeverKeeps
<1>9. CASE RecvDataInOrder
  BY <1>9, RecvDataInOrderKeeps
<1>10. CASE RecvDataAgain
  BY <1>10, RecvDataAgainKeeps
<1>11. CASE RecvDone
  BY <1>11, RecvDoneKeeps
<1>12. CASE ReceiverIgnores
  BY <1>12, FrameGoneKeeps, Zenon DEF ReceiverIgnores, ReceiverTakes
<1>13. CASE ReceiverTimeout
  BY <1>1, <1>13, ReceiverFailsKeeps, Zenon DEF ReceiverTimeout, ReceiverEnds, diskVars
<1>14. CASE PeekTimeout
  BY <1>14, PeekTimeoutKeeps
<1> QED
  BY <1>2, <1>3, <1>4, <1>5, <1>6, <1>7, <1>8, <1>9, <1>10, <1>11, <1>12, <1>13, <1>14
     DEF ReceiverStep, ReceiverReads, ReceiverTimer

-----------------------------------------------------------------------------
(* Losses, crashes and new sessions.                                       *)

LEMMA ReceiverCrashKeeps ==
    ASSUME SessionInv, ReceiverCrash PROVE SessionInv'
<1>1. /\ rpc' = "crashed" /\ toReceiver' = toReceiver /\ toSender' = toSender
      /\ UNCHANGED <<policy, old, senderVars, rfile, roff, rbase, resp, rres>>
      /\ disk \in [Files -> Seq(Nat)]
  BY Zenon DEF ReceiverCrash, SessionInv, SessionTypes
<1>2. CASE disk' = disk
  BY <1>1, <1>2, ReceiverFailsKeeps, Zenon
<1>3. CASE /\ rpc = "data"
           /\ \E n \in rbase..roff : disk' = [disk EXCEPT ![rfile] = SubSeq(disk[rfile], 1, n)]
  <2>1. PICK n \in rbase..roff : disk' = [disk EXCEPT ![rfile] = SubSeq(disk[rfile], 1, n)]
    BY <1>3, Zenon
  <2>2. /\ rfile \in Files /\ rres[rfile] = "none" /\ disk[rfile] \in Seq(Nat)
        /\ Len(disk[rfile]) = roff /\ rbase \in Nat /\ roff \in Nat
    BY <1>1, <1>3, Zenon DEF SessionInv, InStep, InFile, ReceiverWaits, BatchInOrder, DiskFits,
                     ReceiverAt, SessionTypes
  <2>3. n \in Nat /\ n <= Len(disk[rfile])
    BY <2>2
  <2>4. SubSeq(disk[rfile], 1, n) \in Seq(Nat)
    <3>1. 1 \in 1..Len(disk[rfile]) + 1 /\ n \in 1 - 1 .. Len(disk[rfile])
      BY <2>2, <2>3
    <3> QED
      BY <2>2, <3>1, SubSeqProperties
  <2>5. disk' \in [Files -> Seq(Nat)]
    BY <1>1, <2>1, <2>2, <2>4
  <2>6. \A f \in Files : f # rfile \/ rres[f] # "none" => disk'[f] = disk[f]
    BY <1>1, <2>1, <2>2, Zenon
  <2> QED
    BY <1>1, <2>5, <2>6, ReceiverFailsKeeps
<1> QED
  BY <1>2, <1>3, Zenon DEF ReceiverCrash

LEMMA FaultsKeep ==
    ASSUME SessionInv, Faults PROVE SessionInv'
<1>1. disk \in [Files -> Seq(Nat)]
  BY DEF SessionInv, SessionTypes
<1>2. CASE LoseToReceiver
  <2>1. CASE UNCHANGED rpc
    BY <1>2, <2>1, FrameGoneKeeps, Zenon DEF LoseToReceiver, receiverVars
  <2>2. CASE rpc' = "failed"
    BY <1>1, <1>2, <2>2, ReceiverFailsKeeps, Zenon DEF LoseToReceiver, diskVars
  <2> QED
    BY <1>2, <2>1, <2>2, Zenon DEF LoseToReceiver
<1>3. CASE LoseToSender
  BY <1>3, AnswerGoneKeeps, Zenon DEF LoseToSender
<1>4. CASE SenderCrash
  BY <1>4, SenderStopsKeeps, Zenon DEF SenderCrash
<1>5. CASE ReceiverCrash
  BY <1>5, ReceiverCrashKeeps
<1> QED
  BY <1>2, <1>3, <1>4, <1>5 DEF Faults

\* A session that begins, over files as they are
LEMMA FreshSession ==
    ASSUME policy \in [mode : {"NEVER", "SKIP_EXISTING", "TAIL"}, cap : Nat \ {0},
                       min : Nat, skip : BOOLEAN],
           disk \in [Files -> Seq(Nat)], old = disk,
           spc = "start", sfile = 1, soff = 0, request = Eot,
           sres = [f \in Files |-> "none"],
           rpc = "meta", rfile = 1, roff = 0, rbase = 0,
           resp = ResumeResp("START_ZERO", 0, 0),
           rres = [f \in Files |-> "none"],
           toReceiver = <<>>, toSender = <<>>
    PROVE  SessionInv
<1>1. SessionTypes
  BY FrameTypes, SizeFacts DEF SessionTypes, ReceiverWaits, Reports
<1>2. SenderAt /\ InStep
  BY Zenon DEF SenderAt, RequestFits, AtFile, SenderWaits, InStep, InFile
<1>3. BatchInOrder
  BY SizeFacts DEF BatchInOrder, InFile
<1>4. LinksFit
  BY DEF LinksFit, MetaFirst, DoneAckLast
<1>5. DiskFits
  BY Zenon DEF DiskFits, ReceiverAt, Untouched, OkMeansCopied, SkipKeepsFile
<1> QED
  BY <1>1, <1>2, <1>3, <1>4, <1>5, Zenon DEF SessionInv

LEMMA FreshSessionNext ==
    ASSUME policy' \in [mode : {"NEVER", "SKIP_EXISTING", "TAIL"}, cap : Nat \ {0},
                        min : Nat, skip : BOOLEAN],
           disk' \in [Files -> Seq(Nat)], old' = disk',
           spc' = "start", sfile' = 1, soff' = 0, request' = Eot,
           sres' = [f \in Files |-> "none"],
           rpc' = "meta", rfile' = 1, roff' = 0, rbase' = 0,
           resp' = ResumeResp("START_ZERO", 0, 0),
           rres' = [f \in Files |-> "none"],
           toReceiver' = <<>>, toSender' = <<>>
    PROVE  SessionInv'
<1>1. SessionTypes'
  BY FrameTypes, SizeFacts DEF SessionTypes, ReceiverWaits, Reports
<1>2. SenderAt' /\ InStep'
  BY Zenon DEF SenderAt, RequestFits, AtFile, SenderWaits, InStep, InFile
<1>3. BatchInOrder'
  BY SizeFacts DEF BatchInOrder, InFile
<1>4. LinksFit'
  BY DEF LinksFit, MetaFirst, DoneAckLast
<1>5. DiskFits'
  BY Zenon DEF DiskFits, ReceiverAt, Untouched, OkMeansCopied, SkipKeepsFile
<1> QED
  BY <1>1, <1>2, <1>3, <1>4, <1>5, Zenon DEF SessionInv

LEMMA SessionStart == Init => SessionInv
<1> SUFFICES ASSUME Init PROVE SessionInv
  BY Zenon
<1>1. policy \in [mode : {"NEVER", "SKIP_EXISTING", "TAIL"}, cap : Nat \ {0},
                  min : Nat, skip : BOOLEAN]
  BY SessionAssumption DEF Init
<1>2. \A f \in Files : Contents(f) \subseteq Seq(Nat)
  <2> SUFFICES ASSUME NEW f \in Files, NEW c \in Contents(f) PROVE c \in Seq(Nat)
    BY Zenon
  <2>1. PICK n \in 0..Sizes[f] + 1 : c \in [1..n -> 0..Sizes[f]]
    BY Zenon DEF Contents
  <2>2. n \in Nat /\ c \in [1..n -> Nat]
    BY <2>1, SizeFacts
  <2> QED
    BY <2>2
<1>3. disk \in [Files -> Seq(Nat)]
  BY <1>2, Zenon DEF Init
<1> QED
  BY <1>1, <1>3, FreshSession DEF Init

LEMMA SessionStep == SessionInv /\ [Next]_vars => SessionInv'
<1> SUFFICES ASSUME SessionInv, [Next]_vars PROVE SessionInv'
  OBVIOUS
<1>1. CASE SenderStep
  BY <1>1, SenderStepKeeps
<1>2. CASE ReceiverStep
  BY <1>2, ReceiverStepKeeps, Zenon
<1>3. CASE NewSession
  <2>1. disk' = disk /\ policy' = policy
    BY <1>3, Zenon DEF NewSession, diskVars
  <2>2. /\ disk' \in [Files -> Seq(Nat)]
        /\ policy' \in [mode : {"NEVER", "SKIP_EXISTING", "TAIL"}, cap : Nat \ {0},
                        min : Nat, skip : BOOLEAN]
    BY <2>1 DEF SessionInv, SessionTypes
  <2> QED
    BY <1>3, <2>1, <2>2, FreshSessionNext, Zenon DEF NewSession
<1>4. CASE Faults
  BY <1>4, FaultsKeep
<1>5. CASE UNCHANGED vars
  <2>1. UNCHANGED <<policy, old, diskVars, receiverVars, senderVars, toReceiver, toSender>>
    BY <1>5, Zenon DEF vars
  <2>2. SenderAt' /\ DiskFits'
    BY <2>1, SenderUnchanged, DiskUnchanged, Zenon DEF SessionInv, diskVars
  <2>3. SessionTypes'
    BY <2>1, Zenon DEF SessionInv, SessionTypes, diskVars, receiverVars, senderVars
  <2>4. InStep' /\ BatchInOrder'
    BY <2>1, Zenon DEF SessionInv, InStep, InFile, BatchInOrder, Reported, receiverVars, senderVars
  <2> DEFINE Same == /\ spc' = spc /\ sfile' = sfile /\ soff' = soff /\ request' = request
                      /\ rpc' = rpc /\ rfile' = rfile /\ roff' = roff /\ rbase' = rbase
                      /\ resp' = resp /\ rres' = rres /\ policy' = policy
                      /\ toReceiver' = toReceiver /\ toSender' = toSender
  <2>5. Same
    BY <2>1, Zenon DEF receiverVars, senderVars
  <2>6. Inbound' = Inbound
    <3>1. ASSUME NEW m PROVE Expected(m)' <=> Expected(m)
      BY <2>5, Zenon DEF Expected, AtFile
    <3> QED
      BY <3>1, Zenon DEF Inbound
  <2>7. Outbound' = Outbound
    <3>1. ASSUME NEW m PROVE Agrees(m)' <=> Agrees(m)
      BY <2>5, Zenon DEF Agrees, InFile, VerifyLen
    <3>2. AtFile' <=> AtFile
      BY <2>1, Zenon DEF AtFile, senderVars
    <3> QED
      BY <3>1, <3>2, Zenon DEF Outbound
  <2>8. LinksFit'
    BY <2>1, <2>6, <2>7, Zenon DEF SessionInv, LinksFit, MetaFirst, DoneAckLast,
                                   receiverVars, senderVars
  <2> QED
    BY <2>2, <2>3, <2>4, <2>8, Zenon DEF SessionInv
<1> QED
  BY <1>1, <1>2, <1>3, <1>4, <1>5 DEF Next, Finished

-----------------------------------------------------------------------------
(* The theorems.                                                           *)

\* The inductive invariant holds in every state
THEOREM SessionAlwaysInv == Spec => []SessionInv
  BY SessionStart, SessionStep, PTL DEF Spec

\* Whatever the resume mode, the sizes, the old files, the losses and the crashes,
\* two sides that exchange data are in the same file and at most one packet apart
THEOREM OffsetsAlwaysAgree == Spec => []SameOffset
<1>1. SessionInv => SameOffset
  <2> SUFFICES ASSUME SessionInv, spc = "data", rpc = "data"
               PROVE  sfile = rfile /\ soff >= rbase /\ roff \in {soff, soff + 1}
    BY DEF SameOffset
  <2>1. soff \in Nat /\ rbase \in Nat
    BY Zenon DEF SessionInv, SessionTypes
  <2>2. sfile = rfile /\ rbase <= soff /\ roff \in {soff, soff + 1}
    BY Zenon DEF SessionInv, InStep, InFile, ReceiverWaits
  <2> QED
    BY <2>1, <2>2, Zenon
<1> QED
  BY <1>1, SessionAlwaysInv, PTL

\* A file the receiver reports as VAL_OK has the sender's length and content, but
\* for old content in front of the verified tail
THEOREM OkAlwaysCopied == Spec => []OkMeansCopied
<1>1. SessionInv => OkMeansCopied
  BY DEF SessionInv, DiskFits
<1> QED
  BY <1>1, SessionAlwaysInv, PTL

\* A file the receiver reports as VAL_SKIPPED is as it was before the session
THEOREM SkipAlwaysKeepsFile == Spec => []SkipKeepsFile
<1>1. SessionInv => SkipKeepsFile
  BY DEF SessionInv, DiskFits
<1> QED
  BY <1>1, SessionAlwaysInv, PTL

\* When val_send_files returns VAL_OK the receiver has reported every file of the
\* batch, and the ones the sender reported as skipped as skipped
THEOREM SentAlwaysReported == Spec => []SentMeansReported
<1>1. SessionInv => SentMeansReported
  <2> SUFFICES ASSUME SessionInv, spc = "ok", NEW f \in Files PROVE Reported(f)
    BY Zenon DEF SentMeansReported, Reported
  <2>1. sfile = Len(Sizes) + 1
    BY DEF SessionInv, SenderAt
  <2>2. f < sfile
    BY <2>1, SizeFacts
  <2> QED
    BY <2>2, Zenon DEF SessionInv, BatchInOrder
<1> QED
  BY <1>1, SessionAlwaysInv, PTL

-----------------------------------------------------------------------------
(* In mode TAIL nothing right is taken back.                               *)

CrashesCounted == crashes \in Nat

LEMMA CrashesAlwaysCounted == Spec => []CrashesCounted
<1>1. Init => CrashesCounted
  BY DEF Init, CrashesCounted
<1>2. CrashesCounted /\ [Next]_vars => CrashesCounted'
  <2> SUFFICES ASSUME CrashesCounted, [Next]_vars PROVE crashes' = crashes \/ crashes' = crashes + 1
    BY DEF CrashesCounted
  <2> USE DEF faultVars
  <2>1. CASE SenderStep
    BY <2>1, Zenon DEF SenderStep, SenderReads, SendFiles, RecvResumeResp, RecvVerifyResult,
                RecvDataAck, RecvDoneAck, RecvEotAck, RecvError, SenderIgnores, SenderTakes,
                SenderTimer, SenderTimeout
  <2>2. CASE ReceiverStep
    BY <2>2, Zenon DEF ReceiverStep, ReceiverReads, RecvMeta, RecvEot, RecvOutOfPlace,
                RecvResumeReq, RecvResumeReqAgain, RecvVerify, RecvResumeReqNever,
                RecvDataInOrder, RecvDataAgain, RecvDone, ReceiverIgnores, ReceiverTakes,
                ReceiverTimer, ReceiverTimeout, PeekTimeout
  <2>3. CASE NewSession \/ Faults \/ Finished \/ UNCHANGED vars
    BY <2>3, Zenon DEF NewSession, Faults, LoseToReceiver, LoseToSender, SenderCrash, ReceiverCrash,
                Finished, vars
  <2> QED
    BY <2>1, <2>2, <2>3 DEF Next
<1> QED
  BY <1>1, <1>2, PTL DEF Spec

LEMMA VerifyKeepsPrefix ==
    ASSUME SessionInv, RecvVerify, NEW f \in Files, RightPrefix(disk[f], f)
    PROVE  disk'[f] = disk[f]
<1> DEFINE v == Head(toReceiver)
           n == Len(disk[rfile])
<1>1. rpc = "verify" /\ toReceiver # <<>> /\ v.type = "VERIFY"
  BY Zenon DEF RecvVerify, ReceiverTakes
<1>2. /\ rfile \in Files /\ Sizes[rfile] \in Nat /\ disk \in [Files -> Seq(Nat)] /\ SessionTypes
      /\ n \in Nat /\ n > 0
      /\ resp = ResumeResp("VERIFY_FIRST", n, VerifyLen(n))
  <2>1. SessionTypes /\ InStep /\ ReceiverAt
    BY Zenon DEF SessionInv, DiskFits
  <2>2. rfile \in Files /\ Sizes[rfile] \in Nat /\ disk \in [Files -> Seq(Nat)]
    BY <1>1, <2>1, SizeFacts, Zenon DEF InFile, ReceiverWaits, InStep, SessionTypes
  <2> QED
    BY <1>1, <2>1, <2>2 DEF ReceiverAt
<1>3. /\ resp.off = n /\ resp.len = VerifyLen(n)
      /\ VerifyLen(n) \in Nat /\ VerifyLen(n) <= n
  <2>1. /\ ResumeResp("VERIFY_FIRST", n, VerifyLen(n)).off = n
        /\ ResumeResp("VERIFY_FIRST", n, VerifyLen(n)).len = VerifyLen(n)
    BY ResumeRespFields
  <2>2. resp.off = n /\ resp.len = VerifyLen(n)
    BY <1>2, <2>1
  <2>3. VerifyLen(n) \in Nat /\ VerifyLen(n) <= n
    BY <1>2, VerifyLenFacts, Zenon
  <2> QED
    BY <2>2, <2>3, Zenon
<1>4. v = Verify(rfile, n - VerifyLen(n), VerifyLen(n))
  <2>1. v \in Inbound
    BY <1>1, FifoFacts DEF SessionInv, LinksFit
  <2> QED
    BY <1>1, <1>3, <2>1, RequestFields, Zenon DEF Inbound, Expected
<1> HIDE DEF v
<1>5. CASE StartAt(n)
  <2>1. OpenFile(n, TRUE) \/ OpenFile(n, FALSE)
    BY <1>2, <1>5, StartAtOpens, Zenon
  <2> QED
    BY <1>2, <2>1 DEF OpenFile
<1>6. CASE StartAt(Sizes[rfile])
  <2>1. OpenFile(Sizes[rfile], TRUE)
    <3>1. (Sizes[rfile] >= Sizes[rfile]) = TRUE
      BY <1>2
    <3> QED
      BY <1>6, <3>1, Zenon DEF StartAt
  <2> QED
    BY <2>1, Zenon DEF OpenFile
<1>7. CASE StartAt(0) /\ ~TailMatches(v)
  <2>1. f # rfile
    <3> SUFFICES ASSUME f = rfile PROVE FALSE
      BY Zenon
    <3>1. v.file = rfile /\ v.start = n - VerifyLen(n) /\ v.len = VerifyLen(n)
      BY <1>4, Zenon DEF Verify
    <3>2. \A p \in 1..n : disk[rfile][p] = p
      <4>1. \A p \in DOMAIN disk[rfile] : disk[rfile][p] = p
        BY Zenon DEF RightPrefix
      <4>2. DOMAIN disk[rfile] = 1..n
        BY <1>2
      <4> QED
        BY <4>1, <4>2, Zenon
    <3>3. v.start + v.len <= n
      <4>1. \A a, b \in Nat : b <= a => (a - b) + b <= a
        OBVIOUS
      <4> QED
        BY <1>2, <1>3, <3>1, <4>1, Zenon
    <3>4. \A p \in v.start + 1 .. v.start + v.len : p \in 1..n
      <4>1. \A a, b \in Nat : b <= a => \A p \in (a - b) + 1 .. (a - b) + b : p \in 1..a
        OBVIOUS
      <4> QED
        BY <1>2, <1>3, <3>1, <4>1, Zenon
    <3> QED
      BY <1>7, <3>1, <3>2, <3>3, <3>4, Zenon DEF TailMatches
  <2>2. OpenFile(0, TRUE) \/ OpenFile(0, FALSE)
    BY <1>7, StartAtOpens, Zenon
  <2> QED
    BY <1>2, <2>1, <2>2 DEF OpenFile
<1> QED
  BY <1>3, <1>5, <1>6, <1>7, Zenon DEF RecvVerify, v

LEMMA ResumeReqKeepsPrefix ==
    ASSUME SessionInv, policy.mode = "TAIL", RecvResumeReq, NEW f \in Files,
           RightPrefix(disk[f], f)
    PROVE  Len(disk'[f]) >= Len(disk[f])
<1>1. rpc = "req" /\ resp' = DetermineResumeAction(rfile)
  BY Zenon DEF RecvResumeReq, ReceiverTakes
<1>2. /\ rfile \in Files /\ Sizes[rfile] \in Nat /\ disk \in [Files -> Seq(Nat)] /\ SessionTypes
      /\ Len(disk[f]) \in Nat
  <2>1. SessionTypes /\ InStep
    BY Zenon DEF SessionInv
  <2>2. rfile \in Files /\ Sizes[rfile] \in Nat /\ disk \in [Files -> Seq(Nat)]
    BY <1>1, <2>1, SizeFacts, Zenon DEF InFile, ReceiverWaits, InStep, SessionTypes
  <2> QED
    BY <2>1, <2>2
<1>3. ASSUME disk'[f] = disk[f] PROVE Len(disk'[f]) >= Len(disk[f])
  BY <1>2, <1>3
<1>4. CASE resp'.action = "START_ZERO" /\ StartAt(0)
  <2>1. OpenFile(0, TRUE) \/ OpenFile(0, FALSE)
    BY <1>4, StartAtOpens, Zenon
  <2>2. CASE f # rfile
    <3>1. disk'[f] = disk[f]
      BY <1>2, <2>1, <2>2 DEF OpenFile
    <3> QED
      BY <1>3, <3>1, Zenon
  <2>3. CASE f = rfile
    <3>1. Len(disk[f]) = 0
      <4>1. Len(disk[rfile]) = 0 \/ Len(disk[rfile]) > Sizes[rfile]
        BY <1>1, <1>2, <1>4, DetermineFacts, Zenon
      <4> QED
        BY <1>2, <2>3, <4>1 DEF RightPrefix
    <3>2. disk'[f] = <<>> \/ disk'[f] = disk[f]
      BY <1>2, <2>1, <2>3, Zenon DEF OpenFile
    <3>3. Len(<<>>) >= Len(disk[f])
      BY <3>1
    <3> QED
      BY <1>3, <3>2, <3>3, Zenon
  <2> QED
    BY <2>2, <2>3, Zenon
<1>5. CASE StartAt(Sizes[rfile])
  <2>1. OpenFile(Sizes[rfile], TRUE)
    <3>1. (Sizes[rfile] >= Sizes[rfile]) = TRUE
      BY <1>2
    <3> QED
      BY <1>5, <3>1, Zenon DEF StartAt
  <2> QED
    BY <1>3, <2>1, Zenon DEF OpenFile
<1>6. CASE UNCHANGED diskVars
  BY <1>3, <1>6 DEF diskVars
<1> QED
  BY <1>4, <1>5, <1>6, Zenon DEF RecvResumeReq

LEMMA StepKeepsPrefix ==
    ASSUME SessionInv, CrashesCounted, Next, policy.mode = "TAIL", crashes' = crashes,
           NEW f \in Files, RightPrefix(disk[f], f)
    PROVE  Len(disk'[f]) >= Len(disk[f])
<1>1. Len(disk[f]) \in Nat /\ disk \in [Files -> Seq(Nat)]
  BY DEF SessionInv, SessionTypes
<1>2. ASSUME disk' = disk PROVE Len(disk'[f]) >= Len(disk[f])
  BY <1>1, <1>2
<1>3. CASE SenderStep
  <2>1. disk' = disk
    BY <1>3, Zenon DEF diskVars, SenderStep, SenderReads, SendFiles, RecvResumeResp, RecvVerifyResult,
                RecvDataAck, RecvDoneAck, RecvEotAck, RecvError, SenderIgnores, SenderTakes,
                SenderTimer, SenderTimeout
  <2> QED
    BY <1>2, <2>1
<1>4. CASE RecvResumeReq
  BY <1>4, ResumeReqKeepsPrefix
<1>5. CASE RecvVerify
  <2>1. disk'[f] = disk[f]
    BY <1>5, VerifyKeepsPrefix, Zenon
  <2> QED
    BY <1>1, <2>1
<1>6. CASE RecvResumeReqNever \/ PeekTimeout
  <2>1. rpc = "peek"
    BY <1>6 DEF RecvResumeReqNever, PeekTimeout, ReceiverTakes
  <2> QED
    BY <2>1, Zenon DEF SessionInv, DiskFits, ReceiverAt
<1>7. CASE RecvDataInOrder
  <2>1. \E x \in Nat : disk' = [disk EXCEPT ![rfile] = Append(disk[rfile], x)]
    <3>1. roff + 1 \in Nat /\ 0 \in Nat
      BY DEF SessionInv, SessionTypes
    <3> QED
      BY <1>7, <3>1, Zenon DEF RecvDataInOrder
  <2>2. CASE f # rfile
    <3>1. disk'[f] = disk[f]
      BY <1>1, <2>1, <2>2, Zenon
    <3> QED
      BY <1>1, <3>1
  <2>3. CASE f = rfile
    <3>1. PICK x \in Nat : disk'[f] = Append(disk[f], x)
      BY <1>1, <2>1, <2>3
    <3>2. Len(Append(disk[f], x)) = Len(disk[f]) + 1
      BY <1>1, AppendProperties
    <3> QED
      BY <1>1, <3>1, <3>2
  <2> QED
    BY <2>2, <2>3, Zenon
<1>8. CASE RecvMeta \/ RecvEot \/ RecvOutOfPlace \/ RecvResumeReqAgain \/ RecvDataAgain
           \/ RecvDone \/ ReceiverIgnores \/ ReceiverTimeout
  <2>1. disk' = disk
    BY <1>8, Zenon DEF diskVars, RecvMeta, RecvEot, RecvOutOfPlace, RecvResumeReqAgain, RecvDataAgain,
                RecvDone, ReceiverIgnores, ReceiverTimeout, ReceiverEnds
  <2> QED
    BY <1>2, <2>1
<1>9. CASE NewSession \/ LoseToReceiver \/ LoseToSender \/ SenderCrash \/ Finished
  <2>1. disk' = disk
    BY <1>9, Zenon DEF diskVars, NewSession, LoseToReceiver, LoseToSender, SenderCrash, Finished, vars
  <2> QED
    BY <1>2, <2>1
<1>10. CASE ReceiverCrash
  BY <1>10 DEF ReceiverCrash, CrashesCounted
<1> QED
  BY <1>3, <1>4, <1>5, <1>6, <1>7, <1>8, <1>9, <1>10, Zenon
     DEF Next, ReceiverStep, ReceiverReads, ReceiverTimer, Faults

\* In mode TAIL a file that is a prefix of the sender's is never shortened, over any
\* number of sessions and losses: only a crash takes back what was not on the disk
THEOREM ProgressAlwaysKept == Spec => ProgressKept
<1> DEFINE Keeps == policy.mode = "TAIL" /\ crashes' = crashes =>
                      \A f \in Files : RightPrefix(disk[f], f) => Len(disk'[f]) >= Len(disk[f])
<1>1. SessionInv /\ CrashesCounted /\ [Next]_vars => [Keeps]_vars
  BY StepKeepsPrefix
<1> QED
  BY <1>1, SessionAlwaysInv, CrashesAlwaysCounted, PTL DEF Spec, ProgressKept
=============================================================================
