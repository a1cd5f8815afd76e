----------------------------- MODULE ValSession ----------------------------
(***************************************************************************)
(* A session after the HELLO exchange: val_send_files with                 *)
(* handle_resume_negotiation on one side, val_internal_receive_files with  *)
(* determine_resume_action on the other.  For each file: metadata, resume  *)
(* negotiation with its tail verification, data, DONE; then EOT.  Either   *)
(* process may crash, and the application then starts a new session over   *)
(* the files as they are on the receiver's disk.                           *)
(*                                                                         *)
(* The data of a file goes in packets of one unit, each acknowledged       *)
(* before the next: windows are the subject of ValTransfer, as is a cancel *)
(* raised by the application.  A CRC32 is taken to identify the region it  *)
(* was computed from.                                                      *)
(***************************************************************************)
EXTENDS Integers, Sequences

CONSTANTS
    Sizes,         \* sizes of the sender's files, in units
    Modes,         \* values of resume.mode
    TailCaps,      \* values of resume.tail_cap_bytes, after defaults and clamps
    MinVerifies,   \* values of resume.min_verify_bytes
    MismatchSkips, \* values of resume.mismatch_skip
    Validators,    \* answers of the metadata validator
    OldRight,      \* do files on disk start out as prefixes of the sender's?
    AckRetries,    \* retries.ack_retries
    Premature,     \* may a timer expire while the awaited frame may still come?
    MaxLoss,       \* bound on the frames lost or damaged
    MaxCrash,      \* bound on the crashes
    MaxSessions    \* bound on the sessions

ASSUME SessionAssumption ==
    /\ Sizes \in Seq(Nat)
    /\ Modes \subseteq {"NEVER", "SKIP_EXISTING", "TAIL"}
    /\ TailCaps \subseteq Nat \ {0}
    /\ MinVerifies \subseteq Nat
    /\ MismatchSkips \subseteq BOOLEAN
    /\ Validators \subseteq {"ACCEPT", "SKIP", "ABORT"}
    /\ AckRetries \in 0..255

VARIABLES
    policy,     \* the receiver's resume configuration
    disk,       \* content of each file at the receiver; unit p of the sender's is p
    present,    \* the files that exist there
    old,        \* disk when the session began
    spc, sfile, soff,  \* sender: state, current file, last_acked
    request,    \* the frame whose answer the sender waits for
    tries,      \* resends of it left
    sres,       \* what the sender reported of each file
    rpc, rfile, roff,  \* receiver: state, current file, written
    rbase,      \* where the output file was opened
    resp,       \* the RESUME_RESP of the current file
    rres,       \* what the receiver reported of each file
    toReceiver, toSender, losses, crashes, sessions

senderVars == <<spc, sfile, soff, request, tries, sres>>
receiverVars == <<rpc, rfile, roff, rbase, resp, rres>>
diskVars == <<disk, present>>
faultVars == <<losses, crashes, sessions>>
vars == <<policy, old, diskVars, senderVars, receiverVars, toReceiver, toSender, faultVars>>

Files == DOMAIN Sizes
Smaller(a, b) == IF a <= b THEN a ELSE b
Larger(a, b) == IF a >= b THEN a ELSE b

SenderWaits == {"resume", "verify", "data", "done", "skip", "eot"}
ReceiverWaits == {"meta", "req", "peek", "verify", "data", "skip"}
SenderStopped == spc \notin SenderWaits \cup {"start"}
ReceiverStopped == rpc \notin ReceiverWaits

-----------------------------------------------------------------------------
(* Frames.  file is the file a frame was sent for: its content.            *)

SendMeta(f) == [type |-> "SEND_META", file |-> f]
ResumeReq == [type |-> "RESUME_REQ"]
ResumeResp(action, off, len) ==
    [type |-> "RESUME_RESP", action |-> action, off |-> off, len |-> len]
Verify(f, start, len) == [type |-> "VERIFY", file |-> f, start |-> start, len |-> len]
VerifyResult(result) == [type |-> "VERIFY", result |-> result]
Data(f, off) == [type |-> "DATA", file |-> f, off |-> off]
DataAck(off) == [type |-> "DATA_ACK", off |-> off]
Done == [type |-> "DONE"]
DoneAck == [type |-> "DONE_ACK"]
Eot == [type |-> "EOT"]
EotAck == [type |-> "EOT_ACK"]
Error == [type |-> "ERROR"]

-----------------------------------------------------------------------------
(* The sender                                                              *)

\* Sends frames and waits for the answer to the last one.  A wait for DATA_ACK
\* has at least one retry
Ask(state, frames) ==
    /\ spc' = state
    /\ request' = frames[Len(frames)]
    /\ tries' = IF state = "data" THEN Larger(1, AckRetries) ELSE AckRetries
    /\ toReceiver' = toReceiver \o frames

\* Mutant: takes the last file for the end of the batch
SendFileOneShort(f) ==
    /\ sfile' = f
    /\ soff' = 0
    /\ IF f >= Len(Sizes) THEN Ask("eot", <<Eot>>)
                          ELSE Ask("resume", <<SendMeta(f), ResumeReq>>)

\* The next round of val_send_files: a file, or EOT after the last
SendFile(f) ==
    /\ sfile' = f
    /\ soff' = 0
    /\ IF f > Len(Sizes) THEN Ask("eot", <<Eot>>)
                         ELSE Ask("resume", <<SendMeta(f), ResumeReq>>)

\* The data loop from off on, or DONE at the end of the file
SendFrom(off) ==
    /\ soff' = off
    /\ sfile' = sfile
    /\ IF off < Sizes[sfile] THEN Ask("data", <<Data(sfile, off)>>)
                             ELSE Ask("done", <<Done>>)

\* resume_off = UINT64_MAX: DONE without data
SkipFile == Ask("skip", <<Done>>) /\ UNCHANGED <<sfile, soff>>

\* VERIFY for the tail of length len that ends at off
VerifyTail(off, len) ==
    /\ soff' = off
    /\ sfile' = sfile
    /\ Ask("verify", <<Verify(sfile, off - len, len)>>)

SenderTakes(states, type) ==
    /\ spc \in states
    /\ toSender # <<>>
    /\ Head(toSender).type = type
    /\ toSender' = Tail(toSender)
    /\ UNCHANGED <<policy, old, diskVars, receiverVars, faultVars>>

SendFiles ==
    /\ spc = "start"
    /\ SendFile(1)
    /\ UNCHANGED <<policy, old, diskVars, sres, receiverVars, toSender, faultVars>>

RecvResumeResp ==
    /\ SenderTakes({"resume"}, "RESUME_RESP")
    /\ LET rr == Head(toSender)
           off == IF rr.off > Sizes[sfile] THEN 0 ELSE rr.off
           len == Smaller(rr.len, off)
       IN  \/ rr.action = "START_ZERO" /\ SendFrom(0)
           \/ rr.action = "SKIP_FILE" /\ SkipFile
           \/ /\ rr.action = "VERIFY_FIRST"
              /\ IF len = 0 THEN SendFrom(off) ELSE VerifyTail(off, len)
    /\ UNCHANGED sres

RecvVerifyResult ==
    /\ SenderTakes({"verify"}, "VERIFY")
    /\ \/ Head(toSender).result = "OK" /\ SendFrom(soff)
       \/ Head(toSender).result = "SKIPPED" /\ SkipFile
       \/ Head(toSender).result = "RESUME_VERIFY" /\ SendFrom(0)
    /\ UNCHANGED sres

RecvDataAck ==
    /\ SenderTakes({"data"}, "DATA_ACK")
    /\ Head(toSender).off > soff
    /\ SendFrom(Head(toSender).off)
    /\ UNCHANGED sres

RecvDoneAck ==
    /\ SenderTakes({"done", "skip"}, "DONE_ACK")
    /\ sres' = [sres EXCEPT ![sfile] = IF spc = "skip" THEN "skipped" ELSE "ok"]
    /\ SendFile(sfile + 1)

RecvEotAck ==
    /\ SenderTakes({"eot"}, "EOT_ACK")
    /\ spc' = "ok"
    /\ UNCHANGED <<sfile, soff, request, tries, sres, toReceiver>>

RecvError ==
    /\ SenderTakes(SenderWaits, "ERROR")
    /\ spc' = "failed"
    /\ UNCHANGED <<sfile, soff, request, tries, sres, toReceiver>>

\* The frame type each wait accepts; every other one but ERROR is passed over,
\* and so is a DATA_ACK that acknowledges nothing new
Awaited ==
    CASE spc = "resume" -> "RESUME_RESP"
      [] spc = "verify" -> "VERIFY"
      [] spc = "data" -> "DATA_ACK"
      [] spc \in {"done", "skip"} -> "DONE_ACK"
      [] OTHER -> "EOT_ACK"

SenderIgnores ==
    /\ toSender # <<>>
    /\ SenderTakes(SenderWaits, Head(toSender).type)
    /\ \/ Head(toSender).type \notin {Awaited, "ERROR"}
       \/ spc = "data" /\ Head(toSender).type = "DATA_ACK" /\ Head(toSender).off <= soff
    /\ UNCHANGED <<senderVars, toReceiver>>

SenderReads ==
    \/ RecvResumeResp \/ RecvVerifyResult \/ RecvDataAck \/ RecvDoneAck
    \/ RecvEotAck \/ RecvError \/ SenderIgnores

\* Mutant: waits on when the retries are used up
SenderTimeoutForever ==
    /\ spc \in SenderWaits
    /\ \/ /\ tries > 0
          /\ tries' = tries - 1
          /\ toReceiver' = Append(toReceiver, request)
       \/ tries = 0 /\ UNCHANGED <<tries, toReceiver>>
    /\ UNCHANGED <<policy, old, diskVars, spc, sfile, soff, request, sres>>
    /\ UNCHANGED <<receiverVars, toSender, faultVars>>

\* A timer expires: the request again, or the end of the session
SenderTimeout ==
    /\ spc \in SenderWaits
    /\ \/ /\ tries > 0
          /\ tries' = tries - 1
          /\ toReceiver' = Append(toReceiver, request)
          /\ spc' = spc
       \/ /\ tries = 0
          /\ spc' = "failed"
          /\ UNCHANGED <<tries, toReceiver>>
    /\ UNCHANGED <<policy, old, diskVars, sfile, soff, request, sres>>
    /\ UNCHANGED <<receiverVars, toSender, faultVars>>

-----------------------------------------------------------------------------
(* The receiver                                                            *)

\* The tail that is verified of a file of n units
VerifyLen(n) == Larger(Smaller(n, policy.cap), Smaller(n, policy.min))

\* Mutant: starts over when the local file is complete
DetermineResumeActionRestarts(f) ==
    LET n == Len(disk[f])
    IN  CASE policy.mode = "NEVER" \/ n = 0 -> ResumeResp("START_ZERO", 0, 0)
          [] policy.mode = "SKIP_EXISTING" /\ n > 0 -> ResumeResp("SKIP_FILE", 0, 0)
          [] policy.mode = "TAIL" /\ n > 0 /\ n >= Sizes[f] ->
               ResumeResp(IF policy.skip THEN "SKIP_FILE" ELSE "START_ZERO", 0, 0)
          [] OTHER -> ResumeResp("VERIFY_FIRST", n, VerifyLen(n))

\* determine_resume_action: a file that is missing or empty starts at 0
DetermineResumeAction(f) ==
    LET n == Len(disk[f])
    IN  CASE policy.mode = "NEVER" \/ n = 0 -> ResumeResp("START_ZERO", 0, 0)
          [] policy.mode = "SKIP_EXISTING" /\ n > 0 -> ResumeResp("SKIP_FILE", 0, 0)
          [] policy.mode = "TAIL" /\ n > Sizes[f] ->
               ResumeResp(IF policy.skip THEN "SKIP_FILE" ELSE "START_ZERO", 0, 0)
          [] OTHER -> ResumeResp("VERIFY_FIRST", n, VerifyLen(n))

\* Mutant: opens the file before it looks at skipping
OpenFileAnyway(off, skipping) ==
    /\ rpc' = IF skipping THEN "skip" ELSE "data"
    /\ roff' = off
    /\ rbase' = off
    /\ disk' = IF off = 0 \/ skipping THEN [disk EXCEPT ![rfile] = <<>>] ELSE disk
    /\ present' = present \cup {rfile}

\* Mutant: always opens with mode ab
OpenFileAppends(off, skipping) ==
    /\ rpc' = IF skipping THEN "skip" ELSE "data"
    /\ roff' = off
    /\ rbase' = off
    /\ disk' = disk
    /\ present' = IF skipping THEN present ELSE present \cup {rfile}

\* The output file is opened unless it is skipped: mode wb at 0, ab otherwise
OpenFile(off, skipping) ==
    /\ rpc' = IF skipping THEN "skip" ELSE "data"
    /\ roff' = off
    /\ rbase' = off
    /\ disk' = IF off = 0 /\ ~skipping THEN [disk EXCEPT ![rfile] = <<>>] ELSE disk
    /\ present' = IF skipping THEN present ELSE present \cup {rfile}

Reply(frames) == toSender' = toSender \o frames

ReceiverTakes(states, types) ==
    /\ rpc \in states
    /\ toReceiver # <<>>
    /\ Head(toReceiver).type \in types
    /\ toReceiver' = Tail(toReceiver)
    /\ UNCHANGED <<policy, old, senderVars, faultVars>>

ReceiverEnds(result) ==
    /\ rpc' = result
    /\ UNCHANGED <<diskVars, rfile, roff, rbase, resp, rres>>

\* With resume mode NEVER the receiver looks at one frame, which may be
\* RESUME_REQ, otherwise it waits for RESUME_REQ
RecvMeta ==
    /\ ReceiverTakes({"meta"}, {"SEND_META"})
    /\ rfile' = Head(toReceiver).file
    /\ rpc' = IF policy.mode = "NEVER" THEN "peek" ELSE "req"
    /\ roff' = 0
    /\ rbase' = 0
    /\ resp' = ResumeResp("START_ZERO", 0, 0)
    /\ UNCHANGED <<diskVars, rres, toSender>>

RecvEot ==
    /\ ReceiverTakes({"meta", "skip"}, {"EOT"})
    /\ Reply(<<EotAck>>)
    /\ ReceiverEnds("ok")

\* The frames that end the session in a wait
OutOfPlace == [meta |-> {"RESUME_REQ", "VERIFY", "DATA", "DONE"},
               data |-> {"SEND_META"}]

RecvOutOfPlace ==
    /\ rpc \in DOMAIN OutOfPlace
    /\ ReceiverTakes({rpc}, OutOfPlace[rpc])
    /\ ReceiverEnds("failed")
    /\ UNCHANGED toSender

\* What a file is opened with, once it is known where to start
StartAt(off) == OpenFile(off, off >= Sizes[rfile])

RecvResumeReq ==
    /\ ReceiverTakes({"req"}, {"RESUME_REQ"})
    /\ resp' = DetermineResumeAction(rfile)
    /\ Reply(<<resp'>>)
    /\ \/ resp'.action = "START_ZERO" /\ StartAt(0)
       \/ resp'.action = "SKIP_FILE" /\ StartAt(Sizes[rfile])
       \/ /\ resp'.action = "VERIFY_FIRST"
          /\ rpc' = "verify"
          /\ UNCHANGED <<diskVars, roff, rbase>>
    /\ UNCHANGED <<rfile, rres>>

RecvResumeReqAgain ==
    /\ ReceiverTakes({"verify"}, {"RESUME_REQ"})
    /\ Reply(<<resp>>)
    /\ UNCHANGED <<diskVars, receiverVars>>

\* The CRC of the region VERIFY names agrees with the local file
TailMatches(v) ==
    /\ v.file = rfile
    /\ v.start + v.len <= Len(disk[rfile])
    /\ \A p \in v.start + 1 .. v.start + v.len : disk[rfile][p] = p

\* Mutant: keeps its offset after a mismatch
RecvVerifyKeepsOffset ==
    /\ ReceiverTakes({"verify"}, {"VERIFY"})
    /\ IF TailMatches(Head(toReceiver)) THEN Reply(<<VerifyResult("OK")>>)
                                        ELSE Reply(<<VerifyResult("RESUME_VERIFY")>>)
    /\ StartAt(resp.off)
    /\ UNCHANGED <<rfile, resp, rres>>

RecvVerify ==
    /\ ReceiverTakes({"verify"}, {"VERIFY"})
    /\ \/ /\ TailMatches(Head(toReceiver))
          /\ Reply(<<VerifyResult("OK")>>)
          /\ StartAt(resp.off)
       \/ /\ ~TailMatches(Head(toReceiver))
          /\ policy.skip
          /\ Reply(<<VerifyResult("SKIPPED")>>)
          /\ StartAt(Sizes[rfile])
       \/ /\ ~TailMatches(Head(toReceiver))
          /\ ~policy.skip
          /\ Reply(<<VerifyResult("RESUME_VERIFY")>>)
          /\ StartAt(0)
    /\ UNCHANGED <<rfile, resp, rres>>

\* Mode NEVER: the frame that says where to start, then the validator, whose
\* skip may be told to the sender by skipAck
Validate(start, skipAck) ==
    /\ \/ /\ "ACCEPT" \in Validators
          /\ Reply(start)
          /\ OpenFile(0, FALSE)
       \/ /\ "SKIP" \in Validators
          /\ Reply(start \o skipAck)
          /\ OpenFile(Sizes[rfile], TRUE)
       \/ /\ "ABORT" \in Validators
          /\ Reply(start \o <<Error>>)
          /\ rpc' = "aborted"
          /\ UNCHANGED <<diskVars, roff, rbase>>
    /\ UNCHANGED <<rfile, resp, rres>>

RecvResumeReqNever ==
    /\ ReceiverTakes({"peek"}, {"RESUME_REQ"})
    /\ Validate(<<DetermineResumeAction(rfile)>>, <<DataAck(Sizes[rfile])>>)

\* No RESUME_REQ came: the legacy DATA_ACK
PeekTimeout ==
    /\ rpc = "peek"
    /\ Validate(<<DataAck(0)>>, <<>>)
    /\ UNCHANGED <<policy, old, senderVars, faultVars, toReceiver>>

\* The frame writes its unit where written stands; the unit is the right one if
\* the frame is of this file.  Anything else is answered with written again
RecvDataInOrder ==
    /\ ReceiverTakes({"data"}, {"DATA"})
    /\ Head(toReceiver).off = roff
    /\ disk' = [disk EXCEPT ![rfile] =
                   Append(@, IF Head(toReceiver).file = rfile THEN roff + 1 ELSE 0)]
    /\ roff' = roff + 1
    /\ Reply(<<DataAck(roff')>>)
    /\ UNCHANGED <<present, rpc, rfile, rbase, resp, rres>>

RecvDataAgain ==
    /\ ReceiverTakes({"data"}, {"DATA"})
    /\ Head(toReceiver).off # roff
    /\ Reply(<<DataAck(roff)>>)
    /\ UNCHANGED <<diskVars, receiverVars>>

RecvDone ==
    /\ ReceiverTakes({"data", "skip"}, {"DONE"})
    /\ Reply(<<DoneAck>>)
    /\ rres' = [rres EXCEPT ![rfile] = IF rpc = "skip" THEN "skipped" ELSE "ok"]
    /\ rpc' = "meta"
    /\ UNCHANGED <<diskVars, rfile, roff, rbase, resp>>

\* The frames a wait passes over
PassedOver == [req |-> {"SEND_META", "VERIFY", "DATA", "DONE", "EOT"},
               verify |-> {"SEND_META", "DATA", "DONE", "EOT"},
               data |-> {"RESUME_REQ", "VERIFY", "EOT"},
               skip |-> {"SEND_META", "RESUME_REQ", "VERIFY", "DATA"}]

ReceiverIgnores ==
    /\ rpc \in DOMAIN PassedOver
    /\ ReceiverTakes({rpc}, PassedOver[rpc])
    /\ UNCHANGED <<diskVars, receiverVars, toSender>>

ReceiverReads ==
    \/ RecvMeta \/ RecvEot \/ RecvOutOfPlace \/ RecvResumeReq \/ RecvResumeReqAgain
    \/ RecvVerify \/ RecvResumeReqNever \/ RecvDataInOrder \/ RecvDataAgain
    \/ RecvDone \/ ReceiverIgnores

\* The retries of a wait run out.  The earlier expiries of its timer send nothing
\* and change nothing but the count, so the count is left out
ReceiverTimeout ==
    /\ rpc \in ReceiverWaits \ {"peek"}
    /\ ReceiverEnds("failed")
    /\ UNCHANGED <<policy, old, senderVars, faultVars, toReceiver, toSender>>

-----------------------------------------------------------------------------
(* Losses, crashes and new sessions                                        *)

\* A frame to the receiver is lost, or arrives damaged: the waits that call
\* val_internal_recv_packet and retry only a timeout end with VAL_ERR_CRC
LoseToReceiver ==
    /\ losses < MaxLoss
    /\ toReceiver # <<>>
    /\ losses' = losses + 1
    /\ toReceiver' = Tail(toReceiver)
    /\ \/ UNCHANGED rpc
       \/ rpc \in {"meta", "req", "peek", "skip"} /\ rpc' = "failed"
    /\ UNCHANGED <<policy, old, diskVars, senderVars, rfile, roff, rbase, resp, rres>>
    /\ UNCHANGED <<toSender, crashes, sessions>>

LoseToSender ==
    /\ losses < MaxLoss
    /\ toSender # <<>>
    /\ losses' = losses + 1
    /\ toSender' = Tail(toSender)
    /\ UNCHANGED <<policy, old, diskVars, senderVars, receiverVars, toReceiver>>
    /\ UNCHANGED <<crashes, sessions>>

SenderCrash ==
    /\ ~SenderStopped
    /\ crashes < MaxCrash
    /\ crashes' = crashes + 1
    /\ spc' = "crashed"
    /\ UNCHANGED <<policy, old, diskVars, sfile, soff, request, tries, sres>>
    /\ UNCHANGED <<receiverVars, toReceiver, toSender, losses, sessions>>

\* The receiver crashes.  What fwrite has not yet passed on to the disk since the
\* file was opened is lost
ReceiverCrash ==
    /\ ~ReceiverStopped
    /\ crashes < MaxCrash
    /\ crashes' = crashes + 1
    /\ rpc' = "crashed"
    /\ \/ rpc # "data" /\ disk' = disk
       \/ /\ rpc = "data"
          /\ \E n \in rbase..roff : disk' = [disk EXCEPT ![rfile] = SubSeq(@, 1, n)]
    /\ UNCHANGED <<policy, old, present, senderVars, rfile, roff, rbase, resp, rres>>
    /\ UNCHANGED <<toReceiver, toSender, losses, sessions>>

\* The application calls both sides again after val_send_files has not returned
\* VAL_OK, over a new connection
NewSession ==
    /\ SenderStopped
    /\ ReceiverStopped
    /\ spc # "ok"
    /\ sessions < MaxSessions
    /\ sessions' = sessions + 1
    /\ spc' = "start" /\ sfile' = 1 /\ soff' = 0 /\ request' = Eot /\ tries' = 0
    /\ sres' = [f \in Files |-> "none"]
    /\ rpc' = "meta" /\ rfile' = 1 /\ roff' = 0 /\ rbase' = 0
    /\ resp' = ResumeResp("START_ZERO", 0, 0)
    /\ rres' = [f \in Files |-> "none"]
    /\ toReceiver' = <<>>
    /\ toSender' = <<>>
    /\ old' = disk
    /\ UNCHANGED <<policy, diskVars, losses, crashes>>

-----------------------------------------------------------------------------
\* What a file at the receiver may contain when the first session begins
Contents(f) ==
    {c \in UNION {[1..n -> 0..Sizes[f]] : n \in 0..Sizes[f] + 1} :
        \A p \in DOMAIN c : \/ c[p] = p
                            \/ ~OldRight /\ c[p] = 0}

Init ==
    /\ policy \in [mode : Modes, cap : TailCaps, min : MinVerifies, skip : MismatchSkips]
    /\ disk \in {d \in [Files -> UNION {Contents(f) : f \in Files}] :
                    \A f \in Files : d[f] \in Contents(f)}
    /\ present \in {s \in SUBSET Files : \A f \in Files : disk[f] # <<>> => f \in s}
    /\ old = disk
    /\ spc = "start" /\ sfile = 1 /\ soff = 0 /\ request = Eot /\ tries = 0
    /\ sres = [f \in Files |-> "none"]
    /\ rpc = "meta" /\ rfile = 1 /\ roff = 0 /\ rbase = 0
    /\ resp = ResumeResp("START_ZERO", 0, 0)
    /\ rres = [f \in Files |-> "none"]
    /\ toReceiver = <<>>
    /\ toSender = <<>>
    /\ losses = 0
    /\ crashes = 0
    /\ sessions = 1

\* Unless Premature, a timer expires only when what it waits for cannot come any
\* more.  The wait in mode NEVER is a single one
SenderTimer ==
    /\ Premature \/ (toSender = <<>> /\ (toReceiver = <<>> \/ ReceiverStopped))
    /\ SenderTimeout

ReceiverTimer ==
    \/ (Premature \/ (toReceiver = <<>> /\ SenderStopped)) /\ ReceiverTimeout
    \/ (Premature \/ toReceiver = <<>>) /\ PeekTimeout

SenderStep == SendFiles \/ SenderReads \/ SenderTimer
ReceiverStep == ReceiverReads \/ ReceiverTimer
Faults == LoseToReceiver \/ LoseToSender \/ SenderCrash \/ ReceiverCrash

Finished ==
    /\ SenderStopped
    /\ ReceiverStopped
    /\ UNCHANGED vars

Next == SenderStep \/ ReceiverStep \/ NewSession \/ Faults \/ Finished

Spec == Init /\ [][Next]_vars

\* Both calls are loops that run until they return; the application tries again
FairSpec ==
    /\ Spec
    /\ WF_vars(SenderStep)
    /\ WF_vars(ReceiverStep)
    /\ WF_vars(NewSession)
-----------------------------------------------------------------------------
RightPrefix(c, f) == Len(c) <= Sizes[f] /\ \A p \in DOMAIN c : c[p] = p

TypeOK ==
    /\ spc \in SenderWaits \cup {"start", "ok", "failed", "crashed"}
    /\ rpc \in ReceiverWaits \cup {"ok", "failed", "aborted", "crashed"}
    /\ sfile \in 1..Len(Sizes) + 1
    /\ rfile \in Files
    /\ spc \in SenderWaits \ {"eot"} => soff \in 0..Sizes[sfile]
    /\ roff \in 0..Sizes[rfile]
    /\ tries \in 0..Larger(1, AckRetries)
    /\ \A f \in Files : /\ Len(disk[f]) <= Sizes[f] + 1
                        /\ disk[f] # <<>> => f \in present
                        /\ {sres[f], rres[f]} \subseteq {"none", "ok", "skipped"}

\* Whatever the resume mode, the sizes and the result of the verification, two
\* sides that exchange data are in the same file, the sender where the receiver
\* opened it or further, and at most one packet apart: handle_resume_negotiation
\* and the receiver draw the same conclusion
SameOffset ==
    spc = "data" /\ rpc = "data" =>
        sfile = rfile /\ soff >= rbase /\ roff \in {soff, soff + 1}

\* The part of the old file that the tail verification does not look at
Unverified(f) ==
    IF policy.mode = "TAIL" THEN Len(old[f]) - VerifyLen(Len(old[f])) ELSE 0

\* A file the receiver reports as VAL_OK has the sender's length and content, but
\* for old content in front of the verified tail
OkMeansCopied ==
    \A f \in Files : rres[f] = "ok" =>
        /\ Len(disk[f]) = Sizes[f]
        /\ \A p \in 1..Sizes[f] :
              \/ disk[f][p] = p
              \/ p <= Unverified(f) /\ disk[f][p] = old[f][p]

\* A file the receiver reports as VAL_SKIPPED is as it was before the session
SkipKeepsFile ==
    \A f \in Files : rres[f] = "skipped" => disk[f] = old[f]

\* When val_send_files returns VAL_OK the receiver has reported every file of the
\* batch, and none that the sender reported as skipped has been written
SentMeansReported ==
    spc = "ok" => \A f \in Files :
        /\ sres[f] = "ok" => rres[f] \in {"ok", "skipped"}
        /\ sres[f] = "skipped" => rres[f] = "skipped"
        /\ sres[f] # "none"

\* In mode TAIL a file that is a prefix of the sender's is never shortened, over
\* any number of sessions: only a crash takes back what was not on the disk yet
ProgressKept ==
    [][policy.mode = "TAIL" /\ crashes' = crashes =>
          \A f \in Files : RightPrefix(disk[f], f) => Len(disk'[f]) >= Len(disk[f])]_vars

\* Both calls of the last session return
SessionEnds == <>[](SenderStopped /\ ReceiverStopped)

\* However the processes crash, the session after the last crash completes every
\* file, whether it resumes or starts over
Recovered == <>[](spc = "ok" /\ \A f \in Files : disk[f] = [p \in 1..Sizes[f] |-> p])

-----------------------------------------------------------------------------
(* What the documentation and comments say of the session and the code     *)
(* does not do                                                             *)

\* A local file larger than the incoming one is restarted, or skipped if
\* mismatch_skip is set: so a file both sides reported without a skip by policy
\* has the sender's length
LargerFileRestarts ==
    \A f \in Files :
        sres[f] = "ok" /\ policy.mode = "TAIL" /\ ~policy.skip => Len(disk[f]) = Sizes[f]

\* A VERIFY result of VAL_SKIPPED tells the sender that the receiver's file is
\* complete
SkippedMeansComplete ==
    \A i \in DOMAIN toSender :
        toSender[i] = VerifyResult("SKIPPED") => Len(disk[rfile]) = Sizes[rfile]

\* With resume mode NEVER a RESUME_REQ that the receiver reads while the sender
\* waits for the answer is answered
RequestHonoured ==
    [][/\ policy.mode = "NEVER" /\ spc = "resume"
       /\ toReceiver # <<>> /\ Head(toReceiver) = ResumeReq
       /\ toReceiver' = Tail(toReceiver) /\ losses' = losses /\ rpc # "meta"
       => Len(toSender') > Len(toSender)]_vars
=============================================================================
