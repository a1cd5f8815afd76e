---------------------------- MODULE ProgramProofs --------------------------
(***************************************************************************)
(* The two threads of the serial sender for every number of files and      *)
(* every patience of the watchdog: no cancel inside val_send_files, no     *)
(* session without its buffers and its port, and a summary that is true.   *)
(***************************************************************************)
EXTENDS ValProgram, SequenceTheorems, TLAPS

\* Where main is while the session exists
Using == {"start", "window", "call", "calling", "report", "destroy"}

\* The places of main before the session, with it and after it, what main holds at
\* each, and whom the lock belongs to
ProgramInv ==
    /\ session \in {"none", "live", "destroyed"}
    /\ session = "live" <=> pc \in Using
    /\ pc \in {"buffers", "create"} \cup Using => port = TRUE
    /\ pc \in {"create"} \cup Using => Buffers \subseteq heap
    /\ pc \in {"open", "buffers", "create", "start"} => watchdog = "none"
    /\ pc = "calling" => lock = "main"
    /\ watchdog = "cancelling" /\ Live => lock = "watchdog"

LEMMA ProgramInit == Init => ProgramInv
  BY DEF Init, ProgramInv, Using, Live

LEMMA ProgramStep == ProgramInv /\ [Next]_programVars => ProgramInv'
<1> SUFFICES ASSUME ProgramInv, [Next]_programVars
             PROVE  ProgramInv'
  OBVIOUS
<1> USE DEF ProgramInv, Using, Live
<1>1. CASE Prepare /\ UNCHANGED <<stage, status, lock, quiet, unseen, sumVars>>
  <2>1. CASE OpenPort /\ UNCHANGED <<heap, session, globals, watchdog>>
    BY <1>1, <2>1 DEF OpenPort, At, Return
  <2>2. CASE AllocBuffers /\ UNCHANGED <<session, globals, watchdog>>
    BY <1>1, <2>2 DEF AllocBuffers, At, Return
  <2>3. CASE CreateSession /\ UNCHANGED <<globals, watchdog>>
    BY <1>1, <2>3 DEF CreateSession, At, Return
  <2>4. CASE StartWatchdog /\ UNCHANGED <<port, heap, session, exit>>
    BY <1>1, <2>4 DEF StartWatchdog, At
  <2>5. CASE ShowWindow /\ UNCHANGED <<port, heap, session, exit, globals, watchdog>>
    BY <1>1, <2>5 DEF ShowWindow, At
  <2> QED BY <1>1, <2>1, <2>2, <2>3, <2>4, <2>5 DEF Prepare
<1>2. CASE Call /\ UNCHANGED <<heap, port, session, exit, globals, dogVars, printed>>
  <2>1. CASE BeginCall
    BY <1>2, <2>1 DEF BeginCall, At, LockFree, dogVars
  <2>2. CASE Greeted \/ FileStart \/ FileEnd
    BY <1>2, <2>2 DEF Greeted, FileStart, FileEnd, InCall, dogVars
  <2>3. CASE FileFails \/ CallFails \/ CallSucceeds
    BY <1>2, <2>3 DEF FileFails, CallFails, CallSucceeds, EndCall, At, dogVars
  <2> QED BY <1>2, <2>1, <2>2, <2>3 DEF Call
<1>3. CASE CleanUp /\ UNCHANGED <<stage, status, lock, dogVars, unseen, stats, sentList,
                                  skippedList, done>>
  <2>1. CASE Report /\ UNCHANGED <<session, heap, port, globals, printed, exit>>
    BY <1>3, <2>1 DEF Report, At, dogVars
  <2>2. CASE Destroy /\ UNCHANGED <<port, globals, printed, exit>>
    BY <1>3, <2>2 DEF Destroy, At, dogVars
  <2>3. CASE StopWatchdog /\ UNCHANGED <<session, heap, port, printed, exit>>
    BY <1>3, <2>3 DEF StopWatchdog, At, dogVars
  <2>4. CASE CloseAndFree /\ UNCHANGED <<session, globals, printed, exit>>
    BY <1>3, <2>4 DEF CloseAndFree, At, dogVars
  <2>5. CASE PrintSummary /\ UNCHANGED <<session, port, globals, exit>>
    BY <1>3, <2>5 DEF PrintSummary, At, dogVars
  <2>6. CASE Leave /\ UNCHANGED <<session, heap, port, globals, printed>>
    BY <1>3, <2>6 DEF Leave, Return, At, dogVars
  <2> QED BY <1>3, <2>1, <2>2, <2>3, <2>4, <2>5, <2>6 DEF CleanUp
<1>4. CASE Watchdog
  <2>1. UNCHANGED <<pc, port, heap, session>>
    BY <1>4 DEF Watchdog, mainVars
  <2>2. CASE WatchdogCheck \/ WatchdogMetrics \/ WatchdogWakes
    BY <2>1, <2>2 DEF WatchdogCheck, WatchdogMetrics, WatchdogWakes, Dog
  <2>3. CASE WatchdogCancel
    BY <2>1, <2>3 DEF WatchdogCancel, Dog, LockFree
  <2>4. CASE WatchdogCancelled
    BY <2>1, <2>4 DEF WatchdogCancelled, Dog
  <2>5. CASE WatchdogAstray
    BY <2>1, <2>5 DEF WatchdogAstray
  <2> QED BY <1>4, <2>2, <2>3, <2>4, <2>5 DEF Watchdog
<1>5. CASE Killed \/ Tick \/ UNCHANGED programVars
  BY <1>5 DEF Killed, Tick, programVars, mainVars, dogVars
<1> QED BY <1>1, <1>2, <1>3, <1>4, <1>5 DEF Next, Main

\* val_emergency_cancel of the watchdog never runs inside val_send_files,
\* however the two threads are scheduled
THEOREM WatchdogStaysOut == Spec => []NoCancelInCall
<1>1. ProgramInv => NoCancelInCall
  BY DEF ProgramInv, NoCancelInCall
<1> QED BY <1>1, ProgramInit, ProgramStep, PTL DEF Spec

\* main takes nothing away that the session, and so either thread, still uses
THEOREM BuffersAlwaysOutlive == Spec => []BuffersOutliveSession
<1>1. ProgramInv => BuffersOutliveSession
  BY DEF ProgramInv, BuffersOutliveSession, Live, Using
<1> QED BY <1>1, ProgramInit, ProgramStep, PTL DEF Spec

-----------------------------------------------------------------------------
(* The summary, when the files have different names.                       *)

Entries == [name : Nat, result : {"pending", "OK", "SKIPPED"} \cup Errors]

Listed(list) == {list[k] : k \in 1..Len(list)}
Ended(how) == {i \in 1..Len(done) : done[i] = how}

\* Before val_send_files is left for the first time
Before == {"open", "buffers", "create", "start", "window", "call"}

\* The lists and the details agree with the files ended so far; the details may
\* have one entry more, for the file being sent or the one that failed
SummaryInv ==
    /\ done \in Seq({"OK", "SKIPPED"})
    /\ stats \in Seq(Entries)
    /\ sentList \in Seq(Nat)
    /\ skippedList \in Seq(Nat)
    /\ Len(done) <= NFiles
    /\ Len(stats) \in {Len(done), Len(done) + 1}
    /\ \A i \in 1..Len(stats) : stats[i].name = i
    /\ \A i \in 1..Len(done) : stats[i].result = done[i]
    /\ Len(sentList) <= Len(done) /\ Listed(sentList) = Ended("OK")
    /\ Len(skippedList) <= Len(done) /\ Listed(skippedList) = Ended("SKIPPED")
    /\ pc \in Before => Len(stats) = Len(done)
    /\ pc \in Before \cup {"calling"} => status = "none"
    /\ pc = "calling" => /\ stage \in {"handshake", "between", "file"}
                         /\ stage = "file" <=> Len(stats) = Len(done) + 1
                         /\ stage = "file" => Len(done) < NFiles
    /\ status = "OK" => Len(done) = NFiles /\ Len(stats) = NFiles

LEMMA SummaryInit == Init => SummaryInv
  BY ProgramAssumption DEF Init, SummaryInv, Before, Listed, Ended

\* tx_summary_add: the list has room, and gets one name more
LEMMA AddToGrows ==
    ASSUME NEW list \in Seq(Nat), NEW name \in Nat, Len(list) < NFiles
    PROVE  /\ AddTo(list, name) \in Seq(Nat)
           /\ Len(AddTo(list, name)) = Len(list) + 1
           /\ Listed(AddTo(list, name)) = Listed(list) \cup {name}
<1>1. AddTo(list, name) = Append(list, name)
  BY ProgramAssumption DEF AddTo
<1>2. /\ Append(list, name) \in Seq(Nat)
      /\ Len(Append(list, name)) = Len(list) + 1
      /\ \A i \in 1..Len(list) : Append(list, name)[i] = list[i]
      /\ Append(list, name)[Len(list) + 1] = name
  BY AppendProperties
<1>3. Len(list) \in Nat
  OBVIOUS
<1>4. 1..(Len(list) + 1) = (1..Len(list)) \cup {Len(list) + 1}
  BY <1>3
<1>5. Listed(Append(list, name)) = Listed(list) \cup {name}
  BY <1>2, <1>4 DEF Listed
<1> QED BY <1>1, <1>2, <1>5

\* tx_stats_complete finds the entry of the file, when names differ, and changes
\* its result only
LEMMA CompleteFinds ==
    ASSUME SummaryInv, NEW result \in {"OK", "SKIPPED"} \cup Errors,
           NEW n \in 1..Len(stats), Complete(n, result)
    PROVE  /\ stats' \in Seq(Entries)
           /\ Len(stats') = Len(stats)
           /\ \A i \in 1..Len(stats) : /\ stats'[i].name = i
                                       /\ i # n => stats'[i] = stats[i]
           /\ stats'[n].result = result
<1> DEFINE same == {i \in 1..Len(stats) : stats[i].name = n}
           first == CHOOSE i \in same : \A j \in same : i <= j
<1>1. stats \in Seq(Entries) /\ \A i \in 1..Len(stats) : stats[i].name = i
  BY DEF SummaryInv
<1>2. same = {n}
  BY <1>1
<1>3. first = n
  BY <1>2
<1>4. stats' = [stats EXCEPT ![n].result = result]
  BY <1>2, <1>3 DEF Complete
<1>5. stats' = [stats EXCEPT ![n] = [stats[n] EXCEPT !.result = result]]
  BY <1>4
<1>6. stats[n] \in Entries /\ stats[n].name = n
  BY <1>1, ElementOfSeq
<1>7. /\ [stats[n] EXCEPT !.result = result] \in Entries
      /\ [stats[n] EXCEPT !.result = result].name = n
      /\ [stats[n] EXCEPT !.result = result].result = result
  BY <1>6 DEF Entries
<1>8. /\ stats' \in Seq(Entries)
      /\ Len(stats') = Len(stats)
      /\ \A i \in 1..Len(stats) : stats'[i] = IF i = n THEN [stats[n] EXCEPT !.result = result]
                                              ELSE stats[i]
  BY <1>1, <1>5, <1>7, ExceptSeq
<1> QED BY <1>1, <1>7, <1>8

\* A file that ends is added to the files ended
LEMMA EndedGrows ==
    ASSUME SummaryInv, NEW result \in {"OK", "SKIPPED"}, done' = Append(done, result)
    PROVE  /\ done' \in Seq({"OK", "SKIPPED"})
           /\ Len(done') = Len(done) + 1
           /\ \A i \in 1..Len(done) : done'[i] = done[i]
           /\ done'[Len(done) + 1] = result
           /\ \A how : Ended(how)' = Ended(how) \cup (IF how = result THEN {Len(done) + 1} ELSE {})
<1>1. done \in Seq({"OK", "SKIPPED"}) /\ Len(done) \in Nat
  BY DEF SummaryInv
<1>2. /\ done' \in Seq({"OK", "SKIPPED"})
      /\ Len(done') = Len(done) + 1
      /\ \A i \in 1..Len(done) : done'[i] = done[i]
      /\ done'[Len(done) + 1] = result
  BY <1>1, AppendProperties
<1>3. 1..(Len(done) + 1) = (1..Len(done)) \cup {Len(done) + 1}
  BY <1>1
<1>4. ASSUME NEW how
      PROVE  Ended(how)' = Ended(how) \cup (IF how = result THEN {Len(done) + 1} ELSE {})
  BY <1>2, <1>3 DEF Ended
<1> QED BY <1>2, <1>4

\* What SummaryInv says of the lists is unchanged with them
LEMMA ListsUnchanged ==
    ASSUME SummaryInv, UNCHANGED <<stats, sentList, skippedList, done>>
    PROVE  /\ done' \in Seq({"OK", "SKIPPED"})
           /\ stats' \in Seq(Entries)
           /\ sentList' \in Seq(Nat)
           /\ skippedList' \in Seq(Nat)
           /\ Len(done') <= NFiles
           /\ Len(stats') \in {Len(done'), Len(done') + 1}
           /\ \A i \in 1..Len(stats') : stats'[i].name = i
           /\ \A i \in 1..Len(done') : stats'[i].result = done'[i]
           /\ Len(sentList') <= Len(done') /\ Listed(sentList)' = Ended("OK")'
           /\ Len(skippedList') <= Len(done') /\ Listed(skippedList)' = Ended("SKIPPED")'
  BY DEF SummaryInv, Listed, Ended

\* val_send_files keeps the summary true
LEMMA SummaryCall ==
    ASSUME SummaryInv, Call, SameName = FALSE
    PROVE  SummaryInv'
<1>0. done \in Seq({"OK", "SKIPPED"}) /\ stats \in Seq(Entries)
      /\ Len(done) \in Nat /\ Len(stats) \in Nat
      /\ Len(sentList) \in Nat /\ Len(skippedList) \in Nat
  BY DEF SummaryInv
<1>1. \A i : Name(i) = i
  BY DEF Name
<1>2. CASE BeginCall \/ Greeted \/ CallFails \/ CallSucceeds
  <2>1. UNCHANGED <<stats, sentList, skippedList, done>>
    BY <1>2 DEF BeginCall, Greeted, CallFails, CallSucceeds
  <2>2. CASE BeginCall \/ Greeted
    <3>1. /\ pc' = "calling" /\ status' = status /\ stage' \in {"handshake", "between"}
          /\ pc \in Before \cup {"calling"}
          /\ Len(stats) = Len(done)
      BY <1>0, <2>2 DEF BeginCall, Greeted, InCall, At, SummaryInv, Before
    <3>2. status' = "none" /\ Len(stats') = Len(done')
      BY <2>1, <3>1 DEF SummaryInv
    <3> QED BY <1>0, <2>1, <3>1, <3>2, ListsUnchanged DEF SummaryInv, Before
  <2>3. CASE CallFails \/ CallSucceeds
    <3>1. pc' = "report" /\ (status' = "OK" => Len(done') = NFiles /\ Len(stats') = NFiles)
      BY <1>0, <2>1, <2>3 DEF CallFails, CallSucceeds, EndCall, At, SummaryInv, Errors
    <3> QED BY <2>1, <3>1, ListsUnchanged DEF SummaryInv, Before
  <2> QED BY <1>2, <2>2, <2>3
<1>3. CASE FileStart
  <2>1. /\ pc = "calling" /\ pc' = "calling" /\ stage = "between" /\ stage' = "file"
        /\ Len(done) < NFiles
        /\ UNCHANGED <<status, sentList, skippedList, done>>
        /\ stats' = Append(stats, [name |-> Len(done) + 1, result |-> "pending"])
    BY <1>1, <1>3 DEF FileStart, InCall, Start
  <2>2. Len(stats) = Len(done)
    BY <1>0, <2>1 DEF SummaryInv
  <2>3. [name |-> Len(done) + 1, result |-> "pending"] \in Entries
    BY <1>0 DEF Entries
  <2>4. /\ stats' \in Seq(Entries)
        /\ Len(stats') = Len(done) + 1
        /\ \A i \in 1..Len(done) : stats'[i] = stats[i]
        /\ stats'[Len(done) + 1].name = Len(done) + 1
    BY <1>0, <2>1, <2>2, <2>3, AppendProperties
  <2>5. \A i \in 1..Len(stats') : stats'[i].name = i
    <3>1. \A i \in 1..Len(done) : stats[i].name = i
      BY <2>2 DEF SummaryInv
    <3>2. \A i \in 1..(Len(done) + 1) : i \in 1..Len(done) \/ i = Len(done) + 1
      BY <1>0
    <3> QED BY <2>4, <3>1, <3>2
  <2>6. \A i \in 1..Len(done') : stats'[i].result = done'[i]
    BY <2>1, <2>4 DEF SummaryInv
  <2>7. /\ Listed(sentList)' = Ended("OK")' /\ Len(sentList') <= Len(done')
        /\ Listed(skippedList)' = Ended("SKIPPED")' /\ Len(skippedList') <= Len(done')
    BY <2>1 DEF SummaryInv, Listed, Ended
  <2>8. status' = "none"
    BY <2>1 DEF SummaryInv
  <2> QED BY <1>0, <2>1, <2>4, <2>5, <2>6, <2>7, <2>8 DEF SummaryInv, Before
<1>4. CASE FileEnd
  <2>1. PICK result \in {"OK", "SKIPPED"} :
           /\ InCall("file", "between")
           /\ OnFileComplete(Len(done) + 1, result)
           /\ done' = Append(done, result)
    BY <1>1, <1>4 DEF FileEnd
  <2>2. /\ pc = "calling" /\ pc' = "calling" /\ stage = "file" /\ stage' = "between"
        /\ Len(done) < NFiles /\ Len(stats) = Len(done) + 1 /\ status' = "none"
    BY <2>1 DEF InCall, SummaryInv
  <2>3. Len(done) + 1 \in 1..Len(stats)
    BY <1>0, <2>2
  <2>4. /\ stats' \in Seq(Entries)
        /\ Len(stats') = Len(stats)
        /\ \A i \in 1..Len(stats) : /\ stats'[i].name = i
                                    /\ i # Len(done) + 1 => stats'[i] = stats[i]
        /\ stats'[Len(done) + 1].result = result
    BY <2>1, <2>3, CompleteFinds DEF OnFileComplete
  <2>5. /\ done' \in Seq({"OK", "SKIPPED"})
        /\ Len(done') = Len(done) + 1
        /\ \A i \in 1..Len(done) : done'[i] = done[i]
        /\ done'[Len(done) + 1] = result
        /\ \A how : Ended(how)' = Ended(how) \cup (IF how = result THEN {Len(done) + 1} ELSE {})
    BY <2>1, EndedGrows
  <2>6. \A i \in 1..Len(done') : stats'[i].result = done'[i]
    <3> SUFFICES ASSUME NEW i \in 1..Len(done') PROVE stats'[i].result = done'[i]
      OBVIOUS
    <3>1. CASE i = Len(done) + 1
      BY <2>4, <2>5, <3>1
    <3>2. CASE i # Len(done) + 1
      <4>1. i \in 1..Len(done) /\ i \in 1..Len(stats)
        BY <1>0, <2>2, <2>5, <3>2
      <4>2. stats[i].result = done[i]
        BY <4>1 DEF SummaryInv
      <4> QED BY <2>4, <2>5, <3>2, <4>1, <4>2
    <3> QED BY <3>1, <3>2
  <2>7. ASSUME NEW list \in Seq(Nat), NEW how, Len(list) <= Len(done), Listed(list) = Ended(how),
               NEW new, new = IF how = result THEN AddTo(list, Len(done) + 1) ELSE list
        PROVE  /\ new \in Seq(Nat) /\ Len(new) <= Len(done')
               /\ Listed(new) = Ended(how)'
    <3>1. Len(list) \in Nat /\ Len(list) < NFiles
      BY <1>0, <2>2, <2>7, ProgramAssumption
    <3>2. /\ AddTo(list, Len(done) + 1) \in Seq(Nat)
          /\ Len(AddTo(list, Len(done) + 1)) = Len(list) + 1
          /\ Listed(AddTo(list, Len(done) + 1)) = Listed(list) \cup {Len(done) + 1}
      <4>1. Len(done) + 1 \in Nat
        BY <1>0
      <4> QED BY <3>1, <4>1, AddToGrows
    <3>3. CASE how = result
      <4>1. new = AddTo(list, Len(done) + 1) /\ Ended(how)' = Ended(how) \cup {Len(done) + 1}
        BY <2>5, <2>7, <3>3
      <4> QED BY <1>0, <2>5, <2>7, <3>1, <3>2, <4>1
    <3>4. CASE how # result
      <4>1. new = list /\ Ended(how)' = Ended(how)
        BY <2>5, <2>7, <3>4
      <4> QED BY <1>0, <2>5, <2>7, <3>1, <4>1
    <3> QED BY <3>3, <3>4
  <2>8. /\ sentList' \in Seq(Nat) /\ Len(sentList') <= Len(done')
        /\ Listed(sentList') = Ended("OK")'
    BY <2>1, <2>7 DEF OnFileComplete, SummaryInv
  <2>9. /\ skippedList' \in Seq(Nat) /\ Len(skippedList') <= Len(done')
        /\ Listed(skippedList') = Ended("SKIPPED")'
    BY <2>1, <2>7 DEF OnFileComplete, SummaryInv
  <2>10. Listed(sentList)' = Listed(sentList') /\ Listed(skippedList)' = Listed(skippedList')
    BY DEF Listed
  <2>11. Len(done') <= NFiles /\ Len(stats') = Len(done')
    BY <1>0, <2>2, <2>4, <2>5, ProgramAssumption
  <2> QED BY <1>0, <2>2, <2>4, <2>5, <2>6, <2>8, <2>9, <2>10, <2>11 DEF SummaryInv, Before
<1>5. CASE FileFails
  <2>1. PICK result \in Errors :
           /\ stage = "file"
           /\ EndCall(result)
           /\ \/ OnFileComplete(Len(done) + 1, result)
              \/ UNCHANGED <<stats, sentList, skippedList>>
           /\ UNCHANGED <<unseen, done>>
    BY <1>1, <1>5 DEF FileFails
  <2>2. pc' = "report" /\ status' # "OK" /\ pc = "calling" /\ Len(stats) = Len(done) + 1
    BY <2>1 DEF EndCall, At, Errors, SummaryInv
  <2>3. CASE UNCHANGED <<stats, sentList, skippedList>>
    BY <2>1, <2>2, <2>3, ListsUnchanged DEF SummaryInv, Before
  <2>4. CASE OnFileComplete(Len(done) + 1, result)
    <3>1. UNCHANGED <<sentList, skippedList, done>> /\ Complete(Len(done) + 1, result)
      BY <2>1, <2>4 DEF OnFileComplete, Errors
    <3>2. Len(done) + 1 \in 1..Len(stats)
      BY <1>0, <2>2
    <3>3. /\ stats' \in Seq(Entries)
          /\ Len(stats') = Len(stats)
          /\ \A i \in 1..Len(stats) : /\ stats'[i].name = i
                                      /\ i # Len(done) + 1 => stats'[i] = stats[i]
      BY <3>1, <3>2, CompleteFinds
    <3>4. \A i \in 1..Len(done') : stats'[i].result = done'[i]
      <4>1. \A i \in 1..Len(done) : stats[i].result = done[i]
        BY DEF SummaryInv
      <4>2. \A i \in 1..Len(done) : i \in 1..Len(stats) /\ i # Len(done) + 1
        BY <1>0, <2>2
      <4> QED BY <3>1, <3>3, <4>1, <4>2
    <3>5. /\ Listed(sentList)' = Ended("OK")' /\ Len(sentList') <= Len(done')
          /\ Listed(skippedList)' = Ended("SKIPPED")' /\ Len(skippedList') <= Len(done')
      BY <3>1 DEF SummaryInv, Listed, Ended
    <3> QED BY <2>2, <3>1, <3>3, <3>4, <3>5 DEF SummaryInv, Before
  <2> QED BY <2>1, <2>3, <2>4
<1> QED BY <1>2, <1>3, <1>4, <1>5 DEF Call

LEMMA SummaryStep ==
    ASSUME SameName = FALSE
    PROVE  SummaryInv /\ [Next]_programVars => SummaryInv'
<1> SUFFICES ASSUME SummaryInv, [Next]_programVars
             PROVE  SummaryInv'
  OBVIOUS
<1>1. CASE Prepare /\ UNCHANGED <<stage, status, lock, quiet, unseen, sumVars>>
  <2>1. pc \in Before /\ pc' \in Before \cup {"returned"}
    BY <1>1 DEF Prepare, OpenPort, AllocBuffers, CreateSession, StartWatchdog, ShowWindow,
                At, Return, Before
  <2> QED BY <1>1, <2>1, ListsUnchanged DEF SummaryInv, sumVars, Before
<1>2. CASE Call
  BY <1>2, SummaryCall
<1>3. CASE CleanUp /\ UNCHANGED <<stage, status, lock, dogVars, unseen, stats, sentList,
                                  skippedList, done>>
  <2>1. pc' \notin Before \cup {"calling"}
    BY <1>3 DEF CleanUp, Report, Destroy, StopWatchdog, CloseAndFree, PrintSummary, Leave,
                At, Return, Before
  <2> QED BY <1>3, <2>1, ListsUnchanged DEF SummaryInv
<1>4. CASE Watchdog \/ Killed \/ Tick \/ UNCHANGED programVars
  <2>1. UNCHANGED <<pc, stage, status>> /\ UNCHANGED <<stats, sentList, skippedList, done>>
    BY <1>4 DEF Watchdog, Killed, Tick, programVars, mainVars, sumVars
  <2> QED BY <2>1, ListsUnchanged DEF SummaryInv
<1> QED BY <1>1, <1>2, <1>3, <1>4 DEF Next, Main

\* Whatever main prints as sent, skipped or in the details is true of the files,
\* for any number of files with different names and however the two threads are
\* scheduled
THEOREM SummaryAlwaysTrue ==
    ASSUME SameName = FALSE
    PROVE  Spec => []SummaryTrue
<1>1. SummaryInv => SummaryTrue
  <2>1. SummaryInv => Len(done) \in Nat /\ Len(stats) \in Nat
    BY DEF SummaryInv
  <2> QED BY <2>1 DEF SummaryInv, SummaryTrue, Listed, Ended
<1>2. SummaryInv /\ [Next]_programVars => SummaryInv'
  BY SummaryStep
<1> QED BY <1>1, <1>2, SummaryInit, PTL DEF Spec
=============================================================================
