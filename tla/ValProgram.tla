----------------------------- MODULE ValProgram ----------------------------
(***************************************************************************)
(* The program of val_example_send_com.c: main, which opens the serial     *)
(* port, creates a session, sends the files and cleans up, beside the      *)
(* watchdog thread, which reads the session's metrics twice a second and   *)
(* cancels a session that shows no traffic.  The two share the session,    *)
(* its recursive lock and two global variables without a lock.             *)
(*                                                                         *)
(* val_send_files holds the lock from beginning to end; inside it only     *)
(* what the program sees is kept: traffic counted in the metrics, the      *)
(* callbacks, the status.  Using a session that was destroyed is undefined *)
(* behaviour: the process dies, or the thread gets some answer and goes on.*)
(***************************************************************************)
EXTENDS Integers, Sequences

CONSTANTS
    NFiles,     \* files on the command line
    SameName,   \* TRUE: the files have the same name, in different directories
    Limit       \* the watchdog's patience (20 s), in ticks

ASSUME ProgramAssumption ==
    /\ NFiles \in Nat
    /\ SameName \in BOOLEAN
    /\ Limit \in Nat

VARIABLES
    pc,         \* where main is
    stage,      \* where val_send_files is
    heap,       \* the blocks allocated by main and the session
    port,       \* the serial port is open
    session,    \* "none", "live", "destroyed"
    lock,       \* who holds the session's lock: "none", "main", "watchdog"
    status,     \* what val_send_files returned
    exit,       \* the exit code, or NONE, or KILLED
    published,  \* g_watchdog_session_tx is set
    stop,       \* g_watchdog_stop_tx
    watchdog,   \* where the watchdog thread is
    unseen,     \* the metrics differ from the watchdog's last reading, or it has none
    quiet,      \* time since last_change_ms, up to Limit + 1
    stats,      \* sum.stats: name and result of the files started
    sentList,   \* sum.sent
    skippedList,\* sum.skipped
    done,       \* history: how the files ended, in the order of the command line
    printed     \* the summary was printed

mainVars == <<stage, heap, port, session, status, exit>>
globals == <<published, stop>>
dogVars == <<watchdog, quiet>>
sumVars == <<stats, sentList, skippedList, done, printed>>
programVars == <<pc, mainVars, lock, globals, dogVars, unseen, sumVars>>

-----------------------------------------------------------------------------
Errors == {"IO", "TIMEOUT", "ABORTED"}

\* The name the callbacks are given: the last part of the path
Name(i) == IF SameName THEN 1 ELSE i

\* Not an exit code of main: the process runs, or a signal has ended it
NONE == -1
KILLED == 256

Running == exit = NONE

Buffers == {"sendBuf", "recvBuf"}
Lists == {"sent", "skipped"}

\* Main goes on, and nothing else of it changes but what the caller says
At(here, next) == Running /\ pc = here /\ pc' = next

\* Main returns with an exit code; the other thread ends with the process
Return(here, code) == At(here, "returned") /\ exit' = code

\* A function of the library that takes the lock and gives it back at once
LockFree == lock = "none"

-----------------------------------------------------------------------------
(* main, before the transfer.                                              *)

\* serial_open: it may fail after open() and leave the descriptor behind
OpenPort ==
    \/ /\ At("open", "buffers")
       /\ port' = TRUE
       /\ UNCHANGED exit
    \/ /\ Return("open", 2)
       /\ port' \in BOOLEAN

AllocBuffers ==
    \/ /\ At("buffers", "create")
       /\ heap' = Buffers \cup Lists
       /\ UNCHANGED <<port, exit>>
    \/ /\ Return("buffers", 3)
       /\ heap' \in {{}, {"sendBuf"}, {"recvBuf"}}
       /\ port' = FALSE

\* val_session_create: a configuration it refuses or no memory, for the session or
\* for its tracking slots, leaves nothing behind
CreateSession ==
    \/ /\ At("create", "start")
       /\ session' = "live"
       /\ heap' = heap \cup {"session", "slots"}
       /\ UNCHANGED <<port, exit>>
    \/ /\ Return("create", 4)
       /\ port' = FALSE
       /\ heap' = heap \ Buffers
       /\ UNCHANGED session

\* The globals are set, then the thread starts if it can
StartWatchdog ==
    /\ At("start", "window")
    /\ published' = TRUE
    /\ stop' = FALSE
    /\ watchdog' \in {"none", "check"}

\* val_get_cwnd_packets
ShowWindow == At("window", "call") /\ LockFree

Prepare ==
    \/ OpenPort /\ UNCHANGED <<heap, session, globals, watchdog>>
    \/ AllocBuffers /\ UNCHANGED <<session, globals, watchdog>>
    \/ CreateSession /\ UNCHANGED <<globals, watchdog>>
    \/ StartWatchdog /\ UNCHANGED <<port, heap, session, exit>>
    \/ ShowWindow /\ UNCHANGED <<port, heap, session, exit, globals, watchdog>>

-----------------------------------------------------------------------------
(* val_send_files and the callbacks.                                       *)

\* on_file_start_tx
Start(name) == stats' = Append(stats, [name |-> name, result |-> "pending"])

\* tx_stats_complete: the first entry with that name
Complete(name, result) ==
    LET same == {i \in 1..Len(stats) : stats[i].name = name}
    IN  stats' = IF same = {} THEN stats
                 ELSE [stats EXCEPT ![CHOOSE i \in same : \A j \in same : i <= j].result = result]

\* tx_summary_add
AddTo(list, name) == IF Len(list) >= NFiles THEN list ELSE Append(list, name)

\* Mutant: skipped files are listed with the ones sent
OnFileCompleteMixed(name, result) ==
    /\ sentList' = IF result \in {"OK", "SKIPPED"} THEN AddTo(sentList, name) ELSE sentList
    /\ skippedList' = skippedList
    /\ Complete(name, result)

\* on_file_complete_tx
OnFileComplete(name, result) ==
    /\ sentList' = IF result = "OK" THEN AddTo(sentList, name) ELSE sentList
    /\ skippedList' = IF result = "SKIPPED" THEN AddTo(skippedList, name) ELSE skippedList
    /\ Complete(name, result)

\* The call takes the lock, and sends HELLO or fails to
BeginCall ==
    /\ At("call", "calling")
    /\ LockFree
    /\ lock' = "main"
    /\ stage' = "handshake"
    /\ UNCHANGED <<status, unseen, stats, sentList, skippedList, done>>

\* Leaving val_send_files, on every path
EndCall(result) ==
    /\ At("calling", "report")
    /\ lock' = "none"
    /\ stage' = "over"
    /\ status' = result

InCall(here, next) ==
    /\ Running
    /\ pc = "calling"
    /\ stage = here
    /\ stage' = next
    /\ UNCHANGED <<pc, lock, status>>

Greeted ==
    /\ InCall("handshake", "between")
    /\ unseen' = TRUE
    /\ UNCHANGED <<stats, sentList, skippedList, done>>

\* The next file, after metadata and resume negotiation
FileStart ==
    /\ Len(done) < NFiles
    /\ InCall("between", "file")
    /\ unseen' = TRUE
    /\ Start(Name(Len(done) + 1))
    /\ UNCHANGED <<sentList, skippedList, done>>

FileEnd ==
    \E result \in {"OK", "SKIPPED"} :
        /\ InCall("file", "between")
        /\ unseen' = TRUE
        /\ OnFileComplete(Name(Len(done) + 1), result)
        /\ done' = Append(done, result)

\* A file that fails: most paths call on_file_complete
FileFails ==
    \E result \in Errors :
        /\ stage = "file"
        /\ EndCall(result)
        /\ \/ OnFileComplete(Name(Len(done) + 1), result)
           \/ UNCHANGED <<stats, sentList, skippedList>>
        /\ UNCHANGED <<unseen, done>>

\* The handshake fails, or what comes before on_file_start, or the EOT exchange
CallFails ==
    \E result \in Errors :
        /\ stage \in {"handshake", "between"}
        /\ EndCall(result)
        /\ unseen' \in {unseen, TRUE}
        /\ UNCHANGED <<stats, sentList, skippedList, done>>

CallSucceeds ==
    /\ stage = "between"
    /\ Len(done) = NFiles
    /\ NFiles > 0
    /\ EndCall("OK")
    /\ unseen' = TRUE
    /\ UNCHANGED <<stats, sentList, skippedList, done>>

Call ==
    \/ BeginCall
    \/ Greeted
    \/ FileStart
    \/ FileEnd
    \/ FileFails
    \/ CallFails
    \/ CallSucceeds

-----------------------------------------------------------------------------
(* main, after the transfer.                                               *)

\* Mutant: the session is not destroyed
ReportOnly ==
    /\ At("report", "close")
    /\ status \in {"OK", "IO"} => LockFree

\* After success and after VAL_ERR_IO the getters and val_get_metrics take the
\* lock; val_get_last_error, after the other failures, does not
Report ==
    /\ At("report", "destroy")
    /\ status \in {"OK", "IO"} => LockFree

\* val_session_destroy does not look at the lock
Destroy ==
    /\ At("destroy", IF status = "IO" THEN "stop" ELSE "close")
    /\ session' = "destroyed"
    /\ heap' = heap \ {"session", "slots"}

\* Only after VAL_ERR_IO is the watchdog told to stop
StopWatchdog ==
    /\ At("stop", "close")
    /\ stop' = TRUE
    /\ published' = FALSE

CloseAndFree ==
    /\ At("close", IF status = "IO" THEN "leave" ELSE "print")
    /\ port' = FALSE
    /\ heap' = heap \ Buffers

\* tx_summary_print_and_free
PrintSummary ==
    /\ At("print", "leave")
    /\ printed' = TRUE
    /\ heap' = heap \ Lists

Leave == Return("leave", IF status \in {"OK", "IO"} THEN 0 ELSE 5)

CleanUp ==
    \/ Report /\ UNCHANGED <<session, heap, port, globals, printed, exit>>
    \/ Destroy /\ UNCHANGED <<port, globals, printed, exit>>
    \/ StopWatchdog /\ UNCHANGED <<session, heap, port, printed, exit>>
    \/ CloseAndFree /\ UNCHANGED <<session, globals, printed, exit>>
    \/ PrintSummary /\ UNCHANGED <<session, port, globals, exit>>
    \/ Leave /\ UNCHANGED <<session, heap, port, globals, printed>>

Main ==
    \/ /\ Prepare
       /\ UNCHANGED <<stage, status, lock, quiet, unseen, sumVars>>
    \/ /\ Call
       /\ UNCHANGED <<heap, port, session, exit, globals, dogVars, printed>>
    \/ /\ CleanUp
       /\ UNCHANGED <<stage, status, lock, dogVars, unseen, stats, sentList,
                      skippedList, done>>

-----------------------------------------------------------------------------
(* The watchdog.                                                           *)

Dog(here) == Running /\ watchdog = here

Live == session = "live"

\* while (!stop): without a session it sleeps
WatchdogCheck ==
    /\ Dog("check")
    /\ watchdog' = IF stop THEN "ended" ELSE IF published THEN "metrics" ELSE "sleep"
    /\ UNCHANGED <<lock, unseen, quiet>>

\* val_get_metrics, with the lock; a change is noted, too long without one cancels.
\* The global is read again: it may be gone by now
WatchdogMetrics ==
    /\ Dog("metrics")
    /\ IF ~published
       THEN watchdog' = "sleep" /\ UNCHANGED <<unseen, quiet>>
       ELSE /\ Live
            /\ LockFree
            /\ unseen' = FALSE
            /\ quiet' = IF unseen THEN 0 ELSE quiet
            /\ watchdog' = IF ~unseen /\ quiet > Limit THEN "cancel" ELSE "sleep"
    /\ UNCHANGED lock

\* Mutant: val_emergency_cancel does not take the lock
CancelUnlocked ==
    /\ Dog("cancel")
    /\ Live
    /\ watchdog' = "cancelling"
    /\ UNCHANGED <<lock, unseen, quiet>>

\* val_emergency_cancel: takes the lock, and keeps it for three CANCEL packets
\* with pauses in between
WatchdogCancel ==
    /\ Dog("cancel")
    /\ Live
    /\ LockFree
    /\ lock' = "watchdog"
    /\ watchdog' = "cancelling"
    /\ UNCHANGED <<unseen, quiet>>

\* Mutant: it returns with the lock held
CancelKeepsLock ==
    /\ Dog("cancelling")
    /\ Live
    /\ watchdog' = "ended"
    /\ unseen' \in {unseen, TRUE}
    /\ UNCHANGED <<lock, quiet>>

WatchdogCancelled ==
    /\ Dog("cancelling")
    /\ Live
    /\ lock' = "none"
    /\ watchdog' = "ended"
    /\ unseen' \in {unseen, TRUE}
    /\ UNCHANGED quiet

\* usleep
WatchdogWakes ==
    /\ Dog("sleep")
    /\ watchdog' = "check"
    /\ UNCHANGED <<lock, unseen, quiet>>

\* A session that is gone under the thread's hands: it comes out of the call with
\* some answer, a lock it took or waited for being no more
WatchdogAstray ==
    /\ Running
    /\ session = "destroyed"
    /\ \/ watchdog = "metrics" /\ published /\ watchdog' \in {"sleep", "cancel"}
       \/ watchdog \in {"cancel", "cancelling"} /\ watchdog' = "ended"
    /\ lock' = "none"
    /\ UNCHANGED <<unseen, quiet>>

Watchdog ==
    /\ \/ WatchdogCheck
       \/ WatchdogMetrics
       \/ WatchdogCancel
       \/ WatchdogCancelled
       \/ WatchdogWakes
       \/ WatchdogAstray
    /\ UNCHANGED <<pc, mainVars, globals, sumVars>>

\* ... or the process dies of it
Killed ==
    /\ Running
    /\ session = "destroyed"
    /\ \/ watchdog = "metrics" /\ published
       \/ watchdog \in {"cancel", "cancelling"}
    /\ exit' = KILLED
    /\ UNCHANGED <<pc, stage, heap, port, session, status, lock, globals, dogVars,
                   unseen, sumVars>>

\* Time passes
Tick ==
    /\ Running
    /\ quiet <= Limit
    /\ quiet' = quiet + 1
    /\ UNCHANGED <<pc, mainVars, lock, globals, watchdog, unseen, sumVars>>

-----------------------------------------------------------------------------
Init ==
    /\ pc = "open"
    /\ stage = "none"
    /\ heap = {}
    /\ port = FALSE
    /\ session = "none"
    /\ lock = "none"
    /\ status = "none"
    /\ exit = NONE
    /\ published = FALSE
    /\ stop = FALSE
    /\ watchdog = "none"
    /\ unseen = TRUE
    /\ quiet = 0
    /\ stats = <<>>
    /\ sentList = <<>>
    /\ skippedList = <<>>
    /\ done = <<>>
    /\ printed = FALSE

Next == Main \/ Watchdog \/ Killed \/ Tick

\* Both threads are scheduled
Fairness ==
    /\ WF_programVars(Main)
    /\ WF_programVars(Watchdog)

Spec == Init /\ [][Next]_programVars /\ Fairness

-----------------------------------------------------------------------------
(* Properties.                                                             *)

\* The watchdog never cancels a transfer that is under way: val_send_files holds
\* the lock that val_emergency_cancel needs, so that the CANCEL packets leave only
\* before the call or after it has returned
NoCancelInCall == watchdog = "cancelling" /\ Live => pc # "calling"

\* As long as the session exists, and with it every use either thread makes of it,
\* its packet buffers and the port of its transport exist
BuffersOutliveSession == Live => Buffers \subseteq heap /\ port

\* The summary that main prints is true of the transfer: in command line order,
\* the files listed as sent and as skipped are the ones that ended so, and each
\* entry of the details has the result of its own file
SummaryTrue ==
    printed =>
        LET Ended(how) == {i \in 1..Len(done) : done[i] = how}
            Listed(list) == {list[k] : k \in 1..Len(list)}
        IN  /\ Listed(sentList) = Ended("OK")
            /\ Listed(skippedList) = Ended("SKIPPED")
            /\ Len(done) <= Len(stats)
            /\ \A i \in 1..Len(done) : stats[i].result = done[i]
            /\ status = "OK" => Len(done) = NFiles /\ Len(stats) = NFiles

\* Once val_send_files has returned, or was never reached, the program comes to an
\* end: main never waits for a lock that the watchdog does not give back
ProgramEnds == <>(~Running)

-----------------------------------------------------------------------------
(* Not true of the code.                                                   *)

\* The watchdog does not touch a session that val_session_destroy has freed.  main
\* tells it to stop only after VAL_ERR_IO, and then after the session is gone
NoUseAfterDestroy == exit # KILLED

\* Exit code 0 means that every file was sent or skipped, as the message printed
\* for VAL_ERR_IO says: "Receiver closed connection after protocol completion"
ZeroMeansComplete == exit = 0 => Len(done) = NFiles
=============================================================================
