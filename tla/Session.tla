------------------------------- MODULE Session ------------------------------
(***************************************************************************)
(* The life of one run: App and main of src/main.cpp.  Three threads share *)
(* the atomics origin, finished and running, the engine under core_mutex   *)
(* and the human input queue under human_mutex: the input thread, the      *)
(* thread that renders the model's frames, and main.                       *)
(*                                                                         *)
(* A step is what a thread does between two points where another can see   *)
(* or change what they share.  Of the engine only the number of recorded   *)
(* hits, the last input time and the reason of invalidity are kept; _ is   *)
(* the blank in a reason.                                                  *)
(***************************************************************************)
EXTENDS Integers, Sequences, FiniteSets

CONSTANTS FinishTime,      \* Timeline::finish
          MaxClock,        \* bound: the last time of the clock
          MaxArrivals,     \* bound: events that arrive on the socket
          MaxCommands,     \* bound: keys pressed in the window
          HumanCapacity    \* size of human_queue, 4096 in the code

ASSUME SessionAssumption ==
    /\ FinishTime \in Nat \ {0}
    /\ MaxClock \in Nat \ {0}
    /\ {MaxArrivals, MaxCommands, HumanCapacity} \subseteq Nat

VARIABLES
    clock,                               \* monotonic_ns(), from 1
    origin, finished, running, interrupted,
    invalid_reason, records, last_input, \* the engine
    final_score,                         \* the hits counted when the run finished
    human_queue, human_overflow,
    events, commands,                    \* what the input thread has still to handle
    input, model, main,                  \* where the threads are
    report,                              \* the saved result, or NoReport
    reports,                             \* number of reports saved
    exit_code,                           \* of the process, Running before
    arrivals, keys                       \* bounded inputs so far

engineVars == <<invalid_reason, records, last_input>>
humanVars  == <<human_queue, human_overflow>>
flagVars   == <<origin, finished, final_score>>
reportVars == <<report, reports, exit_code>>

vars == <<clock, flagVars, running, interrupted, engineVars, humanVars, events, commands,
          input, model, main, reportVars, arrivals, keys>>

NoReason == ""    \* of a valid engine
NoReport == [valid |-> FALSE, completed |-> FALSE, score |-> -1]
Running  == -1
Kinds    == {"Start", "Tap", "BadLane", "Stop", "Error"}

Init ==
    /\ clock = 1
    /\ origin = 0 /\ finished = FALSE /\ running = TRUE /\ interrupted = FALSE
    /\ invalid_reason = NoReason /\ records = 0 /\ last_input = -1
    /\ final_score = 0
    /\ human_queue = <<>> /\ human_overflow = FALSE
    /\ events = <<>> /\ commands = <<>>
    /\ input = "poll" /\ model = "loop" /\ main = "loop"
    /\ report = NoReport /\ reports = 0 /\ exit_code = Running
    /\ arrivals = 0 /\ keys = 0

valid == invalid_reason = NoReason

Tick ==
    /\ clock < MaxClock
    /\ clock' = clock + 1
    /\ UNCHANGED <<flagVars, running, interrupted, engineVars, humanVars, events, commands,
                   input, model, main, reportVars, arrivals, keys>>

Signal ==
    /\ ~interrupted
    /\ interrupted' = TRUE
    /\ UNCHANGED <<clock, flagVars, running, engineVars, humanVars, events, commands,
                   input, model, main, reportVars, arrivals, keys>>

-----------------------------------------------------------------------------
(* App *)

(* Faulty: the verdict can still change after the trial. *)
invalidate_Late(reason) ==
    /\ invalid_reason' = IF valid THEN reason ELSE invalid_reason
    /\ UNCHANGED <<records, last_input>>

(* invalidate, one step under core_mutex: it spares a finished run, and the *)
(* engine keeps its first reason.                                           *)
invalidate(reason) ==
    /\ invalid_reason' = IF valid /\ ~finished THEN reason ELSE invalid_reason
    /\ UNCHANGED <<records, last_input>>

(* Faulty: a second start moves the origin. *)
start_Again(now) ==
    /\ origin' = now
    /\ UNCHANGED <<finished, final_score, engineVars>>

(* Only the first start sets the origin. *)
start(now) ==
    /\ origin' = IF origin = 0 THEN now ELSE origin
    /\ UNCHANGED <<finished, final_score, engineVars>>

(* Engine::hit: unless the run is invalid or time runs backwards a tap is   *)
(* recorded, ignored outside the stages, or finds the log full.             *)
hit(time) ==
    \/ /\ valid /\ time >= last_input
       /\ last_input' = time
       /\ \/ UNCHANGED <<records, invalid_reason>>
          \/ records' = records + 1 /\ UNCHANGED invalid_reason
          \/ invalid_reason' = "input_log_capacity_exceeded" /\ UNCHANGED records
    \/ /\ valid /\ time < last_input
       /\ invalid_reason' = "input_timestamps_went_backwards"
       /\ UNCHANGED <<records, last_input>>
    \/ ~valid /\ UNCHANGED engineVars

(* A tap in a lane the run does not have invalidates the engine itself. *)
Judge(kind, now) ==
    IF kind = "Tap" THEN hit(now - origin)
    ELSE /\ invalid_reason' = IF valid THEN "tap_outside_configured_lane_range" ELSE invalid_reason
         /\ UNCHANGED <<records, last_input>>

tap(kind, now) ==
    /\ IF origin = 0 \/ finished THEN UNCHANGED engineVars ELSE Judge(kind, now)
    /\ UNCHANGED flagVars

(* abort reads origin and finished, then invalidates, then stops the        *)
(* threads: three steps of the thread that calls it.                        *)
AbortFirst == IF origin # 0 /\ ~finished THEN "abort" ELSE "stop"

-----------------------------------------------------------------------------
(* The input thread *)

InputOnly == UNCHANGED <<clock, interrupted, model, main, reportVars, keys>>

(* poll hands over the events that arrived, stamped with their arrival; the *)
(* loop ends when running is cleared.                                       *)
InputPoll ==
    /\ input = "poll" /\ running
    /\ \E n \in 0..(MaxArrivals - arrivals) : \E kinds \in [1..n -> Kinds] :
          /\ events' = [k \in 1..n |-> [kind |-> kinds[k], time |-> clock]]
          /\ arrivals' = arrivals + n
    /\ input' = "events"
    /\ UNCHANGED <<running, flagVars, engineVars, humanVars, commands>> /\ InputOnly

InputDone ==
    /\ input = "poll" /\ ~running
    /\ input' = "done"
    /\ UNCHANGED <<running, flagVars, engineVars, humanVars, events, commands, arrivals>> /\ InputOnly

(* The callback of poll, for one event. *)
InputEvent ==
    /\ input = "events" /\ events # <<>>
    /\ LET event == Head(events)
       IN  /\ CASE event.kind = "Start" -> start(event.time)
                [] event.kind \in {"Tap", "BadLane"} -> tap(event.kind, event.time)
                [] event.kind = "Error" -> invalidate("transport_error") /\ UNCHANGED flagVars
                [] OTHER -> UNCHANGED <<flagVars, engineVars>>
           /\ input' = IF event.kind = "Stop" THEN AbortFirst ELSE "events"
    /\ events' = Tail(events)
    /\ UNCHANGED <<running, humanVars, commands, arrivals>> /\ InputOnly

InputAbort ==
    /\ input = "abort"
    /\ invalidate("external_STOP_before_completion")
    /\ input' = "stop"
    /\ UNCHANGED <<running, flagVars, humanVars, events, commands, arrivals>> /\ InputOnly

InputStop ==
    /\ input = "stop"
    /\ running' = FALSE
    /\ input' = "events"
    /\ UNCHANGED <<flagVars, engineVars, humanVars, events, commands, arrivals>> /\ InputOnly

(* The human queue is emptied, then an overflow of it is dealt with. *)
InputTakeCommands ==
    /\ input = "events" /\ events = <<>>
    /\ commands' = human_queue /\ human_queue' = <<>>
    /\ input' = "overflow"
    /\ UNCHANGED <<running, flagVars, engineVars, human_overflow, events, arrivals>> /\ InputOnly

InputOverflow ==
    /\ input = "overflow"
    /\ human_overflow' = FALSE
    /\ IF human_overflow THEN invalidate("human_input_queue_overflow") ELSE UNCHANGED engineVars
    /\ input' = "commands"
    /\ UNCHANGED <<running, flagVars, human_queue, events, commands, arrivals>> /\ InputOnly

InputCommand ==
    /\ input = "commands" /\ commands # <<>>
    /\ IF Head(commands) = "Start" THEN start(clock) ELSE tap("Tap", clock)
    /\ commands' = Tail(commands)
    /\ UNCHANGED <<running, humanVars, input, events, arrivals>> /\ InputOnly

(* Faulty: the score is taken before the lock that sets finished. *)
InputFinish_NoScore ==
    /\ input = "commands" /\ commands = <<>>
    /\ finished' = (finished \/ (origin # 0 /\ clock - origin >= FinishTime))
    /\ input' = "poll"
    /\ UNCHANGED <<running, origin, final_score, engineVars, humanVars, events, commands, arrivals>>
    /\ InputOnly

(* The end of the trial: score and finished are set under core_mutex. *)
InputFinish ==
    /\ input = "commands" /\ commands = <<>>
    /\ IF origin # 0 /\ ~finished /\ clock - origin >= FinishTime
       THEN finished' = TRUE /\ final_score' = records
       ELSE UNCHANGED <<finished, final_score>>
    /\ input' = "poll"
    /\ UNCHANGED <<running, origin, engineVars, humanVars, events, commands, arrivals>> /\ InputOnly

(* poll throws: the worker aborts the run and ends. *)
InputThrows ==
    /\ input = "poll" /\ running
    /\ input' = IF AbortFirst = "abort" THEN "throwing" ELSE "dying"
    /\ UNCHANGED <<running, flagVars, engineVars, humanVars, events, commands, arrivals>> /\ InputOnly

InputThrowing ==
    /\ input = "throwing"
    /\ invalidate("input_worker")
    /\ input' = "dying"
    /\ UNCHANGED <<running, flagVars, humanVars, events, commands, arrivals>> /\ InputOnly

InputDies ==
    /\ input = "dying"
    /\ running' = FALSE
    /\ input' = "done"
    /\ UNCHANGED <<flagVars, engineVars, humanVars, events, commands, arrivals>> /\ InputOnly

Input ==
    \/ InputPoll \/ InputDone \/ InputEvent \/ InputAbort \/ InputStop
    \/ InputTakeCommands \/ InputOverflow \/ InputCommand \/ InputFinish
    \/ InputThrows \/ InputThrowing \/ InputDies

-----------------------------------------------------------------------------
(* The thread that renders and publishes: all that matters here is how it   *)
(* ends.                                                                    *)

ModelOnly == UNCHANGED <<clock, interrupted, flagVars, records, last_input, humanVars, events,
                         commands, input, main, reportVars, arrivals, keys>>

ModelDone  == /\ model = "loop" /\ ~running /\ model' = "done"
              /\ UNCHANGED <<running, invalid_reason>> /\ ModelOnly

ModelThrows == /\ model = "loop" /\ running /\ model' = AbortFirst
               /\ UNCHANGED <<running, invalid_reason>> /\ ModelOnly

ModelAbort == /\ model = "abort" /\ invalidate("model_frame_worker") /\ model' = "stop"
              /\ UNCHANGED running /\ ModelOnly

ModelStop  == /\ model = "stop" /\ running' = FALSE /\ model' = "done"
              /\ UNCHANGED invalid_reason /\ ModelOnly

Model == ModelDone \/ ModelThrows \/ ModelAbort \/ ModelStop

-----------------------------------------------------------------------------
(* main *)

MainOnly == UNCHANGED <<clock, interrupted, flagVars, events, commands, input, model, arrivals>>

(* A turn of main's loop starts at "loop" and handles keys at "events".     *)
MainTurn ==
    /\ main = "loop" /\ running /\ ~interrupted
    /\ main' = "events"
    /\ UNCHANGED <<running, engineVars, humanVars, reportVars, keys>> /\ MainOnly

MainInterrupted ==
    /\ main = "loop" /\ running /\ interrupted
    /\ main' = IF AbortFirst = "abort" THEN "interrupt" ELSE "leave"
    /\ UNCHANGED <<running, engineVars, humanVars, reportVars, keys>> /\ MainOnly

MainInterrupt ==
    /\ main = "interrupt"
    /\ invalidate("interrupted_by_signal")
    /\ main' = "leave"
    /\ UNCHANGED <<running, humanVars, reportVars, keys>> /\ MainOnly

(* Faulty: nobody tells the other threads. *)
MainLeave_Silent ==
    /\ main = "leave" \/ (main = "loop" /\ ~running)
    /\ main' = "join"
    /\ UNCHANGED <<running, engineVars, humanVars, reportVars, keys>> /\ MainOnly

(* The last store of abort, and the one after the loop. *)
MainLeave ==
    /\ main = "leave" \/ (main = "loop" /\ ~running)
    /\ running' = FALSE
    /\ main' = "join"
    /\ UNCHANGED <<engineVars, humanVars, reportVars, keys>> /\ MainOnly

enqueue(command) ==
    IF Len(human_queue) = HumanCapacity
    THEN human_overflow' = TRUE /\ UNCHANGED human_queue
    ELSE human_queue' = Append(human_queue, command) /\ UNCHANGED human_overflow

MainKey ==
    /\ main = "events" /\ keys < MaxCommands
    /\ keys' = keys + 1
    /\ \E command \in {"Start", "Tap"} : enqueue(command)
    /\ UNCHANGED <<running, main, engineVars, reportVars>> /\ MainOnly

(* Escape, or the window is closed: abort, then on with the turn. *)
MainEscape ==
    /\ main = "events" /\ keys < MaxCommands
    /\ keys' = keys + 1
    /\ main' = AbortFirst
    /\ UNCHANGED <<running, engineVars, humanVars, reportVars>> /\ MainOnly

MainAbort ==
    /\ main = "abort"
    /\ invalidate("Escape_before_completion")
    /\ main' = "stop"
    /\ UNCHANGED <<running, humanVars, reportVars, keys>> /\ MainOnly

MainStop ==
    /\ main = "stop"
    /\ running' = FALSE
    /\ main' = "events"
    /\ UNCHANGED <<engineVars, humanVars, reportVars, keys>> /\ MainOnly

(* save_results reads the engine and finished under core_mutex. *)
Save == /\ report' = [valid |-> valid /\ finished, completed |-> finished, score |-> records]
        /\ reports' = reports + 1

SaveDue == finished /\ reports = 0

MainSave ==
    /\ main = "events" /\ SaveDue
    /\ Save
    /\ main' = "loop"
    /\ UNCHANGED <<running, exit_code, engineVars, humanVars, keys>> /\ MainOnly

(* Nothing to save; CHERS_EXIT_AFTER_RUN ends the loop once a report is out.*)
MainTurnEnds ==
    /\ main = "events" /\ ~SaveDue
    /\ \/ UNCHANGED running
       \/ reports > 0 /\ running' = FALSE
    /\ main' = "loop"
    /\ UNCHANGED <<engineVars, humanVars, reportVars, keys>> /\ MainOnly

Joined == main = "join" /\ input = "done" /\ model = "done"

MainFinalInvalidate ==
    /\ Joined /\ origin # 0 /\ reports = 0
    /\ invalidate("run_did_not_complete")
    /\ main' = "finalsave"
    /\ UNCHANGED <<running, humanVars, reportVars, keys>> /\ MainOnly

MainFinalSave ==
    /\ main = "finalsave"
    /\ Save
    /\ main' = "exit"
    /\ UNCHANGED <<running, exit_code, engineVars, humanVars, keys>> /\ MainOnly

MainNothingToSave ==
    /\ Joined /\ ~(origin # 0 /\ reports = 0)
    /\ main' = "exit"
    /\ UNCHANGED <<running, engineVars, humanVars, reportVars, keys>> /\ MainOnly

(* Faulty: the exit code looks at the verdict alone. *)
ExitCode_AnyValid == IF valid THEN 0 ELSE 2

ExitCode == IF valid /\ finished THEN 0 ELSE 2

MainExit ==
    /\ main = "exit"
    /\ exit_code' = ExitCode
    /\ main' = "done"
    /\ UNCHANGED <<running, engineVars, humanVars, report, reports, keys>> /\ MainOnly

(* The display or saving throws, before the report is complete or after:    *)
(* StopGuard clears running, the threads are joined, the process ends       *)
(* with 1.                                                                  *)
MainThrows ==
    /\ \/ main = "events" /\ UNCHANGED <<report, reports>>
       \/ main = "events" /\ SaveDue /\ Save
       \/ main = "finalsave" /\ (Save \/ UNCHANGED <<report, reports>>)
    /\ running' = FALSE
    /\ main' = "failed"
    /\ UNCHANGED <<exit_code, engineVars, humanVars, keys>> /\ MainOnly

MainFailed ==
    /\ main = "failed" /\ input = "done" /\ model = "done"
    /\ exit_code' = 1
    /\ main' = "done"
    /\ UNCHANGED <<running, engineVars, humanVars, report, reports, keys>> /\ MainOnly

Main ==
    \/ MainTurn \/ MainInterrupted \/ MainInterrupt \/ MainLeave \/ MainKey \/ MainEscape
    \/ MainAbort \/ MainStop \/ MainSave \/ MainTurnEnds
    \/ MainFinalInvalidate \/ MainFinalSave \/ MainNothingToSave \/ MainExit
    \/ MainThrows \/ MainFailed

(* The process is gone. *)
Exited == main = "done" /\ UNCHANGED vars

Next == Tick \/ Signal \/ Input \/ Model \/ Main \/ Exited

Spec == Init /\ [][Next]_vars

(* Every thread goes on with what it is doing; no thread has to fail.       *)
Fairness ==
    /\ WF_vars(Input)
    /\ WF_vars(ModelDone) /\ WF_vars(ModelAbort) /\ WF_vars(ModelStop)
    /\ WF_vars(Main)

FairSpec == Spec /\ Fairness

-----------------------------------------------------------------------------
(* Properties. *)

(* docs/ARCHITECTURE.md: the verdict freezes when the trial completes.  No  *)
(* thread changes it or the log afterwards: not a late tap, nor an abort    *)
(* that looked at finished before the trial completed and acts after it.    *)
VerdictFrozen == [][finished => UNCHANGED <<invalid_reason, records, final_score>>]_vars

(* The exit code agrees with the report on disk: 0 only with a valid,       *)
(* completed report, 2 never with a valid one.  A run that was started      *)
(* leaves one report, whatever ended it, unless the process failed.  The    *)
(* score of a completed report, counted when it is saved, is the one the    *)
(* window shows, counted when the trial completed.                          *)
ExitMatchesReport ==
    /\ reports <= (IF origin = 0 THEN 0 ELSE 1)
    /\ exit_code \in {0, 2} /\ origin # 0 => reports = 1
    /\ exit_code = 0 => report.valid /\ report.completed
    /\ exit_code = 2 => ~report.valid
    /\ report.completed => report.score = final_score

(* Taps of the socket and of the keyboard, each with its own time stamp,    *)
(* reach the engine in the order of time: no legal run is invalidated for   *)
(* input that went backwards, even when a tap precedes the start.           *)
NoBackwards == invalid_reason # "input_timestamps_went_backwards" /\ last_input >= -1

(* A completed trial is reported, or the process fails.                     *)
CompletedIsReported == finished ~> reports = 1 \/ exit_code = 1
=============================================================================
