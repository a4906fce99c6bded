-------------------------------- MODULE Trial -------------------------------
(***************************************************************************)
(* run_trial of tools/run_codex_evaluations.py, several trials one after   *)
(* the other over one AppServer.  The game and the bridge are other        *)
(* programs here: the game exits, the bridge fails (VisionBridge has the   *)
(* inside of it).  What raises is an Exception; a KeyboardInterrupt, which *)
(* ends the campaign too, is a step of Campaign.                           *)
(*                                                                         *)
(* elapsed stands for the clock: "before" START and "expired" after 120 s  *)
(* without it, "trial" for the 61.04 s after START, "over" for the next    *)
(* five seconds, then "overdue".                                           *)
(***************************************************************************)
EXTENDS AppServer

CONSTANT MaxTrials      \* bound: trials run

ASSUME TrialAssumption == MaxTrials \in Nat \ {0}

VARIABLES
    phase,             \* where run_trial is
    trials,            \* trials begun
    tid, turn_id,      \* numbers of the thread and of its turn, 0 for None
    game, game_exit,   \* "none", "running" or "exited"; the exit code
    result,            \* result.json: "none", "valid" or "invalid"
    bridge,            \* "none", "open", "closed" or "stuck"
    bridge_error,
    elapsed,
    starts,            \* START keys pressed
    last_return,       \* return time of the last observation, 0 before one
    tool,              \* the tool call being handled
    model_errors, status, publishable,
    cleanup_errors,    \* what the finally block could not close or stop
    answers,           \* threads that tool calls came from and were answered for, as [thread, for]
    lost               \* threads that a call about them raised for, 0 for one not opened

gameVars   == <<game, game_exit, result>>
bridgeVars == <<bridge, bridge_error, starts>>
idVars     == <<tid, turn_id>>
reportVars == <<model_errors, status, publishable>>
toolVars   == <<last_return, tool, answers>>

vars == <<serverVars, phase, trials, idVars, gameVars, bridgeVars, elapsed, toolVars,
          reportVars, cleanup_errors, lost>>

Init ==
    /\ ServerInit
    /\ phase = "done" /\ trials = 0
    /\ tid = 0 /\ turn_id = 0
    /\ game = "none" /\ game_exit = -1 /\ result = "none"
    /\ bridge = "none" /\ bridge_error = FALSE /\ elapsed = "before" /\ starts = 0
    /\ last_return = 0 /\ tool = NoMessage /\ answers = {}
    /\ model_errors = FALSE /\ status = "setup" /\ publishable = FALSE
    /\ cleanup_errors = {} /\ lost = {}

-----------------------------------------------------------------------------
(* The world around the trial. *)

ServerProcess ==
    /\ Process
    /\ UNCHANGED <<phase, trials, cleanup_errors, idVars, gameVars, bridgeVars, elapsed,
                   toolVars, reportVars, lost>>

(* The game ends, with 0 only when the started trial is over and valid; it  *)
(* may fail after it has saved such a result.  1 stands for any other code. *)
GameEnds ==
    /\ game' = "exited"
    /\ \/ /\ starts > 0 /\ elapsed \in {"over", "overdue"}
          /\ game_exit' \in {0, 1} /\ result' = "valid"
       \/ game_exit' = 1 /\ result' \in {"none", "invalid"}

GameExits ==
    /\ game = "running" /\ GameEnds
    /\ UNCHANGED <<serverVars, phase, trials, cleanup_errors, idVars, bridgeVars,
                   elapsed, toolVars, reportVars, lost>>

BridgeFails ==
    /\ bridge = "open" /\ ~bridge_error
    /\ bridge_error' = TRUE
    /\ UNCHANGED <<serverVars, phase, trials, cleanup_errors, idVars, gameVars, bridge,
                   starts, elapsed, toolVars, reportVars, lost>>

TimePasses ==
    /\ phase # "done"
    /\ \/ elapsed = "before" /\ elapsed' = "expired"
       \/ elapsed = "trial"  /\ elapsed' = "over"
       \/ elapsed = "over"   /\ elapsed' = "overdue"
    /\ UNCHANGED <<serverVars, phase, trials, cleanup_errors, idVars, gameVars,
                   bridgeVars, toolVars, reportVars, lost>>

-----------------------------------------------------------------------------
(* Setting up.  Raises is an exception in the body: the finally block runs. *)

Raises ==
    /\ status' = "failed"
    /\ phase' = "cleanup"
    /\ UNCHANGED <<model_errors, publishable>>

CallFails == /\ CallRaises \/ CallBreaks
             /\ lost' = lost \cup {tid}

Begin ==
    /\ phase = "done" /\ trials < MaxTrials
    /\ trials' = trials + 1
    /\ tid' = 0 /\ turn_id' = 0
    /\ game' = "none" /\ game_exit' = -1 /\ result' = "none"
    /\ bridge' = "none" /\ bridge_error' = FALSE /\ elapsed' = "before" /\ starts' = 0
    /\ last_return' = 0 /\ tool' = NoMessage
    /\ model_errors' = FALSE /\ publishable' = FALSE /\ cleanup_errors' = {}
    /\ \/ CallBegins("thread/start", 0, 0) /\ phase' = "thread" /\ status' = "setup"
          /\ UNCHANGED lost
       \/ CallBreaks /\ phase' = "cleanup" /\ status' = "failed" /\ lost' = lost \cup {0}
    /\ UNCHANGED answers

(* call goes on deferring whatever phase waits for it. *)
Deferring ==
    /\ CallDefers
    /\ UNCHANGED <<phase, trials, cleanup_errors, idVars, gameVars, bridgeVars, elapsed,
                   toolVars, reportVars, lost>>

ThreadStarted ==
    /\ phase = "thread"
    /\ \/ /\ CallReturns
          /\ tid' = calling
          /\ phase' = "launch"
          /\ UNCHANGED <<reportVars, lost>>
       \/ CallReturns /\ Raises /\ UNCHANGED <<tid, lost>>    \* another model answered
       \/ CallFails /\ Raises /\ UNCHANGED tid
    /\ UNCHANGED <<trials, cleanup_errors, turn_id, gameVars, bridgeVars, elapsed,
                   toolVars>>

(* The game or its window cannot be had, or the bridge cannot be built. *)
LaunchFails ==
    /\ phase = "launch"
    /\ game' \in {"none", "running"}
    /\ Raises
    /\ UNCHANGED <<serverVars, trials, cleanup_errors, idVars, game_exit, result,
                   bridgeVars, elapsed, toolVars, lost>>

Launch ==
    /\ phase = "launch"
    /\ game' = "running" /\ bridge' = "open"
    /\ \/ /\ CallBegins("turn/start", tid, 0)
          /\ phase' = "turn" /\ UNCHANGED <<reportVars, lost>>
       \/ CallBreaks /\ Raises /\ lost' = lost \cup {tid}
    /\ UNCHANGED <<trials, cleanup_errors, idVars, game_exit, result, bridge_error,
                   starts, elapsed, toolVars>>

(* Faulty: the number of a further turn is not kept. *)
TurnStarted_First ==
    /\ phase \in {"turn", "follow"}
    /\ \/ /\ CallReturns
          /\ turn_id' = IF phase = "turn" THEN calling ELSE turn_id
          /\ status' = IF phase = "turn" THEN "waiting_for_start" ELSE status
          /\ phase' = "loop"
          /\ UNCHANGED <<model_errors, publishable, lost>>
       \/ CallFails /\ Raises /\ UNCHANGED turn_id
    /\ UNCHANGED <<trials, cleanup_errors, tid, gameVars, bridgeVars, elapsed,
                   toolVars>>

(* turn/start answered, for the first turn and for the ones that follow. *)
TurnStarted ==
    /\ phase \in {"turn", "follow"}
    /\ \/ /\ CallReturns
          /\ turn_id' = calling
          /\ status' = IF phase = "turn" THEN "waiting_for_start" ELSE status
          /\ phase' = "loop"
          /\ UNCHANGED <<model_errors, publishable, lost>>
       \/ CallFails /\ Raises /\ UNCHANGED turn_id
    /\ UNCHANGED <<trials, cleanup_errors, tid, gameVars, bridgeVars, elapsed,
                   toolVars>>

-----------------------------------------------------------------------------
(* The loop. *)

LoopOnly == UNCHANGED <<trials, cleanup_errors, idVars, gameVars, bridge, bridge_error>>

BridgeSpoils == bridge_error /\ elapsed \in {"before", "expired", "trial"}

(* Faulty: only a game that was started has a deadline. *)
Late_Started == elapsed = "overdue"

Late == elapsed \in {"expired", "overdue"}

(* Faulty: errors of the model do not count. *)
Outcome_IgnoresErrors == IF game_exit = 0 THEN "completed" ELSE "failed"

Outcome == IF game_exit = 0 /\ ~model_errors THEN "completed" ELSE "failed"

LoopTop ==
    /\ phase = "loop"
    /\ \/ /\ game = "exited"
          /\ status' = Outcome /\ phase' = "cleanup" /\ UNCHANGED <<model_errors, publishable>>
       \/ game # "exited" /\ (BridgeSpoils \/ Late) /\ Raises
       \/ game # "exited" /\ ~BridgeSpoils /\ ~Late /\ phase' = "receive" /\ UNCHANGED reportVars
    /\ UNCHANGED <<serverVars, starts, elapsed, toolVars, lost>> /\ LoopOnly

(* receive finds the queue empty for 0.1 s. *)
LoopEmpty ==
    /\ phase = "receive" /\ messages = <<>>
    /\ phase' = "loop"
    /\ UNCHANGED <<serverVars, starts, elapsed, toolVars, reportVars, lost>> /\ LoopOnly

IsMine(m) == m.thread = tid

(* A message of another thread or of none, or an answer that comes late. *)
LoopForeign ==
    /\ phase = "receive" /\ Receives
    /\ Head1.kind # "closed" /\ ~IsMine(Head1)
    /\ phase' = "loop"
    /\ UNCHANGED <<starts, elapsed, toolVars, reportVars, lost>> /\ LoopOnly

LoopRaises ==
    /\ phase = "receive" /\ Receives
    /\ Head1.kind = "closed" \/ (IsMine(Head1) /\ Head1.kind \in {"request", "turn_failed"})
    /\ Raises
    /\ UNCHANGED <<starts, elapsed, toolVars, lost>> /\ LoopOnly

LoopModelError ==
    /\ phase = "receive" /\ Receives /\ IsMine(Head1)
    /\ Head1.kind = "error"
    /\ model_errors' = TRUE
    /\ phase' = "loop"
    /\ UNCHANGED <<starts, elapsed, toolVars, status, publishable, lost>> /\ LoopOnly

(* A completed turn of a game that runs is followed by another. *)
LoopTurnCompleted ==
    /\ phase = "receive" /\ messages # <<>> /\ IsMine(Head1)
    /\ Head1.kind = "turn_completed"
    /\ \/ /\ game = "running" /\ ReceivesAndCalls(tid)
          /\ \/ calling' # NoCall /\ phase' = "follow" /\ UNCHANGED <<reportVars, lost>>
             \/ calling' = NoCall /\ Raises /\ lost' = lost \cup {tid}
       \/ game = "exited" /\ Receives /\ phase' = "loop" /\ UNCHANGED <<reportVars, lost>>
    /\ UNCHANGED <<starts, elapsed, toolVars>> /\ LoopOnly

-----------------------------------------------------------------------------
(* chers_step *)

(* Arguments of no use; a call made before the last image was returned; or  *)
(* taps before START.                                                       *)
Invalid(m) ==
    \/ m.kind = "tool_bad"
    \/ m.received <= last_return
    \/ starts = 0 /\ m.kind = "tool_taps"

(* respond, which fails when the process has ended. *)
Respond(m, next) ==
    \/ /\ answers' = answers \cup {[thread |-> m.thread, for |-> tid]}
       /\ phase' = next /\ UNCHANGED reportVars
    \/ process = "ended" /\ Raises /\ UNCHANGED answers

ToolInvalid ==
    /\ phase = "receive" /\ Receives /\ IsMine(Head1)
    /\ IsTool(Head1) /\ Invalid(Head1)
    /\ Respond(Head1, "loop")
    /\ UNCHANGED <<last_return, tool, starts, elapsed, lost>> /\ LoopOnly

StartDue == starts = 0

(* START, or the taps submitted; the bridge may have failed. *)
ToolActs ==
    /\ phase = "receive" /\ Receives /\ IsMine(Head1)
    /\ IsTool(Head1) /\ ~Invalid(Head1)
    /\ \/ /\ bridge_error
          /\ Raises /\ UNCHANGED <<starts, elapsed, tool>>
       \/ /\ ~bridge_error
          /\ tool' = Head1
          /\ starts' = IF StartDue THEN starts + 1 ELSE starts
          /\ elapsed' = IF StartDue THEN "trial" ELSE elapsed
          /\ status' = IF StartDue THEN "running" ELSE status
          /\ phase' = "observe"
          /\ UNCHANGED <<model_errors, publishable>>
    /\ UNCHANGED <<last_return, answers, lost>> /\ LoopOnly

(* observe returns an image, which is sent; or times out, or the bridge has *)
(* failed, and the call stays without an answer.                            *)
ToolObserves ==
    /\ phase = "observe"
    /\ \/ /\ ~bridge_error
          /\ last_return' = arrived
          /\ Respond(tool, "return")
       \/ Raises /\ UNCHANGED <<last_return, answers>>
    /\ tool' = NoMessage
    /\ UNCHANGED <<serverVars, starts, elapsed, lost>> /\ LoopOnly

(* The return is stamped again; a call that has already come is too early.  *)
ToolReturned ==
    /\ phase = "return"
    /\ last_return' = arrived
    /\ phase' = "loop"
    /\ UNCHANGED <<serverVars, starts, elapsed, tool, answers, reportVars, lost>>
    /\ LoopOnly

-----------------------------------------------------------------------------
(* finally *)

Cleanup ==
    /\ phase = "cleanup"
    /\ \/ /\ turn_id # 0
          /\ \/ CallBegins("turn/interrupt", tid, turn_id) /\ phase' = "interrupt"
                /\ UNCHANGED lost
             \/ CallBreaks /\ phase' = "close" /\ lost' = lost \cup {tid}
       \/ turn_id = 0 /\ phase' = "close" /\ UNCHANGED <<serverVars, lost>>
    /\ UNCHANGED <<trials, cleanup_errors, idVars, gameVars, bridgeVars, elapsed,
                   toolVars, reportVars>>

Interrupted ==
    /\ phase = "interrupt"
    /\ \/ CallReturns /\ UNCHANGED lost
       \/ CallFails
    /\ phase' = "close"
    /\ UNCHANGED <<trials, cleanup_errors, idVars, gameVars, bridgeVars, elapsed,
                   toolVars, reportVars>>

(* close gives up, or the evidence cannot be exported. *)
CloseBridge ==
    /\ phase = "close"
    /\ \/ bridge = "none" /\ UNCHANGED <<bridge, status, cleanup_errors>>
       \/ bridge = "open" /\ bridge' = "closed" /\ UNCHANGED <<status, cleanup_errors>>
       \/ /\ bridge = "open" /\ bridge' \in {"closed", "stuck"}
          /\ status' = "failed" /\ cleanup_errors' = cleanup_errors \cup {"bridge"}
    /\ phase' = "stop"
    /\ UNCHANGED <<serverVars, trials, idVars, gameVars, bridge_error, starts, elapsed,
                   toolVars, model_errors, publishable, lost>>

(* Faulty: only a started game is stopped. *)
MustStop_Started == game = "running" /\ starts > 0

MustStop == game = "running"

(* terminate, and kill after five seconds; the game may save a result.  One *)
(* of them may raise: the game then goes on, or ends later.                 *)
StopGame ==
    /\ phase = "stop"
    /\ \/ MustStop /\ GameEnds /\ UNCHANGED cleanup_errors
       \/ MustStop /\ cleanup_errors' = cleanup_errors \cup {"game"} /\ UNCHANGED gameVars
       \/ ~MustStop /\ UNCHANGED <<gameVars, cleanup_errors>>
    /\ phase' = "results"
    /\ UNCHANGED <<serverVars, trials, idVars, bridgeVars, elapsed, toolVars,
                   reportVars, lost>>

(* The verifier is asked about the one result there is. *)
Results ==
    /\ phase = "results"
    /\ \E verification_passed \in BOOLEAN :
          publishable' = (status = "completed" /\ verification_passed /\ result = "valid")
    /\ phase' = "done"
    /\ UNCHANGED <<serverVars, trials, cleanup_errors, idVars, gameVars, bridgeVars,
                   elapsed, toolVars, model_errors, status, lost>>

-----------------------------------------------------------------------------
Loop == \/ LoopTop \/ LoopEmpty \/ LoopForeign \/ LoopRaises \/ LoopModelError
        \/ LoopTurnCompleted

Step == ToolInvalid \/ ToolActs \/ ToolObserves \/ ToolReturned

Setup == ThreadStarted \/ LaunchFails \/ Launch \/ TurnStarted \/ Deferring

Finally == Cleanup \/ Interrupted \/ CloseBridge \/ StopGame \/ Results

World == ServerProcess \/ GameExits \/ BridgeFails \/ TimePasses

Next == World \/ Begin \/ Setup \/ Loop \/ Step \/ Finally

Spec == Init /\ [][Next]_vars

(* The supervisor goes on, its calls have deadlines, and so has the trial.  *)
Fairness == WF_vars(Setup) /\ WF_vars(Loop) /\ WF_vars(Step) /\ WF_vars(Finally)
            /\ WF_vars(TimePasses)

FairSpec == Spec /\ Fairness

-----------------------------------------------------------------------------
(* Properties. *)

(* A trial is publishable only if the whole of it was good: the model       *)
(* pressed START, the game ended by itself with a valid result, the model   *)
(* had no error, and the bridge was closed with its evidence written.       *)
PublishedIsSound ==
    publishable =>
        /\ starts = 1 /\ game = "exited" /\ game_exit = 0 /\ result = "valid"
        /\ ~model_errors
        /\ bridge = "closed"

(* Nothing is left running behind the report's back: when a trial is over,  *)
(* a game still runs, or the bridge is not closed, only if stopping it has  *)
(* raised; the report then says so, and the trial is not completed.         *)
NothingLeftRunning ==
    phase = "done" =>
        /\ game = "running" => "game" \in cleanup_errors /\ status = "failed"
        /\ bridge \notin {"none", "closed"} => "bridge" \in cleanup_errors /\ status = "failed"

(* The trial is a client of the server as Client has it: it never answers   *)
(* what another thread asked, it keeps the number of its last turn, and     *)
(* whatever raises, it interrupts that turn.  Campaign shows what this is   *)
(* worth to the trials that come after it.                                  *)
Contract == INSTANCE Client WITH
    over  <- FALSE,
    stage <- CASE phase \in {"done", "close", "stop", "results"} -> "done"
               [] phase = "launch" -> "ready"
               [] phase \in {"receive", "observe", "return"} -> "loop"
               [] phase = "cleanup" -> "leaving"
               [] OTHER -> phase

ImplementsClient == Contract!Spec

(* Every trial comes to its end, whatever the server, the game and the      *)
(* bridge do.                                                               *)
TrialEnds == phase # "done" ~> phase = "done"
=============================================================================
