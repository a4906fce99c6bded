----------------------------- MODULE TrialProofs ----------------------------
(***************************************************************************)
(* PublishedIsSound, NothingLeftRunning and ImplementsClient for Trial,    *)
(* for any number of trials and any messages.                              *)
(***************************************************************************)
EXTENDS Trial, TLAPS

Body    == {"turn", "follow", "loop", "receive", "observe", "return"}
Ending  == {"cleanup", "interrupt", "close"}
Phases  == {"done", "thread", "launch", "stop", "results"} \cup Body \cup Ending

Types ==
    /\ phase \in Phases
    /\ game \in {"none", "running", "exited"} /\ game_exit \in Int
    /\ bridge \in {"none", "open", "closed", "stuck"}
    /\ starts \in {0, 1}

(* A message is worked on only while an image is waited for. *)
OneTool ==
    /\ phase = "observe" => IsTool(tool)
    /\ phase # "observe" => tool = NoMessage

(* A game that has exited with 0 was started and is over. *)
GoodExit == game_exit = 0 => game = "exited" /\ result = "valid" /\ starts = 1

(* The bridge is open in the body, and closed in the finally block.         *)
BridgeKept ==
    /\ phase \in Body => bridge = "open"
    /\ phase \in {"thread", "launch"} => bridge = "none"
    /\ phase \in Ending => bridge \in {"none", "open"}
    /\ phase \in {"stop", "results", "done"} =>
          bridge \in {"none", "closed"} \/ ("bridge" \in cleanup_errors /\ status = "failed")

(* Who leaves the body while the game runs has failed. *)
GameStopped ==
    /\ phase \in {"thread", "launch"} => game = "none"
    /\ game = "running" /\ phase \in Ending \cup {"stop", "results", "done"} =>
          status = "failed"
    /\ game = "running" /\ phase \in {"results", "done"} => "game" \in cleanup_errors

(* Only a good exit completes a trial; nothing but the bridge can spoil it  *)
(* afterwards.                                                              *)
Completed == status = "completed" =>
    /\ game_exit = 0 /\ ~model_errors
    /\ phase \in Ending \cup {"stop", "results", "done"}
    /\ phase \in Ending => bridge = "open"
    /\ phase \in {"stop", "results", "done"} => bridge = "closed"

Published == publishable => phase = "done" /\ status = "completed"

TInv == Types /\ OneTool /\ GoodExit /\ BridgeKept /\ GameStopped /\ Completed /\ Published

-----------------------------------------------------------------------------
(* A step keeps the invariant. *)
LEMMA NextTInv == TInv /\ [Next]_vars => TInv'
<1> SUFFICES ASSUME TInv, [Next]_vars PROVE TInv'
  OBVIOUS
<1>1. CASE World
  <2>1. CASE ServerProcess
    BY <2>1 DEF ServerProcess, TInv, Types, OneTool, GoodExit, BridgeKept, GameStopped,
       Completed, Published, gameVars, bridgeVars, reportVars, toolVars
  <2>2. CASE GameExits
    BY <2>2 DEF GameExits, GameEnds, TInv, Types, OneTool, GoodExit, BridgeKept, GameStopped,
       Completed, Published, bridgeVars, reportVars, toolVars
  <2>3. CASE BridgeFails
    BY <2>3 DEF BridgeFails, TInv, Types, OneTool, GoodExit, BridgeKept, GameStopped,
       Completed, Published, gameVars, reportVars, toolVars
  <2>4. CASE TimePasses
    BY <2>4 DEF TimePasses, TInv, Types, OneTool, GoodExit, BridgeKept, GameStopped,
       Completed, Published, gameVars, bridgeVars, reportVars, toolVars
  <2>5. QED
    BY <1>1, <2>1, <2>2, <2>3, <2>4 DEF World
<1>2. CASE Begin
  BY <1>2 DEF Begin, TInv, Types, OneTool, GoodExit, BridgeKept, GameStopped, Completed,
     Published, Phases, Body, Ending
<1>3. CASE Setup
  <2>1. CASE ThreadStarted
    BY <2>1 DEF ThreadStarted, Raises, TInv, Types, OneTool, GoodExit, BridgeKept,
       GameStopped, Completed, Published, Phases, Body, Ending, gameVars, bridgeVars,
       reportVars, toolVars
  <2>2. CASE LaunchFails
    BY <2>2 DEF LaunchFails, Raises, TInv, Types, OneTool, GoodExit, BridgeKept,
       GameStopped, Completed, Published, Phases, Body, Ending, bridgeVars, toolVars
  <2>3. CASE Launch
    BY <2>3 DEF Launch, Raises, TInv, Types, OneTool, GoodExit, BridgeKept, GameStopped,
       Completed, Published, Phases, Body, Ending, reportVars, toolVars
  <2>4. CASE TurnStarted
    BY <2>4 DEF TurnStarted, Raises, TInv, Types, OneTool, GoodExit, BridgeKept,
       GameStopped, Completed, Published, Phases, Body, Ending, gameVars, bridgeVars,
       toolVars
  <2>5. CASE Deferring
    BY <2>5 DEF Deferring, TInv, Types, OneTool, GoodExit, BridgeKept, GameStopped,
       Completed, Published, gameVars, bridgeVars, reportVars, toolVars
  <2>6. QED
    BY <1>3, <2>1, <2>2, <2>3, <2>4, <2>5 DEF Setup
<1>4. CASE Loop
  <2>1. CASE LoopTop
    BY <2>1 DEF LoopTop, Raises, LoopOnly, Outcome, TInv, Types, OneTool, GoodExit,
       BridgeKept, GameStopped, Completed, Published, Phases, Body, Ending, gameVars,
       reportVars, toolVars
  <2>2. CASE LoopEmpty
    BY <2>2 DEF LoopEmpty, LoopOnly, TInv, Types, OneTool, GoodExit, BridgeKept,
       GameStopped, Completed, Published, Phases, Body, Ending, gameVars, reportVars,
       toolVars
  <2>3. CASE LoopForeign
    BY <2>3 DEF LoopForeign, LoopOnly, TInv, Types, OneTool, GoodExit, BridgeKept,
       GameStopped, Completed, Published, Phases, Body, Ending, gameVars, reportVars,
       toolVars
  <2>4. CASE LoopRaises
    BY <2>4 DEF LoopRaises, Raises, LoopOnly, TInv, Types, OneTool, GoodExit,
       BridgeKept, GameStopped, Completed, Published, Phases, Ending, gameVars, toolVars
  <2>5. CASE LoopModelError
    BY <2>5 DEF LoopModelError, LoopOnly, TInv, Types, OneTool, GoodExit, BridgeKept,
       GameStopped, Completed, Published, Phases, Body, Ending, gameVars, toolVars
  <2>6. CASE LoopTurnCompleted
    BY <2>6 DEF LoopTurnCompleted, Raises, LoopOnly, TInv, Types, OneTool, GoodExit,
       BridgeKept, GameStopped, Completed, Published, Phases, Body, Ending, gameVars,
       reportVars, toolVars
  <2>7. QED
    BY <1>4, <2>1, <2>2, <2>3, <2>4, <2>5, <2>6 DEF Loop
<1>5. CASE Step
  <2>1. CASE ToolInvalid
    BY <2>1 DEF ToolInvalid, Respond, Raises, LoopOnly, TInv, Types, OneTool, GoodExit,
       BridgeKept, GameStopped, Completed, Published, Phases, Body, Ending, gameVars,
       reportVars
  <2>2. CASE ToolActs
    BY <2>2 DEF ToolActs, Raises, LoopOnly, StartDue, TInv, Types, OneTool, GoodExit,
       BridgeKept, GameStopped, Completed, Published, Phases, Body, Ending, gameVars,
       toolVars
  <2>3. CASE ToolObserves
    BY <2>3 DEF ToolObserves, Respond, Raises, LoopOnly, TInv, Types, OneTool, GoodExit,
       BridgeKept, GameStopped, Completed, Published, Phases, Body, Ending, gameVars,
       reportVars
  <2>4. CASE ToolReturned
    BY <2>4 DEF ToolReturned, LoopOnly, TInv, Types, OneTool, GoodExit, BridgeKept,
       GameStopped, Completed, Published, Phases, Body, Ending, gameVars, reportVars
  <2>5. QED
    BY <1>5, <2>1, <2>2, <2>3, <2>4 DEF Step
<1>6. CASE Finally
  <2>1. CASE Cleanup
    BY <2>1 DEF Cleanup, TInv, Types, OneTool, GoodExit, BridgeKept, GameStopped,
       Completed, Published, Phases, Body, Ending, gameVars, bridgeVars, reportVars,
       toolVars
  <2>2. CASE Interrupted
    BY <2>2 DEF Interrupted, TInv, Types, OneTool, GoodExit, BridgeKept, GameStopped,
       Completed, Published, Phases, Body, Ending, gameVars, bridgeVars, reportVars,
       toolVars
  <2>3. CASE CloseBridge
    BY <2>3 DEF CloseBridge, TInv, Types, OneTool, GoodExit, BridgeKept, GameStopped,
       Completed, Published, Phases, Body, Ending, gameVars, toolVars
  <2>4. CASE StopGame
    BY <2>4 DEF StopGame, GameEnds, MustStop, TInv, Types, OneTool, GoodExit, BridgeKept,
       GameStopped, Completed, Published, Phases, Body, Ending, gameVars, bridgeVars,
       reportVars, toolVars
  <2>5. CASE Results
    BY <2>5 DEF Results, TInv, Types, OneTool, GoodExit, BridgeKept, GameStopped,
       Completed, Published, Phases, Body, Ending, gameVars, bridgeVars, idVars,
       reportVars, toolVars
  <2>6. QED
    BY <1>6, <2>1, <2>2, <2>3, <2>4, <2>5 DEF Finally
<1>7. CASE UNCHANGED vars
  BY <1>7 DEF vars, TInv, Types, OneTool, GoodExit, BridgeKept, GameStopped, Completed,
     Published, gameVars, bridgeVars, reportVars, toolVars
<1>8. QED
  BY <1>1, <1>2, <1>3, <1>4, <1>5, <1>6, <1>7 DEF Next

LEMMA InitTInv == Init => TInv
BY DEF Init, TInv, Types, OneTool, GoodExit, BridgeKept, GameStopped, Completed,
   Published, Phases, Body

LEMMA TypeCorrect == Spec => []TInv
BY InitTInv, NextTInv, PTL DEF Spec

(* A trial is publishable only if the whole of it was good, whatever the    *)
(* process, the game and the bridge do.                                     *)
THEOREM PublishedCorrect == Spec => []PublishedIsSound
<1>1. TInv => PublishedIsSound
  BY DEF TInv, GoodExit, Completed, Published, PublishedIsSound
<1>2. QED
  BY <1>1, TypeCorrect, PTL

(* Whatever raises, in the trial or in its clean-up: a game or a bridge     *)
(* that a trial leaves running is one that the report of a failed trial     *)
(* says could not be stopped.                                               *)
THEOREM NothingLeftCorrect == Spec => []NothingLeftRunning
<1>1. TInv => NothingLeftRunning
  BY DEF TInv, BridgeKept, GameStopped, NothingLeftRunning
<1>2. QED
  BY <1>1, TypeCorrect, PTL

-----------------------------------------------------------------------------
(* The refinement: a step of a trial is one of the client, or none. *)

(* Client EXTENDS the same AppServer. *)
LEMMA SameServer ==
    /\ Process => Contract!Process
    /\ CallBreaks => Contract!CallBreaks
    /\ CallDefers => Contract!CallDefers
    /\ CallReturns => Contract!CallReturns
    /\ CallRaises => Contract!CallRaises
    /\ Receives => Contract!Receives
    /\ \A method, thread, turn :
          CallBegins(method, thread, turn) => Contract!CallBegins(method, thread, turn)
    /\ \A thread : ReceivesAndCalls(thread) => Contract!ReceivesAndCalls(thread)
<1>1. Process => Contract!Process
  <2>1. Answers => Contract!Answers
    BY DEF Answers, Contract!Answers, Arrives, Contract!Arrives, callVars,
       Contract!callVars
  <2>2. TurnSends => Contract!TurnSends
    BY DEF TurnSends, Contract!TurnSends, Arrives, Contract!Arrives, callVars,
       Contract!callVars
  <2>3. Notifies => Contract!Notifies
    BY DEF Notifies, Contract!Notifies, Arrives, Contract!Arrives, callVars,
       Contract!callVars
  <2>4. TurnEnds => Contract!TurnEnds
    BY DEF TurnEnds, Contract!TurnEnds, Arrives, Contract!Arrives, callVars,
       Contract!callVars
  <2>5. Ends => Contract!Ends
    BY DEF Ends, Contract!Ends, Arrives, Contract!Arrives, callVars, Contract!callVars
  <2>6. QED
    BY <2>1, <2>2, <2>3, <2>4, <2>5 DEF Process, Contract!Process
<1>2. CallBreaks => Contract!CallBreaks
  BY DEF CallBreaks, Contract!CallBreaks, NoCall, Contract!NoCall, processVars,
     Contract!processVars, queueVars, Contract!queueVars
<1>3. CallDefers => Contract!CallDefers
  BY DEF CallDefers, Contract!CallDefers, NoCall, Contract!NoCall, processVars,
     Contract!processVars, Head1, Contract!Head1, IsOwn, Contract!IsOwn, IsAnswer,
     Contract!IsAnswer
<1>4. CallReturns => Contract!CallReturns
  BY DEF CallReturns, Contract!CallReturns, NoCall, Contract!NoCall, processVars,
     Contract!processVars, Head1, Contract!Head1, IsOwn, Contract!IsOwn,
     Contract!IsAnswer, PutBack, Contract!PutBack
<1>5. CallRaises => Contract!CallRaises
  BY DEF CallRaises, Contract!CallRaises, NoCall, Contract!NoCall, processVars,
     Contract!processVars, Head1, Contract!Head1, IsOwn, Contract!IsOwn,
     Contract!IsAnswer, PutBack, Contract!PutBack
<1>6. Receives => Contract!Receives
  BY DEF Receives, Contract!Receives, NoCall, Contract!NoCall, processVars,
     Contract!processVars, callVars, Contract!callVars
<1>7. ASSUME NEW method, NEW thread, NEW turn, CallBegins(method, thread, turn)
      PROVE  Contract!CallBegins(method, thread, turn)
  BY <1>7 DEF CallBegins, Contract!CallBegins, NoCall, Contract!NoCall, Request,
     Contract!Request, queueVars, Contract!queueVars
<1>8. ASSUME NEW thread, ReceivesAndCalls(thread)
      PROVE  Contract!ReceivesAndCalls(thread)
  BY <1>8 DEF ReceivesAndCalls, Contract!ReceivesAndCalls, NoCall, Contract!NoCall,
     Request, Contract!Request
<1>9. QED
  BY <1>1, <1>2, <1>3, <1>4, <1>5, <1>6, <1>7, <1>8

LEMMA SameNames ==
    /\ Contract!NoMessage = NoMessage /\ Contract!NoCall = NoCall /\ Contract!Head1 = Head1
    /\ \A m : Contract!IsTool(m) = IsTool(m) /\ Contract!IsMine(m) = IsMine(m)
BY DEF Contract!NoMessage, NoMessage, Contract!NoCall, NoCall, Contract!Head1, Head1,
   Contract!IsTool, IsTool, Contract!IsMine, IsMine

-----------------------------------------------------------------------------
(* What each action of the trial is to the client. *)

LEMMA ServerProcessMaps == ASSUME TInv, ServerProcess PROVE Contract!Server
BY SameServer DEF ServerProcess, idVars, toolVars, Contract!Server, Contract!ownVars

LEMMA BeginMaps == ASSUME TInv, Begin PROVE Contract!Open
BY SameServer, SameNames DEF Begin, Contract!Open

LEMMA ThreadStartedMaps == ASSUME TInv, ThreadStarted PROVE Contract!ThreadStarted
BY SameServer DEF ThreadStarted, Raises, CallFails, toolVars, Contract!ThreadStarted,
   Contract!CallFails

LEMMA LaunchFailsMaps == ASSUME TInv, LaunchFails PROVE Contract!GiveUp
BY SameNames DEF LaunchFails, Raises, serverVars, processVars, queueVars, callVars,
   idVars, toolVars, Contract!GiveUp, Contract!serverVars, Contract!processVars,
   Contract!queueVars, Contract!callVars

LEMMA LaunchMaps == ASSUME TInv, Launch PROVE Contract!StartTurn
BY SameServer DEF Launch, Raises, idVars, toolVars, Contract!StartTurn

LEMMA TurnStartedMaps == ASSUME TInv, TurnStarted PROVE Contract!TurnStarted
BY SameServer DEF TurnStarted, Raises, CallFails, toolVars, Contract!TurnStarted,
   Contract!CallFails

LEMMA DeferringMaps == ASSUME TInv, Deferring PROVE Contract!Deferring
BY SameServer DEF Deferring, idVars, toolVars, Contract!Deferring, Contract!ownVars

LEMMA LoopTopMaps == ASSUME TInv, LoopTop PROVE Contract!GiveUp \/ UNCHANGED Contract!clientVars
BY SameServer, SameNames DEF LoopTop, Raises, LoopOnly, serverVars, processVars,
   queueVars, callVars, idVars, toolVars, TInv, OneTool, Contract!GiveUp,
   Contract!HasTurn, Contract!serverVars, Contract!processVars, Contract!queueVars,
   Contract!callVars, Contract!clientVars, Contract!ownVars

LEMMA LoopForeignMaps == ASSUME TInv, LoopForeign PROVE Contract!Skip
BY SameServer, SameNames DEF LoopForeign, LoopOnly, idVars, toolVars, TInv, OneTool,
   Contract!Skip, Contract!HasTurn, Contract!ownVars

LEMMA LoopRaisesMaps == ASSUME TInv, LoopRaises PROVE Contract!Lose \/ Contract!Note
BY SameServer, SameNames DEF LoopRaises, Raises, LoopOnly, IsTool, gameVars, bridgeVars,
   idVars, toolVars, reportVars, TInv, OneTool, Contract!Lose, Contract!Note,
   Contract!HasTurn

LEMMA LoopModelErrorMaps == ASSUME TInv, LoopModelError PROVE Contract!Note
BY SameServer, SameNames DEF LoopModelError, LoopOnly, IsTool, gameVars, bridgeVars,
   idVars, toolVars, reportVars, TInv, OneTool, Contract!Note, Contract!HasTurn

LEMMA LoopTurnCompletedMaps == ASSUME TInv, LoopTurnCompleted PROVE Contract!Follow \/ Contract!Note
BY SameServer, SameNames DEF LoopTurnCompleted, Raises, LoopOnly, IsTool, gameVars,
   bridgeVars, idVars, toolVars, reportVars, TInv, OneTool, Contract!Follow,
   Contract!Note, Contract!HasTurn

LEMMA ToolInvalidMaps == ASSUME TInv, ToolInvalid PROVE Contract!TakeTool
BY SameServer, SameNames DEF ToolInvalid, Respond, Raises, LoopOnly, idVars, TInv,
   OneTool, Contract!TakeTool, Contract!HasTurn, Contract!Answered

LEMMA ToolActsMaps == ASSUME TInv, ToolActs PROVE Contract!TakeTool
BY SameServer, SameNames DEF ToolActs, Raises, LoopOnly, idVars, TInv, OneTool,
   Contract!TakeTool, Contract!HasTurn

LEMMA ToolObservesMaps == ASSUME TInv, ToolObserves PROVE Contract!AnswerTool
BY SameServer, SameNames DEF ToolObserves, Respond, Raises, LoopOnly, serverVars,
   processVars, queueVars, callVars, IsTool, NoMessage, idVars, TInv, OneTool,
   Contract!AnswerTool, Contract!Answered, Contract!serverVars, Contract!processVars,
   Contract!queueVars, Contract!callVars

LEMMA CleanupMaps == ASSUME TInv, Cleanup PROVE Contract!Leave
BY SameServer DEF Cleanup, serverVars, processVars, queueVars, callVars, idVars,
   toolVars, Contract!Leave, Contract!serverVars, Contract!processVars,
   Contract!queueVars, Contract!callVars

LEMMA InterruptedMaps == ASSUME TInv, Interrupted PROVE Contract!Interrupted
BY SameServer DEF Interrupted, CallFails, idVars, toolVars, Contract!Interrupted,
   Contract!CallFails

LEMMA GameExitsMaps == ASSUME TInv, GameExits PROVE UNCHANGED Contract!clientVars
BY DEF GameExits, idVars, toolVars, serverVars, processVars, queueVars, callVars,
   Contract!clientVars, Contract!ownVars, Contract!serverVars, Contract!processVars,
   Contract!queueVars, Contract!callVars

LEMMA BridgeFailsMaps == ASSUME TInv, BridgeFails PROVE UNCHANGED Contract!clientVars
BY DEF BridgeFails, idVars, toolVars, serverVars, processVars, queueVars, callVars,
   Contract!clientVars, Contract!ownVars, Contract!serverVars, Contract!processVars,
   Contract!queueVars, Contract!callVars

LEMMA TimePassesMaps == ASSUME TInv, TimePasses PROVE UNCHANGED Contract!clientVars
BY DEF TimePasses, idVars, toolVars, serverVars, processVars, queueVars, callVars,
   Contract!clientVars, Contract!ownVars, Contract!serverVars, Contract!processVars,
   Contract!queueVars, Contract!callVars

LEMMA ToolReturnedMaps == ASSUME TInv, ToolReturned PROVE UNCHANGED Contract!clientVars
BY DEF ToolReturned, LoopOnly, idVars, serverVars, processVars, queueVars, callVars,
   Contract!clientVars, Contract!ownVars, Contract!serverVars, Contract!processVars,
   Contract!queueVars, Contract!callVars

LEMMA CloseBridgeMaps == ASSUME TInv, CloseBridge PROVE UNCHANGED Contract!clientVars
BY DEF CloseBridge, idVars, toolVars, serverVars, processVars, queueVars, callVars,
   Contract!clientVars, Contract!ownVars, Contract!serverVars, Contract!processVars,
   Contract!queueVars, Contract!callVars

LEMMA StopGameMaps == ASSUME TInv, StopGame PROVE UNCHANGED Contract!clientVars
BY DEF StopGame, idVars, toolVars, serverVars, processVars, queueVars, callVars,
   Contract!clientVars, Contract!ownVars, Contract!serverVars, Contract!processVars,
   Contract!queueVars, Contract!callVars

LEMMA ResultsMaps == ASSUME TInv, Results PROVE UNCHANGED Contract!clientVars
BY DEF Results, idVars, toolVars, serverVars, processVars, queueVars, callVars,
   Contract!clientVars, Contract!ownVars, Contract!serverVars, Contract!processVars,
   Contract!queueVars, Contract!callVars

LEMMA LoopEmptyMaps == ASSUME TInv, LoopEmpty PROVE UNCHANGED Contract!clientVars
BY DEF LoopEmpty, LoopOnly, idVars, toolVars, serverVars, processVars, queueVars,
   callVars, Contract!clientVars, Contract!ownVars, Contract!serverVars,
   Contract!processVars, Contract!queueVars, Contract!callVars

LEMMA StepMaps == ASSUME TInv, [Next]_vars PROVE [Contract!Next]_(Contract!clientVars)
<1>1. CASE World
  BY <1>1, ServerProcessMaps, GameExitsMaps, BridgeFailsMaps, TimePassesMaps DEF World,
     Contract!Next
<1>2. CASE Begin
  BY <1>2, BeginMaps DEF Contract!Next
<1>3. CASE Setup
  BY <1>3, ThreadStartedMaps, LaunchFailsMaps, LaunchMaps, TurnStartedMaps,
     DeferringMaps DEF Setup, Contract!Next, Contract!Opening, Contract!Turning
<1>4. CASE Loop
  BY <1>4, LoopTopMaps, LoopEmptyMaps, LoopForeignMaps, LoopRaisesMaps,
     LoopModelErrorMaps, LoopTurnCompletedMaps DEF Loop, Contract!Next, Contract!Turning
<1>5. CASE Step
  BY <1>5, ToolInvalidMaps, ToolActsMaps, ToolObservesMaps, ToolReturnedMaps DEF Step,
     Contract!Next, Contract!Turning
<1>6. CASE Finally
  BY <1>6, CleanupMaps, InterruptedMaps, CloseBridgeMaps, StopGameMaps, ResultsMaps DEF
     Finally, Contract!Next, Contract!Leaving
<1>7. CASE UNCHANGED vars
  BY <1>7 DEF vars, idVars, toolVars, serverVars, processVars, queueVars, callVars,
     Contract!clientVars, Contract!ownVars, Contract!serverVars, Contract!processVars,
     Contract!queueVars, Contract!callVars
<1>8. QED
  BY <1>1, <1>2, <1>3, <1>4, <1>5, <1>6, <1>7 DEF Next

(* Every step of a trial is one that Client allows, or none of its: the     *)
(* trial answers its own tool calls only, keeps the number of its last turn *)
(* and interrupts that turn, whatever raises.                               *)
THEOREM ImplementsClientCorrect == Spec => ImplementsClient
<1>1. Init => Contract!Init
  BY DEF Init, Contract!Init, ServerInit, Contract!ServerInit, NoMessage,
     Contract!NoMessage, NoCall, Contract!NoCall
<1>2. TInv /\ [Next]_vars => [Contract!Next]_(Contract!clientVars)
  BY StepMaps
<1>3. QED
  BY <1>1, <1>2, TypeCorrect, PTL DEF Spec, ImplementsClient, Contract!Spec
=============================================================================
