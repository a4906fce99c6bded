------------------------------- MODULE Client -------------------------------
(***************************************************************************)
(* What AppServer may expect of those who use it, which the preflight and  *)
(* the trial keep to: a client opens one thread, runs turns on it one      *)
(* after the other, answers the tool calls of its own thread one at a      *)
(* time, and on its way out interrupts the last turn it knows, however it  *)
(* comes to leave.  Trial implements this; Campaign is built from it.      *)
(***************************************************************************)
EXTENDS AppServer

VARIABLES
    stage,          \* where the client is
    tid, turn_id,   \* numbers of its thread and of its last turn, 0 for None
    tool,           \* the tool call it is at work on
    over,           \* it has seen its turn end, and started no other
    answers,        \* threads that tool calls came from and were answered for, as [thread, for]
    lost            \* threads that a call about them raised for, 0 for one not opened

ownVars    == <<stage, tid, turn_id, tool, over, answers, lost>>
clientVars == <<serverVars, ownVars>>

Init ==
    /\ ServerInit
    /\ stage = "done" /\ tid = 0 /\ turn_id = 0
    /\ tool = NoMessage /\ over = FALSE /\ answers = {} /\ lost = {}

CallFails == /\ CallRaises \/ CallBreaks
             /\ lost' = lost \cup {tid}

-----------------------------------------------------------------------------
Open ==
    /\ stage = "done"
    /\ tid' = 0 /\ turn_id' = 0 /\ tool' = NoMessage /\ over' = FALSE
    /\ \/ CallBegins("thread/start", 0, 0) /\ stage' = "thread" /\ UNCHANGED lost
       \/ CallBreaks /\ stage' = "leaving" /\ lost' = lost \cup {0}
    /\ UNCHANGED answers

(* Another model may have answered than the one asked for. *)
ThreadStarted ==
    /\ stage = "thread"
    /\ \/ CallReturns /\ tid' = calling /\ stage' = "ready" /\ UNCHANGED lost
       \/ CallReturns /\ stage' = "leaving" /\ UNCHANGED <<tid, lost>>
       \/ CallFails /\ stage' = "leaving" /\ UNCHANGED tid
    /\ UNCHANGED <<turn_id, tool, over, answers>>

StartTurn ==
    /\ stage = "ready"
    /\ \/ CallBegins("turn/start", tid, 0) /\ stage' = "turn" /\ UNCHANGED lost
       \/ CallBreaks /\ stage' = "leaving" /\ lost' = lost \cup {tid}
    /\ UNCHANGED <<tid, turn_id, tool, over, answers>>

TurnStarted ==
    /\ stage \in {"turn", "follow"}
    /\ \/ CallReturns /\ turn_id' = calling /\ stage' = "loop" /\ UNCHANGED lost
       \/ CallFails /\ stage' = "leaving" /\ UNCHANGED turn_id
    /\ UNCHANGED <<tid, tool, over, answers>>

Deferring == CallDefers /\ UNCHANGED ownVars

-----------------------------------------------------------------------------
(* Faulty: messages of any thread are handled. *)
IsMine_Any(m) == m.thread # 0

IsMine(m) == m.thread = tid

HasTurn == stage = "loop" /\ tool = NoMessage

(* The message is of another thread or of none, or an answer that is late. *)
Skip ==
    /\ HasTurn /\ Receives
    /\ Head1.kind # "closed" /\ ~IsMine(Head1)
    /\ UNCHANGED ownVars

Lose ==
    /\ HasTurn /\ Receives /\ Head1.kind = "closed"
    /\ stage' = "leaving"
    /\ UNCHANGED <<tid, turn_id, tool, over, answers, lost>>

(* What the turn reports is noted, or a reason to leave. *)
Note ==
    /\ HasTurn /\ Receives /\ IsMine(Head1) /\ ~IsTool(Head1)
    /\ stage' \in {"loop", "leaving"}
    /\ over' \in {FALSE, Head1.kind \in {"turn_completed", "turn_failed"}}
    /\ UNCHANGED <<tid, turn_id, tool, answers, lost>>

Answered(m) == answers' = answers \cup {[thread |-> m.thread, for |-> tid]}

(* A tool call is answered, worked on, or a reason to leave. *)
TakeTool ==
    /\ HasTurn /\ Receives /\ IsMine(Head1) /\ IsTool(Head1)
    /\ \/ Answered(Head1) /\ UNCHANGED <<stage, tool>>
       \/ tool' = Head1 /\ UNCHANGED <<stage, answers>>
       \/ stage' = "leaving" /\ UNCHANGED <<tool, answers>>
    /\ UNCHANGED <<tid, turn_id, over, lost>>

AnswerTool ==
    /\ tool # NoMessage
    /\ \/ Answered(tool) /\ UNCHANGED stage
       \/ stage' = "leaving" /\ UNCHANGED answers
    /\ tool' = NoMessage
    /\ UNCHANGED <<serverVars, tid, turn_id, over, lost>>

(* A completed turn is followed by another. *)
Follow ==
    /\ HasTurn /\ messages # <<>> /\ IsMine(Head1) /\ Head1.kind = "turn_completed"
    /\ ReceivesAndCalls(tid)
    /\ \/ calling' # NoCall /\ stage' = "follow" /\ UNCHANGED lost
       \/ calling' = NoCall /\ stage' = "leaving" /\ lost' = lost \cup {tid}
    /\ UNCHANGED <<tid, turn_id, tool, over, answers>>

(* A deadline, the end of the game, anything that raises. *)
GiveUp ==
    /\ stage = "ready" \/ HasTurn
    /\ stage' = "leaving"
    /\ UNCHANGED <<serverVars, tid, turn_id, tool, over, answers, lost>>

-----------------------------------------------------------------------------
(* finally *)
Leave ==
    /\ stage = "leaving"
    /\ \/ /\ turn_id # 0 /\ ~over
          /\ \/ CallBegins("turn/interrupt", tid, turn_id) /\ stage' = "interrupt"
                /\ UNCHANGED lost
             \/ CallBreaks /\ stage' = "done" /\ lost' = lost \cup {tid}
       \/ /\ turn_id = 0 \/ over
          /\ stage' = "done" /\ UNCHANGED <<serverVars, lost>>
    /\ UNCHANGED <<tid, turn_id, tool, over, answers>>

Interrupted ==
    /\ stage = "interrupt"
    /\ \/ CallReturns /\ UNCHANGED lost
       \/ CallFails
    /\ stage' = "done"
    /\ UNCHANGED <<tid, turn_id, tool, over, answers>>

-----------------------------------------------------------------------------
Server == Process /\ UNCHANGED ownVars

Opening == ThreadStarted \/ StartTurn \/ TurnStarted \/ Deferring
Turning == Skip \/ Lose \/ Note \/ TakeTool \/ AnswerTool \/ Follow \/ GiveUp
Leaving == Leave \/ Interrupted

Next == Server \/ Open \/ Opening \/ Turning \/ Leaving

Spec == Init /\ [][Next]_clientVars

-----------------------------------------------------------------------------
(* Properties. *)

(* Threads stay apart, although all of them share one queue: whoever        *)
(* answers a tool call is the one whose thread made it, and a turn runs     *)
(* only while its client does, unless a call about its thread raised, so    *)
(* that the client could not know of the turn or could not stop it.         *)
ThreadsApart ==
    /\ \A a \in answers : a.thread = a.for
    /\ \A t \in turns : t.thread \in lost \/ (t.thread = tid /\ stage # "done")
=============================================================================
