------------------------------ MODULE AppServer -----------------------------
(***************************************************************************)
(* AppServer of examples/codex_appserver_client.py: the queue its reader   *)
(* thread fills, and call, which waits for one answer and puts back what   *)
(* else arrived.  The process at the other end is external.  Its answers   *)
(* may come in any order, late, or never; its turns send tool calls, end,  *)
(* or report errors on their own.                                          *)
(*                                                                         *)
(* A message carries its place in the order of receipt, which stands for   *)
(* the time the reader thread stamps on it.                                *)
(***************************************************************************)
EXTENDS Integers, Sequences, FiniteSets

CONSTANTS
    Kinds,          \* what the process sends besides answers and ends of turns
    MaxEvents       \* bound: messages the process sends unasked or too late

ASSUME AppServerAssumption ==
    /\ MaxEvents \in Nat
    /\ Kinds \cap {"response", "refusal", "closed", "turn_completed", "turn_failed"} = {}

VARIABLES
    process,     \* "alive" or "ended"
    asked,       \* requests the process has not answered, as [id, method, thread, turn]
    turns,       \* the turns the process runs, as [thread, id]
    events,      \* messages sent unasked or too late so far
    arrived,     \* messages received so far
    messages,    \* the queue
    next_id,     \* _next_id
    calling,     \* the number call waits for, or NoCall
    deferred     \* what call has received meanwhile

processVars == <<process, asked, turns, events>>
queueVars   == <<arrived, messages>>
callVars    == <<next_id, calling, deferred>>
serverVars  == <<processVars, queueVars, callVars>>

NoCall == 0
NoMessage == [kind |-> "none", id |-> 0, thread |-> 0, received |-> 0]

ServerInit ==
    /\ process = "alive" /\ asked = {} /\ turns = {} /\ events = 0
    /\ arrived = 0 /\ messages = <<>>
    /\ next_id = 1 /\ calling = NoCall /\ deferred = <<>>

(* _read puts what the process wrote into the queue. *)
Arrives(kind, id, thread) ==
    /\ arrived' = arrived + 1
    /\ messages' = Append(messages, [kind |-> kind, id |-> id, thread |-> thread,
                                     received |-> arrived + 1])

-----------------------------------------------------------------------------
(* The process (external). *)

(* A thread is numbered by the request that started it, a turn likewise. *)
Answers ==
    /\ process = "alive"
    /\ \E r \in asked :
          /\ r.id # calling => events < MaxEvents
          /\ events' = IF r.id = calling THEN events ELSE events + 1
          /\ asked' = asked \ {r}
          /\ \/ /\ Arrives("response", r.id, 0)
                /\ turns' = CASE r.method = "turn/start" ->
                                    turns \cup {[thread |-> r.thread, id |-> r.id]}
                              [] r.method = "turn/interrupt" ->
                                    {t \in turns : t.id # r.turn}
                              [] OTHER -> turns
             \/ Arrives("refusal", r.id, 0) /\ UNCHANGED turns
    /\ UNCHANGED <<process, callVars>>

(* A tool call, or another request, of a turn; its number is its place. *)
TurnSends ==
    /\ process = "alive" /\ events < MaxEvents
    /\ \E t \in turns, kind \in Kinds \ {"notice"} : Arrives(kind, arrived + 1, t.thread)
    /\ events' = events + 1
    /\ UNCHANGED <<process, asked, turns, callVars>>

(* A notification about no thread, of the account for example. *)
Notifies ==
    /\ process = "alive" /\ events < MaxEvents
    /\ "notice" \in Kinds /\ Arrives("notice", 0, 0)
    /\ events' = events + 1
    /\ UNCHANGED <<process, asked, turns, callVars>>

TurnEnds ==
    /\ process = "alive" /\ events < MaxEvents
    /\ \E t \in turns, kind \in {"turn_completed", "turn_failed"} :
          /\ Arrives(kind, t.id, t.thread)
          /\ turns' = turns \ {t}
    /\ events' = events + 1
    /\ UNCHANGED <<process, asked, callVars>>

Ends ==
    /\ process = "alive" /\ events < MaxEvents
    /\ process' = "ended" /\ turns' = {} /\ asked' = {}
    /\ Arrives("closed", 0, 0)
    /\ events' = events + 1
    /\ UNCHANGED callVars

Process == Answers \/ TurnSends \/ Notifies \/ TurnEnds \/ Ends

-----------------------------------------------------------------------------
(* The client. *)

(* What is asked of a process that has ended is not kept: none answers.    *)
Request(method, thread, turn) ==
    IF process = "ended" THEN {}
    ELSE {[id |-> next_id, method |-> method, thread |-> thread, turn |-> turn]}

(* request, the first half of call. *)
CallBegins(method, thread, turn) ==
    /\ calling = NoCall
    /\ asked' = asked \cup Request(method, thread, turn)
    /\ calling' = next_id
    /\ next_id' = next_id + 1
    /\ UNCHANGED <<process, turns, events, queueVars, deferred>>

(* The pipe to a process that has ended breaks when it is written to. *)
CallBreaks ==
    /\ calling = NoCall /\ process = "ended"
    /\ next_id' = next_id + 1
    /\ UNCHANGED <<processVars, queueVars, calling, deferred>>

Head1 == Head(messages)
IsAnswer(m) == m.kind \in {"response", "refusal"}

IsTool(m) == m.kind \in {"tool_empty", "tool_taps", "tool_bad"}

IsOwn(m) == IsAnswer(m) /\ m.id = calling

CallDefers ==
    /\ calling # NoCall /\ messages # <<>>
    /\ Head1.kind # "closed" /\ ~IsOwn(Head1)
    /\ deferred' = Append(deferred, Head1)
    /\ messages' = Tail(messages)
    /\ UNCHANGED <<processVars, arrived, next_id, calling>>

(* finally: the deferred messages go behind those that are in the queue. *)
PutBack(rest) ==
    /\ messages' = rest \o deferred
    /\ calling' = NoCall /\ deferred' = <<>>
    /\ UNCHANGED <<processVars, arrived, next_id>>

CallReturns ==
    /\ calling # NoCall /\ messages # <<>>
    /\ IsOwn(Head1) /\ Head1.kind = "response"
    /\ PutBack(Tail(messages))

(* call raises: the answer is an error, the transport has ended, or the     *)
(* deadline has passed.  An answer that comes later stays in the queue.     *)
CallRaises ==
    /\ calling # NoCall
    /\ \/ /\ messages # <<>>
          /\ Head1.kind = "closed" \/ (IsOwn(Head1) /\ Head1.kind = "refusal")
          /\ PutBack(Tail(messages))
       \/ PutBack(messages)

(* receive *)
Receives ==
    /\ calling = NoCall /\ messages # <<>>
    /\ messages' = Tail(messages)
    /\ UNCHANGED <<processVars, arrived, callVars>>

(* A message is received, and a further turn asked for because of it.       *)
ReceivesAndCalls(thread) ==
    /\ calling = NoCall /\ messages # <<>>
    /\ messages' = Tail(messages)
    /\ next_id' = next_id + 1
    /\ \/ asked' = asked \cup Request("turn/start", thread, 0) /\ calling' = next_id
       \/ process = "ended" /\ UNCHANGED <<asked, calling>>
    /\ UNCHANGED <<process, turns, events, arrived, deferred>>
=============================================================================
