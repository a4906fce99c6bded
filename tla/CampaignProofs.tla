--------------------------- MODULE CampaignProofs ---------------------------
(***************************************************************************)
(* ThreadsApart: first for Client, for any messages the process may send   *)
(* and any number of clients that follow each other; then for the whole    *)
(* campaign, for any list of models, efforts and repetitions and any       *)
(* catalog, with the calls of main between the clients and the end of the  *)
(* process.  Then IndexListsEveryRun, whatever ends the campaign.          *)
(***************************************************************************)
EXTENDS Campaign, SequenceTheorems, TLAPS

Endings == {"turn_completed", "turn_failed"}
Kind    == Kinds \cup {"response", "refusal", "closed"} \cup Endings
Method  == {"thread/start", "turn/start", "turn/interrupt", "connect", "catalog"}

Message == [kind : Kind, id : Nat, thread : Nat, received : Nat]
Demand  == [id : Nat \ {0}, method : Method, thread : Nat, turn : Nat]
Turn    == [thread : Nat \ {0}, id : Nat \ {0}]

Stages == {"done", "thread", "ready", "turn", "follow", "loop", "leaving", "interrupt"}
Calls  == {"thread", "turn", "follow", "interrupt"}

(* What has arrived and has not been taken out. *)
Waiting == Range(messages) \cup Range(deferred)

Queues == messages \in Seq(Message) /\ deferred \in Seq(Message) /\ arrived \in Nat

Types ==
    /\ asked \subseteq Demand /\ turns \subseteq Turn
    /\ next_id \in Nat \ {0} /\ calling \in Nat
    /\ tid \in Nat /\ turn_id \in Nat /\ stage \in Stages

(* A call outside of any client is one of Campaign's main. *)
Waits ==
    /\ stage \in Calls => calling # NoCall
    /\ calling # NoCall => stage \in Calls \cup {"done"}
    /\ calling = NoCall => deferred = <<>>

(* No message is in the queue twice. *)
Distinct(s) == \A i, j \in 1..Len(s) : s[i].received = s[j].received => i = j

Once ==
    /\ Distinct(messages) /\ Distinct(deferred)
    /\ \A m \in Range(messages), n \in Range(deferred) : m.received # n.received
    /\ \A m \in Waiting : m.received <= arrived

(* No number is used again. *)
Counted ==
    /\ calling < next_id /\ tid < next_id /\ turn_id < next_id
    /\ \A r \in asked : r.id < next_id /\ r.thread < next_id
    /\ \A t \in turns : t.id < next_id /\ t.thread < next_id
    /\ \A th \in lost : th \in Nat /\ th < next_id

(* A request is answered once, and a turn starts with the answer. *)
Numbered ==
    /\ \A r \in asked : r.id # turn_id
    /\ \A r, s \in asked : r.id = s.id => r = s
    /\ \A r \in asked, t \in turns : r.id # t.id

(* What the messages that wait speak of. *)
Reported ==
    /\ \A m \in Waiting : IsAnswer(m) => m.id < next_id
    /\ \A m \in Waiting, r \in asked : IsAnswer(m) => r.id # m.id
    /\ \A m \in Waiting : m.kind \in Endings => 0 < m.thread /\ m.thread < next_id

(* Of a thread about which no call has raised, a turn is asked for only by  *)
(* the call that waits for it, and only the last one known may run.         *)
Starting == \A r \in asked : r.method = "turn/start" =>
    /\ r.thread # 0
    /\ r.thread \in lost \/ (r.thread = tid /\ stage \in {"turn", "follow"} /\ r.id = calling)

Running == \A t \in turns :
    \/ t.thread \in lost
    \/ /\ t.thread = tid /\ ~over
       /\ \/ stage \in {"turn", "follow"} /\ t.id = calling
          \/ stage \in {"loop", "leaving", "interrupt"} /\ t.id = turn_id

(* The end of such a turn is reported once, when it has ended, and before   *)
(* another one is asked for.                                                *)
Ended == \A m \in Waiting : m.kind \in Endings /\ m.thread = tid /\ tid \notin lost =>
    /\ ~over
    /\ \A t \in turns : t.thread # tid
    /\ \A r \in asked : r.method = "turn/start" => r.thread # tid
    /\ \A n \in Waiting : n.kind \in Endings /\ n.thread = tid => n = m

(* A thread that is opened is new. *)
Fresh ==
    /\ stage = "thread" =>
          /\ calling \notin lost
          /\ \A r \in asked : r.method = "turn/start" => r.thread # calling
          /\ \A t \in turns : t.thread # calling
          /\ \A m \in Waiting : m.kind \in Endings => m.thread # calling
    /\ stage \in {"ready", "turn", "follow", "loop"} => tid # 0 /\ tid \notin lost
    /\ stage = "ready" => \A m \in Waiting : m.kind \in Endings => m.thread # tid
    /\ stage \in {"thread", "ready", "turn", "follow"} => ~over

(* The answer to an interruption says that the turn has ended. *)
Stopping == stage = "interrupt" =>
    /\ \A r \in asked : r.id = calling => r.method = "turn/interrupt" /\ r.turn = turn_id
    /\ \A m \in Waiting : m.kind = "response" /\ m.id = calling =>
          \A t \in turns : t.id # turn_id

Answering ==
    /\ tool # NoMessage => stage = "loop" /\ tool.thread = tid
    /\ \A a \in answers : a.thread = a.for

IInv == Queues /\ Once /\ Types /\ Waits /\ Counted /\ Numbered /\ Reported
        /\ Starting /\ Running /\ Ended /\ Fresh /\ Stopping /\ Answering

-----------------------------------------------------------------------------
(* Sequences of messages. *)

(* Nothing is in the empty sequence. *)
LEMMA EmptyRange == Range(<<>>) = {}
<1> DEFINE none == <<>>
<1>1. none \in Seq({}) /\ Len(none) = 0
  OBVIOUS
<1> HIDE DEF none
<1>2. Range(none) = {none[i] : i \in 1..Len(none)}
  BY <1>1, RangeEquality, Zenon
<1>3. QED
  BY <1>1, <1>2 DEF none

(* What Append adds. *)
LEMMA AppendRange ==
    ASSUME NEW S, NEW s \in Seq(S), NEW e \in S
    PROVE  Append(s, e) \in Seq(S) /\ Range(Append(s, e)) = Range(s) \cup {e}
<1>1. Append(s, e) \in Seq(S) /\ Append(s, e) = s \o <<e>>
  OBVIOUS
<1>2. <<e>> \in Seq(S) /\ Range(<<e>>) = {e}
  <2> DEFINE one == <<e>>
  <2>1. one \in Seq(S) /\ Len(one) = 1 /\ one[1] = e
    OBVIOUS
  <2> HIDE DEF one
  <2>2. Range(one) = {one[i] : i \in 1..Len(one)}
    BY <2>1, RangeEquality, Zenon
  <2>3. QED
    BY <2>1, <2>2 DEF one
<1>3. Range(s \o <<e>>) = Range(s) \cup Range(<<e>>)
  BY <1>2, RangeConcatenation, ZenonT(30)
<1>4. QED
  BY <1>1, <1>2, <1>3

(* What Head and Tail take apart. *)
LEMMA TailRange ==
    ASSUME NEW S, NEW s \in Seq(S), s # <<>>
    PROVE  /\ Head(s) \in S /\ Tail(s) \in Seq(S)
           /\ Range(s) = {Head(s)} \cup Range(Tail(s))
<1>1. Head(s) \in S /\ Tail(s) \in Seq(S) /\ <<Head(s)>> \in Seq(S)
  OBVIOUS
<1>2. Range(<<Head(s)>>) = {Head(s)}
  <2> DEFINE one == <<Head(s)>>
  <2>1. one \in Seq(S) /\ Len(one) = 1 /\ one[1] = Head(s)
    OBVIOUS
  <2> HIDE DEF one
  <2>2. Range(one) = {one[i] : i \in 1..Len(one)}
    BY <2>1, RangeEquality, Zenon
  <2>3. QED
    BY <2>1, <2>2 DEF one
<1>3. s = <<Head(s)>> \o Tail(s)
  <2>1. Len(<<Head(s)>> \o Tail(s)) = Len(s) /\ <<Head(s)>> \o Tail(s) \in Seq(S)
    OBVIOUS
  <2>2. \A i \in 1..Len(s) : (<<Head(s)>> \o Tail(s))[i] = s[i]
    OBVIOUS
  <2>3. QED
    BY <2>1, <2>2, SeqEqual
<1>4. Range(<<Head(s)>> \o Tail(s)) = Range(<<Head(s)>>) \cup Range(Tail(s))
  BY <1>1, RangeConcatenation, ZenonT(30)
<1>5. QED
  BY <1>1, <1>2, <1>3, <1>4

(* The head of a queue is not in it again. *)
LEMMA DistinctTail ==
    ASSUME NEW s \in Seq(Message), s # <<>>, Distinct(s)
    PROVE  /\ Distinct(Tail(s))
           /\ \A m \in Range(Tail(s)) : m.received # Head(s).received
  <1>1. /\ Head(s) = s[1] /\ Len(s) \in Nat \ {0} /\ Len(Tail(s)) = Len(s) - 1
        /\ Tail(s) \in Seq(Message)
        /\ \A i \in 1..(Len(s) - 1) : Tail(s)[i] = s[i + 1]
    OBVIOUS
  <1>2. ASSUME NEW i \in 1..Len(Tail(s))
        PROVE  i + 1 \in 1..Len(s) /\ i + 1 # 1 /\ Tail(s)[i] = s[i + 1]
    OBVIOUS
  <1>3. 1 \in 1..Len(s) OBVIOUS
  <1>4. \A i \in 1..Len(Tail(s)) : Tail(s)[i].received # s[1].received
    BY DEF Distinct
  <1>5. Distinct(Tail(s))
    BY DEF Distinct
  <1>6. Range(Tail(s)) = {Tail(s)[i] : i \in 1..Len(Tail(s))}
    BY <1>1, RangeEquality
  <1> QED BY <1>1, <1>4, <1>5, <1>6

(* A new message is put behind a queue. *)
LEMMA DistinctAppend ==
    ASSUME NEW s \in Seq(Message), NEW e \in Message, Distinct(s),
           \A m \in Range(s) : m.received # e.received
    PROVE  Distinct(Append(s, e))
  <1>1. /\ Len(s) \in Nat /\ Len(Append(s, e)) = Len(s) + 1
        /\ \A i \in 1..Len(s) : Append(s, e)[i] = s[i]
        /\ Append(s, e)[Len(s) + 1] = e
    OBVIOUS
  <1>2. \A i \in 1..Len(s) : s[i].received # e.received
    BY RangeEquality
  <1> QED BY <1>1, <1>2 DEF Distinct

(* Two queues without a message in common. *)
LEMMA DistinctConcat ==
    ASSUME NEW s \in Seq(Message), NEW t \in Seq(Message), Distinct(s), Distinct(t),
           \A m \in Range(s), n \in Range(t) : m.received # n.received
    PROVE  Distinct(s \o t)
  <1>1. /\ Len(s) \in Nat /\ Len(t) \in Nat /\ Len(s \o t) = Len(s) + Len(t)
        /\ \A i \in 1..Len(s) : (s \o t)[i] = s[i]
        /\ \A i \in 1..Len(t) : (s \o t)[i + Len(s)] = t[i]
    OBVIOUS
  <1>2. \A i \in 1..Len(s), j \in 1..Len(t) : s[i].received # t[j].received
    BY RangeEquality
  <1>3. ASSUME NEW i \in 1..(Len(s) + Len(t)), i \notin 1..Len(s)
        PROVE  i - Len(s) \in 1..Len(t) /\ (s \o t)[i] = t[i - Len(s)]
    BY <1>3
  <1>4. ASSUME NEW i \in 1..(Len(s) + Len(t)), NEW j \in 1..(Len(s) + Len(t)),
               (s \o t)[i].received = (s \o t)[j].received
        PROVE  i = j
    <2>1. CASE i \in 1..Len(s) /\ j \in 1..Len(s) BY <1>4, <2>1 DEF Distinct
    <2>2. CASE i \in 1..Len(s) /\ j \notin 1..Len(s)
      BY <1>2, <1>4, <2>2
    <2>3. CASE i \notin 1..Len(s) /\ j \in 1..Len(s)
      BY <1>2, <1>4, <2>3
    <2>4. CASE i \notin 1..Len(s) /\ j \notin 1..Len(s)
      <3>1. i - Len(s) = j - Len(s) BY <1>4, <2>4 DEF Distinct
      <3> QED BY <3>1, <1>1
    <2> QED BY <2>1, <2>2, <2>3, <2>4
  <1> QED BY <1>1, <1>4 DEF Distinct


-----------------------------------------------------------------------------
(* What happens to the messages that wait. *)

LEMMA KindsDisjoint == \A k \in Kinds : k \notin {"response", "refusal", "closed"} \cup Endings
BY AppServerAssumption DEF Endings

LEMMA WaitingTyped == Queues => Waiting \subseteq Message
BY RangeOfSeq DEF Queues, Waiting

(* A message comes that was not there. *)
LEMMA MessageArrives ==
    ASSUME Queues, Once, NEW kind \in Kind, NEW id \in Nat, NEW thread \in Nat,
           Arrives(kind, id, thread), deferred' = deferred
    PROVE  /\ Queues' /\ Once'
           /\ \E m \in Message : /\ m.kind = kind /\ m.id = id /\ m.thread = thread
                                 /\ m \notin Waiting /\ Waiting' = Waiting \cup {m}
<1> DEFINE m == [kind |-> kind, id |-> id, thread |-> thread, received |-> arrived + 1]
<1>1. /\ m \in Message /\ m.received = arrived + 1
      /\ m.kind = kind /\ m.id = id /\ m.thread = thread
      /\ messages' = Append(messages, m) /\ arrived' = arrived + 1
  BY DEF Arrives, Queues, Message
<1> HIDE DEF m
<1>2. messages' \in Seq(Message) /\ Range(messages') = Range(messages) \cup {m}
  BY <1>1, AppendRange, ZenonT(30) DEF Queues
<1>3. Waiting' = Waiting \cup {m}
  BY <1>2 DEF Waiting
<1>4. \A n \in Waiting : /\ n.received \in Nat
                         /\ n.received <= arrived /\ n.received < m.received
  <2>1. \A n \in Waiting : n \in Message
    BY RangeOfSeq DEF Waiting, Queues
  <2>2. QED
    BY <1>1, <2>1 DEF Once, Queues, Message
<1>5. Distinct(messages')
  <2>1. \A n \in Range(messages) : n.received # m.received
    BY <1>4 DEF Waiting
  <2>2. QED
    BY <1>1, <2>1, DistinctAppend DEF Queues, Once
<1>6. Once' /\ Queues'
  <2>1. \A n \in Range(deferred) : m.received # n.received
    BY <1>4 DEF Waiting
  <2>2. \A n \in Waiting' : n.received <= arrived'
    BY <1>1, <1>3, <1>4
  <2>3. QED
    BY <1>1, <1>2, <1>5, <2>1, <2>2 DEF Once, Queues
<1>7. m \notin Waiting
  BY <1>4
<1>8. QED
  BY <1>1, <1>3, <1>6, <1>7

(* A message is taken out. *)
LEMMA HeadIsTaken ==
    ASSUME Queues, Once, messages # <<>>, messages' = Tail(messages),
           UNCHANGED <<arrived, deferred>>
    PROVE  /\ Queues' /\ Once'
           /\ Head1 \in Message /\ Head1 \in Waiting /\ Waiting' = Waiting \ {Head1}
<1>1. /\ Head1 \in Message /\ messages' \in Seq(Message)
      /\ Range(messages) = {Head1} \cup Range(messages')
  BY TailRange DEF Queues, Head1
<1>2. Distinct(messages') /\ \A m \in Range(messages') : m.received # Head1.received
  BY DistinctTail DEF Queues, Once, Head1
<1>3. \A n \in Range(deferred) : Head1.received # n.received
  BY <1>1 DEF Once
<1>4. Waiting' = Waiting \ {Head1}
  BY <1>1, <1>2, <1>3 DEF Waiting
<1>5. QED
  BY <1>1, <1>2, <1>4 DEF Queues, Once, Waiting

(* A message changes the queue. *)
LEMMA HeadIsDeferred ==
    ASSUME Queues, Once, CallDefers
    PROVE  Queues' /\ Once' /\ Waiting' = Waiting
<1>1. /\ Head1 \in Message /\ messages' \in Seq(Message)
      /\ Range(messages) = {Head1} \cup Range(messages')
  BY TailRange DEF Queues, Head1, CallDefers
<1>2. Distinct(messages') /\ \A m \in Range(messages') : m.received # Head1.received
  BY DistinctTail DEF Queues, Once, Head1, CallDefers
<1>3. deferred' \in Seq(Message) /\ Range(deferred') = Range(deferred) \cup {Head1}
  BY <1>1, AppendRange DEF Queues, CallDefers
<1>4. Distinct(deferred')
  <2>1. \A m \in Range(deferred) : m.received # Head1.received
    BY <1>1 DEF Once
  <2>2. QED
    BY <1>1, <2>1, DistinctAppend DEF Queues, Once, CallDefers
<1>5. Waiting' = Waiting
  BY <1>1, <1>3 DEF Waiting
<1>6. QED
  BY <1>1, <1>2, <1>3, <1>4, <1>5 DEF Queues, Once, CallDefers

(* The deferred messages are put back, behind those that still wait. *)
LEMMA AllPutBack ==
    ASSUME Queues, Once, PutBack(messages)
    PROVE  Queues' /\ Once' /\ Waiting' = Waiting
<1>1. messages' \in Seq(Message) /\ Range(messages') = Range(messages) \cup Range(deferred)
  BY RangeConcatenation DEF Queues, PutBack
<1>2. deferred' = <<>> /\ deferred' \in Seq(Message) /\ Range(deferred') = {}
  <2>1. deferred' = <<>> /\ deferred' \in Seq(Message)
    BY DEF PutBack
  <2>2. QED
    BY <2>1, EmptyRange
<1>3. Distinct(messages')
  BY DistinctConcat DEF Queues, Once, PutBack
<1>4. Distinct(deferred')
  BY <1>2 DEF Distinct
<1>5. QED
  BY <1>1, <1>2, <1>3, <1>4 DEF Queues, Once, Waiting, PutBack

LEMMA RestPutBack ==
    ASSUME Queues, Once, messages # <<>>, PutBack(Tail(messages))
    PROVE  /\ Queues' /\ Once'
           /\ Head1 \in Message /\ Head1 \in Waiting /\ Waiting' = Waiting \ {Head1}
<1> DEFINE rest == Tail(messages)
<1>1. /\ Head1 \in Message /\ rest \in Seq(Message)
      /\ Range(messages) = {Head1} \cup Range(rest)
  BY TailRange DEF Queues, Head1
<1>2. Distinct(rest) /\ \A m \in Range(rest) : m.received # Head1.received
  BY DistinctTail DEF Queues, Once, Head1
<1>3. messages' = rest \o deferred /\ deferred' = <<>> /\ arrived' = arrived
  BY DEF PutBack
<1> HIDE DEF rest
<1>4. messages' \in Seq(Message) /\ Range(messages') = Range(rest) \cup Range(deferred)
  BY <1>1, <1>3, RangeConcatenation DEF Queues
<1>5. deferred' \in Seq(Message) /\ Range(deferred') = {} /\ Distinct(deferred')
  <2>1. deferred' = <<>> /\ deferred' \in Seq(Message) /\ Range(deferred') = {}
    BY <1>3, EmptyRange
  <2>2. QED
    BY <2>1 DEF Distinct
<1>6. Distinct(messages')
  <2>1. \A m \in Range(rest), n \in Range(deferred) : m.received # n.received
    BY <1>1 DEF Once
  <2>2. QED
    BY <1>1, <1>2, <1>3, <2>1, DistinctConcat DEF Queues, Once
<1>7. Waiting' = Waiting \ {Head1}
  BY <1>1, <1>2, <1>4, <1>5 DEF Waiting, Once
<1>8. QED
  BY <1>1, <1>3, <1>4, <1>5, <1>6, <1>7 DEF Queues, Once, Waiting

-----------------------------------------------------------------------------
(* What a call does.  It may fail before it is sent. *)

LEMMA Begins ==
    ASSUME IInv, NEW method \in Method, NEW thread \in Nat, NEW turn \in Nat,
           CallBegins(method, thread, turn)
    PROVE  /\ Queues' /\ Once' /\ Waiting' = Waiting /\ UNCHANGED <<turns, deferred>>
           /\ calling = NoCall /\ calling' = next_id /\ next_id' = next_id + 1
           /\ asked' \subseteq Demand
           /\ \A r \in asked' : \/ r \in asked
                                \/ r = [id |-> next_id, method |-> method,
                                        thread |-> thread, turn |-> turn]
<1> DEFINE request == [id |-> next_id, method |-> method, thread |-> thread, turn |-> turn]
<1>0. request \in Demand
  BY DEF IInv, Types, Demand
<1>1. \A r \in asked' : r \in asked \/ r = request
  BY DEF CallBegins, Request
<1>2. /\ Queues' /\ Once' /\ Waiting' = Waiting /\ UNCHANGED <<turns, deferred>>
      /\ calling = NoCall /\ calling' = next_id /\ next_id' = next_id + 1
  BY DEF IInv, CallBegins, Queues, Once, Waiting, queueVars
<1>3. asked' \subseteq Demand
  BY <1>0, <1>1 DEF IInv, Types
<1>4. QED
  BY <1>1, <1>2, <1>3

LEMMA Breaks ==
    ASSUME IInv, CallBreaks
    PROVE  /\ Queues' /\ Once' /\ Waiting' = Waiting /\ UNCHANGED <<turns, deferred, asked>>
           /\ calling = NoCall /\ calling' = NoCall /\ next_id' = next_id + 1
BY DEF IInv, CallBreaks, Queues, Once, Waiting, queueVars, processVars

LEMMA Returns ==
    ASSUME IInv, CallReturns
    PROVE  /\ Queues' /\ Once'
           /\ Head1 \in Waiting /\ Waiting' = Waiting \ {Head1}
           /\ Head1.kind = "response" /\ Head1.id = calling /\ calling # NoCall
           /\ calling' = NoCall /\ deferred' = <<>> /\ UNCHANGED <<asked, turns, next_id>>
BY RestPutBack DEF IInv, CallReturns, IsOwn, PutBack, processVars

LEMMA Raises ==
    ASSUME IInv, CallRaises
    PROVE  /\ Queues' /\ Once' /\ Waiting' \subseteq Waiting
           /\ calling # NoCall /\ calling' = NoCall /\ deferred' = <<>>
           /\ UNCHANGED <<asked, turns, next_id>>
BY RestPutBack, AllPutBack DEF IInv, CallRaises, PutBack, processVars

LEMMA Fails ==
    ASSUME IInv, CallFails
    PROVE  /\ Queues' /\ Once' /\ Waiting' \subseteq Waiting
           /\ calling' = NoCall /\ deferred' = <<>> /\ UNCHANGED <<asked, turns>>
           /\ next_id' \in {next_id, next_id + 1} /\ lost' = lost \cup {tid}
<1>1. CASE CallRaises
  BY <1>1, Raises DEF CallFails
<1>2. CASE CallBreaks
  BY <1>2, Breaks DEF CallFails, IInv, Waits
<1>3. QED
  BY <1>1, <1>2 DEF CallFails

LEMMA Takes ==
    ASSUME IInv, Receives
    PROVE  /\ Queues' /\ Once'
           /\ Head1 \in Message /\ Head1 \in Waiting /\ Waiting' = Waiting \ {Head1}
           /\ UNCHANGED <<asked, turns, next_id, calling, deferred>>
BY HeadIsTaken DEF IInv, Receives, processVars, callVars

-----------------------------------------------------------------------------
(* The client.  Each action keeps the invariant. *)

(* The thread asked for has a number no other has had. *)
LEMMA OpenKeeps == ASSUME IInv, Open PROVE IInv'
<1>1. \/ /\ stage' = "thread" /\ lost' = lost
         /\ Queues' /\ Once' /\ Waiting' = Waiting /\ UNCHANGED <<turns, deferred>>
         /\ calling = NoCall /\ calling' = next_id /\ next_id' = next_id + 1
         /\ asked' \subseteq Demand
         /\ \A r \in asked' : r \in asked \/
              r = [id |-> next_id, method |-> "thread/start", thread |-> 0, turn |-> 0]
      \/ /\ stage' = "leaving" /\ lost' = lost \cup {0}
         /\ Queues' /\ Once' /\ Waiting' = Waiting /\ UNCHANGED <<turns, deferred, asked>>
         /\ calling = NoCall /\ calling' = NoCall /\ next_id' = next_id + 1
  BY Begins, Breaks DEF Open, Method
<1>2. stage = "done" /\ tid' = 0 /\ turn_id' = 0 /\ tool' = NoMessage /\ over' = FALSE
      /\ answers' = answers
  BY DEF Open
<1>3. Types'
  BY <1>1, <1>2 DEF IInv, Types, Stages
<1>4. Waits'
  BY <1>1 DEF IInv, Waits, Types, Calls, NoCall
<1>5. Counted'
  BY <1>1, <1>2 DEF IInv, Counted, Types, Demand, Turn
<1>6. Numbered'
  BY <1>1, <1>2 DEF IInv, Numbered, Counted, Types, Demand
<1>7. Reported'
  BY <1>1, WaitingTyped DEF IInv, Reported, Message, Types
<1>8. Starting'
  BY <1>1, <1>2 DEF IInv, Starting
<1>9. Running'
  BY <1>1, <1>2 DEF IInv, Running
<1>10. Ended'
  BY <1>1, <1>2 DEF IInv, Ended, Reported
<1>11. Fresh'
  BY <1>1, <1>2 DEF IInv, Fresh, Types, Counted, Reported
<1>12. Stopping'
  BY <1>1 DEF Stopping
<1>13. Answering'
  BY <1>2 DEF IInv, Answering
<1>14. QED
  BY <1>1, <1>2, <1>3, <1>4, <1>5, <1>6, <1>7, <1>8, <1>9, <1>10, <1>11, <1>12, <1>13
     DEF IInv

(* The first turn of the thread is asked for. *)
LEMMA StartTurnKeeps == ASSUME IInv, StartTurn PROVE IInv'
<1>1. \/ /\ stage' = "turn" /\ lost' = lost
         /\ Queues' /\ Once' /\ Waiting' = Waiting /\ UNCHANGED <<turns, deferred>>
         /\ calling = NoCall /\ calling' = next_id /\ next_id' = next_id + 1
         /\ asked' \subseteq Demand
         /\ \A r \in asked' : r \in asked \/
              r = [id |-> next_id, method |-> "turn/start", thread |-> tid, turn |-> 0]
      \/ /\ stage' = "leaving" /\ lost' = lost \cup {tid}
         /\ Queues' /\ Once' /\ Waiting' = Waiting /\ UNCHANGED <<turns, deferred, asked>>
         /\ calling = NoCall /\ calling' = NoCall /\ next_id' = next_id + 1
  BY Begins, Breaks DEF StartTurn, IInv, Types, Method
<1>2. stage = "ready" /\ UNCHANGED <<tid, turn_id, tool, over, answers>>
  BY DEF StartTurn
<1>3. Types'
  BY <1>1, <1>2 DEF IInv, Types, Stages
<1>4. Waits'
  BY <1>1 DEF IInv, Waits, Types, Calls, NoCall
<1>5. Counted'
  BY <1>1, <1>2 DEF IInv, Counted, Types, Demand, Turn
<1>6. Numbered'
  BY <1>1, <1>2 DEF IInv, Numbered, Counted, Demand
<1>7. Reported'
  BY <1>1, WaitingTyped DEF IInv, Reported, Message, Types
<1>8. Starting'
  BY <1>1, <1>2 DEF IInv, Starting, Fresh
<1>9. Running'
  BY <1>1, <1>2 DEF IInv, Running
<1>10. Ended'
  BY <1>1, <1>2 DEF IInv, Ended, Fresh
<1>11. Fresh'
  BY <1>1, <1>2 DEF IInv, Fresh
<1>12. Stopping'
  BY <1>1 DEF Stopping
<1>13. Answering'
  BY <1>2 DEF IInv, Answering
<1>14. QED
  BY <1>1, <1>2, <1>3, <1>4, <1>5, <1>6, <1>7, <1>8, <1>9, <1>10, <1>11, <1>12, <1>13
     DEF IInv

(* A client leaves without a call only if no turn of it can run. *)
LEMMA LeaveKeeps == ASSUME IInv, Leave PROVE IInv'
<1>1. \/ /\ stage' = "interrupt" /\ lost' = lost
         /\ Queues' /\ Once' /\ Waiting' = Waiting /\ UNCHANGED <<turns, deferred>>
         /\ calling = NoCall /\ calling' = next_id /\ next_id' = next_id + 1
         /\ asked' \subseteq Demand
         /\ \A r \in asked' : r \in asked \/
              r = [id |-> next_id, method |-> "turn/interrupt", thread |-> tid, turn |-> turn_id]
      \/ /\ stage' = "done" /\ lost' = lost \cup {tid}
         /\ Queues' /\ Once' /\ Waiting' = Waiting /\ UNCHANGED <<turns, deferred, asked>>
         /\ calling = NoCall /\ calling' = NoCall /\ next_id' = next_id + 1
      \/ /\ stage' = "done" /\ lost' = lost /\ (turn_id = 0 \/ over)
         /\ Queues' /\ Once' /\ Waiting' = Waiting
         /\ UNCHANGED <<turns, deferred, asked, calling, next_id>>
  BY Begins, Breaks DEF Leave, IInv, Types, Method, Queues, Once, Waiting, serverVars,
     queueVars, callVars, processVars
<1>2. stage = "leaving" /\ UNCHANGED <<tid, turn_id, tool, over, answers>>
  BY DEF Leave
<1>3. Types'
  BY <1>1, <1>2 DEF IInv, Types, Stages
<1>4. Waits'
  BY <1>1 DEF IInv, Waits, Types, Calls, NoCall
<1>5. Counted'
  BY <1>1, <1>2 DEF IInv, Counted, Types, Demand, Turn
<1>6. Numbered'
  BY <1>1, <1>2 DEF IInv, Numbered, Counted, Demand
<1>7. Reported'
  BY <1>1, WaitingTyped DEF IInv, Reported, Message, Types
<1>8. Starting'
  BY <1>1, <1>2 DEF IInv, Starting
<1>9. Running'
  BY <1>1, <1>2 DEF IInv, Running, Types, Turn
<1>10. Ended'
  BY <1>1, <1>2 DEF IInv, Ended
<1>11. Fresh'
  BY <1>1 DEF Fresh
<1>12. Stopping'
  BY <1>1, <1>2 DEF IInv, Stopping, Types, Counted, Reported, IsAnswer
<1>13. Answering'
  BY <1>2 DEF IInv, Answering
<1>14. QED
  BY <1>1, <1>2, <1>3, <1>4, <1>5, <1>6, <1>7, <1>8, <1>9, <1>10, <1>11, <1>12, <1>13
     DEF IInv

(* The thread is new: nothing of it waits and no turn of it runs. *)
LEMMA ThreadStartedKeeps == ASSUME IInv, ThreadStarted PROVE IInv'
<1>1. \/ /\ (tid' = calling /\ stage' = "ready") \/ (tid' = tid /\ stage' = "leaving")
         /\ lost' = lost
         /\ Queues' /\ Once' /\ Head1 \in Waiting /\ Waiting' = Waiting \ {Head1}
         /\ Head1.kind = "response" /\ Head1.id = calling /\ calling # NoCall
         /\ calling' = NoCall /\ deferred' = <<>> /\ UNCHANGED <<asked, turns, next_id>>
      \/ /\ tid' = tid /\ stage' = "leaving"
         /\ Queues' /\ Once' /\ Waiting' \subseteq Waiting
         /\ calling' = NoCall /\ deferred' = <<>> /\ UNCHANGED <<asked, turns>>
         /\ next_id' \in {next_id, next_id + 1} /\ lost' = lost \cup {tid}
  BY Returns, Fails DEF ThreadStarted
<1>2. stage = "thread" /\ UNCHANGED <<turn_id, tool, over, answers>>
  BY DEF ThreadStarted
<1>3. Types'
  BY <1>1, <1>2 DEF IInv, Types, Stages, NoCall
<1>4. Waits'
  BY <1>1 DEF Waits, Calls
<1>5. Counted'
  BY <1>1, <1>2 DEF IInv, Counted, Types, Demand, Turn, NoCall
<1>6. Numbered'
  BY <1>1, <1>2 DEF IInv, Numbered
<1>7. Reported'
  BY <1>1, WaitingTyped DEF IInv, Reported, Message, Types
<1>8. Starting'
  BY <1>1, <1>2 DEF IInv, Starting
<1>9. Running'
  BY <1>1, <1>2 DEF IInv, Running
<1>10. Ended'
  BY <1>1, <1>2 DEF IInv, Ended, Fresh
<1>11. Fresh'
  BY <1>1, <1>2 DEF IInv, Fresh, NoCall
<1>12. Stopping'
  BY <1>1 DEF Stopping
<1>13. Answering'
  BY <1>2 DEF IInv, Answering
<1>14. QED
  BY <1>1, <1>2, <1>3, <1>4, <1>5, <1>6, <1>7, <1>8, <1>9, <1>10, <1>11, <1>12, <1>13
     DEF IInv

(* A turn whose start was answered is the last one known. *)
LEMMA TurnStartedKeeps == ASSUME IInv, TurnStarted PROVE IInv'
<1>1. \/ /\ turn_id' = calling /\ stage' = "loop" /\ lost' = lost
         /\ Queues' /\ Once' /\ Head1 \in Waiting /\ Waiting' = Waiting \ {Head1}
         /\ Head1.kind = "response" /\ Head1.id = calling /\ calling # NoCall
         /\ calling' = NoCall /\ deferred' = <<>> /\ UNCHANGED <<asked, turns, next_id>>
      \/ /\ turn_id' = turn_id /\ stage' = "leaving"
         /\ Queues' /\ Once' /\ Waiting' \subseteq Waiting
         /\ calling' = NoCall /\ deferred' = <<>> /\ UNCHANGED <<asked, turns>>
         /\ next_id' \in {next_id, next_id + 1} /\ lost' = lost \cup {tid}
  BY Returns, Fails DEF TurnStarted
<1>2. stage \in {"turn", "follow"} /\ UNCHANGED <<tid, tool, over, answers>>
  BY DEF TurnStarted
<1>3. Types'
  BY <1>1, <1>2 DEF IInv, Types, Stages, NoCall
<1>4. Waits'
  BY <1>1 DEF Waits, Calls
<1>5. Counted'
  BY <1>1, <1>2 DEF IInv, Counted, Types, Demand, Turn, NoCall
<1>6. Numbered'
  BY <1>1 DEF IInv, Numbered, Reported, IsAnswer
<1>7. Reported'
  BY <1>1, WaitingTyped DEF IInv, Reported, Message, Types
<1>8. Starting'
  BY <1>1 DEF IInv, Starting, Reported, IsAnswer
<1>9. Running'
  BY <1>1, <1>2 DEF IInv, Running
<1>10. Ended'
  BY <1>1, <1>2 DEF IInv, Ended
<1>11. Fresh'
  BY <1>1, <1>2 DEF IInv, Fresh
<1>12. Stopping'
  BY <1>1 DEF Stopping
<1>13. Answering'
  BY <1>2 DEF IInv, Answering
<1>14. QED
  BY <1>1, <1>2, <1>3, <1>4, <1>5, <1>6, <1>7, <1>8, <1>9, <1>10, <1>11, <1>12, <1>13
     DEF IInv

(* After the answer to the interruption no turn of the client runs. *)
LEMMA InterruptedKeeps == ASSUME IInv, Interrupted PROVE IInv'
<1>1. \/ /\ lost' = lost
         /\ Queues' /\ Once' /\ Head1 \in Waiting /\ Waiting' = Waiting \ {Head1}
         /\ Head1.kind = "response" /\ Head1.id = calling /\ calling # NoCall
         /\ calling' = NoCall /\ deferred' = <<>> /\ UNCHANGED <<asked, turns, next_id>>
      \/ /\ TRUE
         /\ Queues' /\ Once' /\ Waiting' \subseteq Waiting
         /\ calling' = NoCall /\ deferred' = <<>> /\ UNCHANGED <<asked, turns>>
         /\ next_id' \in {next_id, next_id + 1} /\ lost' = lost \cup {tid}
  BY Returns, Fails DEF Interrupted
<1>2. stage = "interrupt" /\ stage' = "done"
      /\ UNCHANGED <<tid, turn_id, tool, over, answers>>
  BY DEF Interrupted
<1>3. Types'
  BY <1>1, <1>2 DEF IInv, Types, Stages, NoCall
<1>4. Waits'
  BY <1>1, <1>2 DEF Waits, Calls
<1>5. Counted'
  BY <1>1, <1>2 DEF IInv, Counted, Types, Demand, Turn, NoCall
<1>6. Numbered'
  BY <1>1, <1>2 DEF IInv, Numbered
<1>7. Reported'
  BY <1>1, WaitingTyped DEF IInv, Reported, Message, Types
<1>8. Starting'
  BY <1>1, <1>2 DEF IInv, Starting
<1>9. Running'
  BY <1>1, <1>2 DEF IInv, Running, Stopping
<1>10. Ended'
  BY <1>1, <1>2 DEF IInv, Ended
<1>11. Fresh'
  BY <1>2 DEF Fresh
<1>12. Stopping'
  BY <1>2 DEF Stopping
<1>13. Answering'
  BY <1>2 DEF IInv, Answering
<1>14. QED
  BY <1>1, <1>2, <1>3, <1>4, <1>5, <1>6, <1>7, <1>8, <1>9, <1>10, <1>11, <1>12, <1>13
     DEF IInv

(* What is deferred still waits. *)
LEMMA DeferringKeeps == ASSUME IInv, Deferring PROVE IInv'
<1>1. Queues' /\ Once' /\ Waiting' = Waiting
  BY HeadIsDeferred DEF IInv, Deferring
<1>2. /\ UNCHANGED <<asked, turns, next_id, calling>> /\ calling # NoCall
      /\ UNCHANGED <<stage, tid, turn_id, tool, over, answers, lost>>
  BY DEF Deferring, CallDefers, processVars, ownVars
<1>3. Types'
  BY <1>2 DEF IInv, Types
<1>4. Waits'
  BY <1>2 DEF IInv, Waits
<1>5. Counted'
  BY <1>2 DEF IInv, Counted
<1>6. Numbered'
  BY <1>2 DEF IInv, Numbered
<1>7. Reported'
  BY <1>1, <1>2 DEF IInv, Reported
<1>8. Starting'
  BY <1>2 DEF IInv, Starting
<1>9. Running'
  BY <1>2 DEF IInv, Running
<1>10. Ended'
  BY <1>1, <1>2 DEF IInv, Ended
<1>11. Fresh'
  BY <1>1, <1>2 DEF IInv, Fresh
<1>12. Stopping'
  BY <1>1, <1>2 DEF IInv, Stopping
<1>13. Answering'
  BY <1>2 DEF IInv, Answering
<1>14. QED
  BY <1>1, <1>2, <1>3, <1>4, <1>5, <1>6, <1>7, <1>8, <1>9, <1>10, <1>11, <1>12, <1>13
     DEF IInv

(* Another one's message says nothing of the thread. *)
LEMMA SkipKeeps == ASSUME IInv, Skip PROVE IInv'
<1>1. /\ Queues' /\ Once'
      /\ Head1 \in Message /\ Head1 \in Waiting /\ Waiting' = Waiting \ {Head1}
      /\ UNCHANGED <<asked, turns, next_id, calling, deferred>>
  BY Takes DEF Skip
<1>2. Types'
  BY <1>1 DEF IInv, Skip, ownVars, Types
<1>3. Waits'
  BY <1>1 DEF IInv, Skip, ownVars, Waits
<1>4. Counted'
  BY <1>1 DEF IInv, Skip, ownVars, Counted
<1>5. Numbered'
  BY <1>1 DEF IInv, Skip, ownVars, Numbered
<1>6. Reported'
  BY <1>1 DEF IInv, Reported
<1>7. Starting'
  BY <1>1 DEF IInv, Skip, ownVars, Starting
<1>8. Running'
  BY <1>1 DEF IInv, Skip, ownVars, Running
<1>9. Ended'
  BY <1>1 DEF IInv, Skip, ownVars, Ended
<1>10. Fresh'
  BY <1>1 DEF IInv, Skip, ownVars, Fresh
<1>11. Stopping'
  BY <1>1 DEF Skip, HasTurn, ownVars, Stopping
<1>12. Answering'
  BY DEF IInv, Skip, ownVars, Answering
<1>13. QED
  BY <1>1, <1>2, <1>3, <1>4, <1>5, <1>6, <1>7, <1>8, <1>9, <1>10, <1>11, <1>12 DEF IInv

(* The transport has ended. *)
LEMMA LoseKeeps == ASSUME IInv, Lose PROVE IInv'
<1>1. /\ Queues' /\ Once'
      /\ Head1 \in Message /\ Head1 \in Waiting /\ Waiting' = Waiting \ {Head1}
      /\ UNCHANGED <<asked, turns, next_id, calling, deferred>>
  BY Takes DEF Lose
<1>2. Types'
  BY <1>1 DEF IInv, Lose, Types, Stages
<1>3. Waits'
  BY <1>1 DEF IInv, Lose, HasTurn, Waits, Calls
<1>4. Counted'
  BY <1>1 DEF IInv, Lose, Counted
<1>5. Numbered'
  BY <1>1 DEF IInv, Lose, Numbered
<1>6. Reported'
  BY <1>1 DEF IInv, Reported
<1>7. Starting'
  BY <1>1 DEF IInv, Lose, HasTurn, Starting
<1>8. Running'
  BY <1>1 DEF IInv, Lose, HasTurn, Running
<1>9. Ended'
  BY <1>1 DEF IInv, Lose, Ended
<1>10. Fresh'
  BY <1>1 DEF Lose, Fresh
<1>11. Stopping'
  BY <1>1 DEF Lose, Stopping
<1>12. Answering'
  BY DEF IInv, Lose, HasTurn, Answering
<1>13. QED
  BY <1>1, <1>2, <1>3, <1>4, <1>5, <1>6, <1>7, <1>8, <1>9, <1>10, <1>11, <1>12 DEF IInv

(* The turn is seen to end only when it has. *)
LEMMA NoteKeeps == ASSUME IInv, Note PROVE IInv'
<1>1. /\ Queues' /\ Once'
      /\ Head1 \in Message /\ Head1 \in Waiting /\ Waiting' = Waiting \ {Head1}
      /\ UNCHANGED <<asked, turns, next_id, calling, deferred>>
  BY Takes DEF Note
<1>2. over' => Head1.kind \in Endings
  BY Zenon DEF Note, Endings
<1>3. Types'
  BY <1>1 DEF IInv, Note, Types, Stages
<1>4. Waits'
  BY <1>1 DEF IInv, Note, HasTurn, Waits, Calls
<1>5. Counted'
  BY <1>1 DEF IInv, Note, Counted
<1>6. Numbered'
  BY <1>1 DEF IInv, Note, Numbered
<1>7. Reported'
  BY <1>1 DEF IInv, Reported
<1>8. Starting'
  BY <1>1 DEF IInv, Note, HasTurn, Starting
<1>9. Running'
  BY <1>1, <1>2 DEF IInv, Note, HasTurn, IsMine, Running, Ended
<1>10. Ended'
  BY <1>1, <1>2 DEF IInv, Note, IsMine, Ended
<1>11. Fresh'
  BY <1>1, <1>2 DEF IInv, Note, HasTurn, Fresh
<1>12. Stopping'
  BY <1>1, <1>2 DEF Note, Stopping
<1>13. Answering'
  BY DEF IInv, Note, HasTurn, Answering
<1>14. QED
  BY <1>1, <1>2, <1>3, <1>4, <1>5, <1>6, <1>7, <1>8, <1>9, <1>10, <1>11, <1>12, <1>13
     DEF IInv

(* Only a tool call of the own thread is taken. *)
LEMMA TakeToolKeeps == ASSUME IInv, TakeTool PROVE IInv'
<1>1. /\ Queues' /\ Once'
      /\ Head1 \in Message /\ Head1 \in Waiting /\ Waiting' = Waiting \ {Head1}
      /\ UNCHANGED <<asked, turns, next_id, calling, deferred>>
  BY Takes DEF TakeTool
<1>2. Types'
  BY <1>1 DEF IInv, TakeTool, Types, Stages
<1>3. Waits'
  BY <1>1 DEF IInv, TakeTool, HasTurn, Waits, Calls
<1>4. Counted'
  BY <1>1 DEF IInv, TakeTool, Counted
<1>5. Numbered'
  BY <1>1 DEF IInv, TakeTool, Numbered
<1>6. Reported'
  BY <1>1 DEF IInv, Reported
<1>7. Starting'
  BY <1>1 DEF IInv, TakeTool, HasTurn, Starting
<1>8. Running'
  BY <1>1 DEF IInv, TakeTool, HasTurn, Running
<1>9. Ended'
  BY <1>1 DEF IInv, TakeTool, Ended
<1>10. Fresh'
  BY <1>1 DEF IInv, TakeTool, Fresh
<1>11. Stopping'
  BY <1>1 DEF TakeTool, HasTurn, Stopping
<1>12. Answering'
  BY DEF IInv, TakeTool, HasTurn, IsMine, Answered, Answering
<1>13. QED
  BY <1>1, <1>2, <1>3, <1>4, <1>5, <1>6, <1>7, <1>8, <1>9, <1>10, <1>11, <1>12 DEF IInv

(* The answer goes to the thread that has made the call. *)
LEMMA AnswerToolKeeps == ASSUME IInv, AnswerTool PROVE IInv'
<1>1. /\ Queues' /\ Once' /\ Waiting' = Waiting
      /\ UNCHANGED <<asked, turns, next_id, calling, deferred>>
  BY DEF IInv, AnswerTool, Queues, Once, Waiting, serverVars, queueVars, callVars,
     processVars
<1>2. Types'
  BY <1>1 DEF IInv, AnswerTool, Types, Stages
<1>3. Waits'
  BY <1>1 DEF IInv, AnswerTool, Waits, Calls, Answering
<1>4. Counted'
  BY <1>1 DEF IInv, AnswerTool, Counted
<1>5. Numbered'
  BY <1>1 DEF IInv, AnswerTool, Numbered
<1>6. Reported'
  BY <1>1 DEF IInv, Reported
<1>7. Starting'
  BY <1>1 DEF IInv, AnswerTool, Starting, Answering
<1>8. Running'
  BY <1>1 DEF IInv, AnswerTool, Running, Answering
<1>9. Ended'
  BY <1>1 DEF IInv, AnswerTool, Ended
<1>10. Fresh'
  BY <1>1 DEF IInv, AnswerTool, Fresh
<1>11. Stopping'
  BY <1>1 DEF IInv, AnswerTool, Stopping
<1>12. Answering'
  BY DEF IInv, AnswerTool, Answered, Answering
<1>13. QED
  BY <1>1, <1>2, <1>3, <1>4, <1>5, <1>6, <1>7, <1>8, <1>9, <1>10, <1>11, <1>12 DEF IInv

(* A client may leave at any time. *)
LEMMA GiveUpKeeps == ASSUME IInv, GiveUp PROVE IInv'
<1>1. /\ Queues' /\ Once' /\ Waiting' = Waiting
      /\ UNCHANGED <<asked, turns, next_id, calling, deferred>>
  BY DEF IInv, GiveUp, Queues, Once, Waiting, serverVars, queueVars, callVars,
     processVars
<1>2. Types'
  BY <1>1 DEF IInv, GiveUp, Types, Stages
<1>3. Waits'
  BY <1>1 DEF IInv, GiveUp, HasTurn, Waits, Calls
<1>4. Counted'
  BY <1>1 DEF IInv, GiveUp, Counted
<1>5. Numbered'
  BY <1>1 DEF IInv, GiveUp, Numbered
<1>6. Reported'
  BY <1>1 DEF IInv, Reported
<1>7. Starting'
  BY <1>1 DEF IInv, GiveUp, HasTurn, Starting
<1>8. Running'
  BY <1>1 DEF IInv, GiveUp, HasTurn, Running
<1>9. Ended'
  BY <1>1 DEF IInv, GiveUp, Ended
<1>10. Fresh'
  BY DEF GiveUp, Fresh
<1>11. Stopping'
  BY DEF GiveUp, Stopping
<1>12. Answering'
  BY DEF IInv, GiveUp, HasTurn, Answering
<1>13. QED
  BY <1>1, <1>2, <1>3, <1>4, <1>5, <1>6, <1>7, <1>8, <1>9, <1>10, <1>11, <1>12 DEF IInv

(* The turn that has ended was the only one, so the next one is again. *)
LEMMA FollowKeeps == ASSUME IInv, Follow PROVE IInv'
<1>1. /\ Queues' /\ Once'
      /\ Head1 \in Message /\ Head1 \in Waiting /\ Waiting' = Waiting \ {Head1}
  BY HeadIsTaken DEF IInv, Follow, ReceivesAndCalls
<1>2. /\ calling = NoCall /\ next_id' = next_id + 1 /\ UNCHANGED <<turns, deferred>>
      /\ stage = "loop" /\ tool = NoMessage
      /\ Head1.thread = tid /\ Head1.kind \in Endings
      /\ UNCHANGED <<tid, turn_id, tool, over, answers>>
  BY DEF Follow, ReceivesAndCalls, HasTurn, IsMine, Endings
<1> DEFINE request == [id |-> next_id, method |-> "turn/start", thread |-> tid, turn |-> 0]
<1>3. \/ /\ calling' = next_id /\ stage' = "follow" /\ lost' = lost
         /\ asked' \subseteq Demand /\ \A r \in asked' : r \in asked \/ r = request
      \/ /\ calling' = NoCall /\ stage' = "leaving" /\ lost' = lost \cup {tid}
         /\ asked' = asked
  <2>1. \/ calling' = next_id /\ \A r \in asked' : r \in asked \/ r = request
        \/ calling' = NoCall /\ asked' = asked
    BY DEF Follow, ReceivesAndCalls, Request
  <2>2. next_id # NoCall /\ request \in Demand
    BY DEF IInv, Types, NoCall, Demand, Method
  <2>3. \/ calling' # NoCall /\ stage' = "follow" /\ lost' = lost
        \/ calling' = NoCall /\ stage' = "leaving" /\ lost' = lost \cup {tid}
    BY DEF Follow
  <2>4. QED
    BY <2>1, <2>2, <2>3 DEF IInv, Types
<1>4. Types'
  BY <1>2, <1>3 DEF IInv, Types, Stages
<1>5. Waits'
  BY <1>2, <1>3 DEF IInv, Waits, Types, Calls, NoCall
<1>6. Counted'
  BY <1>2, <1>3 DEF IInv, Counted, Types, Demand, Turn
<1>7. Numbered'
  BY <1>2, <1>3 DEF IInv, Numbered, Counted, Demand
<1>8. Reported'
  BY <1>1, <1>2, <1>3, WaitingTyped DEF IInv, Reported, Message, Types
<1>9. Starting'
  BY <1>2, <1>3 DEF IInv, Starting, Fresh
<1>10. Running'
  BY <1>1, <1>2, <1>3 DEF IInv, Running, Ended
<1>11. Ended'
  BY <1>1, <1>2, <1>3 DEF IInv, Ended
<1>12. Fresh'
  BY <1>1, <1>2, <1>3 DEF IInv, Fresh, Ended
<1>13. Stopping'
  BY <1>3 DEF Stopping
<1>14. Answering'
  BY <1>2 DEF IInv, Answering
<1>15. QED
  BY <1>1, <1>2, <1>3, <1>4, <1>5, <1>6, <1>7, <1>8, <1>9, <1>10, <1>11, <1>12, <1>13,
     <1>14 DEF IInv

-----------------------------------------------------------------------------
(* The process, while the client does what it does. *)

(* The answer to turn/start is the start of the turn, that to turn/interrupt its end. *)
LEMMA AnswersKeeps == ASSUME IInv, Answers, UNCHANGED ownVars PROVE IInv'
<1>1. PICK r \in asked, m \in Message :
         /\ Queues' /\ Once' /\ m \notin Waiting /\ Waiting' = Waiting \cup {m}
         /\ m.kind \in {"response", "refusal"} /\ m.id = r.id /\ m.thread = 0
         /\ asked' = asked \ {r}
         /\ \A t \in turns' : \/ t \in turns
                              \/ r.method = "turn/start" /\ t = [thread |-> r.thread, id |-> r.id]
         /\ m.kind = "response" /\ r.method = "turn/interrupt" =>
               \A t \in turns' : t.id # r.turn
  <2>1. PICK r \in asked :
           /\ asked' = asked \ {r}
           /\ \/ /\ Arrives("response", r.id, 0)
                 /\ turns' = CASE r.method = "turn/start" ->
                                     turns \cup {[thread |-> r.thread, id |-> r.id]}
                               [] r.method = "turn/interrupt" ->
                                     {t \in turns : t.id # r.turn}
                               [] OTHER -> turns
              \/ Arrives("refusal", r.id, 0) /\ UNCHANGED turns
    BY DEF Answers
  <2>2. /\ deferred' = deferred /\ r.id \in Nat /\ 0 \in Nat
        /\ "response" \in Kind /\ "refusal" \in Kind /\ Queues /\ Once
    BY DEF Answers, callVars, IInv, Types, Demand, Kind
  <2>3. CASE /\ Arrives("response", r.id, 0)
             /\ turns' = CASE r.method = "turn/start" ->
                                 turns \cup {[thread |-> r.thread, id |-> r.id]}
                           [] r.method = "turn/interrupt" -> {t \in turns : t.id # r.turn}
                           [] OTHER -> turns
    <3>1. /\ Queues' /\ Once'
          /\ \E m \in Message : /\ m.kind = "response" /\ m.id = r.id /\ m.thread = 0
                                /\ m \notin Waiting /\ Waiting' = Waiting \cup {m}
      BY <2>2, <2>3, MessageArrives
    <3>2. /\ \A t \in turns' :
                \/ t \in turns
                \/ r.method = "turn/start" /\ t = [thread |-> r.thread, id |-> r.id]
          /\ r.method = "turn/interrupt" => \A t \in turns' : t.id # r.turn
      BY <2>3
    <3>3. QED
      BY <2>1, <3>1, <3>2
  <2>4. CASE Arrives("refusal", r.id, 0) /\ UNCHANGED turns
    <3>1. /\ Queues' /\ Once'
          /\ \E m \in Message : /\ m.kind = "refusal" /\ m.id = r.id /\ m.thread = 0
                                /\ m \notin Waiting /\ Waiting' = Waiting \cup {m}
      BY <2>2, <2>4, MessageArrives
    <3>2. QED
      BY <2>1, <2>4, <3>1
  <2>5. QED
    BY <2>1, <2>3, <2>4
<1>2. /\ UNCHANGED <<stage, tid, turn_id, tool, over, answers, lost>>
      /\ UNCHANGED <<next_id, calling, deferred>>
  BY DEF ownVars, Answers, callVars
<1>3. Types'
  BY <1>1, <1>2 DEF IInv, Types, Demand, Turn, Starting
<1>4. Waits'
  BY <1>2 DEF IInv, Waits
<1>5. Counted'
  BY <1>1, <1>2 DEF IInv, Counted
<1>6. Numbered'
  BY <1>1, <1>2 DEF IInv, Numbered
<1>7. Reported'
  BY <1>1, <1>2 DEF IInv, Reported, Counted, Numbered, Endings
<1>8. Starting'
  BY <1>1, <1>2 DEF IInv, Starting
<1>9. Running'
  BY <1>1, <1>2 DEF IInv, Running, Starting, Fresh
<1>10. Ended'
  BY <1>1, <1>2 DEF IInv, Ended, Endings
<1>11. Fresh'
  BY <1>1, <1>2 DEF IInv, Fresh, Endings
<1>12. Stopping'
  BY <1>1, <1>2 DEF IInv, Stopping, Numbered
<1>13. Answering'
  BY <1>2 DEF IInv, Answering
<1>14. QED
  BY <1>1, <1>2, <1>3, <1>4, <1>5, <1>6, <1>7, <1>8, <1>9, <1>10, <1>11, <1>12, <1>13
     DEF IInv

(* What a turn sends while it runs is no answer and no end. *)
LEMMA TurnSendsKeeps == ASSUME IInv, TurnSends, UNCHANGED ownVars PROVE IInv'
<1>1. PICK m \in Message :
         /\ Queues' /\ Once' /\ m \notin Waiting /\ Waiting' = Waiting \cup {m}
         /\ m.kind \notin {"response", "refusal"} \cup Endings
  <2>1. PICK t \in turns, kind \in Kinds : Arrives(kind, arrived + 1, t.thread)
    BY DEF TurnSends
  <2>2. /\ deferred' = deferred /\ arrived + 1 \in Nat /\ t.thread \in Nat
        /\ kind \in Kind /\ Queues /\ Once
    BY DEF TurnSends, callVars, IInv, Types, Turn, Kind, Queues
  <2>3. QED
    BY <2>1, <2>2, MessageArrives, KindsDisjoint
<1>2. /\ UNCHANGED <<stage, tid, turn_id, tool, over, answers, lost>>
      /\ UNCHANGED <<asked, turns, next_id, calling, deferred>>
  BY DEF ownVars, TurnSends, callVars
<1>3. Types'
  BY <1>2 DEF IInv, Types
<1>4. Waits'
  BY <1>2 DEF IInv, Waits
<1>5. Counted'
  BY <1>2 DEF IInv, Counted
<1>6. Numbered'
  BY <1>2 DEF IInv, Numbered
<1>7. Reported'
  BY <1>1, <1>2 DEF IInv, Reported, IsAnswer
<1>8. Starting'
  BY <1>2 DEF IInv, Starting
<1>9. Running'
  BY <1>2 DEF IInv, Running
<1>10. Ended'
  BY <1>1, <1>2 DEF IInv, Ended
<1>11. Fresh'
  BY <1>1, <1>2 DEF IInv, Fresh
<1>12. Stopping'
  BY <1>1, <1>2 DEF IInv, Stopping
<1>13. Answering'
  BY <1>2 DEF IInv, Answering
<1>14. QED
  BY <1>1, <1>2, <1>3, <1>4, <1>5, <1>6, <1>7, <1>8, <1>9, <1>10, <1>11, <1>12, <1>13
     DEF IInv

(* Nor is a notification. *)
LEMMA NotifiesKeeps == ASSUME IInv, Notifies, UNCHANGED ownVars PROVE IInv'
<1>1. PICK m \in Message :
         /\ Queues' /\ Once' /\ m \notin Waiting /\ Waiting' = Waiting \cup {m}
         /\ m.kind \notin {"response", "refusal"} \cup Endings
  <2>1. /\ deferred' = deferred /\ 0 \in Nat /\ "notice" \in Kinds
        /\ "notice" \in Kind /\ Arrives("notice", 0, 0) /\ Queues /\ Once
    BY DEF Notifies, callVars, IInv, Kind
  <2>2. QED
    BY <2>1, MessageArrives, KindsDisjoint
<1>2. /\ UNCHANGED <<stage, tid, turn_id, tool, over, answers, lost>>
      /\ UNCHANGED <<asked, turns, next_id, calling, deferred>>
  BY DEF ownVars, Notifies, callVars
<1>3. Types'
  BY <1>2 DEF IInv, Types
<1>4. Waits'
  BY <1>2 DEF IInv, Waits
<1>5. Counted'
  BY <1>2 DEF IInv, Counted
<1>6. Numbered'
  BY <1>2 DEF IInv, Numbered
<1>7. Reported'
  BY <1>1, <1>2 DEF IInv, Reported, IsAnswer
<1>8. Starting'
  BY <1>2 DEF IInv, Starting
<1>9. Running'
  BY <1>2 DEF IInv, Running
<1>10. Ended'
  BY <1>1, <1>2 DEF IInv, Ended
<1>11. Fresh'
  BY <1>1, <1>2 DEF IInv, Fresh
<1>12. Stopping'
  BY <1>1, <1>2 DEF IInv, Stopping
<1>13. Answering'
  BY <1>2 DEF IInv, Answering
<1>14. QED
  BY <1>1, <1>2, <1>3, <1>4, <1>5, <1>6, <1>7, <1>8, <1>9, <1>10, <1>11, <1>12, <1>13
     DEF IInv

(* A turn that ends was the only one of its thread, and no end of it waits yet. *)
LEMMA TurnEndsKeeps == ASSUME IInv, TurnEnds, UNCHANGED ownVars PROVE IInv'
<1>1. PICK t \in turns, m \in Message :
         /\ Queues' /\ Once' /\ m \notin Waiting /\ Waiting' = Waiting \cup {m}
         /\ m.kind \in Endings /\ m.thread = t.thread /\ turns' = turns \ {t}
  <2>1. PICK t \in turns, kind \in Endings :
           Arrives(kind, t.id, t.thread) /\ turns' = turns \ {t}
    BY DEF TurnEnds, Endings
  <2>2. /\ deferred' = deferred /\ t.id \in Nat /\ t.thread \in Nat
        /\ kind \in Kind /\ Queues /\ Once
    BY DEF TurnEnds, callVars, IInv, Types, Turn, Kind
  <2>3. QED
    BY <2>1, <2>2, MessageArrives
<1>2. /\ UNCHANGED <<stage, tid, turn_id, tool, over, answers, lost>>
      /\ UNCHANGED <<asked, next_id, calling, deferred>>
  BY DEF ownVars, TurnEnds, callVars
<1>3. Types'
  BY <1>1, <1>2 DEF IInv, Types
<1>4. Waits'
  BY <1>2 DEF IInv, Waits
<1>5. Counted'
  BY <1>1, <1>2 DEF IInv, Counted
<1>6. Numbered'
  BY <1>1, <1>2 DEF IInv, Numbered
<1>7. Reported'
  BY <1>1, <1>2 DEF IInv, Reported, Counted, Types, Turn, IsAnswer, Endings
<1>8. Starting'
  BY <1>2 DEF IInv, Starting
<1>9. Running'
  BY <1>1, <1>2 DEF IInv, Running
<1>10. Ended'
  BY <1>1, <1>2 DEF IInv, Ended, Types, Numbered, Starting, Running, Turn
<1>11. Fresh'
  BY <1>1, <1>2 DEF IInv, Fresh, Running
<1>12. Stopping'
  BY <1>1, <1>2 DEF IInv, Stopping, Endings
<1>13. Answering'
  BY <1>2 DEF IInv, Answering
<1>14. QED
  BY <1>1, <1>2, <1>3, <1>4, <1>5, <1>6, <1>7, <1>8, <1>9, <1>10, <1>11, <1>12, <1>13
     DEF IInv

(* The end of the process ends all turns. *)
LEMMA EndsKeeps == ASSUME IInv, Ends, UNCHANGED ownVars PROVE IInv'
<1>1. PICK m \in Message :
         /\ Queues' /\ Once' /\ m \notin Waiting /\ Waiting' = Waiting \cup {m}
         /\ m.kind \notin {"response", "refusal"} \cup Endings
         /\ turns' = {} /\ asked' = {}
  <2>1. /\ deferred' = deferred /\ 0 \in Nat
        /\ "closed" \in Kind /\ Arrives("closed", 0, 0) /\ Queues /\ Once
    BY DEF Ends, callVars, IInv, Kind
  <2>2. QED
    BY <2>1, MessageArrives DEF Ends, Endings
<1>2. /\ UNCHANGED <<stage, tid, turn_id, tool, over, answers, lost>>
      /\ UNCHANGED <<next_id, calling, deferred>>
  BY DEF ownVars, Ends, callVars
<1>3. Types'
  BY <1>1, <1>2 DEF IInv, Types
<1>4. Waits'
  BY <1>2 DEF IInv, Waits
<1>5. Counted'
  BY <1>1, <1>2 DEF IInv, Counted
<1>6. Numbered'
  BY <1>1 DEF Numbered
<1>7. Reported'
  BY <1>1, <1>2 DEF IInv, Reported, IsAnswer
<1>8. Starting'
  BY <1>1 DEF Starting
<1>9. Running'
  BY <1>1 DEF Running
<1>10. Ended'
  BY <1>1, <1>2 DEF IInv, Ended
<1>11. Fresh'
  BY <1>1, <1>2 DEF IInv, Fresh
<1>12. Stopping'
  BY <1>1 DEF Stopping
<1>13. Answering'
  BY <1>2 DEF IInv, Answering
<1>14. QED
  BY <1>1, <1>2, <1>3, <1>4, <1>5, <1>6, <1>7, <1>8, <1>9, <1>10, <1>11, <1>12, <1>13
     DEF IInv

-----------------------------------------------------------------------------
LEMMA InitIInv == Init => IInv
<1> SUFFICES ASSUME Init PROVE IInv
  OBVIOUS
<1>1. Waiting = {} /\ Queues /\ Once
  <2>1. /\ messages = <<>> /\ deferred = <<>> /\ arrived = 0
        /\ messages \in Seq(Message) /\ deferred \in Seq(Message)
    BY DEF Init, ServerInit
  <2>2. QED
    BY <2>1, EmptyRange DEF Waiting, Queues, Once, Distinct
<1>2. QED
  BY <1>1 DEF Init, ServerInit, IInv, Types, Waits, Counted, Numbered, Reported,
     Starting, Running, Ended, Fresh, Stopping, Answering, Stages, Calls, NoCall,
     NoMessage

LEMMA NextIInv == IInv /\ [Next]_clientVars => IInv'
<1> SUFFICES ASSUME IInv, [Next]_clientVars PROVE IInv'
  OBVIOUS
<1>1. CASE Server
  BY <1>1, AnswersKeeps, TurnSendsKeeps, NotifiesKeeps, TurnEndsKeeps, EndsKeeps DEF
     Server, Process
<1>2. CASE Open
  BY <1>2, OpenKeeps
<1>3. CASE Opening
  BY <1>3, ThreadStartedKeeps, StartTurnKeeps, TurnStartedKeeps, DeferringKeeps DEF
     Opening
<1>4. CASE Turning
  BY <1>4, SkipKeeps, LoseKeeps, NoteKeeps, TakeToolKeeps, AnswerToolKeeps, FollowKeeps,
     GiveUpKeeps DEF Turning
<1>5. CASE Leaving
  BY <1>5, LeaveKeeps, InterruptedKeeps DEF Leaving
<1>6. CASE UNCHANGED clientVars
  BY <1>6 DEF clientVars, serverVars, processVars, queueVars, callVars, ownVars, IInv,
     Queues, Types, Waits, Counted, Once, Waiting, Numbered, Reported, Starting,
     Running, Ended, Fresh, Stopping, Answering
<1>7. QED
  BY <1>1, <1>2, <1>3, <1>4, <1>5, <1>6 DEF Next

(* Whoever answers a tool call is the one whose thread made it, and a turn  *)
(* runs only while its client does, unless a call about its thread raised:  *)
(* for any number of clients and messages.                                  *)
THEOREM ThreadsApartCorrect == Spec => []ThreadsApart
<1>1. IInv => ThreadsApart
  BY DEF IInv, Running, Answering, ThreadsApart
<1>2. QED
  BY <1>1, InitIInv, NextIInv, PTL DEF Spec

-----------------------------------------------------------------------------
(* The campaign. *)

(* Only a client calls while there is one, and only main while there is     *)
(* none; main does nothing else during a call of its own.                   *)
MainCalls ==
    /\ at \notin {"preflight", "trial"} => stage = "done"
    /\ stage = "done" /\ calling # NoCall => at \in {"connect", "catalog"}

CInv == IInv /\ MainCalls

-----------------------------------------------------------------------------
(* The calls of main keep the invariant of the clients. *)

(* initialize and model/list are asked for like anything else. *)
LEMMA AsksKeeps == ASSUME IInv, MainCalls, Asks PROVE IInv'
<1>1. \/ /\ Queues' /\ Once' /\ Waiting' = Waiting /\ UNCHANGED <<turns, deferred>>
         /\ calling = NoCall /\ calling' = next_id /\ next_id' = next_id + 1
         /\ asked' \subseteq Demand
         /\ \A r \in asked' :
               r \in asked \/ r = [id |-> next_id, method |-> at, thread |-> 0, turn |-> 0]
      \/ /\ Queues' /\ Once' /\ Waiting' = Waiting /\ UNCHANGED <<turns, deferred, asked>>
         /\ calling = NoCall /\ calling' = NoCall /\ next_id' = next_id + 1
  BY Begins, Breaks DEF Asks, Method
<1>2. stage = "done" /\ at # "turn/start"
      /\ UNCHANGED <<stage, tid, turn_id, tool, over, answers, lost>>
  BY DEF Asks, ownVars, MainCalls
<1>3. Types'
  BY <1>1, <1>2 DEF IInv, Types
<1>4. Waits'
  BY <1>1, <1>2 DEF IInv, Waits
<1>5. Counted'
  BY <1>1, <1>2 DEF IInv, Counted, Types, Demand, Turn
<1>6. Numbered'
  BY <1>1, <1>2 DEF IInv, Numbered, Counted, Demand
<1>7. Reported'
  BY <1>1, WaitingTyped DEF IInv, Reported, Message, Types
<1>8. Starting'
  BY <1>1, <1>2 DEF IInv, Starting
<1>9. Running'
  BY <1>1, <1>2 DEF IInv, Running
<1>10. Ended'
  BY <1>1, <1>2 DEF IInv, Ended
<1>11. Fresh'
  BY <1>2 DEF Fresh
<1>12. Stopping'
  BY <1>2 DEF Stopping
<1>13. Answering'
  BY <1>2 DEF IInv, Answering
<1>14. QED
  BY <1>1, <1>2, <1>3, <1>4, <1>5, <1>6, <1>7, <1>8, <1>9, <1>10, <1>11, <1>12, <1>13
     DEF IInv

(* Their answers say nothing of a turn. *)
LEMMA AnswerKeeps == ASSUME IInv, stage = "done", CallReturns \/ CallRaises, UNCHANGED ownVars
                       PROVE IInv'
<1>1. \/ /\ Queues' /\ Once' /\ Head1 \in Waiting /\ Waiting' = Waiting \ {Head1}
         /\ Head1.kind = "response" /\ Head1.id = calling /\ calling # NoCall
         /\ calling' = NoCall /\ deferred' = <<>> /\ UNCHANGED <<asked, turns, next_id>>
      \/ /\ Queues' /\ Once' /\ Waiting' \subseteq Waiting
         /\ calling' = NoCall /\ deferred' = <<>> /\ UNCHANGED <<asked, turns, next_id>>
  BY Returns, Raises
<1>2. UNCHANGED <<stage, tid, turn_id, tool, over, answers, lost>>
  BY DEF ownVars
<1>3. Types'
  BY <1>1, <1>2 DEF IInv, Types, NoCall
<1>4. Waits'
  BY <1>1, <1>2 DEF Waits, Calls
<1>5. Counted'
  BY <1>1, <1>2 DEF IInv, Counted, Types, NoCall
<1>6. Numbered'
  BY <1>1, <1>2 DEF IInv, Numbered
<1>7. Reported'
  BY <1>1 DEF IInv, Reported
<1>8. Starting'
  BY <1>1, <1>2 DEF IInv, Starting
<1>9. Running'
  BY <1>1, <1>2 DEF IInv, Running
<1>10. Ended'
  BY <1>1, <1>2 DEF IInv, Ended
<1>11. Fresh'
  BY <1>2 DEF Fresh
<1>12. Stopping'
  BY <1>2 DEF Stopping
<1>13. Answering'
  BY <1>2 DEF IInv, Answering
<1>14. QED
  BY <1>1, <1>2, <1>3, <1>4, <1>5, <1>6, <1>7, <1>8, <1>9, <1>10, <1>11, <1>12, <1>13
     DEF IInv

(* The process ends with main: what it ran and what it sent is gone. *)
LEMMA ExitKeeps == ASSUME IInv, NEW how, stage = "done", calling = NoCall, Exit(how) PROVE IInv'
<1>1. /\ messages' = <<>> /\ deferred' = <<>> /\ arrived' = 0
      /\ turns' = {} /\ asked' = {}
      /\ messages' \in Seq(Message) /\ deferred' \in Seq(Message)
  BY DEF IInv, Waits, Exit, callVars
<1>2. UNCHANGED <<stage, tid, turn_id, tool, over, answers, lost, calling, next_id>>
  BY DEF Exit, callVars, ownVars
<1>3. Waiting' = {} /\ Queues' /\ Once'
  BY <1>1, EmptyRange DEF Waiting, Queues, Once, Distinct
<1>4. Types'
  BY <1>1, <1>2 DEF IInv, Types
<1>5. Waits'
  BY <1>1, <1>2 DEF Waits, Calls
<1>6. Counted'
  BY <1>1, <1>2 DEF IInv, Counted
<1>7. Numbered'
  BY <1>1 DEF Numbered
<1>8. Reported'
  BY <1>3 DEF Reported
<1>9. Starting'
  BY <1>1 DEF Starting
<1>10. Running'
  BY <1>1 DEF Running
<1>11. Ended'
  BY <1>3 DEF Ended
<1>12. Fresh'
  BY <1>2 DEF Fresh
<1>13. Stopping'
  BY <1>2 DEF Stopping
<1>14. Answering'
  BY <1>2 DEF IInv, Answering
<1>15. QED
  BY <1>3, <1>4, <1>5, <1>6, <1>7, <1>8, <1>9, <1>10, <1>11, <1>12, <1>13, <1>14 DEF
     IInv

-----------------------------------------------------------------------------
(* The steps of the campaign. *)

LEMMA UnchangedKeeps == ASSUME IInv, UNCHANGED clientVars PROVE IInv'
BY DEF clientVars, serverVars, processVars, queueVars, callVars, ownVars, IInv, Queues,
   Types, Waits, Counted, Once, Waiting, Numbered, Reported, Starting, Running, Ended,
   Fresh, Stopping, Answering

LEMMA CampaignIInv == ASSUME CInv, [CampaignNext]_vars PROVE IInv'
<1>1. CASE ServerProcess
  BY <1>1, AnswersKeeps, TurnSendsKeeps, NotifiesKeeps, TurnEndsKeeps, EndsKeeps DEF
     ServerProcess, Server, Process, CInv
<1>2. CASE Asks
  BY <1>2, AsksKeeps DEF CInv
<1>3. CASE Connected \/ Listed
  BY <1>3, AnswerKeeps DEF Connected, Listed, CInv, MainCalls
<1>4. CASE Failed \/ NoPreflight \/ NoTrial \/ Finish \/ BreakOff
  BY <1>4, ExitKeeps DEF Failed, NoPreflight, NoTrial, Finish, BreakOff, Abort, CInv,
     MainCalls
<1>5. CASE BeginPreflight \/ BeginTrial
  BY <1>5, OpenKeeps DEF BeginPreflight, BeginTrial, CInv
<1>6. CASE PreflightEnds \/ RecordTrial \/ EndTrial \/ ModelDone
  BY <1>6, UnchangedKeeps DEF PreflightEnds, RecordTrial, EndTrial, ModelDone, CInv
<1>7. CASE PreflightTool \/ PreflightNote \/ PreflightExpires
  BY <1>7, TakeToolKeeps, NoteKeeps, GiveUpKeeps DEF PreflightTool, PreflightNote,
     PreflightExpires, CInv
<1>8. CASE TrialTurns
  BY <1>8, TakeToolKeeps, AnswerToolKeeps, NoteKeeps, FollowKeeps, GiveUpKeeps DEF
     TrialTurns, CInv
<1>9. CASE Shared
  BY <1>9, ThreadStartedKeeps, StartTurnKeeps, TurnStartedKeeps, DeferringKeeps,
     SkipKeeps, LoseKeeps, LeaveKeeps, InterruptedKeeps DEF Shared, Opening, Leaving,
     CInv
<1>10. CASE UNCHANGED vars
  BY <1>10, UnchangedKeeps DEF vars, CInv
<1>11. QED
  BY <1>1, <1>2, <1>3, <1>4, <1>5, <1>6, <1>7, <1>8, <1>9, <1>10 DEF CampaignNext, Main,
     Turns

LEMMA CampaignCalls == ASSUME CInv, [CampaignNext]_vars PROVE MainCalls'
<1>1. CASE ServerProcess
  BY <1>1 DEF ServerProcess, Server, ownVars, Process, Answers, TurnSends, Notifies,
     TurnEnds, Ends, callVars, CInv, MainCalls
<1>2. CASE Asks
  BY <1>2 DEF Asks, ownVars, CInv, MainCalls
<1>3. CASE Connected \/ Listed
  <2>1. calling' = NoCall /\ stage' = "done" /\ at' \notin {"preflight", "trial"}
    BY <1>3, Returns, Raises DEF Connected, Listed, CInv, MainCalls, ownVars, OnError
  <2>2. QED
    BY <2>1 DEF MainCalls
<1>4. CASE Failed \/ NoPreflight \/ NoTrial \/ Finish \/ BreakOff
  BY <1>4 DEF Failed, NoPreflight, NoTrial, Finish, BreakOff, Abort, Exit, ownVars, callVars,
     CInv, MainCalls
<1>5. CASE BeginPreflight \/ BeginTrial
  BY <1>5 DEF BeginPreflight, BeginTrial, Open, MainCalls
<1>6. CASE PreflightEnds \/ RecordTrial \/ EndTrial \/ ModelDone
  BY <1>6 DEF PreflightEnds, RecordTrial, EndTrial, ModelDone, CInv, MainCalls, clientVars, ownVars,
     serverVars, callVars
<1>7. CASE PreflightTool \/ PreflightNote \/ PreflightExpires \/ TrialTurns
  <2>1. at \in {"preflight", "trial"} /\ at' = at
    BY <1>7 DEF PreflightTool, PreflightNote, PreflightExpires, TrialTurns,
       KeepsCampaign
  <2>2. stage' # "done"
    BY <1>7 DEF PreflightTool, PreflightNote, PreflightExpires, TrialTurns, TakeTool,
       Note, GiveUp, AnswerTool, Follow, HasTurn, CInv, IInv, Answering
  <2>3. QED
    BY <2>1, <2>2 DEF MainCalls
<1>8. CASE Shared
  <2>1. at \in {"preflight", "trial"} /\ at' = at
    BY <1>8 DEF Shared, KeepsCampaign
  <2>2. stage' = "done" => calling' = NoCall
    BY <1>8, Fails, Returns DEF Shared, Opening, Skip, Lose, Leaving, Leave,
       Interrupted, ThreadStarted, StartTurn, TurnStarted, Deferring, CInv, MainCalls,
       ownVars, HasTurn, CallBreaks, serverVars, callVars, IInv, Waits, CallDefers,
       Calls, NoCall
  <2>3. QED
    BY <2>1, <2>2 DEF MainCalls
<1>9. CASE UNCHANGED vars
  BY <1>9 DEF vars, clientVars, ownVars, serverVars, callVars, CInv, MainCalls
<1>10. QED
  BY <1>1, <1>2, <1>3, <1>4, <1>5, <1>6, <1>7, <1>8, <1>9 DEF CampaignNext, Main, Turns

(* In a campaign, too, threads stay apart: the trial or preflight that      *)
(* answers a tool call is the one whose thread made it, and no turn of an   *)
(* earlier one still runs, unless a call about its thread raised.           *)
THEOREM CampaignApart == CampaignSpec => []ThreadsApart
<1>1. CampaignInit => CInv
  BY InitIInv DEF CampaignInit, CInv, MainCalls, Init
<1>2. CInv /\ [CampaignNext]_vars => CInv'
  BY CampaignIInv, CampaignCalls DEF CInv
<1>3. CInv => ThreadsApart
  BY DEF CInv, IInv, Running, Answering, ThreadsApart
<1>4. QED
  BY <1>1, <1>2, <1>3, PTL DEF CampaignSpec

-----------------------------------------------------------------------------
(* The index. *)

(* Everything that is listed has a directory. *)
Filed ==
    /\ summaries \in Seq(made) /\ runs \in Seq(made) /\ index \in Seq(made)
    /\ at \in {"trial", "recorded"} => Label \in made
    /\ at \in {"preflight", "trials", "trial", "recorded"} => Preflight \in made

Image(name) == <<"preflight", name>>

(* A model is sent the image once, and before its trials. *)
Imaged ==
    /\ at \in {"preflight", "trials", "trial", "recorded"} =>
          Preflight \notin Range(summaries)
    /\ at = "preflight" => \A i \in DOMAIN runs : runs[i][1] # Name
    /\ \A i \in DOMAIN runs :
          Image(runs[i][1]) \in made /\ Image(runs[i][1]) \notin Range(summaries)

(* Between its two writes a trial has a record and is not listed. *)
Covered ==
    /\ at \notin {"recorded", "broken"} => Lists(summaries, runs) /\ Lists(index, runs)
    /\ at = "recorded" => /\ LastRun = Label
                          /\ Lists(Append(summaries, Label), runs)
                          /\ Lists(Append(index, Label), runs)
    /\ at = "broken" =>
          Lists(index, runs) \/ index = <<>> \/ Lists(Append(index, LastRun), runs)

Indexed == Filed /\ Imaged /\ Covered

LEMMA SeqGrows == ASSUME NEW S, NEW T, S \subseteq T, NEW s \in Seq(S) PROVE s \in Seq(T)
<1>1. \A i \in 1..Len(s) : s[i] \in T
  BY ElementOfSeq
<1>2. QED
  BY <1>1, SeqDef, LenProperties

(* Where Append adds it. *)
LEMMA AppendPlace == ASSUME NEW S, NEW s \in Seq(S), NEW e \in S
                       PROVE /\ DOMAIN Append(s, e) = 1..Len(s) + 1 /\ Len(s) \in Nat
                             /\ DOMAIN s = 1..Len(s)
                             /\ \A i \in 1..Len(s) : Append(s, e)[i] = s[i]
                             /\ Append(s, e)[Len(s) + 1] = e
BY AppendProperties, LenProperties

ListsAt(list, done, place) ==
    /\ \A i, j \in DOMAIN done : i < j => place[i] < place[j]
    /\ \A i \in DOMAIN done : list[place[i]] = done[i]
    /\ \A j \in DOMAIN list : j \in {place[i] : i \in DOMAIN done} <=> Len(list[j]) = 3

LEMMA ListsIs == \A list, done :
    Lists(list, done) <=> \E p \in [DOMAIN done -> DOMAIN list] : ListsAt(list, done, p)
BY DEF Lists, ListsAt

(* A trial is listed as it is done. *)
LEMMA ListsRun ==
    ASSUME NEW S, NEW s \in Seq(S), NEW r \in Seq(S), NEW e \in S, Len(e) = 3, Lists(s, r)
    PROVE  Lists(Append(s, e), Append(r, e))
<1> DEFINE n == Len(s)
           m == Len(r)
<1>1. PICK place \in [DOMAIN r -> DOMAIN s] :
         /\ \A i, j \in DOMAIN r : i < j => place[i] < place[j]
         /\ \A i \in DOMAIN r : s[place[i]] = r[i]
         /\ \A j \in DOMAIN s : j \in {place[i] : i \in DOMAIN r} <=> Len(s[j]) = 3
  BY ListsIs DEF ListsAt
<1>2. /\ n \in Nat /\ m \in Nat /\ DOMAIN s = 1..n /\ DOMAIN r = 1..m
      /\ DOMAIN Append(s, e) = 1..n + 1 /\ DOMAIN Append(r, e) = 1..m + 1
      /\ \A i \in 1..n : Append(s, e)[i] = s[i]
      /\ \A i \in 1..m : Append(r, e)[i] = r[i]
      /\ Append(s, e)[n + 1] = e /\ Append(r, e)[m + 1] = e
  BY AppendPlace
<1> DEFINE q == [i \in 1..m + 1 |-> IF i = m + 1 THEN n + 1 ELSE place[i]]
<1> HIDE DEF n, m
<1>3. \A i \in 1..m : place[i] \in 1..n
  BY <1>2
<1>4. q \in [1..m + 1 -> 1..n + 1]
  BY <1>2, <1>3
<1>5. \A i \in 1..m : q[i] = place[i]
  BY <1>2
<1>6. q[m + 1] = n + 1
  BY <1>2
<1> HIDE DEF q
<1>7. \A i, j \in 1..m + 1 : i < j => q[i] < q[j]
  <2> SUFFICES ASSUME NEW i \in 1..m + 1, NEW j \in 1..m + 1, i < j
               PROVE  q[i] < q[j]
    OBVIOUS
  <2>1. i \in 1..m /\ q[i] = place[i] /\ q[i] \in 1..n
    BY <1>2, <1>3, <1>5
  <2>2. CASE j = m + 1
    BY <2>1, <2>2, <1>2, <1>6
  <2>3. CASE j \in 1..m
    BY <2>1, <2>3, <1>1, <1>2, <1>5
  <2>4. QED
    BY <2>2, <2>3, <1>2
<1>8. \A i \in 1..m + 1 : Append(s, e)[q[i]] = Append(r, e)[i]
  BY <1>1, <1>2, <1>3, <1>5, <1>6
<1>9. \A j \in 1..n + 1 : j \in {q[i] : i \in 1..m + 1} <=> Len(Append(s, e)[j]) = 3
  <2> SUFFICES ASSUME NEW j \in 1..n + 1
               PROVE  j \in {q[i] : i \in 1..m + 1} <=> Len(Append(s, e)[j]) = 3
    OBVIOUS
  <2>1. CASE j = n + 1
    BY <2>1, <1>2, <1>6
  <2>2. CASE j \in 1..n
    <3>1. j \in {q[i] : i \in 1..m + 1} <=> j \in {place[i] : i \in 1..m}
      BY <1>2, <1>3, <1>5, <1>6, <2>2
    <3>2. QED
      BY <1>1, <1>2, <2>2, <3>1
  <2>3. QED
    BY <2>1, <2>2, <1>2
<1>10. ListsAt(Append(s, e), Append(r, e), q)
  BY <1>2, <1>7, <1>8, <1>9 DEF ListsAt
<1>11. QED
  BY <1>2, <1>4, <1>10, ListsIs

(* A preflight that failed is no trial. *)
LEMMA ListsPreflight ==
    ASSUME NEW S, NEW s \in Seq(S), NEW r \in Seq(S), NEW e \in S, Len(e) = 2, Lists(s, r)
    PROVE  Lists(Append(s, e), r)
<1> DEFINE n == Len(s)
<1>1. PICK place \in [DOMAIN r -> DOMAIN s] :
         /\ \A i, j \in DOMAIN r : i < j => place[i] < place[j]
         /\ \A i \in DOMAIN r : s[place[i]] = r[i]
         /\ \A j \in DOMAIN s : j \in {place[i] : i \in DOMAIN r} <=> Len(s[j]) = 3
  BY ListsIs DEF ListsAt
<1>2. /\ n \in Nat /\ DOMAIN s = 1..n /\ DOMAIN Append(s, e) = 1..n + 1
      /\ \A i \in 1..n : Append(s, e)[i] = s[i]
      /\ Append(s, e)[n + 1] = e
  BY AppendPlace
<1> HIDE DEF n
<1>3. place \in [DOMAIN r -> 1..n + 1]
  BY <1>2
<1>4. \A i \in DOMAIN r : Append(s, e)[place[i]] = r[i]
  BY <1>1, <1>2
<1> DEFINE P == {place[i] : i \in DOMAIN r}
<1>5. P \subseteq 1..n
  BY <1>2
<1>6. \A j \in 1..n : j \in P <=> Len(s[j]) = 3
  BY <1>1, <1>2
<1> HIDE DEF P
<1>7. \A j \in 1..n + 1 : j \in P <=> Len(Append(s, e)[j]) = 3
  <2>1. n + 1 \notin P
    <3>1. n + 1 \notin 1..n
      BY <1>2
    <3>2. QED
      BY <3>1, <1>5
  <2>2. Len(Append(s, e)[n + 1]) # 3
    <3>1. Append(s, e)[n + 1] = e
      BY <1>2
    <3>2. PICK x : x = Append(s, e)[n + 1]
      OBVIOUS
    <3>3. x = e
      BY <3>1, <3>2
    <3>4. Len(x) # 3
      BY <3>3
    <3>5. QED
      BY <3>2, <3>4
  <2>3. \A j \in 1..n : j \in P <=> Len(Append(s, e)[j]) = 3
    BY <1>2, <1>6
  <2>4. \A j \in 1..n + 1 : j \in 1..n \/ j = n + 1
    BY <1>2
  <2>5. QED
    BY ZenonT(20), <2>1, <2>2, <2>3, <2>4
<1>8. ListsAt(Append(s, e), r, place)
  BY <1>1, <1>2, <1>4, <1>7 DEF ListsAt, P
<1>9. QED
  BY <1>2, <1>3, <1>8, ListsIs

(* Steps that list nothing, and start nothing. *)
LEMMA IndexKept ==
    ASSUME Indexed, UNCHANGED fileVars,
           \/ UNCHANGED <<at, catalogVars, model, trial>>
           \/ /\ at \notin {"recorded", "broken"}
              /\ at' \notin {"preflight", "trials", "trial", "recorded", "broken"}
    PROVE  Indexed'
<1>1. Filed'
  BY DEF Indexed, Filed, fileVars, catalogVars, Label, Name, Effort, Supported, Preflight
<1>2. Imaged'
  BY DEF Indexed, Imaged, fileVars, Image, Name, Preflight
<1>3. Covered'
  BY DEF Indexed, Covered, fileVars, catalogVars, LastRun, Label, Name, Effort, Supported
<1>4. QED
  BY <1>1, <1>2, <1>3 DEF Indexed

LEMMA IndexPreflight == ASSUME Indexed, BeginPreflight PROVE Indexed'
<1>1. /\ at = "next" /\ at' = "preflight" /\ made' = made \cup {Preflight} /\ Preflight \notin made
      /\ UNCHANGED <<model, summaries, index, runs>>
  BY DEF BeginPreflight
<1>2. Preflight' = Preflight /\ Name' = Name
  BY <1>1 DEF Preflight, Name
<1>3. Filed'
  BY <1>1, <1>2, SeqGrows DEF Indexed, Filed
<1>4. Imaged'
  <2>1. Preflight \notin Range(summaries)
    BY <1>1, RangeOfSeq DEF Indexed, Filed
  <2>2. \A i \in DOMAIN runs : runs[i][1] # Name
    BY <1>1 DEF Indexed, Imaged, Image, Preflight
  <2>3. QED
    BY <1>1, <1>2, <2>1, <2>2 DEF Indexed, Imaged, Image
<1>5. Covered'
  BY <1>1 DEF Indexed, Covered
<1>6. QED
  BY <1>3, <1>4, <1>5 DEF Indexed

LEMMA IndexImage == ASSUME Indexed, PreflightEnds PROVE Indexed'
<1>1. at = "preflight" /\ UNCHANGED <<made, index, runs>>
  BY DEF PreflightEnds
<1>2. CASE PreflightPassed /\ at' = "trials" /\ UNCHANGED <<model, summaries>>
  <2>1. Preflight' = Preflight
    BY <1>2 DEF Preflight, Name
  <2>2. Filed'
    BY <1>1, <1>2, <2>1 DEF Indexed, Filed
  <2>3. Imaged'
    BY <1>1, <1>2, <2>1 DEF Indexed, Imaged, Image
  <2>4. QED
    BY <1>1, <1>2, <2>2, <2>3 DEF Indexed, Covered
<1>3. CASE summaries' = Append(summaries, Preflight) /\ at' = "next"
  <2>1. Preflight \in made /\ summaries \in Seq(made) /\ runs \in Seq(made)
    BY <1>1 DEF Indexed, Filed
  <2>2. /\ summaries' \in Seq(made) /\ Range(summaries') = Range(summaries) \cup {Preflight}
    BY <1>3, <2>1, AppendRange
  <2>3. Filed'
    BY <1>1, <1>3, <2>2 DEF Indexed, Filed
  <2>4. \A i \in DOMAIN runs : Image(runs[i][1]) # Preflight
    BY <1>1 DEF Indexed, Imaged, Image, Preflight
  <2>5. Imaged'
    BY <1>1, <1>3, <2>2, <2>4 DEF Indexed, Imaged
  <2>6. Len(Preflight) = 2
    BY DEF Preflight
  <2>7. Lists(summaries', runs)
    BY <1>1, <1>3, <2>1, <2>6, ListsPreflight DEF Indexed, Covered
  <2>8. QED
    BY <1>1, <1>3, <2>3, <2>5, <2>7 DEF Indexed, Covered
<1>4. QED
  BY <1>2, <1>3 DEF PreflightEnds

LEMMA IndexTrial == ASSUME Indexed, BeginTrial PROVE Indexed'
<1>1. /\ at = "trials" /\ at' = "trial" /\ made' = made \cup {Label}
      /\ UNCHANGED <<catalogVars, model, trial, summaries, index, runs>>
  BY DEF BeginTrial
<1>2. Preflight' = Preflight /\ Label' = Label
  BY <1>1 DEF Preflight, Name, Label, Effort, Supported, catalogVars
<1>3. Filed'
  BY <1>1, <1>2, SeqGrows DEF Indexed, Filed
<1>4. Imaged'
  BY <1>1, <1>2 DEF Indexed, Imaged, Image
<1>5. Covered'
  BY <1>1 DEF Indexed, Covered
<1>6. QED
  BY <1>3, <1>4, <1>5 DEF Indexed

(* The record is written. *)
LEMMA IndexRecord == ASSUME Indexed, RecordTrial PROVE Indexed'
<1>1. /\ at = "trial" /\ at' = "recorded"
      /\ UNCHANGED <<catalogVars, model, trial, made, summaries, index>>
      /\ runs' = Append(runs, Label)
  BY DEF RecordTrial
<1>2. Preflight' = Preflight /\ Label' = Label
  BY <1>1 DEF Preflight, Name, Label, Effort, Supported, catalogVars
<1>3. /\ Label \in made /\ Preflight \in made /\ Preflight \notin Range(summaries)
      /\ summaries \in Seq(made) /\ index \in Seq(made) /\ runs \in Seq(made)
  BY <1>1 DEF Indexed, Filed, Imaged
<1>4. /\ runs' \in Seq(made) /\ Len(runs') = Len(runs) + 1 /\ DOMAIN runs = 1..Len(runs)
      /\ DOMAIN runs' = 1..Len(runs) + 1 /\ Len(runs) \in Nat
      /\ \A i \in 1..Len(runs) : runs'[i] = runs[i]
      /\ runs'[Len(runs) + 1] = Label
  BY <1>1, <1>3, AppendPlace, AppendProperties
<1>5. Filed'
  BY <1>1, <1>2, <1>3, <1>4 DEF Filed
<1>6. Len(Label) = 3 /\ Label[1] = Name /\ Image(Label[1]) = Preflight
  BY DEF Label, Image, Preflight
<1>7. \A i \in DOMAIN runs' : Image(runs'[i][1]) \in made /\
        Image(runs'[i][1]) \notin Range(summaries)
  <2> SUFFICES ASSUME NEW i \in 1..Len(runs) + 1
               PROVE  Image(runs'[i][1]) \in made /\ Image(runs'[i][1]) \notin Range(summaries)
    BY <1>4
  <2>1. CASE i \in 1..Len(runs)
    BY <1>4, <2>1 DEF Indexed, Imaged
  <2>2. CASE i = Len(runs) + 1
    BY <1>3, <1>4, <1>6, <2>2
  <2>3. QED
    BY <1>4, <2>1, <2>2
<1>8. Imaged'
  BY <1>1, <1>2, <1>3, <1>7 DEF Imaged, Image, Preflight
<1>9. Lists(summaries, runs) /\ Lists(index, runs)
  BY <1>1 DEF Indexed, Covered
<1>10. Lists(Append(summaries, Label), runs') /\ Lists(Append(index, Label), runs')
  BY <1>1, <1>3, <1>6, <1>9, ListsRun
<1>11. LastRun' = Label
  BY <1>4 DEF LastRun
<1>12. Covered'
  BY <1>1, <1>2, <1>10, <1>11 DEF Covered
<1>13. QED
  BY <1>5, <1>8, <1>12 DEF Indexed

(* The trial is listed. *)
LEMMA IndexRun == ASSUME Indexed, EndTrial PROVE Indexed'
<1>1. /\ at = "recorded" /\ at' = "trials" /\ UNCHANGED <<model, made, runs>>
      /\ summaries' = Append(summaries, Label) /\ index' = summaries'
  BY DEF EndTrial
<1>2. Preflight' = Preflight
  BY <1>1 DEF Preflight, Name
<1>3. /\ Label \in made /\ Preflight \in made /\ Preflight \notin Range(summaries)
      /\ summaries \in Seq(made) /\ runs \in Seq(made)
  BY <1>1 DEF Indexed, Filed, Imaged
<1>4. summaries' \in Seq(made) /\ Range(summaries') = Range(summaries) \cup {Label}
  BY <1>1, <1>3, AppendRange
<1>5. Filed'
  BY <1>1, <1>2, <1>3, <1>4 DEF Filed
<1>6. \A name : Image(name) # Label
  BY DEF Image, Label
<1>7. \A i \in DOMAIN runs : Image(runs[i][1]) \in made /\
        Image(runs[i][1]) \notin Range(summaries)
  BY DEF Indexed, Imaged
<1>8. Imaged'
  BY <1>1, <1>2, <1>3, <1>4, <1>6, <1>7 DEF Imaged, Image, Preflight
<1>9. Lists(summaries', runs)
  BY <1>1 DEF Indexed, Covered
<1>10. Covered'
  BY <1>1, <1>9 DEF Covered
<1>11. QED
  BY <1>5, <1>8, <1>10 DEF Indexed

(* Main is left before, between or after the two writes. *)
LEMMA IndexBroken == ASSUME Indexed, BreakOff PROVE Indexed'
<1>1. /\ at \in {"next", "trials", "recorded", "preflight", "trial"} /\ at' = "broken"
      /\ UNCHANGED <<made, summaries, runs>>
      /\ index' = index \/ index' = <<>>
  BY DEF BreakOff, Exit
<1>2. Filed'
  <2>1. <<>> \in Seq(made)
    OBVIOUS
  <2>2. QED
    BY <1>1, <2>1 DEF Indexed, Filed
<1>3. Imaged'
  BY <1>1 DEF Indexed, Imaged, Image
<1>4. Covered'
  BY <1>1 DEF Indexed, Covered, LastRun
<1>5. QED
  BY <1>2, <1>3, <1>4 DEF Indexed

(* main's index needs no fact about the server or its clients. *)
LEMMA IndexStep == ASSUME Indexed, [CampaignNext]_vars PROVE Indexed'
<1>1. CASE ServerProcess \/ Turns \/ PreflightExpires \/ UNCHANGED vars
  BY <1>1, IndexKept DEF ServerProcess, Turns, PreflightTool, PreflightNote, TrialTurns,
     Shared, PreflightExpires, KeepsCampaign, vars
<1>2. CASE Asks \/ Connected \/ Listed
  BY <1>2, IndexKept DEF Asks, Connected, Listed, OnError
<1>3. CASE Failed \/ NoPreflight \/ NoTrial
  BY <1>3, IndexKept DEF Failed, NoPreflight, NoTrial, Abort, Exit
<1>4. CASE ModelDone
  BY <1>4, IndexKept DEF ModelDone
<1>5. CASE Finish
  <2>1. /\ at' = "finished" /\ index' = summaries /\ UNCHANGED <<made, summaries, runs>>
    BY <1>5 DEF Finish, Exit
  <2>2. at = "next"
    BY <1>5 DEF Finish
  <2>3. QED
    BY <2>1, <2>2 DEF Indexed, Covered, Filed, Imaged, Image
<1>6. QED
  BY <1>1, <1>2, <1>3, <1>4, <1>5, IndexPreflight, IndexImage, IndexTrial, IndexRecord,
     IndexRun, IndexBroken DEF CampaignNext, Main

(* Whatever the models, efforts and catalog, and wherever the campaign ends: *)
(* the index lists every trial with a run.json and no other, but for the     *)
(* last one if main was broken off between the two writes, or in the second; *)
(* and no trial is of a model whose image preflight failed.                  *)
THEOREM IndexComplete == CampaignSpec => []IndexListsEveryRun
<1>1. CampaignInit => Indexed
  <2> SUFFICES ASSUME CampaignInit PROVE Indexed
    OBVIOUS
  <2>1. at = "connect" /\ made = {} /\ summaries = <<>> /\ index = <<>> /\ runs = <<>>
    BY DEF CampaignInit
  <2>2. Lists(<<>>, <<>>)
    <3>1. ListsAt(<<>>, <<>>, <<>>) /\ <<>> \in [DOMAIN <<>> -> DOMAIN <<>>]
      BY DEF ListsAt
    <3>2. QED
      BY <3>1, ListsIs
  <2>3. Filed /\ Imaged
    BY <2>1 DEF Filed, Imaged
  <2>4. QED
    BY <2>1, <2>2, <2>3 DEF Indexed, Covered
<1>2. Indexed => IndexListsEveryRun
  BY DEF Indexed, Covered, Imaged, Image, IndexListsEveryRun, Over, Range
<1>3. QED
  BY <1>1, <1>2, IndexStep, PTL DEF CampaignSpec
=============================================================================
