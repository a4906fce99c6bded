----------------------------- MODULE BridgeProofs ----------------------------
(***************************************************************************)
(* The safety properties of VisionBridge, for any lateness, delays and     *)
(* limits, and any number of frames and of actions.                        *)
(***************************************************************************)
EXTENDS VisionBridge, FiniteSetTheorems, SequenceTheorems, TLAPS

Outcome == [kind : {"sent", "late", "closed"}, id : 1..MaxTotalActions,
            due : 0..MaxClock, time : 0..MaxClock]

Types ==
    /\ clock \in 0..MaxClock /\ receipt \in 0..clock /\ now \in 0..clock
    /\ latest \in FrameType /\ encoding \in FrameType /\ last_returned \in 0..MaxFrames
    /\ observations \in Seq(FrameType) /\ Len(observations) <= MaxObservations
    /\ pending \subseteq ActionType /\ IsFiniteSet(pending)
    /\ Cardinality(pending) <= MaxPending
    /\ action \in ActionType /\ next_action \in 0..MaxTotalActions
    /\ outcomes \in Seq(Outcome) /\ pressed \in Seq(1..MaxTotalActions)

Threads ==
    /\ capture \in {"loop", "frame", "ended"}
    /\ scheduler \in {"loop", "locking", "dispatch", "tap", "checked", "down", "tapped",
                     "failing", "wait", "ended"}
    /\ focus \in {"game", "other"} /\ caller \in {"idle", "encode", "joining"}

Flags ==
    /\ started \in BOOLEAN /\ stop \in BOOLEAN /\ closed \in BOOLEAN
    /\ error \in BOOLEAN /\ held \in BOOLEAN /\ keys_closed \in BOOLEAN

(* The frame that is encoded is newer than those registered, and the time   *)
(* stamps follow the frames.                                                *)
Frames ==
    /\ latest.receipt <= clock /\ last_returned <= latest.frame
    /\ capture = "frame" => latest.receipt <= receipt /\ latest.frame < MaxFrames
    /\ \A i \in 1..Len(observations) : /\ observations[i].frame <= last_returned
                                       /\ observations[i].receipt <= latest.receipt
    /\ caller = "encode" =>
          /\ encoding.frame = last_returned /\ encoding.receipt <= latest.receipt
          /\ \A i \in 1..Len(observations) : /\ observations[i].frame < encoding.frame
                                             /\ observations[i].receipt <= encoding.receipt
    /\ \A i, j \in 1..Len(observations) : i < j =>
          /\ observations[i].frame < observations[j].frame
          /\ observations[i].receipt <= observations[j].receipt

Busy == scheduler \in {"tap", "checked", "down", "tapped"}

(* An action has one number, and is in one place at a time. *)
Numbers ==
    /\ \A a \in pending : a.id \in 1..next_action /\ a.id # action.id
    /\ \A a, b \in pending : a.id = b.id => a = b
    /\ action.id <= next_action /\ (Busy <=> action.id # 0)
    /\ \A i \in 1..Len(outcomes) : outcomes[i].id <= next_action /\ outcomes[i].id # action.id
    /\ \A i \in 1..Len(outcomes), a \in pending : outcomes[i].id # a.id
    /\ \A i, j \in 1..Len(outcomes) : outcomes[i].id = outcomes[j].id => i = j

(* The scheduler has failed, and dispatches no more. *)
Broken == scheduler = "failing" \/ (scheduler = "ended" /\ error)

Resolved(id) == \E i \in 1..Len(outcomes) : outcomes[i].id = id

(* No action is nowhere, but for the one whose press failed. *)
NoneLost ==
    \E gone \in 0..next_action :
        /\ gone # 0 => Broken
        /\ \A id \in 1..next_action :
              id = gone \/ action.id = id \/ Pending(id) \/ Resolved(id)

OnTime ==
    /\ Busy => action.due <= now /\ now <= action.due + LateTicks
    /\ \A i \in 1..Len(outcomes) :
          /\ outcomes[i].kind = "sent" => /\ outcomes[i].due <= outcomes[i].time
                                          /\ outcomes[i].time <= outcomes[i].due + LateTicks
          /\ outcomes[i].kind = "late" => outcomes[i].time > outcomes[i].due + LateTicks
          /\ outcomes[i].kind = "closed" => stop

(* The action that is pressed was the first in the heap. *)
First == scheduler \in {"tap", "checked"} => \A a \in pending : Before(action, a)

Closing ==
    /\ caller = "joining" => stop
    /\ keys_closed => ~held /\ scheduler \notin {"checked", "down"}
    /\ closed => /\ caller # "joining" /\ pending = {} /\ keys_closed
                 /\ scheduler = "ended" /\ capture = "ended"

(* The places of the events that say sent, among the first n.               *)
Sent(o, n) == {i \in 1..n : o[i].kind = "sent"}

(* The n-th of them names the n-th key.                                     *)
Names(o, keys) == \A i \in Sent(o, Len(o)) :
    /\ Cardinality(Sent(o, i)) \in 1..Len(keys)
    /\ keys[Cardinality(Sent(o, i))] = o[i].id

(* Between the press and its event there is one key more than events.       *)
Pressed ==
    LET sent == Cardinality(Sent(outcomes, Len(outcomes))) IN
    /\ Names(outcomes, pressed)
    /\ IF scheduler \in {"down", "tapped"}
          THEN Len(pressed) = sent + 1 /\ pressed[sent + 1] = action.id
          ELSE Len(pressed) = sent \/ (Len(pressed) = sent + 1 /\ Broken)

BInv == /\ Types /\ Threads /\ Flags /\ Frames /\ Numbers /\ NoneLost /\ OnTime
        /\ First /\ Closing /\ Pressed

-----------------------------------------------------------------------------
(* What a step writes to the evidence and to the heap. *)

LEMMA Limits ==
    /\ Delays \subseteq Nat /\ LateTicks \in Nat /\ MaxPending \in Nat
    /\ MaxTotalActions \in Nat /\ MaxObservations \in Nat /\ MaxClock \in Nat
    /\ MaxFrames \in Nat /\ MaxBatch \in Nat
BY BridgeAssumption

(* One more event. *)
LEMMA Logs ==
    ASSUME outcomes \in Seq(Outcome), NEW e \in Outcome, outcomes' = Append(outcomes, e)
    PROVE  /\ outcomes' \in Seq(Outcome) /\ Len(outcomes') = Len(outcomes) + 1
           /\ \A i \in 1..Len(outcomes) : outcomes'[i] = outcomes[i]
           /\ outcomes'[Len(outcomes) + 1] = e
OBVIOUS

(* A listing has every member at one place. *)
LEMMA Listed ==
    ASSUME NEW S, IsFiniteSet(S), NEW n \in Nat, n = Cardinality(S), NEW s \in [1..n -> S],
           \A i, j \in 1..n : i < j => s[i] # s[j]
    PROVE  s \in Seq(S) /\ Len(s) = n /\ \A a \in S : \E i \in 1..n : s[i] = a
<1>1. s \in Seq(S) /\ Len(s) = n
  OBVIOUS
<1>2. \A i, j \in 1..n : s[i] = s[j] => i = j
  OBVIOUS
<1>3. s \in Injection(1..n, S)
  BY DEF Injection, IsInjective
<1>4. Cardinality(1..n) = Cardinality(S)
  BY FS_Interval
<1>5. s \in Surjection(1..n, S)
  BY <1>3, <1>4, FS_Injection
<1>6. QED
  BY <1>1, <1>5 DEF Surjection

Lists(s, S) ==
    /\ s \in Seq(S) /\ \A a \in S : \E i \in 1..Len(s) : s[i] = a
    /\ \A i, j \in 1..Len(s) : i < j => s[i].id # s[j].id

Writable(kind, S) == \A a \in S : Event(kind, a, clock) \in Outcome

(* The events of a listing, after those there were. *)
Adds(kind, S) ==
    /\ outcomes' \in Seq(Outcome) /\ Len(outcomes') >= Len(outcomes)
    /\ \A i \in 1..Len(outcomes) : outcomes'[i] = outcomes[i]
    /\ \A i \in 1..Len(outcomes') : Len(outcomes) < i =>
          \E a \in S : outcomes'[i] = Event(kind, a, clock)
    /\ \A a \in S : \E i \in 1..Len(outcomes') :
          Len(outcomes) < i /\ outcomes'[i] = Event(kind, a, clock)
    /\ \A i, j \in 1..Len(outcomes') :
          Len(outcomes) < i /\ i < j => outcomes'[i].id # outcomes'[j].id

LEMMA Concatenated ==
    ASSUME NEW o \in Seq(Outcome), NEW t \in Seq(Outcome)
    PROVE  /\ o \o t \in Seq(Outcome) /\ Len(o \o t) = Len(o) + Len(t)
           /\ \A i \in 1..Len(o) : (o \o t)[i] = o[i]
           /\ \A i \in 1..(Len(o) + Len(t)) : Len(o) < i => (o \o t)[i] = t[i - Len(o)]
OBVIOUS

LEMMA EventsOf ==
    ASSUME NEW kind, NEW S, NEW s \in Seq(S), \A a \in S : Event(kind, a, clock) \in Outcome
    PROVE  /\ Events(kind, s, clock) \in Seq(Outcome)
           /\ Len(Events(kind, s, clock)) = Len(s)
           /\ \A i \in 1..Len(s) : Events(kind, s, clock)[i] = Event(kind, s[i], clock)
<1> DEFINE E(a) == Event(kind, a, clock)
<1>1. DOMAIN s = 1..Len(s) /\ Len(s) \in Nat /\ \A i \in 1..Len(s) : s[i] \in S
  OBVIOUS
<1>2. Events(kind, s, clock) = [i \in 1..Len(s) |-> E(s[i])]
  BY DEF Events
<1>3. \A i \in 1..Len(s) : E(s[i]) \in Outcome
  OBVIOUS
<1> HIDE DEF E
<1>4. /\ [i \in 1..Len(s) |-> E(s[i])] \in Seq(Outcome)
      /\ Len([i \in 1..Len(s) |-> E(s[i])]) = Len(s)
      /\ \A i \in 1..Len(s) : [k \in 1..Len(s) |-> E(s[k])][i] = E(s[i])
  BY <1>3
<1>5. QED
  BY <1>2, <1>4 DEF E

LEMMA ListingAdds ==
    ASSUME outcomes \in Seq(Outcome), NEW kind, NEW S, NEW s, Lists(s, S), Writable(kind, S),
           outcomes' = outcomes \o Events(kind, s, clock)
    PROVE  Adds(kind, S)
<1> DEFINE n == Len(outcomes)
           t == Events(kind, s, clock)
           E(a) == Event(kind, a, clock)
<1>1. n \in Nat /\ Len(s) \in Nat /\ \A i \in 1..Len(s) : s[i] \in S
  BY DEF Lists
<1>2. /\ t \in Seq(Outcome) /\ Len(t) = Len(s)
      /\ \A i \in 1..Len(s) : t[i] = E(s[i])
  BY EventsOf DEF Lists, Writable
<1>3. /\ outcomes' \in Seq(Outcome) /\ Len(outcomes') = n + Len(s)
      /\ \A i \in 1..n : outcomes'[i] = outcomes[i]
      /\ \A i \in 1..(n + Len(s)) : n < i => outcomes'[i] = t[i - n]
  <2>1. outcomes' = outcomes \o t /\ t \in Seq(Outcome) /\ Len(t) = Len(s)
    BY <1>2
  <2> HIDE DEF t
  <2>2. /\ outcomes \o t \in Seq(Outcome) /\ Len(outcomes \o t) = n + Len(t)
        /\ \A i \in 1..n : (outcomes \o t)[i] = outcomes[i]
        /\ \A i \in 1..(n + Len(t)) : n < i => (outcomes \o t)[i] = t[i - n]
    BY <2>1, Concatenated
  <2>3. QED
    BY <2>1, <2>2
<1>4. \A a \in S : E(a).id = a.id
  BY DEF Event
<1> HIDE DEF n, t, E
<1>5. \A i \in 1..(n + Len(s)) : n < i => i - n \in 1..Len(s)
  BY <1>1
<1>6. \A i \in 1..(n + Len(s)) : n < i => s[i - n] \in S /\ outcomes'[i] = E(s[i - n])
  BY <1>1, <1>2, <1>3, <1>5
<1>7. \A a \in S : \E i \in 1..(n + Len(s)) : n < i /\ outcomes'[i] = E(a)
  <2> TAKE a \in S
  <2>1. PICK k \in 1..Len(s) : s[k] = a
    BY DEF Lists
  <2>2. k + n \in 1..(n + Len(s)) /\ n < k + n /\ (k + n) - n = k
    BY <1>1
  <2>3. QED
    BY <1>6, <2>1, <2>2
<1>8. \A i, j \in 1..(n + Len(s)) : n < i /\ i < j => outcomes'[i].id # outcomes'[j].id
  <2>1. \A i \in 1..(n + Len(s)) : n < i => outcomes'[i].id = s[i - n].id
    BY <1>4, <1>6
  <2>2. \A i, j \in 1..(n + Len(s)) : n < i /\ i < j => n < j /\ i - n < j - n
    BY <1>1
  <2>3. \A i, j \in 1..(n + Len(s)) : n < i /\ i < j => s[i - n].id # s[j - n].id
    BY <1>5, <2>2 DEF Lists
  <2>4. SUFFICES ASSUME NEW i \in 1..(n + Len(s)), NEW j \in 1..(n + Len(s)), n < i, i < j
                 PROVE  outcomes'[i].id # outcomes'[j].id
    OBVIOUS
  <2>5. outcomes'[i].id = s[i - n].id /\ outcomes'[j].id = s[j - n].id
    BY <2>1, <2>2, <2>4
  <2>6. s[i - n].id # s[j - n].id
    BY <2>3, <2>4
  <2>7. QED
    BY <2>5, <2>6
<1>9. n + Len(s) >= n
  BY <1>1
<1>10. \A i \in 1..(n + Len(s)) : n < i => \E a \in S : outcomes'[i] = E(a)
  BY <1>6
<1>11. QED
  <2>1. outcomes' \in Seq(Outcome) /\ \A i \in 1..n : outcomes'[i] = outcomes[i]
    BY <1>3
  <2>2. Len(outcomes') = n + Len(s)
    BY <1>3
  <2>3. Len(outcomes') >= n
    BY <2>2, <1>9
  <2>4. \A i \in 1..Len(outcomes') : n < i => \E a \in S : outcomes'[i] = E(a)
    BY <2>2, <1>10
  <2>5. \A a \in S : \E i \in 1..Len(outcomes') : n < i /\ outcomes'[i] = E(a)
    BY <2>2, <1>7
  <2>6. \A i, j \in 1..Len(outcomes') : n < i /\ i < j => outcomes'[i].id # outcomes'[j].id
    BY <2>2, <1>8
  <2>7. QED
    BY <2>1, <2>3, <2>4, <2>5, <2>6, Zenon DEF Adds, n, E

(* The numbers in those events. *)
LEMMA Added ==
    ASSUME NEW kind, NEW S, Adds(kind, S)
    PROVE  /\ Len(outcomes') >= Len(outcomes) /\ Len(outcomes') \in Nat
           /\ \A i \in 1..Len(outcomes) : outcomes'[i] = outcomes[i]
           /\ \A i \in 1..Len(outcomes') : Len(outcomes) < i =>
                 \E a \in S : outcomes'[i].id = a.id
           /\ \A a \in S : \E i \in 1..Len(outcomes') : outcomes'[i].id = a.id
           /\ \A i, j \in 1..Len(outcomes') :
                 Len(outcomes) < i /\ i < j => outcomes'[i].id # outcomes'[j].id
<1>1. \A a \in S : Event(kind, a, clock).id = a.id
  BY DEF Event
<1>2. Len(outcomes') \in Nat
  OBVIOUS
<1>3. \A i \in 1..Len(outcomes') : Len(outcomes) < i => \E a \in S : outcomes'[i].id = a.id
  BY <1>1 DEF Adds
<1>4. \A a \in S : \E i \in 1..Len(outcomes') : outcomes'[i].id = a.id
  BY <1>1 DEF Adds
<1>5. QED
  BY <1>2, <1>3, <1>4 DEF Adds

(* A listing of actions with different numbers. *)
LEMMA ActionsListed ==
    ASSUME NEW S, IsFiniteSet(S), S \subseteq ActionType,
           NEW s \in [1..Cardinality(S) -> S],
           \A i, j \in 1..Cardinality(S) : i < j => s[i].id # s[j].id
    PROVE  Lists(s, S)
<1>1. PICK n \in Nat : n = Cardinality(S)
  BY FS_CardinalityType
<1>2. s \in [1..n -> S] /\ \A i, j \in 1..n : i < j => s[i].id # s[j].id
  BY <1>1
<1>3. \A i, j \in 1..n : i < j => s[i] # s[j]
  BY <1>2
<1>4. s \in Seq(S) /\ Len(s) = n /\ \A a \in S : \E i \in 1..n : s[i] = a
  BY <1>1, <1>3, Listed
<1>5. QED
  BY <1>2, <1>4 DEF Lists

LEMMA Recorded ==
    ASSUME clock \in 0..MaxClock, NEW a \in ActionType, a.id # 0,
           NEW kind \in {"sent", "late", "closed"}
    PROVE  Event(kind, a, clock) \in Outcome
BY DEF Event, Outcome, ActionType

(* The heap is emptied into the evidence. *)
LEMMA Drains ==
    ASSUME Types, Numbers, CloseDrain
    PROVE  Adds("closed", pending)
<1>1. PICK s \in Listings(pending, Before) : outcomes' = outcomes \o Events("closed", s, clock)
  BY DEF CloseDrain
<1>2. s \in [1..Cardinality(pending) -> pending]
  BY DEF Listings
<1>3. \A i, j \in 1..Cardinality(pending) : i < j => Before(s[i], s[j])
  BY DEF Listings
<1>4. \A i, j \in 1..Cardinality(pending) : i < j => s[i].id # s[j].id
  <2> SUFFICES ASSUME NEW i \in 1..Cardinality(pending), NEW j \in 1..Cardinality(pending),
                      i < j, s[i].id = s[j].id
               PROVE  FALSE
    OBVIOUS
  <2>1. s[i] \in pending /\ s[j] \in pending
    BY <1>2
  <2>2. s[i] = s[j]
    BY <2>1 DEF Numbers
  <2>3. s[i].due \in Int /\ s[i].id \in Int
    <3>1. s[i] \in ActionType
      BY <2>1 DEF Types
    <3>2. QED
      BY <3>1, Limits DEF ActionType
  <2>4. Before(s[i], s[j])
    BY <1>3
  <2>5. s[i].due < s[i].due \/ (s[i].due = s[i].due /\ s[i].id < s[i].id)
    BY <2>2, <2>4 DEF Before
  <2>6. QED
    BY <2>3, <2>5
<1>5. /\ pending \subseteq ActionType /\ IsFiniteSet(pending) /\ outcomes \in Seq(Outcome)
      /\ Writable("closed", pending)
  BY Recorded DEF Types, Numbers, Writable
<1>6. Lists(s, pending)
  BY <1>2, <1>4, <1>5, ActionsListed
<1>7. QED
  BY <1>1, <1>5, <1>6, ListingAdds

(* A batch that comes late is dropped. *)
LEMMA LateAdds ==
    ASSUME Types, NEW S, S \subseteq ActionType, IsFiniteSet(S), \A a \in S : a.id # 0,
           \E s \in Listings(S, Older) : outcomes' = outcomes \o Events("late", s, clock)
    PROVE  Adds("late", S)
<1>1. PICK s \in Listings(S, Older) : outcomes' = outcomes \o Events("late", s, clock)
  OBVIOUS
<1>2. s \in [1..Cardinality(S) -> S]
  BY DEF Listings
<1>3. \A i, j \in 1..Cardinality(S) : i < j => s[i].id < s[j].id
  BY DEF Listings, Older
<1>4. Cardinality(S) \in Nat
  BY FS_CardinalityType
<1>5. \A a \in S : a.id \in Int
  BY DEF ActionType
<1>6. \A i, j \in 1..Cardinality(S) : i < j => s[i].id # s[j].id
  BY <1>2, <1>3, <1>5
<1>7. outcomes \in Seq(Outcome) /\ Writable("late", S)
  BY Recorded DEF Types, Writable
<1>8. Lists(s, S)
  BY <1>2, <1>6, ActionsListed
<1>9. QED
  BY <1>1, <1>7, <1>8, ListingAdds

(* A batch of n actions with the next numbers is accepted: those in late    *)
(* are dropped, the others wait.                                            *)
Accepts(n, new, late) ==
    /\ next_action' = next_action + n /\ next_action + n <= MaxTotalActions
    /\ new \subseteq ActionType /\ IsFiniteSet(new) /\ Cardinality(new) <= n
    /\ Cardinality(pending) + n <= MaxPending
    /\ \A a \in new : next_action < a.id /\ a.id <= next_action + n
    /\ \A a, b \in new : a.id = b.id => a = b
    /\ \A id \in (next_action + 1)..(next_action + n) : \E a \in new : a.id = id
    /\ late \subseteq new /\ \A a \in new : a \in late <=> clock - a.due > LateTicks
    /\ pending' = pending \cup (new \ late) /\ Adds("late", late)

LEMMA Submits ==
    ASSUME Types, Submit
    PROVE  \E n \in Nat, new, late \in SUBSET ActionType : Accepts(n, new, late)
<1>1. PICK k \in DOMAIN observations, batch \in BoundedSeq(Delays, MaxBatch) :
         submit(observations[k], batch)
  BY DEF Submit
<1> DEFINE n == Len(batch)
           all == Proposals(observations[k], batch)
           new == Range(all)
           late == {a \in new : Late(a, clock)}
<1>2. batch \in Seq(Delays) /\ n \in Nat /\ DOMAIN batch = 1..n
  BY DEF BoundedSeq, SeqOf
<1>3. observations[k].receipt \in Nat /\ next_action \in Nat /\ clock \in Nat
  <2>1. observations[k] \in FrameType
    BY DEF Types
  <2>2. QED
    BY <2>1, Limits DEF Types, FrameType
<1>4. \A i \in 1..n : batch[i] \in Nat
  <2>1. \A i \in 1..n : batch[i] \in Delays
    BY <1>2
  <2>2. QED
    BY <2>1, Limits
<1>5. /\ DOMAIN all = 1..n /\ all = [i \in 1..n |-> all[i]]
      /\ \A i \in 1..n : /\ all[i].id = next_action + i
                         /\ all[i] = [due |-> all[i].due, id |-> all[i].id]
                         /\ all[i].due \in Nat
  BY <1>3, <1>4 DEF Proposals
<1>6. /\ next_action' = next_action + n /\ next_action + n <= MaxTotalActions
      /\ Cardinality(pending) + n <= MaxPending
      /\ \A a \in new : a.due <= MaxClock
      /\ pending' = pending \cup (new \ late)
      /\ \E s \in Listings(late, Older) : outcomes' = outcomes \o Events("late", s, clock)
  BY <1>1, Zenon DEF submit, HasRoom
<1> HIDE DEF all, n
<1>7. \A a \in new : \E i \in 1..n : a = all[i]
  BY <1>5 DEF Range
<1>8. \A i \in 1..n : all[i] \in new
  BY <1>5 DEF Range
<1>9. IsFiniteSet(new) /\ Cardinality(new) <= n
  <2>1. all \in Surjection(1..n, new)
    BY <1>5, <1>7, <1>8 DEF Surjection
  <2>2. IsFiniteSet(1..n) /\ Cardinality(1..n) = n
    BY <1>2, FS_Interval
  <2>3. QED
    BY <2>1, <2>2, FS_Surjection
<1>10. late \subseteq new /\ \A a \in new : a \in late <=> clock - a.due > LateTicks
  BY DEF Late
<1> HIDE DEF new, late
<1>11. new \subseteq ActionType /\ \A a \in new : next_action < a.id /\ a.id <= next_action + n
  <2> SUFFICES ASSUME NEW a \in new
               PROVE  a \in ActionType /\ next_action < a.id /\ a.id <= next_action + n
    OBVIOUS
  <2>1. PICK i \in 1..n : a = all[i]
    BY <1>7
  <2>2. /\ a.id = next_action + i /\ a = [due |-> a.due, id |-> a.id] /\ a.due \in Nat
        /\ a.due <= MaxClock
    BY <1>5, <1>6, <2>1
  <2>3. a.id \in 0..MaxTotalActions /\ next_action < a.id /\ a.id <= next_action + n
    <3> DEFINE m == next_action
               c == a.id
               T == MaxTotalActions
    <3>1. m \in Nat /\ n \in Nat /\ T \in Nat /\ i \in 1..n /\ c = m + i /\ m + n <= T
      BY <1>2, <1>3, <1>6, <2>2, Limits
    <3> HIDE DEF m, c, T
    <3>2. c \in 0..T /\ m < c /\ c <= m + n
      BY <3>1
    <3>3. QED
      BY <3>2 DEF m, c, T
  <2>4. a.due \in 0..MaxClock
    BY <2>2
  <2>5. QED
    BY <2>2, <2>3, <2>4 DEF ActionType
<1>12. \A a, b \in new : a.id = b.id => a = b
  BY <1>3, <1>5, <1>7
<1>13. \A id \in (next_action + 1)..(next_action + n) : \E a \in new : a.id = id
  <2> TAKE id \in (next_action + 1)..(next_action + n)
  <2>1. id - next_action \in 1..n /\ next_action + (id - next_action) = id
    BY <1>2, <1>3
  <2>2. QED
    BY <1>5, <1>8, <2>1
<1>14. Adds("late", late)
  <2>1. late \subseteq ActionType /\ IsFiniteSet(late) /\ \A a \in late : a.id # 0
    BY <1>3, <1>9, <1>10, <1>11, FS_Subset
  <2>2. \E s \in Listings(late, Older) : outcomes' = outcomes \o Events("late", s, clock)
    BY <1>6
  <2>3. QED
    BY <2>1, <2>2, LateAdds
<1>15. Accepts(n, new, late)
  BY <1>6, <1>9, <1>10, <1>11, <1>12, <1>13, <1>14 DEF Accepts
<1>16. QED
  BY <1>2, <1>10, <1>11, <1>15

(* What the caller's submit leaves alone. *)
LEMMA SubmitLeaves ==
    ASSUME Submit
    PROVE  /\ caller = "idle" /\ Free /\ Usable
           /\ UNCHANGED <<clock, observeVars, started, stop, error, closed, keyVars,
                          keys_closed, caller, captureVars, scheduleVars>>
BY DEF Submit, submit, CallOnly, KeysOnly, keyVars

(* One more event. *)
OneMore(e) ==
    /\ outcomes' \in Seq(Outcome) /\ Len(outcomes') = Len(outcomes) + 1
    /\ \A i \in 1..Len(outcomes) : outcomes'[i] = outcomes[i]
    /\ outcomes'[Len(outcomes) + 1] = e

LEMMA Pops ==
    ASSUME Types, Numbers, DispatchPop
    PROVE  \E a \in pending :
             /\ pending' = pending \ {a} /\ a.due <= clock
             /\ \A b \in pending \ {a} : Before(a, b)
             /\ \/ /\ clock - a.due > LateTicks /\ UNCHANGED scheduleVars
                   /\ OneMore(Event("late", a, clock))
                \/ /\ ~(clock - a.due > LateTicks) /\ UNCHANGED outcomes
                   /\ scheduler' = "tap" /\ action' = a /\ now' = clock
<1>1. PICK a \in pending :
         /\ pending' = pending \ {a} /\ a.due <= clock
         /\ \A b \in pending \ {a} : Before(a, b)
         /\ \/ /\ clock - a.due > LateTicks /\ UNCHANGED scheduleVars
               /\ outcomes' = Append(outcomes, Event("late", a, clock))
            \/ /\ ~(clock - a.due > LateTicks) /\ UNCHANGED outcomes
               /\ scheduler' = "tap" /\ action' = a /\ now' = clock
  BY Zenon DEF DispatchPop, IsDue, Late
<1>2. outcomes \in Seq(Outcome) /\ Event("late", a, clock) \in Outcome
  BY Recorded DEF Types, Numbers
<1>3. ASSUME outcomes' = Append(outcomes, Event("late", a, clock))
      PROVE  OneMore(Event("late", a, clock))
  BY <1>2, <1>3 DEF OneMore
<1>4. QED
  BY <1>1, <1>3

LEMMA SendsOne ==
    ASSUME Types, Numbers, DispatchSent
    PROVE  OneMore(Event("sent", action, now))
<1>1. outcomes \in Seq(Outcome) /\ action.id # 0
  BY DEF Types, Numbers, Busy, DispatchSent, ScheduleGoes
<1>2. Event("sent", action, now) \in Outcome
  BY <1>1, Limits DEF Types, Event, Outcome, ActionType
<1>3. outcomes' = Append(outcomes, Event("sent", action, now))
  BY DEF DispatchSent
<1>4. QED
  BY <1>1, <1>2, <1>3, Logs DEF OneMore

-----------------------------------------------------------------------------
(* Each part of the invariant is kept by every step. *)

LEMMA ThreadsKeep == ASSUME BInv, Next PROVE (Threads /\ Flags)'
<1>1. CASE Tick
  BY <1>1 DEF BInv, Threads, Flags, Tick, submitVars, endVars, captureVars,
     scheduleVars, keyVars
<1>2. CASE FocusMoves
  BY <1>2 DEF BInv, Threads, Flags, FocusMoves, submitVars, endVars, captureVars,
     scheduleVars
<1>3. CASE Capture
  <2>1. CASE CaptureReceive
    BY <2>1 DEF BInv, Threads, Flags, CaptureReceive, submitVars, endVars, scheduleVars,
       keyVars, CaptureOnly
  <2>2. CASE CaptureStore
    BY <2>2 DEF BInv, Threads, Flags, CaptureStore, submitVars, endVars, scheduleVars,
       keyVars, CaptureOnly
  <2>3. CASE CaptureFails
    BY <2>3 DEF BInv, Threads, Flags, CaptureFails, submitVars, scheduleVars, keyVars,
       CaptureOnly
  <2>4. CASE CaptureEnds
    BY <2>4 DEF BInv, Threads, Flags, CaptureEnds, submitVars, endVars, scheduleVars,
       keyVars, CaptureOnly
  <2>5. QED
    BY <1>3, <2>1, <2>2, <2>3, <2>4 DEF Capture
<1>4. CASE Dispatch
  <2>1. CASE DispatchPop
    BY <2>1 DEF BInv, Threads, Flags, DispatchPop, submitVars, endVars, captureVars,
       scheduleVars, ScheduleOnly
  <2>2. CASE DispatchCheck
    BY <2>2 DEF BInv, Threads, Flags, DispatchCheck, submitVars, endVars, captureVars,
       ScheduleOnly, ScheduleGoes
  <2>3. CASE DispatchPress
    BY <2>3 DEF BInv, Threads, Flags, DispatchPress, submitVars, endVars, captureVars,
       ScheduleOnly, ScheduleGoes
  <2>4. CASE DispatchRelease
    <3>1. /\ scheduler' \in {"tapped", "failing"} /\ (held' = held \/ held' = TRUE)
          /\ UNCHANGED <<capture, focus, caller, started, stop, closed, error, keys_closed>>
      BY <2>4 DEF DispatchRelease, ScheduleOnly, ScheduleGoes, submitVars, endVars,
         captureVars
    <3>2. Threads'
      BY <3>1 DEF BInv, Threads
    <3>3. Flags'
      BY <3>1 DEF BInv, Flags
    <3>4. QED
      BY <3>2, <3>3
  <2>5. CASE DispatchSent
    BY <2>5 DEF BInv, Threads, Flags, DispatchSent, submitVars, endVars, captureVars,
       ScheduleOnly, ScheduleGoes
  <2>6. CASE DispatchFails
    BY <2>6 DEF BInv, Threads, Flags, DispatchFails, submitVars, endVars, captureVars,
       ScheduleOnly, ScheduleGoes
  <2>7. CASE DispatchEnds
    BY <2>7 DEF BInv, Threads, Flags, DispatchEnds, submitVars, endVars, captureVars,
       ScheduleOnly, ScheduleGoes
  <2>8. QED
    BY <1>4, <2>1, <2>2, <2>3, <2>4, <2>5, <2>6, <2>7 DEF Dispatch
<1>5. CASE Schedule
  <2>1. CASE ScheduleTurn
    BY <2>1 DEF BInv, Threads, Flags, ScheduleTurn, submitVars, endVars, captureVars,
       ScheduleOnly, ScheduleGoes
  <2>2. CASE ScheduleLocks
    BY <2>2 DEF BInv, Threads, Flags, ScheduleLocks, submitVars, endVars, captureVars,
       ScheduleOnly, ScheduleGoes
  <2>3. CASE ScheduleEnds
    BY <2>3 DEF BInv, Threads, Flags, ScheduleEnds, submitVars, endVars, captureVars,
       ScheduleOnly, ScheduleGoes
  <2>4. CASE ScheduleWakes
    BY <2>4 DEF BInv, Threads, Flags, ScheduleWakes, submitVars, endVars, captureVars,
       ScheduleOnly, ScheduleGoes
  <2>5. CASE ScheduleFails
    BY <2>5 DEF BInv, Threads, Flags, ScheduleFails, submitVars, captureVars,
       ScheduleOnly, ScheduleGoes
  <2>6. QED
    BY <1>5, <2>1, <2>2, <2>3, <2>4, <2>5 DEF Schedule
<1>6. CASE Observe
  <2>1. CASE ObserveTake
    BY <2>1 DEF BInv, Threads, Flags, ObserveTake, submitVars, captureVars,
       scheduleVars, CallOnly, KeysOnly, ObserveOnly
  <2>2. CASE ObserveStore
    BY <2>2 DEF BInv, Threads, Flags, ObserveStore, submitVars, captureVars,
       scheduleVars, CallOnly, KeysOnly, ObserveOnly
  <2>3. CASE ObserveRaises
    BY <2>3 DEF BInv, Threads, Flags, ObserveRaises, submitVars, captureVars,
       scheduleVars, CallOnly, KeysOnly, ObserveOnly
  <2>4. QED
    BY <1>6, <2>1, <2>2, <2>3 DEF Observe
<1>7. CASE start
  BY <1>7 DEF BInv, Threads, Flags, KeysClose, start, observeVars, submitVars, endVars,
     captureVars, scheduleVars, keyVars, CaptureOnly, ScheduleOnly, CallOnly, KeysOnly,
     ObserveOnly, CloseOnly, ScheduleGoes
<1>8. CASE Submit
  BY <1>8, SubmitLeaves DEF BInv, Threads, Flags, captureVars, scheduleVars, keyVars
<1>9. CASE Close
  <2>1. CASE CloseBegin
    BY <2>1 DEF BInv, Threads, Flags, CloseBegin, submitVars, captureVars, scheduleVars,
       CallOnly, CloseOnly
  <2>2. CASE CloseDrain
    BY <2>2 DEF BInv, Threads, Flags, KeysClose, CloseDrain, observeVars, submitVars,
       endVars, captureVars, scheduleVars, keyVars, CaptureOnly, ScheduleOnly, CallOnly,
       KeysOnly, ObserveOnly, CloseOnly, ScheduleGoes
  <2>3. CASE CloseGivesUp
    BY <2>3 DEF BInv, Threads, Flags, KeysClose, CloseGivesUp, observeVars, submitVars,
       endVars, captureVars, scheduleVars, keyVars, CaptureOnly, ScheduleOnly, CallOnly,
       KeysOnly, ObserveOnly, CloseOnly, ScheduleGoes
  <2>4. QED
    BY <1>9, <2>1, <2>2, <2>3 DEF Close
<1>10. QED
  BY <1>1, <1>2, <1>3, <1>4, <1>5, <1>6, <1>7, <1>8, <1>9 DEF Next

LEMMA ClosingKeeps == ASSUME BInv, Next PROVE Closing'
<1>1. CASE Tick
  BY <1>1 DEF BInv, Closing, Tick, endVars, captureVars, scheduleVars, keyVars,
     CloseOnly, ScheduleGoes
<1>2. CASE FocusMoves
  BY <1>2 DEF BInv, Closing, FocusMoves, endVars, captureVars, scheduleVars, CloseOnly,
     ScheduleGoes
<1>3. CASE Capture
  <2>1. CASE CaptureReceive
    BY <2>1 DEF BInv, Closing, CaptureReceive, scheduleVars, keyVars, CaptureOnly,
       CloseOnly, ScheduleGoes
  <2>2. CASE CaptureStore
    BY <2>2 DEF BInv, Closing, CaptureStore, endVars, scheduleVars, keyVars,
       CaptureOnly, CloseOnly, ScheduleGoes
  <2>3. CASE CaptureFails
    BY <2>3 DEF BInv, Closing, CaptureFails, scheduleVars, keyVars, CaptureOnly,
       CloseOnly, ScheduleGoes
  <2>4. CASE CaptureEnds
    BY <2>4 DEF BInv, Closing, CaptureEnds, endVars, scheduleVars, keyVars, CaptureOnly,
       CloseOnly, ScheduleGoes
  <2>5. QED
    BY <1>3, <2>1, <2>2, <2>3, <2>4 DEF Capture
<1>4. CASE Dispatch
  <2>1. CASE DispatchPop
    BY <2>1 DEF BInv, Closing, DispatchPop, endVars, scheduleVars, ScheduleOnly,
       CloseOnly, ScheduleGoes
  <2>2. CASE DispatchCheck
    BY <2>2 DEF BInv, Closing, DispatchCheck, endVars, ScheduleOnly, CloseOnly,
       ScheduleGoes
  <2>3. CASE DispatchPress
    BY <2>3 DEF BInv, Closing, DispatchPress, endVars, ScheduleOnly, CloseOnly,
       ScheduleGoes
  <2>4. CASE DispatchRelease
    BY <2>4 DEF BInv, Closing, DispatchRelease, endVars, ScheduleOnly, CloseOnly,
       ScheduleGoes
  <2>5. CASE DispatchSent
    BY <2>5 DEF BInv, Closing, DispatchSent, endVars, ScheduleOnly, CloseOnly,
       ScheduleGoes
  <2>6. CASE DispatchFails
    BY <2>6 DEF BInv, Closing, DispatchFails, endVars, ScheduleOnly, CloseOnly,
       ScheduleGoes
  <2>7. CASE DispatchEnds
    BY <2>7 DEF BInv, Closing, DispatchEnds, endVars, ScheduleOnly, CloseOnly,
       ScheduleGoes
  <2>8. QED
    BY <1>4, <2>1, <2>2, <2>3, <2>4, <2>5, <2>6, <2>7 DEF Dispatch
<1>5. CASE Schedule
  <2>1. CASE ScheduleTurn
    BY <2>1 DEF BInv, Closing, ScheduleTurn, ScheduleOnly, CloseOnly, ScheduleGoes
  <2>2. CASE ScheduleLocks
    BY <2>2 DEF BInv, Closing, ScheduleLocks, endVars, ScheduleOnly, CloseOnly,
       ScheduleGoes
  <2>3. CASE ScheduleEnds
    BY <2>3 DEF BInv, Closing, ScheduleEnds, endVars, ScheduleOnly, CloseOnly,
       ScheduleGoes
  <2>4. CASE ScheduleWakes
    BY <2>4 DEF BInv, Closing, ScheduleWakes, ScheduleOnly, CloseOnly, ScheduleGoes
  <2>5. CASE ScheduleFails
    BY <2>5 DEF BInv, Closing, ScheduleFails, ScheduleOnly, CloseOnly, ScheduleGoes
  <2>6. QED
    BY <1>5, <2>1, <2>2, <2>3, <2>4, <2>5 DEF Schedule
<1>6. CASE Observe
  <2>1. CASE ObserveTake
    BY <2>1 DEF BInv, Closing, ObserveTake, captureVars, scheduleVars, CallOnly,
       KeysOnly, ObserveOnly, CloseOnly, ScheduleGoes
  <2>2. CASE ObserveStore
    BY <2>2 DEF BInv, Closing, ObserveStore, captureVars, scheduleVars, CallOnly,
       KeysOnly, ObserveOnly, CloseOnly, ScheduleGoes
  <2>3. CASE ObserveRaises
    BY <2>3 DEF BInv, Closing, ObserveRaises, captureVars, scheduleVars, CallOnly,
       KeysOnly, ObserveOnly, CloseOnly, ScheduleGoes
  <2>4. QED
    BY <1>6, <2>1, <2>2, <2>3 DEF Observe
<1>7. CASE start
  BY <1>7 DEF Closing, Usable, start, CloseOnly, ScheduleGoes
<1>8. CASE Submit
  BY <1>8, SubmitLeaves DEF BInv, Closing, Usable, scheduleVars, keyVars
<1>9. CASE Close
  <2>1. CASE CloseBegin
    BY <2>1 DEF BInv, Closing, CloseBegin, scheduleVars, CallOnly, CloseOnly,
       ScheduleGoes
  <2>2. CASE CloseDrain
    BY <2>2 DEF Closing, KeysClose, Joined, CloseDrain, captureVars, scheduleVars,
       CallOnly, CloseOnly, ScheduleGoes
  <2>3. CASE CloseGivesUp
    BY <2>3 DEF BInv, Closing, KeysClose, CloseGivesUp, scheduleVars, CallOnly,
       CloseOnly, ScheduleGoes
  <2>4. QED
    BY <1>9, <2>1, <2>2, <2>3 DEF Close
<1>10. QED
  BY <1>1, <1>2, <1>3, <1>4, <1>5, <1>6, <1>7, <1>8, <1>9 DEF Next

(* A failure is final, and so is the order to stop.                         *)
LEMMA Final == ASSUME BInv, Next PROVE (Broken => Broken') /\ (stop => stop')
<1>1. CASE Tick
  BY <1>1 DEF Broken, Tick, endVars, scheduleVars
<1>2. CASE FocusMoves
  BY <1>2 DEF Broken, FocusMoves, endVars, scheduleVars
<1>3. CASE Capture
  <2>1. CASE CaptureReceive
    BY <2>1 DEF Broken, CaptureReceive, endVars, scheduleVars, CaptureOnly
  <2>2. CASE CaptureStore
    BY <2>2 DEF Broken, CaptureStore, endVars, scheduleVars, CaptureOnly
  <2>3. CASE CaptureFails
    BY <2>3 DEF Broken, CaptureFails, scheduleVars, CaptureOnly
  <2>4. CASE CaptureEnds
    BY <2>4 DEF Broken, CaptureEnds, endVars, scheduleVars, CaptureOnly
  <2>5. QED
    BY <1>3, <2>1, <2>2, <2>3, <2>4 DEF Capture
<1>4. CASE Dispatch
  <2>1. CASE DispatchPop
    BY <2>1 DEF Broken, DispatchPop, endVars
  <2>2. CASE DispatchCheck
    BY <2>2 DEF Broken, DispatchCheck, endVars, ScheduleGoes
  <2>3. CASE DispatchPress
    BY <2>3 DEF Broken, DispatchPress, endVars, ScheduleGoes
  <2>4. CASE DispatchRelease
    BY <2>4 DEF Broken, DispatchRelease, endVars, ScheduleGoes
  <2>5. CASE DispatchSent
    BY <2>5 DEF Broken, DispatchSent, endVars, ScheduleGoes
  <2>6. CASE DispatchFails
    BY <2>6 DEF Broken, DispatchFails, endVars, ScheduleGoes
  <2>7. CASE DispatchEnds
    BY <2>7 DEF Broken, DispatchEnds, endVars, ScheduleGoes
  <2>8. QED
    BY <1>4, <2>1, <2>2, <2>3, <2>4, <2>5, <2>6, <2>7 DEF Dispatch
<1>5. CASE Schedule
  <2>1. CASE ScheduleTurn
    BY <2>1 DEF Broken, ScheduleTurn, ScheduleGoes
  <2>2. CASE ScheduleLocks
    BY <2>2 DEF Broken, ScheduleLocks, endVars, ScheduleGoes
  <2>3. CASE ScheduleEnds
    BY <2>3 DEF Broken, ScheduleEnds, endVars, ScheduleGoes
  <2>4. CASE ScheduleWakes
    BY <2>4 DEF Broken, ScheduleWakes, ScheduleGoes
  <2>5. CASE ScheduleFails
    BY <2>5 DEF Broken, ScheduleFails, ScheduleGoes
  <2>6. QED
    BY <1>5, <2>1, <2>2, <2>3, <2>4, <2>5 DEF Schedule
<1>6. CASE Observe
  <2>1. CASE ObserveTake
    BY <2>1 DEF Broken, ObserveTake, scheduleVars, CallOnly, ObserveOnly
  <2>2. CASE ObserveStore
    BY <2>2 DEF Broken, ObserveStore, scheduleVars, CallOnly, ObserveOnly
  <2>3. CASE ObserveRaises
    BY <2>3 DEF Broken, ObserveRaises, scheduleVars, CallOnly, ObserveOnly
  <2>4. QED
    BY <1>6, <2>1, <2>2, <2>3 DEF Observe
<1>7. CASE start
  BY <1>7 DEF Broken, start, scheduleVars, CallOnly
<1>8. CASE Submit
  BY <1>8, SubmitLeaves DEF Broken, scheduleVars
<1>9. CASE Close
  <2>1. CASE CloseBegin
    BY <2>1 DEF Broken, CloseBegin, scheduleVars, CallOnly, CloseOnly
  <2>2. CASE CloseDrain
    BY <2>2 DEF Broken, CloseDrain, scheduleVars, CallOnly, CloseOnly
  <2>3. CASE CloseGivesUp
    BY <2>3 DEF Broken, CloseGivesUp, scheduleVars, CallOnly, CloseOnly
  <2>4. QED
    BY <1>9, <2>1, <2>2, <2>3 DEF Close
<1>10. QED
  BY <1>1, <1>2, <1>3, <1>4, <1>5, <1>6, <1>7, <1>8, <1>9 DEF Next

(* The steps that move no action.                                           *)
Eventful == DispatchPop \/ DispatchRelease \/ DispatchSent \/ DispatchFails \/ Submit \/ CloseDrain

Still == UNCHANGED <<next_action, action, now, pending, outcomes>> /\ (Busy' <=> Busy)

LEMMA Others == ASSUME Next, ~Eventful PROVE Still
<1>1. CASE Tick
  BY <1>1 DEF Still, Busy, Tick, submitVars, scheduleVars
<1>2. CASE FocusMoves
  BY <1>2 DEF Still, Busy, FocusMoves, submitVars, scheduleVars
<1>3. CASE Capture
  <2>1. CASE CaptureReceive
    BY <2>1 DEF Still, Busy, CaptureReceive, submitVars, scheduleVars, CaptureOnly
  <2>2. CASE CaptureStore
    BY <2>2 DEF Still, Busy, CaptureStore, submitVars, scheduleVars, CaptureOnly
  <2>3. CASE CaptureFails
    BY <2>3 DEF Still, Busy, CaptureFails, submitVars, scheduleVars, CaptureOnly
  <2>4. CASE CaptureEnds
    BY <2>4 DEF Still, Busy, CaptureEnds, submitVars, scheduleVars, CaptureOnly
  <2>5. QED
    BY <1>3, <2>1, <2>2, <2>3, <2>4 DEF Capture
<1>4. CASE Dispatch
  <2>1. CASE DispatchPop
    BY <2>1 DEF Eventful
  <2>2. CASE DispatchCheck
    BY <2>2 DEF Still, Busy, DispatchCheck, submitVars, ScheduleOnly, ScheduleGoes
  <2>3. CASE DispatchPress
    BY <2>3 DEF Still, Busy, DispatchPress, submitVars, ScheduleOnly, ScheduleGoes
  <2>4. CASE DispatchRelease
    BY <2>4 DEF Eventful
  <2>5. CASE DispatchSent
    BY <2>5 DEF Eventful
  <2>6. CASE DispatchFails
    BY <2>6 DEF Eventful
  <2>7. CASE DispatchEnds
    BY <2>7 DEF Still, Busy, DispatchEnds, submitVars, ScheduleOnly, ScheduleGoes
  <2>8. QED
    BY <1>4, <2>1, <2>2, <2>3, <2>4, <2>5, <2>6, <2>7 DEF Dispatch
<1>5. CASE Schedule
  <2>1. CASE ScheduleTurn
    BY <2>1 DEF Still, Busy, ScheduleTurn, submitVars, ScheduleOnly, ScheduleGoes
  <2>2. CASE ScheduleLocks
    BY <2>2 DEF Still, Busy, ScheduleLocks, submitVars, ScheduleOnly, ScheduleGoes
  <2>3. CASE ScheduleEnds
    BY <2>3 DEF Still, Busy, ScheduleEnds, submitVars, ScheduleOnly, ScheduleGoes
  <2>4. CASE ScheduleWakes
    BY <2>4 DEF Still, Busy, ScheduleWakes, submitVars, ScheduleOnly, ScheduleGoes
  <2>5. CASE ScheduleFails
    BY <2>5 DEF Still, Busy, ScheduleFails, submitVars, ScheduleOnly, ScheduleGoes
  <2>6. QED
    BY <1>5, <2>1, <2>2, <2>3, <2>4, <2>5 DEF Schedule
<1>6. CASE Observe
  <2>1. CASE ObserveTake
    BY <2>1 DEF Still, Busy, ObserveTake, submitVars, scheduleVars, CallOnly,
       ObserveOnly
  <2>2. CASE ObserveStore
    BY <2>2 DEF Still, Busy, ObserveStore, submitVars, scheduleVars, CallOnly,
       ObserveOnly
  <2>3. CASE ObserveRaises
    BY <2>3 DEF Still, Busy, ObserveRaises, submitVars, scheduleVars, CallOnly,
       ObserveOnly
  <2>4. QED
    BY <1>6, <2>1, <2>2, <2>3 DEF Observe
<1>7. CASE start
  BY <1>7 DEF Still, Busy, start, scheduleVars, CallOnly
<1>8. CASE Submit
  BY <1>8 DEF Eventful
<1>9. CASE Close
  <2>1. CASE CloseBegin
    BY <2>1 DEF Still, Busy, CloseBegin, submitVars, scheduleVars, CallOnly, CloseOnly
  <2>2. CASE CloseDrain
    BY <2>2 DEF Eventful
  <2>3. CASE CloseGivesUp
    BY <2>3 DEF Still, Busy, CloseGivesUp, submitVars, scheduleVars, CallOnly, CloseOnly
  <2>4. QED
    BY <1>9, <2>1, <2>2, <2>3 DEF Close
<1>10. QED
  BY <1>1, <1>2, <1>3, <1>4, <1>5, <1>6, <1>7, <1>8, <1>9 DEF Next

LEMMA FirstKeeps == ASSUME BInv, Next PROVE First'
<1>1. CASE Tick
  BY <1>1 DEF BInv, First, Tick, scheduleVars
<1>2. CASE FocusMoves
  BY <1>2 DEF BInv, First, FocusMoves, scheduleVars
<1>3. CASE Capture
  <2>1. CASE CaptureReceive
    BY <2>1 DEF BInv, First, CaptureReceive, scheduleVars, CaptureOnly
  <2>2. CASE CaptureStore
    BY <2>2 DEF BInv, First, CaptureStore, scheduleVars, CaptureOnly
  <2>3. CASE CaptureFails
    BY <2>3 DEF BInv, First, CaptureFails, scheduleVars, CaptureOnly
  <2>4. CASE CaptureEnds
    BY <2>4 DEF BInv, First, CaptureEnds, scheduleVars, CaptureOnly
  <2>5. QED
    BY <1>3, <2>1, <2>2, <2>3, <2>4 DEF Capture
<1>4. CASE Dispatch
  <2>1. CASE DispatchPop
    <3>1. PICK a \in pending :
             /\ pending' = pending \ {a} /\ \A b \in pending \ {a} : Before(a, b)
             /\ UNCHANGED scheduleVars \/ action' = a
      BY <2>1, Pops DEF BInv
    <3>2. scheduler = "dispatch"
      BY <2>1 DEF DispatchPop
    <3>3. (\A b \in pending : Before(action, b))' <=> \A b \in pending' : Before(action', b)
      OBVIOUS
    <3>4. QED
      BY <3>1, <3>2, <3>3 DEF First, scheduleVars
  <2>2. CASE DispatchCheck
    BY <2>2 DEF BInv, First, DispatchCheck, ScheduleGoes
  <2>3. CASE DispatchPress
    BY <2>3 DEF First, DispatchPress, ScheduleGoes
  <2>4. CASE DispatchRelease
    BY <2>4 DEF First, DispatchRelease, ScheduleGoes
  <2>5. CASE DispatchSent
    BY <2>5 DEF First, DispatchSent, ScheduleGoes
  <2>6. CASE DispatchFails
    BY <2>6 DEF First, DispatchFails, ScheduleGoes
  <2>7. CASE DispatchEnds
    BY <2>7 DEF First, DispatchEnds, ScheduleGoes
  <2>8. QED
    BY <1>4, <2>1, <2>2, <2>3, <2>4, <2>5, <2>6, <2>7 DEF Dispatch
<1>5. CASE Schedule
  <2>1. CASE ScheduleTurn
    BY <2>1 DEF First, ScheduleTurn, ScheduleGoes
  <2>2. CASE ScheduleLocks
    BY <2>2 DEF First, ScheduleLocks, ScheduleGoes
  <2>3. CASE ScheduleEnds
    BY <2>3 DEF First, ScheduleEnds, ScheduleGoes
  <2>4. CASE ScheduleWakes
    BY <2>4 DEF First, ScheduleWakes, ScheduleGoes
  <2>5. CASE ScheduleFails
    BY <2>5 DEF First, ScheduleFails, ScheduleGoes
  <2>6. QED
    BY <1>5, <2>1, <2>2, <2>3, <2>4, <2>5 DEF Schedule
<1>6. CASE Observe
  <2>1. CASE ObserveTake
    BY <2>1 DEF BInv, First, ObserveTake, scheduleVars, CallOnly, ObserveOnly
  <2>2. CASE ObserveStore
    BY <2>2 DEF BInv, First, ObserveStore, scheduleVars, CallOnly, ObserveOnly
  <2>3. CASE ObserveRaises
    BY <2>3 DEF BInv, First, ObserveRaises, scheduleVars, CallOnly, ObserveOnly
  <2>4. QED
    BY <1>6, <2>1, <2>2, <2>3 DEF Observe
<1>7. CASE start
  BY <1>7 DEF BInv, First, start, scheduleVars, CallOnly
<1>8. CASE Submit
  BY <1>8, SubmitLeaves DEF First, Free, scheduleVars
<1>9. CASE Close
  <2>1. CASE CloseBegin
    BY <2>1 DEF BInv, First, CloseBegin, scheduleVars, CallOnly, CloseOnly
  <2>2. CASE CloseDrain
    BY <2>2 DEF First, CloseDrain
  <2>3. CASE CloseGivesUp
    BY <2>3 DEF BInv, First, CloseGivesUp, scheduleVars, CallOnly, CloseOnly
  <2>4. QED
    BY <1>9, <2>1, <2>2, <2>3 DEF Close
<1>10. QED
  BY <1>1, <1>2, <1>3, <1>4, <1>5, <1>6, <1>7, <1>8, <1>9 DEF Next

LEMMA FramesKeep == ASSUME BInv, Next PROVE Frames'
<1>1. CASE Tick
  BY <1>1 DEF BInv, Frames, Types, FrameType, Tick, observeVars, captureVars
<1>2. CASE FocusMoves
  BY <1>2 DEF BInv, Frames, FocusMoves, observeVars, captureVars
<1>3. CASE Capture
  <2>1. CASE CaptureReceive
    BY <2>1 DEF BInv, Frames, CaptureReceive, observeVars, CaptureOnly
  <2>2. CASE CaptureStore
    <3>1. latest'.frame = latest.frame + 1 /\ latest'.receipt = receipt /\ capture' = "loop"
      BY <2>2 DEF CaptureStore
    <3>2. UNCHANGED <<clock, last_returned, encoding, observations, caller>>
      BY <2>2 DEF CaptureStore, CaptureOnly, observeVars
    <3>3. latest.receipt <= receipt /\ receipt <= clock /\ latest.receipt \in Int /\ receipt \in Int
          /\ clock \in Int /\ latest.frame \in Int /\ last_returned \in Int
          /\ encoding.receipt \in Int
      BY <2>2 DEF CaptureStore, BInv, Frames, Types, FrameType
    <3>4. \A i \in 1..Len(observations) : observations[i].receipt \in Int
      <4>1. \A i \in 1..Len(observations) : observations[i] \in FrameType
        BY DEF BInv, Types
      <4>2. QED
        BY <4>1, Limits DEF FrameType
    <3>5. QED
      BY <3>1, <3>2, <3>3, <3>4 DEF BInv, Frames
  <2>3. CASE CaptureFails
    BY <2>3 DEF BInv, Frames, CaptureFails, observeVars, CaptureOnly
  <2>4. CASE CaptureEnds
    BY <2>4 DEF BInv, Frames, CaptureEnds, observeVars, CaptureOnly
  <2>5. QED
    BY <1>3, <2>1, <2>2, <2>3, <2>4 DEF Capture
<1>4. CASE Dispatch
  <2>1. CASE DispatchPop
    BY <2>1 DEF BInv, Frames, DispatchPop, observeVars, captureVars, ScheduleOnly
  <2>2. CASE DispatchCheck
    BY <2>2 DEF BInv, Frames, DispatchCheck, observeVars, captureVars, ScheduleOnly
  <2>3. CASE DispatchPress
    BY <2>3 DEF BInv, Frames, DispatchPress, observeVars, captureVars, ScheduleOnly
  <2>4. CASE DispatchRelease
    BY <2>4 DEF BInv, Frames, DispatchRelease, observeVars, captureVars, ScheduleOnly
  <2>5. CASE DispatchSent
    BY <2>5 DEF BInv, Frames, DispatchSent, observeVars, captureVars, ScheduleOnly
  <2>6. CASE DispatchFails
    BY <2>6 DEF BInv, Frames, DispatchFails, observeVars, captureVars, ScheduleOnly
  <2>7. CASE DispatchEnds
    BY <2>7 DEF BInv, Frames, DispatchEnds, observeVars, captureVars, ScheduleOnly
  <2>8. QED
    BY <1>4, <2>1, <2>2, <2>3, <2>4, <2>5, <2>6, <2>7 DEF Dispatch
<1>5. CASE Schedule
  <2>1. CASE ScheduleTurn
    BY <2>1 DEF BInv, Frames, ScheduleTurn, observeVars, captureVars, ScheduleOnly
  <2>2. CASE ScheduleLocks
    BY <2>2 DEF BInv, Frames, ScheduleLocks, observeVars, captureVars, ScheduleOnly
  <2>3. CASE ScheduleEnds
    BY <2>3 DEF BInv, Frames, ScheduleEnds, observeVars, captureVars, ScheduleOnly
  <2>4. CASE ScheduleWakes
    BY <2>4 DEF BInv, Frames, ScheduleWakes, observeVars, captureVars, ScheduleOnly
  <2>5. CASE ScheduleFails
    BY <2>5 DEF BInv, Frames, ScheduleFails, observeVars, captureVars, ScheduleOnly
  <2>6. QED
    BY <1>5, <2>1, <2>2, <2>3, <2>4, <2>5 DEF Schedule
<1>6. CASE Observe
  <2>1. CASE ObserveTake
    <3>1. /\ last_returned' = latest.frame /\ encoding' = latest /\ caller' = "encode"
          /\ latest.frame > last_returned
      BY <2>1 DEF ObserveTake
    <3>2. UNCHANGED <<clock, latest, receipt, capture, observations>>
      BY <2>1 DEF ObserveTake, ObserveOnly, CallOnly, captureVars
    <3>3. /\ latest.receipt \in Int /\ latest.frame \in Int /\ last_returned \in Int
          /\ observations \in Seq(FrameType)
      BY DEF BInv, Types, FrameType
    <3>4. \A i \in 1..Len(observations) : observations[i].frame \in Int
      <4>1. \A i \in 1..Len(observations) : observations[i] \in FrameType
        BY DEF BInv, Types
      <4>2. QED
        BY <4>1, Limits DEF FrameType
    <3>5. \A i \in 1..Len(observations) : /\ observations[i].frame < latest.frame
                                           /\ observations[i].receipt <= latest.receipt
      BY <3>1, <3>3, <3>4 DEF BInv, Frames
    <3>6. latest.frame <= latest.frame /\ latest.receipt <= latest.receipt
      BY <3>3
    <3>7. \A i \in 1..Len(observations) : observations[i].frame <= latest.frame
      BY <3>3, <3>4, <3>5
    <3>8. QED
      BY <3>1, <3>2, <3>5, <3>6, <3>7 DEF BInv, Frames
  <2>2. CASE ObserveStore
    <3>1. observations \in Seq(FrameType) /\ encoding \in FrameType /\ caller = "encode"
      BY <2>2 DEF ObserveStore, BInv, Types
    <3>2. observations' = Append(observations, encoding)
      BY <2>2 DEF ObserveStore
    <3>3. /\ Len(observations') = Len(observations) + 1 /\ Len(observations) \in Nat
          /\ \A i \in 1..Len(observations) : observations'[i] = observations[i]
          /\ observations'[Len(observations) + 1] = encoding
      BY <3>2
    <3>4. \A i \in 1..Len(observations') : i \in 1..Len(observations) \/ i = Len(observations) + 1
      BY <3>3
    <3>5. /\ last_returned' = last_returned /\ latest' = latest /\ clock' = clock
          /\ receipt' = receipt /\ capture' = capture /\ caller' = "idle"
      BY <2>2 DEF ObserveStore, ObserveOnly, CallOnly, captureVars
    <3>6. /\ encoding.frame = last_returned /\ encoding.receipt <= latest.receipt
          /\ \A i \in 1..Len(observations) : /\ observations[i].frame < encoding.frame
                                             /\ observations[i].receipt <= encoding.receipt
          /\ encoding.frame \in Int
      BY <3>1 DEF BInv, Frames, FrameType
    <3>7. \A i \in 1..Len(observations') : /\ observations'[i].frame <= last_returned
                                          /\ observations'[i].receipt <= latest.receipt
      BY <3>3, <3>6 DEF BInv, Frames
    <3>8. \A i, j \in 1..Len(observations') : i < j => i \in 1..Len(observations)
      BY <3>3
    <3>9. \A i, j \in 1..Len(observations') : i < j =>
            /\ observations'[i].frame < observations'[j].frame
            /\ observations'[i].receipt <= observations'[j].receipt
      BY <3>3, <3>6, <3>8 DEF BInv, Frames
    <3>10. QED
      BY <3>5, <3>7, <3>9 DEF BInv, Frames
  <2>3. CASE ObserveRaises
    BY <2>3 DEF BInv, Frames, ObserveRaises, captureVars, CallOnly, ObserveOnly
  <2>4. QED
    BY <1>6, <2>1, <2>2, <2>3 DEF Observe
<1>7. CASE start
  BY <1>7 DEF BInv, Frames, start, observeVars, captureVars, CallOnly
<1>8. CASE Submit
  BY <1>8, SubmitLeaves DEF BInv, Frames, observeVars, captureVars
<1>9. CASE Close
  <2>1. CASE CloseBegin
    BY <2>1 DEF BInv, Frames, CloseBegin, observeVars, captureVars, CallOnly, CloseOnly
  <2>2. CASE CloseDrain
    BY <2>2 DEF BInv, Frames, CloseDrain, observeVars, captureVars, CallOnly, CloseOnly
  <2>3. CASE CloseGivesUp
    BY <2>3 DEF BInv, Frames, CloseGivesUp, observeVars, captureVars, CallOnly,
       CloseOnly
  <2>4. QED
    BY <1>9, <2>1, <2>2, <2>3 DEF Close
<1>10. QED
  BY <1>1, <1>2, <1>3, <1>4, <1>5, <1>6, <1>7, <1>8, <1>9 DEF Next

LEMMA TypesKeep == ASSUME BInv, Next PROVE Types'
<1>1. CASE Tick
  BY <1>1, Limits DEF BInv, Types, Tick, observeVars, submitVars, captureVars,
     scheduleVars, keyVars
<1>2. CASE FocusMoves
  BY <1>2 DEF BInv, Types, FocusMoves, observeVars, submitVars, captureVars,
     scheduleVars
<1>3. CASE Capture
  <2>1. CASE CaptureReceive
    BY <2>1 DEF BInv, Types, CaptureReceive, observeVars, submitVars, scheduleVars,
       keyVars, CaptureOnly
  <2>2. CASE CaptureStore
    <3>1. latest' = [frame |-> latest.frame + 1, receipt |-> receipt] /\ receipt' = 0
      BY <2>2 DEF CaptureStore
    <3>2. latest.frame < MaxFrames /\ latest \in FrameType /\ clock \in 0..MaxClock
          /\ receipt \in 0..clock
      BY <2>2 DEF CaptureStore, BInv, Frames, Types
    <3>3. latest' \in FrameType
      BY <3>1, <3>2, Limits DEF FrameType
    <3>4. QED
      BY <2>2, <3>1, <3>2, <3>3 DEF CaptureStore, CaptureOnly, BInv, Types, observeVars,
         submitVars, endVars, keyVars, scheduleVars
  <2>3. CASE CaptureFails
    BY <2>3 DEF BInv, Types, CaptureFails, observeVars, submitVars, scheduleVars,
       keyVars, CaptureOnly
  <2>4. CASE CaptureEnds
    BY <2>4 DEF BInv, Types, CaptureEnds, observeVars, submitVars, scheduleVars,
       keyVars, CaptureOnly
  <2>5. QED
    BY <1>3, <2>1, <2>2, <2>3, <2>4 DEF Capture
<1>4. CASE Dispatch
  <2>1. CASE DispatchPop
    <3>1. PICK a \in pending :
            /\ pending' = pending \ {a}
            /\ \/ OneMore(Event("late", a, clock)) /\ UNCHANGED scheduleVars
               \/ outcomes' = outcomes /\ action' = a /\ now' = clock
      BY <2>1, Pops DEF BInv
    <3>2. /\ IsFiniteSet(pending') /\ Cardinality(pending') <= MaxPending
          /\ pending' \subseteq ActionType
      <4>1. /\ IsFiniteSet(pending) /\ Cardinality(pending) <= MaxPending
            /\ pending \subseteq ActionType
        BY DEF BInv, Types
      <4>2. pending' \in SUBSET pending
        BY <3>1
      <4>3. /\ IsFiniteSet(pending') /\ Cardinality(pending') <= Cardinality(pending)
            /\ Cardinality(pending') \in Nat /\ Cardinality(pending) \in Nat
        BY <4>1, <4>2, FS_Subset, FS_CardinalityType
      <4>4. QED
        BY <4>1, <4>2, <4>3, Limits
    <3>3. outcomes' \in Seq(Outcome) /\ action' \in ActionType /\ now' \in 0..clock
      BY <3>1 DEF BInv, Types, OneMore, scheduleVars
    <3>4. QED
      BY <2>1, <3>2, <3>3 DEF BInv, Types, DispatchPop, ScheduleOnly, observeVars,
         submitVars, keyVars, captureVars
  <2>2. CASE DispatchCheck
    BY <2>2 DEF BInv, Types, DispatchCheck, observeVars, submitVars, captureVars,
       ScheduleOnly
  <2>3. CASE DispatchPress
    <3>1. action.id \in 1..MaxTotalActions
      BY <2>3 DEF DispatchPress, ScheduleGoes, BInv, Numbers, Busy, Types, ActionType
    <3>2. pressed' \in Seq(1..MaxTotalActions)
      BY <2>3, <3>1 DEF DispatchPress, BInv, Types
    <3>3. QED
      BY <2>3, <3>2 DEF DispatchPress, ScheduleOnly, BInv, Types, observeVars,
         submitVars, captureVars
  <2>4. CASE DispatchRelease
    BY <2>4, Limits DEF DispatchRelease, ScheduleOnly, BInv, Types, observeVars,
       submitVars, captureVars, NoAction, ActionType
  <2>5. CASE DispatchSent
    <3>1. outcomes' \in Seq(Outcome)
      BY <2>5, SendsOne DEF OneMore, BInv
    <3>2. QED
      BY <2>5, <3>1, Limits DEF DispatchSent, ScheduleOnly, BInv, Types, observeVars,
         submitVars, captureVars, NoAction, ActionType
  <2>6. CASE DispatchFails
    BY <2>6, Limits DEF DispatchFails, ScheduleOnly, BInv, Types, observeVars,
       submitVars, captureVars, NoAction, ActionType
  <2>7. CASE DispatchEnds
    BY <2>7 DEF BInv, Types, DispatchEnds, observeVars, submitVars, captureVars,
       ScheduleOnly
  <2>8. QED
    BY <1>4, <2>1, <2>2, <2>3, <2>4, <2>5, <2>6, <2>7 DEF Dispatch
<1>5. CASE Schedule
  <2>1. CASE ScheduleTurn
    BY <2>1 DEF BInv, Types, ScheduleTurn, observeVars, submitVars, captureVars,
       ScheduleOnly
  <2>2. CASE ScheduleLocks
    BY <2>2 DEF BInv, Types, ScheduleLocks, observeVars, submitVars, captureVars,
       ScheduleOnly
  <2>3. CASE ScheduleEnds
    BY <2>3 DEF BInv, Types, ScheduleEnds, observeVars, submitVars, captureVars,
       ScheduleOnly
  <2>4. CASE ScheduleWakes
    BY <2>4 DEF BInv, Types, ScheduleWakes, observeVars, submitVars, captureVars,
       ScheduleOnly
  <2>5. CASE ScheduleFails
    BY <2>5 DEF BInv, Types, ScheduleFails, observeVars, submitVars, captureVars,
       ScheduleOnly
  <2>6. QED
    BY <1>5, <2>1, <2>2, <2>3, <2>4, <2>5 DEF Schedule
<1>6. CASE Observe
  <2>1. CASE ObserveTake
    BY <2>1 DEF BInv, Types, FrameType, ObserveTake, submitVars, captureVars,
       scheduleVars, CallOnly, ObserveOnly
  <2>2. CASE ObserveStore
    <3>1. observations' \in Seq(FrameType) /\ Len(observations') <= MaxObservations
      BY <2>2, Limits DEF ObserveStore, BInv, Types
    <3>2. NoFrame \in FrameType
      BY Limits DEF NoFrame, FrameType
    <3>3. QED
      BY <2>2, <3>1, <3>2 DEF ObserveStore, ObserveOnly, CallOnly, BInv, Types,
         submitVars, captureVars, scheduleVars
  <2>3. CASE ObserveRaises
    <3>1. NoFrame \in FrameType
      BY Limits DEF NoFrame, FrameType
    <3>2. QED
      BY <2>3, <3>1 DEF ObserveRaises, ObserveOnly, CallOnly, BInv, Types, submitVars,
         captureVars, scheduleVars
  <2>4. QED
    BY <1>6, <2>1, <2>2, <2>3 DEF Observe
<1>7. CASE start
  BY <1>7 DEF BInv, Types, start, observeVars, captureVars, scheduleVars, CallOnly
<1>8. CASE Submit
  <2>1. PICK n \in Nat, new, late \in SUBSET ActionType : Accepts(n, new, late)
    BY <1>8, Submits DEF BInv
  <2>2. /\ IsFiniteSet(new) /\ Cardinality(new) <= n /\ Cardinality(pending) + n <= MaxPending
        /\ next_action' = next_action + n /\ next_action + n <= MaxTotalActions
        /\ pending' = pending \cup (new \ late) /\ outcomes' \in Seq(Outcome)
    BY <2>1 DEF Accepts, Adds
  <2>3. pending \subseteq ActionType /\ IsFiniteSet(pending) /\ next_action \in 0..MaxTotalActions
    BY DEF BInv, Types
  <2>4. next_action' \in 0..MaxTotalActions
    BY <2>2, <2>3
  <2>5. IsFiniteSet(pending') /\ Cardinality(pending') <= MaxPending
    <3> DEFINE rest == new \ late
    <3>1. rest \in SUBSET new
      OBVIOUS
    <3> HIDE DEF rest
    <3>2. IsFiniteSet(rest) /\ Cardinality(rest) <= Cardinality(new)
      BY <2>2, <3>1, FS_Subset
    <3>3. IsFiniteSet(pending \cup rest)
          /\ Cardinality(pending \cup rest) <= Cardinality(pending) + Cardinality(rest)
      <4>1. Cardinality(pending \cup rest)
              = Cardinality(pending) + Cardinality(rest) - Cardinality(pending \cap rest)
        BY <2>3, <3>2, FS_Union
      <4>2. IsFiniteSet(pending \cup rest) /\ IsFiniteSet(pending \cap rest)
        BY <2>3, <3>2, FS_Union, FS_Intersection
      <4>3. /\ Cardinality(pending) \in Nat /\ Cardinality(rest) \in Nat
            /\ Cardinality(pending \cap rest) \in Nat
        BY <2>3, <3>2, <4>2, FS_CardinalityType
      <4>4. QED
        BY <4>1, <4>2, <4>3
    <3>4. /\ Cardinality(pending) \in Nat /\ Cardinality(rest) \in Nat
          /\ Cardinality(new) \in Nat /\ Cardinality(pending \cup rest) \in Nat
      BY <2>2, <2>3, <3>2, <3>3, FS_CardinalityType
    <3>5. Cardinality(pending \cup rest) <= MaxPending
      BY <2>2, <3>2, <3>3, <3>4, Limits
    <3>6. QED
      BY <2>2, <3>3, <3>5 DEF rest
  <2>6. pending' \subseteq ActionType
    BY <2>2, <2>3
  <2>7. QED
    BY <1>8, <2>2, <2>4, <2>5, <2>6, SubmitLeaves DEF BInv, Types, observeVars, keyVars,
       captureVars, scheduleVars
<1>9. CASE Close
  <2>1. CASE CloseBegin
    BY <2>1 DEF BInv, Types, CloseBegin, observeVars, submitVars, captureVars,
       scheduleVars, CallOnly, CloseOnly
  <2>2. CASE CloseDrain
    <3>1. outcomes' \in Seq(Outcome)
      BY <2>2, Drains DEF BInv, Adds
    <3>2. pending' = {} /\ IsFiniteSet({}) /\ Cardinality({}) = 0
      BY <2>2, FS_EmptySet DEF CloseDrain
    <3>3. Cardinality(pending') <= MaxPending
      BY <3>2, Limits
    <3>4. QED
      BY <2>2, <3>1, <3>2, <3>3 DEF CloseDrain, CloseOnly, CallOnly, BInv, Types,
         observeVars, submitVars, captureVars, scheduleVars
  <2>3. CASE CloseGivesUp
    BY <2>3 DEF BInv, Types, CloseGivesUp, observeVars, submitVars, captureVars,
       scheduleVars, CallOnly, CloseOnly
  <2>4. QED
    BY <1>9, <2>1, <2>2, <2>3 DEF Close
<1>10. QED
  BY <1>1, <1>2, <1>3, <1>4, <1>5, <1>6, <1>7, <1>8, <1>9 DEF Next

(* The actions keep their numbers and their places. *)
LEMMA NumbersKeep == ASSUME BInv, Next PROVE Numbers'
<1>1. /\ next_action \in Nat /\ action.id \in Nat /\ pending \subseteq ActionType
      /\ outcomes \in Seq(Outcome)
  BY DEF BInv, Types, ActionType
<1>2. /\ \A a \in pending : a.id \in Nat
      /\ \A i \in 1..Len(outcomes) : outcomes[i].id \in Nat
  <2>1. \A i \in 1..Len(outcomes) : outcomes[i] \in Outcome
    BY <1>1
  <2>2. QED
    BY <1>1, <2>1, Limits DEF ActionType, Outcome
<1>3. CASE DispatchPop
  <2>1. PICK a \in pending :
          /\ pending' = pending \ {a}
          /\ \/ UNCHANGED scheduleVars /\ OneMore(Event("late", a, clock))
             \/ outcomes' = outcomes /\ scheduler' = "tap" /\ action' = a
    BY <1>3, Pops DEF BInv
  <2>2. scheduler = "dispatch" /\ next_action' = next_action
    BY <1>3 DEF DispatchPop, ScheduleOnly, submitVars
  <2>3. CASE UNCHANGED scheduleVars /\ OneMore(Event("late", a, clock))
    <3>1. /\ Len(outcomes') = Len(outcomes) + 1 /\ outcomes'[Len(outcomes) + 1].id = a.id
          /\ \A i \in 1..Len(outcomes) : outcomes'[i] = outcomes[i]
          /\ \A i \in 1..Len(outcomes') : i \in 1..Len(outcomes) \/ i = Len(outcomes) + 1
          /\ UNCHANGED <<scheduler, action>>
      BY <2>3 DEF OneMore, Event, scheduleVars
    <3>2. \A i \in 1..Len(outcomes) : outcomes'[i].id # a.id
      BY <3>1 DEF BInv, Numbers
    <3>3. \A i, j \in 1..Len(outcomes') : outcomes'[i].id = outcomes'[j].id => i = j
      BY <3>1 DEF BInv, Numbers
    <3>4. \A i \in 1..Len(outcomes') : outcomes'[i].id <= next_action /\ outcomes'[i].id # action.id
      BY <3>1 DEF BInv, Numbers
    <3>5. \A i \in 1..Len(outcomes'), b \in pending' : outcomes'[i].id # b.id
      BY <2>1, <3>1 DEF BInv, Numbers
    <3>6. QED
      BY <2>1, <2>2, <3>1, <3>3, <3>4, <3>5 DEF BInv, Numbers, Busy
  <2>4. CASE outcomes' = outcomes /\ scheduler' = "tap" /\ action' = a
    <3>1. \A b \in pending' : b \in pending /\ b.id # a.id
      BY <2>1 DEF BInv, Numbers
    <3>2. a.id \in 1..next_action /\ \A i \in 1..Len(outcomes) : outcomes[i].id # a.id
      BY DEF BInv, Numbers
    <3>3. QED
      BY <1>1, <2>2, <2>4, <3>1, <3>2 DEF BInv, Numbers, Busy
  <2>5. QED
    BY <2>1, <2>3, <2>4
<1>4. CASE DispatchRelease
  <2>1. UNCHANGED <<next_action, pending, outcomes>> /\ Busy
    BY <1>4 DEF DispatchRelease, ScheduleGoes, ScheduleOnly, submitVars, Busy
  <2>2. \/ action' = action /\ Busy'
        \/ action'.id = 0 /\ ~Busy'
    BY <1>4 DEF DispatchRelease, ScheduleGoes, Busy, NoAction
  <2>3. \A i \in 1..Len(outcomes) : outcomes[i].id # 0
    <3>1. \A i \in 1..Len(outcomes) : outcomes[i] \in Outcome
      BY <1>1
    <3>2. QED
      BY <3>1, Limits DEF Outcome
  <2>4. \A a \in pending : a.id # 0
    BY DEF BInv, Numbers
  <2>5. QED
    BY <1>1, <2>1, <2>2, <2>3, <2>4 DEF BInv, Numbers
<1>5. CASE DispatchFails
  <2>1. UNCHANGED <<next_action, pending, outcomes>> /\ Busy
    BY <1>5 DEF DispatchFails, ScheduleGoes, ScheduleOnly, submitVars, Busy
  <2>2. \/ action' = action /\ Busy'
        \/ action'.id = 0 /\ ~Busy'
    BY <1>5 DEF DispatchFails, ScheduleGoes, Busy, NoAction
  <2>3. \A i \in 1..Len(outcomes) : outcomes[i].id # 0
    <3>1. \A i \in 1..Len(outcomes) : outcomes[i] \in Outcome
      BY <1>1
    <3>2. QED
      BY <3>1, Limits DEF Outcome
  <2>4. \A a \in pending : a.id # 0
    BY DEF BInv, Numbers
  <2>5. QED
    BY <1>1, <2>1, <2>2, <2>3, <2>4 DEF BInv, Numbers
<1>6. CASE DispatchSent
  <2>1. /\ Len(outcomes') = Len(outcomes) + 1 /\ outcomes'[Len(outcomes) + 1].id = action.id
        /\ \A i \in 1..Len(outcomes) : outcomes'[i] = outcomes[i]
        /\ \A i \in 1..Len(outcomes') : i \in 1..Len(outcomes) \/ i = Len(outcomes) + 1
    BY <1>6, SendsOne DEF BInv, OneMore, Event
  <2>2. /\ UNCHANGED <<next_action, pending>> /\ action'.id = 0
        /\ scheduler = "tapped" /\ scheduler' = "dispatch"
    BY <1>6 DEF DispatchSent, ScheduleGoes, ScheduleOnly, submitVars, NoAction
  <2>3. action.id # 0
    BY <2>2 DEF BInv, Numbers, Busy
  <2>4. \A i \in 1..Len(outcomes) : outcomes'[i].id # action.id
    BY <2>1 DEF BInv, Numbers
  <2>5. \A i, j \in 1..Len(outcomes') : outcomes'[i].id = outcomes'[j].id => i = j
    BY <2>1 DEF BInv, Numbers
  <2>6. \A i \in 1..Len(outcomes') : outcomes'[i].id <= next_action /\ outcomes'[i].id # 0
    <3>1. \A i \in 1..Len(outcomes) : outcomes[i].id # 0
      <4>1. \A i \in 1..Len(outcomes) : outcomes[i] \in Outcome
        BY <1>1
      <4>2. QED
        BY <4>1, Limits DEF Outcome
    <3>2. QED
      BY <2>1, <2>3, <3>1 DEF BInv, Numbers
  <2>7. \A i \in 1..Len(outcomes'), b \in pending' : outcomes'[i].id # b.id
    BY <2>1, <2>2 DEF BInv, Numbers
  <2>8. \A b \in pending' : b.id \in 1..next_action /\ b.id # 0
    BY <2>2 DEF BInv, Numbers
  <2>9. QED
    BY <1>1, <2>2, <2>5, <2>6, <2>7, <2>8 DEF BInv, Numbers, Busy
<1>7. CASE Submit
  <2>1. PICK n \in Nat, new, late \in SUBSET ActionType : Accepts(n, new, late)
    BY <1>7, Submits DEF BInv
  <2>2. /\ next_action' = next_action + n /\ pending' = pending \cup (new \ late)
        /\ late \subseteq new
        /\ \A a \in new : next_action < a.id /\ a.id <= next_action + n
        /\ \A a, b \in new : a.id = b.id => a = b
    BY <2>1 DEF Accepts
  <2>3. \A a \in new : a.id \in Nat
    BY DEF ActionType
  <2>4. /\ Len(outcomes') >= Len(outcomes) /\ Len(outcomes') \in Nat
        /\ \A i \in 1..Len(outcomes) : outcomes'[i] = outcomes[i]
        /\ \A i \in 1..Len(outcomes') : Len(outcomes) < i =>
              \E a \in late : outcomes'[i].id = a.id
        /\ \A i, j \in 1..Len(outcomes') :
              Len(outcomes) < i /\ i < j => outcomes'[i].id # outcomes'[j].id
    BY <2>1, Added DEF Accepts
  <2>5. UNCHANGED <<scheduler, action>>
    BY <1>7, SubmitLeaves DEF scheduleVars
  <2>6. \A i \in 1..Len(outcomes') : i \in 1..Len(outcomes) \/ Len(outcomes) < i
    OBVIOUS
  <2>7. \A i \in 1..Len(outcomes) : outcomes'[i].id <= next_action
    BY <2>4 DEF BInv, Numbers
  <2>8. \A i \in 1..Len(outcomes') : Len(outcomes) < i => next_action < outcomes'[i].id
    BY <2>2, <2>4
  <2>9. \A i, j \in 1..Len(outcomes') : outcomes'[i].id = outcomes'[j].id => i = j
    <3> SUFFICES ASSUME NEW i \in 1..Len(outcomes'), NEW j \in 1..Len(outcomes'),
                        outcomes'[i].id = outcomes'[j].id, i < j
                 PROVE  FALSE
      OBVIOUS
    <3>1. CASE Len(outcomes) < i
      BY <3>1, <2>4
    <3>2. CASE i \in 1..Len(outcomes) /\ j \in 1..Len(outcomes)
      BY <3>2, <2>4 DEF BInv, Numbers
    <3>3. CASE i \in 1..Len(outcomes) /\ Len(outcomes) < j
      <4>1. outcomes'[i].id <= next_action /\ next_action < outcomes'[j].id
        BY <3>3, <2>7, <2>8
      <4>2. outcomes'[i].id \in Nat
        BY <1>2, <2>4
      <4>3. QED
        BY <4>1, <4>2, <1>1
    <3>4. QED
      BY <3>1, <3>2, <3>3, <2>6
  <2>10. \A i \in 1..Len(outcomes') :
           /\ outcomes'[i].id <= next_action' /\ outcomes'[i].id # action.id
    <3> SUFFICES ASSUME NEW i \in 1..Len(outcomes')
                 PROVE  outcomes'[i].id <= next_action' /\ outcomes'[i].id # action.id
      OBVIOUS
    <3>1. CASE i \in 1..Len(outcomes)
      BY <3>1, <1>1, <1>2, <2>2, <2>4 DEF BInv, Numbers
    <3>2. CASE Len(outcomes) < i
      <4>1. PICK a \in late : outcomes'[i].id = a.id
        BY <3>2, <2>4
      <4>2. a.id \in Nat /\ next_action < a.id /\ a.id <= next_action + n
        BY <2>2, <2>3
      <4>3. action.id <= next_action
        BY DEF BInv, Numbers
      <4>4. QED
        BY <4>1, <4>2, <4>3, <1>1, <2>2
    <3>3. QED
      BY <3>1, <3>2, <2>6
  <2>11. \A a \in pending' : a.id \in 1..next_action' /\ a.id # action.id
    <3> SUFFICES ASSUME NEW a \in pending' PROVE a.id \in 1..next_action' /\ a.id # action.id
      OBVIOUS
    <3>1. CASE a \in pending
      BY <3>1, <1>1, <2>2 DEF BInv, Numbers
    <3>2. CASE a \in new
      <4>1. action.id <= next_action
        BY DEF BInv, Numbers
      <4>2. QED
        BY <3>2, <4>1, <1>1, <2>1, <2>2, <2>3
    <3>3. QED
      BY <3>1, <3>2, <2>2
  <2>12. \A a, b \in pending' : a.id = b.id => a = b
    <3>1. \A a \in pending : a.id \in Nat /\ a.id <= next_action
      BY DEF BInv, Numbers
    <3>2. \A a \in pending, b \in new : a.id # b.id
      BY <1>1, <2>2, <3>1
    <3>3. QED
      BY <2>2, <3>2 DEF BInv, Numbers
  <2>13. \A i \in 1..Len(outcomes'), a \in pending' : outcomes'[i].id # a.id
    <3> SUFFICES ASSUME NEW i \in 1..Len(outcomes'), NEW a \in pending' PROVE outcomes'[i].id # a.id
      OBVIOUS
    <3>1. CASE i \in 1..Len(outcomes) /\ a \in pending
      BY <3>1, <2>4 DEF BInv, Numbers
    <3>2. CASE i \in 1..Len(outcomes) /\ a \in new
      BY <3>2, <1>1, <2>2, <2>3, <2>7
    <3>3. CASE Len(outcomes) < i /\ a \in pending
      <4>1. a.id <= next_action /\ a.id \in Nat
        BY <3>3 DEF BInv, Numbers
      <4>2. PICK b \in late : outcomes'[i].id = b.id
        BY <3>3, <2>4
      <4>3. next_action < b.id /\ b.id \in Nat
        BY <2>2, <2>3
      <4>4. QED
        BY <4>1, <4>2, <4>3, <1>1
    <3>4. CASE Len(outcomes) < i /\ a \in new \ late
      BY <3>4, <2>2, <2>4
    <3>5. QED
      BY <3>1, <3>2, <3>3, <3>4, <2>2, <2>6
  <2>14. (Busy <=> action.id # 0)' /\ action'.id <= next_action'
    BY <1>1, <2>2, <2>5 DEF BInv, Numbers, Busy
  <2>15. QED
    BY <2>5, <2>9, <2>10, <2>11, <2>12, <2>13, <2>14 DEF Numbers
<1>8. CASE CloseDrain
  <2>1. /\ Len(outcomes') >= Len(outcomes) /\ Len(outcomes') \in Nat
        /\ \A i \in 1..Len(outcomes) : outcomes'[i] = outcomes[i]
        /\ \A i \in 1..Len(outcomes') : Len(outcomes) < i =>
              \E a \in pending : outcomes'[i].id = a.id
        /\ \A i, j \in 1..Len(outcomes') :
              Len(outcomes) < i /\ i < j => outcomes'[i].id # outcomes'[j].id
    BY <1>8, Drains, Added DEF BInv
  <2>2. pending' = {} /\ UNCHANGED <<next_action, scheduler, action>>
    BY <1>8 DEF CloseDrain, CloseOnly, CallOnly, submitVars, scheduleVars
  <2>3. \A i \in 1..Len(outcomes') : i \in 1..Len(outcomes) \/ Len(outcomes) < i
    OBVIOUS
  <2>4. \A i \in 1..Len(outcomes') : outcomes'[i].id <= next_action /\ outcomes'[i].id # action.id
    BY <2>1 DEF BInv, Numbers
  <2>5. \A i, j \in 1..Len(outcomes') : outcomes'[i].id = outcomes'[j].id => i = j
    <3> SUFFICES ASSUME NEW i \in 1..Len(outcomes'), NEW j \in 1..Len(outcomes'),
                        outcomes'[i].id = outcomes'[j].id, i < j
                 PROVE  FALSE
      OBVIOUS
    <3>1. CASE Len(outcomes) < i
      BY <3>1, <2>1
    <3>2. CASE i \in 1..Len(outcomes) /\ j \in 1..Len(outcomes)
      BY <2>1 DEF BInv, Numbers
    <3>3. CASE i \in 1..Len(outcomes) /\ Len(outcomes) < j
      BY <2>1 DEF BInv, Numbers
    <3>4. QED
      BY <3>1, <3>2, <3>3, <2>3
  <2>6. QED
    BY <2>2, <2>4, <2>5 DEF BInv, Numbers, Busy
<1>9. CASE ~Eventful
  BY <1>9, Others DEF Still, BInv, Numbers
<1>10. QED
  BY <1>3, <1>4, <1>5, <1>6, <1>7, <1>8, <1>9 DEF Eventful

(* No action disappears, but for one whose press fails. *)
LEMMA NoneLostKeeps == ASSUME BInv, Next PROVE NoneLost'
<1>1. PICK gone \in 0..next_action :
         /\ gone # 0 => Broken
         /\ \A id \in 1..next_action : id = gone \/ action.id = id \/ Pending(id) \/ Resolved(id)
  BY DEF BInv, NoneLost
<1>2. /\ next_action \in Nat /\ action.id \in Nat /\ pending \subseteq ActionType
      /\ outcomes \in Seq(Outcome)
  BY DEF BInv, Types, ActionType
<1>3. Broken => Broken'
  BY Final
<1>4. CASE DispatchPop
  <2>1. PICK a \in pending :
          /\ pending' = pending \ {a}
          /\ \/ UNCHANGED scheduleVars /\ OneMore(Event("late", a, clock))
             \/ outcomes' = outcomes /\ scheduler' = "tap" /\ action' = a
    BY <1>4, Pops DEF BInv
  <2>2. scheduler = "dispatch" /\ next_action' = next_action
    BY <1>4 DEF DispatchPop, ScheduleOnly, submitVars
  <2>3. gone = 0 /\ action.id = 0
    BY <1>1, <2>2 DEF BInv, Numbers, Busy, Broken
  <2>4. \A id \in 1..next_action : Pending(id) => id = a.id \/ Pending(id)'
    BY <2>1 DEF Pending
  <2>5. CASE UNCHANGED scheduleVars /\ OneMore(Event("late", a, clock))
    <3>1. /\ Len(outcomes') = Len(outcomes) + 1 /\ outcomes'[Len(outcomes) + 1].id = a.id
          /\ \A i \in 1..Len(outcomes) : outcomes'[i] = outcomes[i]
          /\ Len(outcomes) \in Nat
      BY <2>5 DEF OneMore, Event
    <3>2. \A id \in 1..next_action : Resolved(id) => Resolved(id)'
      BY <3>1 DEF Resolved
    <3>3. Len(outcomes) + 1 \in 1..Len(outcomes')
      BY <3>1
    <3>4. \A id \in 1..next_action : id = a.id => Resolved(id)'
      BY <3>1 DEF Resolved
    <3>5. \A id \in 1..next_action : Pending(id) \/ Resolved(id)
      BY <1>1, <2>3
    <3>6. \A id \in 1..next_action : Pending(id)' \/ Resolved(id)'
      BY <3>2, <3>4, <3>5, <2>4
    <3>7. 0 \in 0..next_action'
      BY <1>2, <2>2
    <3>8. QED
      BY <3>6, <3>7, <2>2 DEF NoneLost
  <2>6. CASE outcomes' = outcomes /\ scheduler' = "tap" /\ action' = a
    <3>1. \A id \in 1..next_action : Resolved(id) => Resolved(id)'
      BY <2>6 DEF Resolved
    <3>2. \A id \in 1..next_action : action'.id = id \/ Pending(id)' \/ Resolved(id)'
      BY <3>1, <1>1, <2>3, <2>4, <2>6
    <3>3. 0 \in 0..next_action'
      BY <1>2, <2>2
    <3>4. QED
      BY <3>2, <3>3, <2>2 DEF NoneLost
  <2>7. QED
    BY <2>1, <2>5, <2>6
<1>5. CASE DispatchRelease \/ DispatchFails
  <2>1. CASE action' = action /\ scheduler' = "tapped"
    <3>1. UNCHANGED <<next_action, pending, outcomes>>
      BY <1>5 DEF DispatchRelease, DispatchFails, ScheduleOnly, submitVars
    <3>2. \A id \in 1..next_action : (Pending(id) => Pending(id)') /\
            (Resolved(id) => Resolved(id)')
      BY <3>1 DEF Pending, Resolved
    <3>3. \A id \in 1..next_action' : id = gone \/ action'.id = id \/ Pending(id)' \/ Resolved(id)'
      BY <1>1, <2>1, <3>1, <3>2
    <3>4. gone \in 0..next_action'
      BY <3>1
    <3>5. QED
      BY <1>1, <1>3, <3>3, <3>4 DEF NoneLost
  <2>2. CASE scheduler' = "failing"
    <3>1. UNCHANGED <<next_action, pending, outcomes>>
      BY <1>5 DEF DispatchRelease, DispatchFails, ScheduleOnly, submitVars
    <3>2. gone = 0
      BY <1>1, <1>5 DEF DispatchRelease, DispatchFails, ScheduleGoes, Broken
    <3>3. Broken' /\ action.id \in 0..next_action'
      BY <2>2, <1>2, <3>1 DEF Broken, BInv, Numbers
    <3>4. \A id \in 1..next_action : (Pending(id) => Pending(id)') /\
            (Resolved(id) => Resolved(id)')
      BY <3>1 DEF Pending, Resolved
    <3>5. \A id \in 1..next_action' : id = action.id \/ Pending(id)' \/ Resolved(id)'
      BY <1>1, <3>1, <3>2, <3>4
    <3>6. QED
      BY <3>3, <3>5 DEF NoneLost
  <2>3. QED
    BY <1>5, <2>1, <2>2 DEF DispatchRelease, DispatchFails, ScheduleGoes
<1>6. CASE DispatchSent
  <2>1. /\ Len(outcomes') = Len(outcomes) + 1 /\ outcomes'[Len(outcomes) + 1].id = action.id
        /\ \A i \in 1..Len(outcomes) : outcomes'[i] = outcomes[i] /\ Len(outcomes) \in Nat
    BY <1>6, SendsOne DEF BInv, OneMore, Event
  <2>2. UNCHANGED <<next_action, pending>>
    BY <1>6 DEF DispatchSent, ScheduleOnly, submitVars
  <2>3. Len(outcomes) + 1 \in 1..Len(outcomes')
    BY <2>1
  <2>4. \A id \in 1..next_action : /\ Pending(id) => Pending(id)'
                                   /\ Resolved(id) => Resolved(id)'
                                   /\ action.id = id => Resolved(id)'
    BY <2>1, <2>2 DEF Pending, Resolved
  <2>5. \A id \in 1..next_action' : id = gone \/ Pending(id)' \/ Resolved(id)'
    BY <1>1, <2>2, <2>4
  <2>6. gone \in 0..next_action'
    BY <2>2
  <2>7. QED
    BY <1>1, <1>3, <2>5, <2>6 DEF NoneLost
<1>7. CASE Submit
  <2>1. PICK n \in Nat, new, late \in SUBSET ActionType : Accepts(n, new, late)
    BY <1>7, Submits DEF BInv
  <2>2. /\ next_action' = next_action + n /\ pending' = pending \cup (new \ late)
        /\ \A id \in (next_action + 1)..(next_action + n) : \E a \in new : a.id = id
    BY <2>1 DEF Accepts
  <2>3. /\ Len(outcomes') >= Len(outcomes) /\ Len(outcomes') \in Nat
        /\ \A i \in 1..Len(outcomes) : outcomes'[i] = outcomes[i]
        /\ \A a \in late : \E i \in 1..Len(outcomes') : outcomes'[i].id = a.id
    BY <2>1, Added DEF Accepts
  <2>4. \A id \in 1..next_action : (Pending(id) => Pending(id)') /\ (Resolved(id) => Resolved(id)')
    BY <2>2, <2>3 DEF Pending, Resolved
  <2>5. \A a \in new : Pending(a.id)' \/ Resolved(a.id)'
    <3> SUFFICES ASSUME NEW a \in new
                 PROVE  (\E b \in pending' : b.id = a.id)
                        \/ \E i \in 1..Len(outcomes') : outcomes'[i].id = a.id
      BY DEF Pending, Resolved
    <3>1. CASE a \in late
      BY <3>1, <2>3
    <3>2. CASE a \notin late
      BY <3>2, <2>2
    <3>3. QED
      BY <3>1, <3>2
  <2>6. \A id \in (next_action + 1)..(next_action + n) : Pending(id)' \/ Resolved(id)'
    <3> TAKE id \in (next_action + 1)..(next_action + n)
    <3>1. PICK a \in new : a.id = id
      BY <2>2
    <3>2. QED
      BY <3>1, <2>5 DEF Pending, Resolved
  <2>7. UNCHANGED action
    BY <1>7, SubmitLeaves DEF scheduleVars
  <2>8. \A id \in 1..next_action' : id \in 1..next_action
                                    \/ id \in (next_action + 1)..(next_action + n)
    BY <1>2, <2>2
  <2>9. \A id \in 1..next_action' : id = gone \/ action'.id = id \/ Pending(id)' \/ Resolved(id)'
    BY <1>1, <2>4, <2>6, <2>7, <2>8
  <2>10. gone \in 0..next_action'
    BY <1>2, <2>2
  <2>11. QED
    BY <1>1, <1>3, <2>9, <2>10 DEF NoneLost
<1>8. CASE CloseDrain
  <2>1. /\ Len(outcomes') >= Len(outcomes) /\ Len(outcomes') \in Nat
        /\ \A i \in 1..Len(outcomes) : outcomes'[i] = outcomes[i]
        /\ \A a \in pending : \E i \in 1..Len(outcomes') : outcomes'[i].id = a.id
    BY <1>8, Drains, Added DEF BInv
  <2>2. UNCHANGED <<next_action, action>>
    BY <1>8 DEF CloseDrain, CloseOnly, CallOnly, submitVars, scheduleVars
  <2>3. \A id \in 1..next_action : Pending(id) \/ Resolved(id) => Resolved(id)'
    BY <2>1 DEF Pending, Resolved
  <2>4. \A id \in 1..next_action' : id = gone \/ action'.id = id \/ Resolved(id)'
    BY <1>1, <2>2, <2>3
  <2>5. gone \in 0..next_action'
    BY <2>2
  <2>6. QED
    BY <1>1, <1>3, <2>4, <2>5 DEF NoneLost
<1>9. CASE ~Eventful
  <2>1. UNCHANGED <<next_action, action, pending, outcomes>>
    BY <1>9, Others DEF Still
  <2>2. \A id \in 1..next_action : (Pending(id) => Pending(id)') /\ (Resolved(id) => Resolved(id)')
    BY <2>1 DEF Pending, Resolved
  <2>3. \A id \in 1..next_action' : id = gone \/ action'.id = id \/ Pending(id)' \/ Resolved(id)'
    BY <1>1, <2>1, <2>2
  <2>4. gone \in 0..next_action'
    BY <2>1
  <2>5. QED
    BY <1>1, <1>3, <2>3, <2>4 DEF NoneLost
<1>10. QED
  BY <1>4, <1>5, <1>6, <1>7, <1>8, <1>9 DEF Eventful


(* The steps that press no key.                                             *)
LEMMA OtherKeys ==
    ASSUME Next, ~Eventful, ~DispatchPress
    PROVE  /\ pressed' = pressed
           /\ scheduler \in {"down", "tapped"} <=> scheduler' \in {"down", "tapped"}
<1>1. CASE Tick
  BY <1>1 DEF Tick, scheduleVars, keyVars
<1>2. CASE FocusMoves
  BY <1>2 DEF FocusMoves, scheduleVars
<1>3. CASE Capture
  <2>1. CASE CaptureReceive
    BY <2>1 DEF CaptureReceive, scheduleVars, keyVars, CaptureOnly
  <2>2. CASE CaptureStore
    BY <2>2 DEF CaptureStore, scheduleVars, keyVars, CaptureOnly
  <2>3. CASE CaptureFails
    BY <2>3 DEF CaptureFails, scheduleVars, keyVars, CaptureOnly
  <2>4. CASE CaptureEnds
    BY <2>4 DEF CaptureEnds, scheduleVars, keyVars, CaptureOnly
  <2>5. QED
    BY <1>3, <2>1, <2>2, <2>3, <2>4 DEF Capture
<1>4. CASE Dispatch
  <2>1. CASE DispatchPop
    BY <2>1 DEF Eventful
  <2>2. CASE DispatchCheck
    BY <2>2 DEF DispatchCheck, ScheduleGoes
  <2>3. CASE DispatchPress
    BY <2>3
  <2>4. CASE DispatchRelease
    BY <2>4 DEF Eventful
  <2>5. CASE DispatchSent
    BY <2>5 DEF Eventful
  <2>6. CASE DispatchFails
    BY <2>6 DEF Eventful
  <2>7. CASE DispatchEnds
    BY <2>7 DEF DispatchEnds, ScheduleGoes
  <2>8. QED
    BY <1>4, <2>1, <2>2, <2>3, <2>4, <2>5, <2>6, <2>7 DEF Dispatch
<1>5. CASE Schedule
  <2>1. CASE ScheduleTurn
    BY <2>1 DEF ScheduleTurn, ScheduleGoes
  <2>2. CASE ScheduleLocks
    BY <2>2 DEF ScheduleLocks, ScheduleGoes
  <2>3. CASE ScheduleEnds
    BY <2>3 DEF ScheduleEnds, ScheduleGoes
  <2>4. CASE ScheduleWakes
    BY <2>4 DEF ScheduleWakes, ScheduleGoes
  <2>5. CASE ScheduleFails
    BY <2>5 DEF ScheduleFails, ScheduleGoes
  <2>6. QED
    BY <1>5, <2>1, <2>2, <2>3, <2>4, <2>5 DEF Schedule
<1>6. CASE Observe
  <2>1. CASE ObserveTake
    BY <2>1 DEF ObserveTake, scheduleVars, CallOnly, ObserveOnly
  <2>2. CASE ObserveStore
    BY <2>2 DEF ObserveStore, scheduleVars, CallOnly, ObserveOnly
  <2>3. CASE ObserveRaises
    BY <2>3 DEF ObserveRaises, scheduleVars, CallOnly, ObserveOnly
  <2>4. QED
    BY <1>6, <2>1, <2>2, <2>3 DEF Observe
<1>7. CASE start
  BY <1>7 DEF start, scheduleVars, CallOnly
<1>8. CASE Submit
  BY <1>8 DEF Eventful
<1>9. CASE Close
  <2>1. CASE CloseBegin
    BY <2>1 DEF CloseBegin, scheduleVars, CallOnly, CloseOnly
  <2>2. CASE CloseDrain
    BY <2>2 DEF Eventful
  <2>3. CASE CloseGivesUp
    BY <2>3 DEF CloseGivesUp, scheduleVars, CallOnly, CloseOnly
  <2>4. QED
    BY <1>9, <2>1, <2>2, <2>3 DEF Close
<1>10. QED
  BY <1>1, <1>2, <1>3, <1>4, <1>5, <1>6, <1>7, <1>8, <1>9 DEF Next

(* The times in the evidence. *)
LEMMA OnTimeKeeps == ASSUME BInv, Next PROVE OnTime'
<1> DEFINE Good(e) == /\ e.kind = "sent" => e.due <= e.time /\ e.time <= e.due + LateTicks
                      /\ e.kind = "late" => e.time > e.due + LateTicks
                      /\ e.kind = "closed" => stop'
<1>1. /\ outcomes \in Seq(Outcome) /\ action \in ActionType /\ now \in Int /\ clock \in Int
      /\ pending \subseteq ActionType /\ LateTicks \in Nat
  BY Limits DEF BInv, Types
<1>2. Len(outcomes) \in Nat /\ \A i \in 1..Len(outcomes) : Good(outcomes[i])
  BY Final DEF BInv, OnTime
<1>3. /\ \A a \in pending : a.due \in Int
      /\ action.due \in Int
  BY <1>1 DEF ActionType
<1>4. ASSUME Busy' => action'.due <= now' /\ now' <= action'.due + LateTicks,
             \A i \in 1..Len(outcomes') : Good(outcomes'[i])
      PROVE  OnTime'
  BY <1>4 DEF OnTime
<1> DEFINE Extended == /\ Len(outcomes') >= Len(outcomes) /\ Len(outcomes') \in Nat
                       /\ \A i \in 1..Len(outcomes) : outcomes'[i] = outcomes[i]
                       /\ \A i \in 1..Len(outcomes') : Len(outcomes) < i => Good(outcomes'[i])
<1> HIDE DEF Good
<1>5. ASSUME Extended PROVE \A i \in 1..Len(outcomes') : Good(outcomes'[i])
  <2>1. \A i \in 1..Len(outcomes') : i \in 1..Len(outcomes) \/ Len(outcomes) < i
    OBVIOUS
  <2>2. QED
    BY <2>1, <1>2, <1>5
<1>6. ASSUME NEW e, OneMore(e), Good(e) PROVE Extended
  <2>1. /\ Len(outcomes') = Len(outcomes) + 1 /\ outcomes'[Len(outcomes) + 1] = e
        /\ \A i \in 1..Len(outcomes) : outcomes'[i] = outcomes[i]
    BY <1>6 DEF OneMore
  <2>2. \A i \in 1..Len(outcomes') : Len(outcomes) < i => i = Len(outcomes) + 1
    BY <2>1
  <2>3. QED
    BY <1>2, <1>6, <2>1, <2>2
<1>7. ASSUME NEW kind, NEW S, Adds(kind, S), \A a \in S : Good(Event(kind, a, clock))
      PROVE  Extended
  <2>1. \A i \in 1..Len(outcomes') : Len(outcomes) < i =>
           \E a \in S : outcomes'[i] = Event(kind, a, clock)
    BY <1>7 DEF Adds
  <2>2. QED
    BY <1>7, <2>1, Added
<1> HIDE DEF Extended
<1>8. CASE DispatchPop
  <2>1. PICK a \in pending :
          /\ a.due <= clock
          /\ \/ /\ clock - a.due > LateTicks /\ UNCHANGED scheduleVars
                /\ OneMore(Event("late", a, clock))
             \/ /\ ~(clock - a.due > LateTicks) /\ UNCHANGED outcomes
                /\ action' = a /\ now' = clock
    BY <1>8, Pops DEF BInv
  <2>2. CASE /\ clock - a.due > LateTicks /\ UNCHANGED scheduleVars
             /\ OneMore(Event("late", a, clock))
    <3>1. Good(Event("late", a, clock))
      BY <2>2, <1>1, <1>3 DEF Good, Event
    <3>2. \A i \in 1..Len(outcomes') : Good(outcomes'[i])
      BY <2>2, <3>1, <1>5, <1>6
    <3>3. Busy' => action'.due <= now' /\ now' <= action'.due + LateTicks
      BY <2>2 DEF scheduleVars, Busy, BInv, OnTime
    <3>4. QED
      BY <3>2, <3>3, <1>4
  <2>3. CASE ~(clock - a.due > LateTicks) /\ UNCHANGED outcomes /\ action' = a /\ now' = clock
    <3>1. action'.due <= now' /\ now' <= action'.due + LateTicks
      BY <2>1, <2>3, <1>1, <1>3
    <3>2. \A i \in 1..Len(outcomes') : Good(outcomes'[i])
      BY <2>3, <1>2
    <3>3. QED
      BY <3>1, <3>2, <1>4
  <2>4. QED
    BY <2>1, <2>2, <2>3
<1>9. CASE DispatchRelease \/ DispatchFails
  <2>1. outcomes' = outcomes /\ Busy /\ (Busy' => action' = action /\ now' = now)
    BY <1>9 DEF DispatchRelease, DispatchFails, ScheduleGoes, Busy
  <2>2. \A i \in 1..Len(outcomes') : Good(outcomes'[i])
    BY <2>1, <1>2
  <2>3. Busy' => action'.due <= now' /\ now' <= action'.due + LateTicks
    BY <2>1 DEF BInv, OnTime
  <2>4. QED
    BY <2>2, <2>3, <1>4
<1>10. CASE DispatchSent
  <2>1. OneMore(Event("sent", action, now)) /\ Busy /\ ~Busy'
    BY <1>10, SendsOne DEF BInv, DispatchSent, ScheduleGoes, Busy
  <2>2. action.due <= now /\ now <= action.due + LateTicks
    BY <2>1 DEF BInv, OnTime
  <2>3. Good(Event("sent", action, now))
    BY <2>2 DEF Good, Event
  <2>4. \A i \in 1..Len(outcomes') : Good(outcomes'[i])
    BY <2>1, <2>3, <1>5, <1>6
  <2>5. QED
    BY <2>1, <2>4, <1>4
<1>11. CASE Submit
  <2>1. PICK n \in Nat, new, late \in SUBSET ActionType : Accepts(n, new, late)
    BY <1>11, Submits DEF BInv
  <2>2. /\ \A a \in late : clock - a.due > LateTicks /\ a.due \in Int
        /\ Adds("late", late)
    BY <2>1 DEF Accepts, ActionType
  <2>3. \A a \in late : Good(Event("late", a, clock))
    BY <2>2, <1>1 DEF Good, Event
  <2>4. \A i \in 1..Len(outcomes') : Good(outcomes'[i])
    BY <2>2, <2>3, <1>5, <1>7
  <2>5. Busy' => action'.due <= now' /\ now' <= action'.due + LateTicks
    BY <1>11, SubmitLeaves DEF scheduleVars, Busy, BInv, OnTime
  <2>6. QED
    BY <2>4, <2>5, <1>4
<1>12. CASE CloseDrain
  <2>1. stop'
    BY <1>12 DEF CloseDrain, BInv, Closing
  <2>2. \A a \in pending : Good(Event("closed", a, clock))
    BY <2>1 DEF Good, Event
  <2>3. Adds("closed", pending)
    BY <1>12, Drains DEF BInv
  <2>4. \A i \in 1..Len(outcomes') : Good(outcomes'[i])
    BY <2>2, <2>3, <1>5, <1>7
  <2>5. Busy' => action'.due <= now' /\ now' <= action'.due + LateTicks
    BY <1>12 DEF CloseDrain, CloseOnly, CallOnly, scheduleVars, Busy, BInv, OnTime
  <2>6. QED
    BY <2>4, <2>5, <1>4
<1>13. CASE ~Eventful
  <2>1. UNCHANGED <<action, now, outcomes>> /\ (Busy' <=> Busy)
    BY <1>13, Others DEF Still
  <2>2. \A i \in 1..Len(outcomes') : Good(outcomes'[i])
    BY <2>1, <1>2
  <2>3. Busy' => action'.due <= now' /\ now' <= action'.due + LateTicks
    BY <2>1 DEF BInv, OnTime
  <2>4. QED
    BY <2>2, <2>3, <1>4
<1>14. QED
  BY <1>8, <1>9, <1>10, <1>11, <1>12, <1>13 DEF Eventful

-----------------------------------------------------------------------------
(* The events that say sent, and the keys. *)

LEMMA SentFinite ==
    ASSUME NEW o, NEW n \in Nat
    PROVE  IsFiniteSet(Sent(o, n)) /\ Cardinality(Sent(o, n)) \in Nat
<1>1. Sent(o, n) \in SUBSET (1..n)
  BY DEF Sent
<1>2. IsFiniteSet(1..n)
  BY FS_Interval
<1>3. IsFiniteSet(Sent(o, n))
  BY <1>1, <1>2, FS_Subset
<1>4. QED
  BY <1>3, FS_CardinalityType

(* Other events leave the names as they are. *)
LEMMA NamesKept ==
    ASSUME NEW o \in Seq(Outcome), NEW q \in Seq(Outcome), NEW keys, Names(o, keys),
           Len(q) >= Len(o), \A i \in 1..Len(o) : q[i] = o[i],
           \A i \in 1..Len(q) : Len(o) < i => q[i].kind # "sent"
    PROVE  Names(q, keys) /\ Sent(q, Len(q)) = Sent(o, Len(o))
<1>1. Len(o) \in Nat /\ Len(q) \in Nat
  OBVIOUS
<1>2. Sent(q, Len(q)) = Sent(o, Len(o))
  <2>1. \A i : i \in Sent(q, Len(q)) <=> i \in Sent(o, Len(o))
    BY DEF Sent
  <2>2. QED
    BY <2>1
<1>3. \A i \in Sent(o, Len(o)) : i \in 1..Len(o)
  BY DEF Sent
<1>4. \A i \in 1..Len(o) : Sent(q, i) = Sent(o, i)
  <2> TAKE i \in 1..Len(o)
  <2>1. \A j : j \in Sent(q, i) <=> j \in Sent(o, i)
    BY DEF Sent
  <2>2. QED
    BY <2>1
<1>5. QED
  BY <1>2, <1>3, <1>4 DEF Names

(* The event of the last key names it. *)
LEMMA NamesMore ==
    ASSUME NEW o \in Seq(Outcome), NEW q \in Seq(Outcome), NEW keys \in Seq(Nat), Names(o, keys),
           Len(q) = Len(o) + 1, \A i \in 1..Len(o) : q[i] = o[i],
           q[Len(o) + 1].kind = "sent", Len(keys) = Cardinality(Sent(o, Len(o))) + 1,
           keys[Cardinality(Sent(o, Len(o))) + 1] = q[Len(o) + 1].id
    PROVE  Names(q, keys) /\ Cardinality(Sent(q, Len(q))) = Cardinality(Sent(o, Len(o))) + 1
<1> DEFINE n == Len(o)
<1>1. n \in Nat /\ Len(q) = n + 1
  OBVIOUS
<1>2. \A i \in 1..n : Sent(q, i) = Sent(o, i)
  <2> TAKE i \in 1..n
  <2>1. \A j : j \in Sent(q, i) <=> j \in Sent(o, i)
    BY DEF Sent
  <2>2. QED
    BY <2>1
<1>3. Sent(q, n + 1) = Sent(o, n) \cup {n + 1}
  <2>1. \A j : j \in Sent(q, n + 1) <=> j \in Sent(o, n) \cup {n + 1}
    BY DEF Sent
  <2>2. QED
    BY <2>1
<1>4. n + 1 \notin Sent(o, n) /\ \A i \in Sent(o, n) : i \in 1..n
  BY DEF Sent
<1>5. Cardinality(Sent(q, n + 1)) = Cardinality(Sent(o, n)) + 1
  BY <1>3, <1>4, SentFinite, FS_AddElement
<1>6. Cardinality(Sent(o, n)) \in Nat
  BY SentFinite
<1>7. \A i \in Sent(o, n) : /\ Cardinality(Sent(q, i)) \in 1..Len(keys)
                            /\ keys[Cardinality(Sent(q, i))] = q[i].id
  BY <1>2, <1>4 DEF Names
<1>8. /\ Cardinality(Sent(q, n + 1)) \in 1..Len(keys)
      /\ keys[Cardinality(Sent(q, n + 1))] = q[n + 1].id
  BY <1>5, <1>6
<1>9. QED
  BY <1>1, <1>3, <1>5, <1>7, <1>8 DEF Names

(* A key more changes none of the names there were. *)
LEMMA NamesStay ==
    ASSUME NEW o, NEW keys \in Seq(Nat), NEW key \in Nat, Names(o, keys)
    PROVE  Names(o, Append(keys, key))
BY DEF Names

LEMMA PressedKeeps == ASSUME BInv, Next PROVE Pressed'
<1> DEFINE n == Cardinality(Sent(outcomes, Len(outcomes)))
<1>1. /\ outcomes \in Seq(Outcome) /\ outcomes' \in Seq(Outcome) /\ pressed \in Seq(Nat)
      /\ pressed \in Seq(1..MaxTotalActions) /\ Names(outcomes, pressed)
  <2>1. outcomes \in Seq(Outcome) /\ pressed \in Seq(1..MaxTotalActions)
    BY DEF BInv, Types
  <2>2. outcomes' \in Seq(Outcome)
    BY TypesKeep DEF Types
  <2>3. pressed \in Seq(Nat)
    <3>1. Len(pressed) \in Nat /\ pressed = [i \in 1..Len(pressed) |-> pressed[i]]
      BY <2>1
    <3>2. \A i \in 1..Len(pressed) : pressed[i] \in Nat
      BY <2>1, Limits
    <3>3. QED
      BY <3>1, <3>2
  <2>4. Names(outcomes, pressed)
    BY DEF BInv, Pressed
  <2>5. QED
    BY <2>1, <2>2, <2>3, <2>4
<1>2. Len(outcomes) \in Nat /\ n \in Nat
  BY SentFinite
<1>3. IF scheduler \in {"down", "tapped"}
        THEN Len(pressed) = n + 1 /\ pressed[n + 1] = action.id
        ELSE Len(pressed) = n \/ (Len(pressed) = n + 1 /\ Broken)
  BY DEF BInv, Pressed
<1>4. Broken => Broken'
  BY Final
<1>5. ASSUME pressed' = pressed, Len(outcomes') >= Len(outcomes),
             \A i \in 1..Len(outcomes) : outcomes'[i] = outcomes[i],
             \A i \in 1..Len(outcomes') : Len(outcomes) < i => outcomes'[i].kind # "sent"
      PROVE  Names(outcomes', pressed') /\ Cardinality(Sent(outcomes', Len(outcomes'))) = n
  BY <1>1, <1>5, NamesKept
<1>6. ASSUME NEW kind, NEW S, Adds(kind, S), pressed' = pressed, kind # "sent"
      PROVE  Names(outcomes', pressed') /\ Cardinality(Sent(outcomes', Len(outcomes'))) = n
  <2>1. \A a \in S : Event(kind, a, clock).kind # "sent"
    BY <1>6 DEF Event
  <2>2. \A i \in 1..Len(outcomes') : Len(outcomes) < i =>
           \E a \in S : outcomes'[i] = Event(kind, a, clock)
    BY <1>6 DEF Adds
  <2>3. \A i \in 1..Len(outcomes') : Len(outcomes) < i => outcomes'[i].kind # "sent"
    BY <2>1, <2>2
  <2>4. QED
    BY <1>5, <1>6, <2>3, Added
<1> HIDE DEF n
<1>7. ASSUME Names(outcomes', pressed'), Cardinality(Sent(outcomes', Len(outcomes'))) = n,
             pressed' = pressed, action' = action,
             scheduler \in {"down", "tapped"} <=> scheduler' \in {"down", "tapped"}
      PROVE  Pressed'
  BY <1>3, <1>4, <1>7 DEF Pressed
<1>8. CASE DispatchPop
  <2>1. PICK a \in pending :
          \/ UNCHANGED scheduleVars /\ OneMore(Event("late", a, clock))
          \/ UNCHANGED outcomes /\ scheduler' = "tap"
    BY <1>8, Pops DEF BInv
  <2>2. scheduler = "dispatch" /\ pressed' = pressed
    BY <1>8 DEF DispatchPop
  <2>3. CASE UNCHANGED scheduleVars /\ OneMore(Event("late", a, clock))
    <3>1. /\ Len(outcomes') = Len(outcomes) + 1
          /\ outcomes'[Len(outcomes) + 1].kind = "late"
          /\ \A i \in 1..Len(outcomes) : outcomes'[i] = outcomes[i]
      BY <2>3 DEF OneMore, Event
    <3>2. \A i \in 1..Len(outcomes') : Len(outcomes) < i => outcomes'[i].kind # "sent"
      BY <3>1
    <3>3. Len(outcomes') >= Len(outcomes)
      BY <3>1
    <3>4. QED
      BY <2>2, <2>3, <3>1, <3>2, <3>3, <1>5, <1>7 DEF scheduleVars
  <2>4. CASE UNCHANGED outcomes /\ scheduler' = "tap"
    BY <2>2, <2>4, <1>1, <1>3, <1>4 DEF Pressed, n
  <2>5. QED
    BY <2>1, <2>3, <2>4
<1>9. CASE DispatchPress
  <2>1. /\ scheduler = "checked" /\ scheduler' = "down" /\ pressed' = Append(pressed, action.id)
        /\ outcomes' = outcomes /\ action' = action
    BY <1>9 DEF DispatchPress, ScheduleGoes
  <2>2. action.id \in Nat
    BY DEF BInv, Types, ActionType
  <2>3. Names(outcomes', pressed')
    BY <2>1, <2>2, <1>1, NamesStay
  <2>4. Len(pressed) = n
    BY <1>3, <2>1 DEF Broken
  <2>5. Len(pressed') = n + 1 /\ pressed'[n + 1] = action.id
    BY <2>1, <2>4
  <2>6. QED
    BY <2>1, <2>3, <2>5 DEF Pressed, n
<1>10. CASE DispatchSent
  <2>1. /\ scheduler = "tapped" /\ scheduler' = "dispatch" /\ pressed' = pressed
    BY <1>10 DEF DispatchSent, ScheduleGoes
  <2>2. /\ Len(outcomes') = Len(outcomes) + 1
        /\ outcomes'[Len(outcomes) + 1].kind = "sent"
        /\ outcomes'[Len(outcomes) + 1].id = action.id
        /\ \A i \in 1..Len(outcomes) : outcomes'[i] = outcomes[i]
    BY <1>10, SendsOne DEF BInv, OneMore, Event
  <2>3. Len(pressed) = n + 1 /\ pressed[n + 1] = action.id
    BY <1>3, <2>1
  <2>4. Names(outcomes', pressed) /\ Cardinality(Sent(outcomes', Len(outcomes'))) = n + 1
    BY <1>1, <2>2, <2>3, NamesMore DEF n
  <2>5. QED
    BY <2>1, <2>3, <2>4 DEF Pressed
<1>11. CASE DispatchRelease \/ DispatchFails
  <2>1. /\ UNCHANGED <<outcomes, pressed>>
        /\ \/ scheduler = "down" /\ scheduler' = "tapped" /\ action' = action
           \/ scheduler' = "failing"
    BY <1>11 DEF DispatchRelease, DispatchFails, ScheduleGoes
  <2>2. QED
    BY <2>1, <1>1, <1>3, <1>4 DEF Pressed, Broken, n
<1>12. CASE Submit
  <2>1. PICK k \in Nat, new, late \in SUBSET ActionType : Accepts(k, new, late)
    BY <1>12, Submits DEF BInv
  <2>2. Adds("late", late)
    BY <2>1 DEF Accepts
  <2>3. UNCHANGED <<scheduler, action, pressed>>
    BY <1>12, SubmitLeaves DEF scheduleVars, keyVars
  <2>4. QED
    BY <2>2, <2>3, <1>6, <1>7
<1>13. CASE CloseDrain
  <2>1. Adds("closed", pending)
    BY <1>13, Drains DEF BInv
  <2>2. UNCHANGED <<scheduler, action, pressed>>
    BY <1>13 DEF CloseDrain, CloseOnly, CallOnly, scheduleVars
  <2>3. QED
    BY <2>1, <2>2, <1>6, <1>7
<1>14. CASE ~Eventful /\ ~DispatchPress
  <2>1. UNCHANGED <<action, outcomes>>
    BY <1>14, Others DEF Still
  <2>2. pressed' = pressed /\ (scheduler \in {"down", "tapped"} <=> scheduler' \in {"down",
          "tapped"})
    BY <1>14, OtherKeys
  <2>3. Names(outcomes', pressed') /\ Cardinality(Sent(outcomes', Len(outcomes'))) = n
    BY <2>1, <2>2, <1>1 DEF n
  <2>4. QED
    BY <2>1, <2>2, <2>3, <1>7
<1>15. QED
  BY <1>8, <1>9, <1>10, <1>11, <1>12, <1>13, <1>14 DEF Eventful


-----------------------------------------------------------------------------
(* What the steps do to the keyboard, and after the close.                  *)

(* A key goes down in DispatchPress only, and a closed keyboard stays so.   *)
LEMMA KeysStay ==
    ASSUME BInv, Next
    PROVE  /\ pressed' # pressed => scheduler = "checked"
           /\ keys_closed => keys_closed'
<1>1. CASE Tick
  BY <1>1 DEF Tick, keyVars
<1>2. CASE FocusMoves
  BY <1>2 DEF FocusMoves
<1>3. CASE Capture
  <2>1. CASE CaptureReceive
    BY <2>1 DEF CaptureReceive, keyVars, CaptureOnly
  <2>2. CASE CaptureStore
    BY <2>2 DEF CaptureStore, keyVars, CaptureOnly
  <2>3. CASE CaptureFails
    BY <2>3 DEF CaptureFails, keyVars, CaptureOnly
  <2>4. CASE CaptureEnds
    BY <2>4 DEF CaptureEnds, keyVars, CaptureOnly
  <2>5. QED
    BY <1>3, <2>1, <2>2, <2>3, <2>4 DEF Capture
<1>4. CASE Dispatch
  <2>1. CASE DispatchPop
    BY <2>1 DEF DispatchPop, ScheduleOnly
  <2>2. CASE DispatchCheck
    BY <2>2 DEF DispatchCheck
  <2>3. CASE DispatchPress
    BY <2>3 DEF DispatchPress, ScheduleOnly, ScheduleGoes
  <2>4. CASE DispatchRelease
    BY <2>4 DEF DispatchRelease, ScheduleOnly
  <2>5. CASE DispatchSent
    BY <2>5 DEF DispatchSent, ScheduleOnly
  <2>6. CASE DispatchFails
    BY <2>6 DEF DispatchFails, ScheduleOnly
  <2>7. CASE DispatchEnds
    BY <2>7 DEF DispatchEnds, ScheduleOnly
  <2>8. QED
    BY <1>4, <2>1, <2>2, <2>3, <2>4, <2>5, <2>6, <2>7 DEF Dispatch
<1>5. CASE Schedule
  <2>1. CASE ScheduleTurn
    BY <2>1 DEF ScheduleTurn, ScheduleOnly
  <2>2. CASE ScheduleLocks
    BY <2>2 DEF ScheduleLocks, ScheduleOnly
  <2>3. CASE ScheduleEnds
    BY <2>3 DEF ScheduleEnds, ScheduleOnly
  <2>4. CASE ScheduleWakes
    BY <2>4 DEF ScheduleWakes, ScheduleOnly
  <2>5. CASE ScheduleFails
    BY <2>5 DEF ScheduleFails, ScheduleOnly
  <2>6. QED
    BY <1>5, <2>1, <2>2, <2>3, <2>4, <2>5 DEF Schedule
<1>6. CASE Observe
  <2>1. CASE ObserveTake
    BY <2>1 DEF ObserveTake, CallOnly, ObserveOnly
  <2>2. CASE ObserveStore
    BY <2>2 DEF ObserveStore, CallOnly, ObserveOnly
  <2>3. CASE ObserveRaises
    BY <2>3 DEF ObserveRaises, CallOnly, ObserveOnly
  <2>4. QED
    BY <1>6, <2>1, <2>2, <2>3 DEF Observe
<1>7. CASE start
  BY <1>7 DEF start, CallOnly
<1>8. CASE Submit
  BY <1>8, SubmitLeaves DEF keyVars
<1>9. CASE Close
  <2>1. CASE CloseBegin
    BY <2>1 DEF CloseBegin, CallOnly, CloseOnly
  <2>2. CASE CloseDrain
    BY <2>2 DEF KeysClose, CloseDrain, CallOnly, CloseOnly
  <2>3. CASE CloseGivesUp
    BY <2>3 DEF KeysClose, CloseGivesUp, CallOnly, CloseOnly
  <2>4. QED
    BY <1>9, <2>1, <2>2, <2>3 DEF Close
<1>10. QED
  BY <1>1, <1>2, <1>3, <1>4, <1>5, <1>6, <1>7, <1>8, <1>9 DEF Next

(* The evidence of a closed bridge. *)
LEMMA ClosedStays ==
    ASSUME BInv, Next, closed
    PROVE  UNCHANGED <<pending, outcomes, observations, next_action>>
<1>1. CASE Tick
  BY <1>1 DEF Tick, observeVars, submitVars
<1>2. CASE FocusMoves
  BY <1>2 DEF FocusMoves, observeVars, submitVars
<1>3. CASE Capture
  <2>1. CASE CaptureReceive
    BY <2>1 DEF CaptureReceive, observeVars, submitVars, CaptureOnly
  <2>2. CASE CaptureStore
    BY <2>2 DEF CaptureStore, observeVars, submitVars, CaptureOnly
  <2>3. CASE CaptureFails
    BY <2>3 DEF CaptureFails, observeVars, submitVars, CaptureOnly
  <2>4. CASE CaptureEnds
    BY <2>4 DEF CaptureEnds, observeVars, submitVars, CaptureOnly
  <2>5. QED
    BY <1>3, <2>1, <2>2, <2>3, <2>4 DEF Capture
<1>4. CASE Dispatch
  <2>1. CASE DispatchPop
    BY <2>1 DEF BInv, Closing, DispatchPop
  <2>2. CASE DispatchCheck
    BY <2>2 DEF DispatchCheck, observeVars, submitVars, ScheduleOnly
  <2>3. CASE DispatchPress
    BY <2>3 DEF DispatchPress, observeVars, submitVars, ScheduleOnly
  <2>4. CASE DispatchRelease
    BY <2>4 DEF DispatchRelease, observeVars, submitVars, ScheduleOnly
  <2>5. CASE DispatchSent
    BY <2>5 DEF BInv, Closing, DispatchSent, ScheduleGoes
  <2>6. CASE DispatchFails
    BY <2>6 DEF DispatchFails, observeVars, submitVars, ScheduleOnly
  <2>7. CASE DispatchEnds
    BY <2>7 DEF DispatchEnds, observeVars, submitVars, ScheduleOnly
  <2>8. QED
    BY <1>4, <2>1, <2>2, <2>3, <2>4, <2>5, <2>6, <2>7 DEF Dispatch
<1>5. CASE Schedule
  <2>1. CASE ScheduleTurn
    BY <2>1 DEF ScheduleTurn, observeVars, submitVars, ScheduleOnly
  <2>2. CASE ScheduleLocks
    BY <2>2 DEF ScheduleLocks, observeVars, submitVars, ScheduleOnly
  <2>3. CASE ScheduleEnds
    BY <2>3 DEF ScheduleEnds, observeVars, submitVars, ScheduleOnly
  <2>4. CASE ScheduleWakes
    BY <2>4 DEF ScheduleWakes, observeVars, submitVars, ScheduleOnly
  <2>5. CASE ScheduleFails
    BY <2>5 DEF ScheduleFails, observeVars, submitVars, ScheduleOnly
  <2>6. QED
    BY <1>5, <2>1, <2>2, <2>3, <2>4, <2>5 DEF Schedule
<1>6. CASE Observe
  <2>1. CASE ObserveTake
    BY <2>1 DEF ObserveTake, submitVars, ObserveOnly
  <2>2. CASE ObserveStore
    BY <2>2 DEF Usable, ObserveStore
  <2>3. CASE ObserveRaises
    BY <2>3 DEF ObserveRaises, submitVars, ObserveOnly
  <2>4. QED
    BY <1>6, <2>1, <2>2, <2>3 DEF Observe
<1>7. CASE start
  BY <1>7 DEF start, observeVars
<1>8. CASE Submit
  BY <1>8, SubmitLeaves DEF Usable
<1>9. CASE Close
  <2>1. CASE CloseBegin
    BY <2>1 DEF CloseBegin
  <2>2. CASE CloseDrain
    BY <2>2 DEF BInv, Closing, CloseDrain
  <2>3. CASE CloseGivesUp
    BY <2>3 DEF CloseGivesUp, observeVars, submitVars, CloseOnly
  <2>4. QED
    BY <1>9, <2>1, <2>2, <2>3 DEF Close
<1>10. QED
  BY <1>1, <1>2, <1>3, <1>4, <1>5, <1>6, <1>7, <1>8, <1>9 DEF Next

-----------------------------------------------------------------------------
(* The invariant. *)

LEMMA Starts == ASSUME Init PROVE BInv
<1>1. NoFrame \in FrameType /\ NoAction \in ActionType
  BY Limits DEF NoFrame, NoAction, FrameType, ActionType
<1>2. IsFiniteSet({}) /\ Cardinality({}) = 0
  BY FS_EmptySet
<1>3. Types
  BY <1>1, <1>2, Limits DEF Init, Types
<1>4. Threads /\ Flags
  BY DEF Init, Threads, Flags
<1>5. Frames
  BY DEF Init, Frames, NoFrame
<1>6. Numbers /\ NoneLost /\ OnTime /\ First /\ Closing
  BY DEF Init, Numbers, NoneLost, OnTime, First, Closing, Busy, NoAction
<1>7. Pressed
  <2>1. Sent(<<>>, 0) = {}
    BY DEF Sent
  <2>2. Names(<<>>, <<>>) /\ Cardinality(Sent(<<>>, Len(<<>>))) = 0
    BY <2>1, <1>2 DEF Names
  <2>3. QED
    BY <2>2 DEF Init, Pressed
<1>8. QED
  BY <1>3, <1>4, <1>5, <1>6, <1>7 DEF BInv

LEMMA BInvCorrect == Spec => []BInv
<1>1. ASSUME BInv, Next PROVE BInv'
  BY <1>1, ThreadsKeep, TypesKeep, FramesKeep, NumbersKeep, NoneLostKeeps, OnTimeKeeps,
     FirstKeeps, ClosingKeeps, PressedKeeps DEF BInv
<1>2. ASSUME BInv, UNCHANGED vars PROVE BInv'
  <2>1. UNCHANGED <<clock, last_returned, encoding, observations, next_action, started, pending,
                    stop, error, closed, outcomes, pressed, held, focus, keys_closed, caller,
                    latest, capture, receipt, scheduler, action, now>>
    BY <1>2 DEF vars, observeVars, submitVars, endVars, keyVars, captureVars,
       scheduleVars
  <2>2. (Types /\ Threads /\ Flags)'
    BY <1>2, <2>1 DEF BInv, Types, Threads, Flags
  <2>3. (Frames /\ Numbers)'
    BY <1>2, <2>1 DEF BInv, Frames, Numbers, Busy
  <2>4. (NoneLost /\ OnTime)'
    BY <1>2, <2>1 DEF BInv, NoneLost, OnTime, Busy, Broken, Resolved, Pending
  <2>5. (First /\ Closing)'
    BY <1>2, <2>1 DEF BInv, First, Closing
  <2>6. Pressed'
    BY <1>2, <2>1 DEF BInv, Pressed, Broken
  <2>7. QED
    BY <2>2, <2>3, <2>4, <2>5, <2>6 DEF BInv
<1>3. QED
  BY <1>1, <1>2, Starts, PTL DEF Spec

-----------------------------------------------------------------------------
(* The state keeps its shape; the heap, the observations and the number of  *)
(* actions stay within the limits that submit and observe check, however    *)
(* the caller mixes them with the two threads.                              *)
THEOREM TypeCorrect == Spec => []TypeOK
<1>1. ASSUME BInv PROVE TypeOK
  <2>1. observations \in BoundedSeq(FrameType, MaxObservations)
    <3>1. /\ observations \in [1..Len(observations) -> FrameType]
          /\ Len(observations) \in 0..MaxObservations
      BY <1>1 DEF BInv, Types
    <3>2. QED
      BY <3>1, Limits DEF BoundedSeq, SeqOf
  <2>2. /\ clock \in 0..MaxClock /\ receipt \in 0..MaxClock /\ now \in 0..MaxClock
    BY <1>1, Limits DEF BInv, Types
  <2>3. \A i \in DOMAIN outcomes : outcomes[i].kind \in {"sent", "late", "closed"}
    <3>1. \A i \in DOMAIN outcomes : outcomes[i] \in Outcome
      BY <1>1 DEF BInv, Types
    <3>2. QED
      BY <3>1 DEF Outcome
  <2>4. {started, stop, closed, error, held, keys_closed} \subseteq BOOLEAN
    BY <1>1 DEF BInv, Flags
  <2>5. QED
    BY <1>1, <2>1, <2>2, <2>3, <2>4 DEF BInv, Types, Threads, TypeOK
<1>2. QED
  BY <1>1, BInvCorrect, PTL

(* The evidence accounts for every action that was accepted: it waits, it   *)
(* is being dispatched, or one event says what became of it; only the       *)
(* failure of a press leaves one action without.                            *)
THEOREM AccountedCorrect == Spec => []Accounted
<1>1. ASSUME BInv PROVE Accounted
  <2> DEFINE Out(id) == {i \in DOMAIN outcomes : outcomes[i].id = id}
             P(id) == IF Pending(id) THEN 1 ELSE 0
             A(id) == IF action.id = id THEN 1 ELSE 0
  <2>1. Len(outcomes) \in Nat /\ DOMAIN outcomes = 1..Len(outcomes) /\ next_action \in Nat
    BY <1>1 DEF BInv, Types
  <2>2. \A id : IsFiniteSet(Out(id))
    <3>1. IsFiniteSet(1..Len(outcomes))
      BY FS_Interval
    <3>2. \A id : Out(id) \in SUBSET (1..Len(outcomes))
      OBVIOUS
    <3>3. QED
      BY <3>1, <3>2, FS_Subset
  <2>3. \A id : Cardinality(Out(id)) = IF Resolved(id) THEN 1 ELSE 0
    <3> TAKE id
    <3>1. CASE ~Resolved(id)
      <4>1. Out(id) = {}
        BY <3>1 DEF Resolved
      <4>2. QED
        BY <3>1, <4>1, FS_EmptySet
    <3>2. CASE Resolved(id)
      <4>1. PICK i \in 1..Len(outcomes) : outcomes[i].id = id
        BY <3>2 DEF Resolved
      <4>2. \A j \in 1..Len(outcomes) : outcomes[j].id = id => j = i
        BY <1>1, <4>1 DEF BInv, Numbers
      <4>3. Out(id) = {i}
        BY <4>1, <4>2
      <4>4. QED
        BY <3>2, <4>3, FS_Singleton
    <3>3. QED
      BY <3>1, <3>2
  <2>4. \A id : Places(id) = P(id) + A(id) + Cardinality(Out(id))
    BY DEF Places, OutcomesOf
  <2>5. \A id \in 1..next_action : /\ ~(Pending(id) /\ action.id = id)
                                   /\ ~(Pending(id) /\ Resolved(id))
                                   /\ ~(action.id = id /\ Resolved(id))
    BY <1>1 DEF BInv, Numbers, Pending, Resolved
  <2> HIDE DEF Out
  <2>6. \A id \in 1..next_action : Places(id) <= 1
    BY <2>3, <2>4, <2>5
  <2>7. \A id \in 1..next_action :
           Places(id) = 0 => ~(Pending(id) \/ action.id = id \/ Resolved(id))
    <3> TAKE id \in 1..next_action
    <3>1. CASE Resolved(id)
      BY <3>1, <2>3, <2>4
    <3>2. CASE ~Resolved(id)
      <4>1. Places(id) = P(id) + A(id)
        BY <3>2, <2>3, <2>4
      <4>2. QED
        BY <3>2, <4>1
    <3>3. QED
      BY <3>1, <3>2
  <2>8. PICK gone \in 0..next_action :
           /\ gone # 0 => Broken
           /\ \A id \in 1..next_action :
                 id = gone \/ action.id = id \/ Pending(id) \/ Resolved(id)
    BY <1>1 DEF BInv, NoneLost
  <2> DEFINE lost == {id \in 1..next_action : Places(id) = 0}
  <2>9. lost \in SUBSET {gone}
    BY <2>7, <2>8
  <2>10. Cardinality(lost) <= 1
    <3>1. IsFiniteSet({gone}) /\ Cardinality({gone}) = 1
      BY FS_Singleton
    <3>2. Cardinality(lost) <= Cardinality({gone})
      BY <2>9, <3>1, FS_Subset
    <3>3. QED
      BY <3>1, <3>2
  <2>11. lost # {} => Failed
    <3>1. ASSUME lost # {} PROVE gone # 0
      BY <3>1, <2>9
    <3>2. QED
      BY <3>1, <2>8 DEF Broken, Failed
  <2>12. QED
    BY <2>6, <2>10, <2>11 DEF Accounted
<1>2. QED
  BY <1>1, BInvCorrect, PTL

(* The n-th event that says sent names the n-th key that went down, and at  *)
(* most the last key has no event.                                          *)
THEOREM EvidenceCorrect == Spec => []EvidenceMatchesKeys
<1>1. ASSUME BInv PROVE EvidenceMatchesKeys
  <2>1. \A n : SentAmong(n) = Sent(outcomes, n)
    BY DEF SentAmong, Sent
  <2> DEFINE n == Cardinality(Sent(outcomes, Len(outcomes)))
  <2>2. /\ Len(outcomes) \in Nat /\ n \in Nat
        /\ Len(pressed) \in Nat /\ DOMAIN pressed = 1..Len(pressed)
    BY SentFinite
  <2>3. \A i \in Sent(outcomes, Len(outcomes)) :
           /\ Cardinality(Sent(outcomes, i)) \in DOMAIN pressed
           /\ pressed[Cardinality(Sent(outcomes, i))] = outcomes[i].id
    BY <1>1 DEF BInv, Pressed, Names
  <2>4. IF scheduler \in {"down", "tapped"}
           THEN Len(pressed) = n + 1
           ELSE Len(pressed) = n \/ (Len(pressed) = n + 1 /\ Failed)
    BY <1>1 DEF BInv, Pressed, Broken, Failed
  <2> HIDE DEF n
  <2>5. /\ Len(pressed) \in n..(n + 1)
        /\ Len(pressed) > n => scheduler \in {"down", "tapped"} \/ Failed
    <3>1. Len(pressed) = n \/ Len(pressed) = n + 1
      BY <2>4
    <3>2. Len(pressed) = n => ~(Len(pressed) > n)
      OBVIOUS
    <3>3. Len(pressed) \in n..(n + 1)
      <4>1. \A k, m \in Nat : m = k \/ m = k + 1 => m \in k..(k + 1)
        OBVIOUS
      <4>2. QED
        BY <2>2, <3>1, <4>1
    <3>4. Len(pressed) > n => scheduler \in {"down", "tapped"} \/ Failed
      BY <2>4, <3>2, Zenon
    <3>5. QED
      BY <3>3, <3>4
  <2>6. QED
    BY <2>1, <2>3, <2>5 DEF EvidenceMatchesKeys, n
<1>2. QED
  BY <1>1, BInvCorrect, PTL

(* No action is sent early or more than LATE_NS late, none is dropped for   *)
(* lateness that was not late, and none for a close that has not begun.     *)
THEOREM PunctualCorrect == Spec => []Punctual
<1>1. ASSUME BInv PROVE Punctual
  <2>1. /\ outcomes \in Seq(Outcome) /\ LateTicks \in Nat
        /\ \A e \in Outcome : /\ e.kind \in {"sent", "late", "closed"}
                              /\ e.time \in Nat /\ e.due \in Nat
    BY <1>1, Limits DEF BInv, Types, Outcome
  <2>2. ASSUME NEW event \in Range(outcomes)
        PROVE  CASE event.kind = "sent"   -> event.time \in event.due..(event.due + LateTicks)
                 [] event.kind = "late"   -> event.time > event.due + LateTicks
                 [] event.kind = "closed" -> stop
    <3>1. PICK i \in 1..Len(outcomes) : event = outcomes[i]
      BY DEF Range
    <3>2. /\ event.kind \in {"sent", "late", "closed"}
          /\ event.time \in Nat /\ event.due \in Nat
      BY <2>1, <3>1
    <3>3. /\ event.kind = "sent" => event.due <= event.time /\ event.time <= event.due + LateTicks
          /\ event.kind = "late" => event.time > event.due + LateTicks
          /\ event.kind = "closed" => stop
      BY <1>1, <3>1 DEF BInv, OnTime
    <3>4. CASE event.kind = "sent"
      <4>1. event.time \in event.due..(event.due + LateTicks)
        BY <3>2, <3>3, <3>4
      <4>2. QED
        BY <3>4, <4>1
    <3>5. CASE event.kind = "late"
      BY <3>3, <3>5
    <3>6. CASE event.kind = "closed"
      BY <3>3, <3>6
    <3>7. QED
      BY <3>2, <3>4, <3>5, <3>6
  <2>3. QED
    BY <2>2 DEF Punctual
<1>2. QED
  BY <1>1, BInvCorrect, PTL

(* Every observation shows a newer frame than the one before, though the    *)
(* capture thread replaces the frame while it is encoded.                   *)
THEOREM FreshCorrect == Spec => []ObservationsFresh
<1>1. ASSUME BInv PROVE ObservationsFresh
  BY <1>1 DEF BInv, Frames, ObservationsFresh
<1>2. QED
  BY <1>1, BInvCorrect, PTL

(* No key overtakes an action that waits in the heap: the caller can submit *)
(* nothing between the pop of an action and its key.                        *)
THEOREM PressesInOrderCorrect == Spec => PressesInOrder
<1>1. ASSUME BInv, [Next]_vars, pressed' # pressed PROVE \A a \in pending : Before(action, a)
  <2>1. Next
    BY <1>1 DEF vars, keyVars
  <2>2. QED
    BY <1>1, <2>1, KeysStay DEF BInv, First
<1>2. ASSUME BInv, [Next]_vars
      PROVE  [pressed' # pressed => \A a \in pending :
                 action.due < a.due \/ (action.due = a.due /\ action.id < a.id)]_vars
  BY <1>1, <1>2 DEF Before
<1>3. QED
  BY <1>2, BInvCorrect, PTL DEF Spec, PressesInOrder

(* Once the keyboard is closed no key goes down or is down; once the bridge *)
(* is closed its evidence is final.                                         *)
THEOREM ClosedIsFinalCorrect == Spec => ClosedIsFinal
<1>1. ASSUME BInv, Next, keys_closed PROVE pressed' = pressed /\ ~held' /\ scheduler' # "down"
  <2>1. keys_closed'
    BY <1>1, KeysStay
  <2>2. scheduler # "checked"
    BY <1>1 DEF BInv, Closing
  <2>3. Closing'
    BY <1>1, ClosingKeeps
  <2>4. QED
    BY <1>1, <2>1, <2>2, <2>3, KeysStay DEF Closing
<1>2. ASSUME BInv, [Next]_vars
      PROVE  [/\ keys_closed => pressed' = pressed /\ ~held' /\ scheduler' # "down"
              /\ closed => UNCHANGED <<pending, outcomes, observations, next_action>>]_vars
  BY <1>1, <1>2, ClosedStays
<1>3. QED
  BY <1>2, BInvCorrect, PTL DEF Spec, ClosedIsFinal
=============================================================================
