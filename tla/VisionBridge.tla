---------------------------- MODULE VisionBridge ----------------------------
(***************************************************************************)
(* NativeVisionBridge of examples/codex_vision_bridge.py.  Three threads   *)
(* share it: the caller, one call at a time; the capture thread; and the   *)
(* scheduler, which presses the keys of the pending actions.               *)
(*                                                                         *)
(* A critical section of the condition variable _cv is one step, except    *)
(* that of _dispatch_due: the scheduler keeps _cv from its first action to *)
(* the last, while the clock goes on and the caller's close may give up    *)
(* waiting for it.  Lanes and pixels are left out; an action is its number *)
(* and its due time.  A call that raises before it changes anything is a   *)
(* stuttering step.                                                        *)
(***************************************************************************)
EXTENDS Integers, FiniteSets, SequencesExt

CONSTANTS LateTicks,         \* LATE_NS, 20 ms in the code
          Delays,            \* delays a model may ask for, up to 1000 ms in the code
          MaxBatch,          \* MAX_ACTIONS
          MaxPending,        \* MAX_PENDING
          MaxTotalActions,   \* MAX_TOTAL_ACTIONS
          MaxObservations,   \* MAX_OBSERVATIONS, which stands for MAX_PNG_BYTES too
          MaxClock,          \* bound: the last time of the clock
          MaxFrames          \* bound: frames captured

ASSUME BridgeAssumption ==
    /\ Delays \subseteq Nat
    /\ {LateTicks, MaxBatch, MaxPending, MaxTotalActions,
        MaxObservations, MaxClock, MaxFrames} \subseteq Nat

VARIABLES
    clock,
    latest,           \* _latest as [frame, receipt]
    last_returned,    \* _last_returned_frame
    encoding,         \* the frame that observe took and encodes
    observations,     \* the observations returned, as [frame, receipt], oldest first
    pending,          \* the heap of actions, as [due, id]
    next_action, started, stop, closed, error,
    outcomes,         \* the action_sent and action_dropped events, oldest first
    pressed,          \* the keyboard: numbers of the actions whose keys went down
    held,             \* the keyboard: _pressed holds a key that did not come up again
    keys_closed,      \* the keyboard: its display is closed
    focus,            \* the desktop: who gets the keys, "game" or "other"
    capture, scheduler, caller,        \* where the threads are
    receipt,          \* capture: receipt time of the frame it holds
    action, now       \* scheduler: the action it dispatches, the time it read

observeVars == <<last_returned, encoding, observations>>
submitVars  == <<next_action, started>>
endVars     == <<stop, error>>
captureVars == <<latest, capture, receipt>>
scheduleVars == <<scheduler, action, now>>
keyVars     == <<pressed, held, focus>>

vars == <<clock, observeVars, submitVars, pending, endVars, closed, outcomes, keyVars,
          keys_closed, caller, captureVars, scheduleVars>>

NoFrame  == [frame |-> 0, receipt |-> 0]
NoAction == [due |-> 0, id |-> 0]

Init ==
    /\ clock = 0
    /\ latest = NoFrame /\ last_returned = 0 /\ encoding = NoFrame /\ observations = <<>>
    /\ pending = {} /\ next_action = 0 /\ started = FALSE
    /\ stop = FALSE /\ closed = FALSE /\ error = FALSE
    /\ outcomes = <<>> /\ pressed = <<>> /\ keys_closed = FALSE
    /\ held = FALSE /\ focus = "game"
    /\ capture = "loop" /\ scheduler = "loop" /\ caller = "idle"
    /\ receipt = 0 /\ action = NoAction /\ now = 0

(* _cv is free: the scheduler holds it while it dispatches. *)
Free == scheduler \notin {"dispatch", "tap", "checked", "down", "tapped"}

(* _check *)
Usable == ~error /\ ~closed

Tick ==
    /\ clock < MaxClock
    /\ clock' = clock + 1
    /\ UNCHANGED <<observeVars, submitVars, pending, endVars, closed, outcomes, keyVars,
                   keys_closed, caller, captureVars, scheduleVars>>

(* The desktop (external): another window takes the focus, or the game.     *)
FocusMoves ==
    /\ focus' \in {"game", "other"} \ {focus}
    /\ UNCHANGED <<clock, observeVars, submitVars, pending, endVars, closed, outcomes,
                   pressed, held, keys_closed, caller, captureVars, scheduleVars>>

-----------------------------------------------------------------------------
(* The capture thread *)

CaptureOnly == UNCHANGED <<clock, observeVars, submitVars, pending, closed, outcomes,
                           keyVars, keys_closed, caller, scheduleVars>>

(* client.frame returns a frame, stamped before _cv is taken. *)
CaptureReceive ==
    /\ capture = "loop" /\ ~stop /\ latest.frame < MaxFrames
    /\ receipt' = clock
    /\ capture' = "frame"
    /\ UNCHANGED <<latest, endVars>> /\ CaptureOnly

CaptureStore ==
    /\ capture = "frame" /\ Free
    /\ latest' = [frame |-> latest.frame + 1, receipt |-> receipt]
    /\ capture' = "loop" /\ receipt' = 0
    /\ UNCHANGED endVars /\ CaptureOnly

(* The public client raises, or a frame has another shape: _fail. *)
CaptureFails ==
    /\ \/ capture = "loop" /\ ~stop
       \/ capture = "frame"
    /\ Free
    /\ error' = TRUE /\ stop' = TRUE
    /\ capture' = "ended" /\ receipt' = 0
    /\ UNCHANGED latest /\ CaptureOnly

CaptureEnds ==
    /\ capture = "loop" /\ stop
    /\ capture' = "ended"
    /\ UNCHANGED <<latest, receipt, endVars>> /\ CaptureOnly

-----------------------------------------------------------------------------
(* The scheduler *)

ScheduleOnly == UNCHANGED <<clock, observeVars, submitVars, closed, keys_closed, focus,
                            caller, captureVars>>

ScheduleGoes(from, to) ==
    /\ scheduler \in from
    /\ scheduler' = to

(* while not _stop; close may set it before _dispatch_due has _cv. *)
ScheduleTurn ==
    /\ ~stop /\ ScheduleGoes({"loop"}, "locking")
    /\ UNCHANGED <<pending, endVars, outcomes, pressed, held, action, now>> /\ ScheduleOnly

ScheduleLocks ==
    /\ ScheduleGoes({"locking"}, IF Usable THEN "dispatch" ELSE "failing")
    /\ UNCHANGED <<pending, endVars, outcomes, pressed, held, action, now>> /\ ScheduleOnly

ScheduleEnds ==
    /\ stop /\ ScheduleGoes({"loop", "wait"}, "ended")
    /\ UNCHANGED <<pending, endVars, outcomes, pressed, held, action, now>> /\ ScheduleOnly

(* The wait ends by a notification, when an action is due, or after 0.1 s. *)
ScheduleWakes ==
    /\ ~stop /\ ScheduleGoes({"wait"}, "loop")
    /\ UNCHANGED <<pending, endVars, outcomes, pressed, held, action, now>> /\ ScheduleOnly

(* Faulty: lateness is off by one. *)
Late_OffByOne(a, time) == time - a.due > LateTicks + 1

Late(a, time) == time - a.due > LateTicks

(* Faulty: the heap is ordered by number. *)
Before_ById(a, b) == a.id < b.id

(* The order of the heap, that of the pairs of due time and number. *)
Before(a, b) == a.due < b.due \/ (a.due = b.due /\ a.id < b.id)

IsDue(a) == a.due <= clock

(* The order in which they were submitted. *)
Older(a, b) == a.id < b.id

(* The listing of S in an order, as a loop over the batch or the heap meets *)
(* its members: there is one.                                               *)
Listings(S, Less(_, _)) ==
    {s \in [1..Cardinality(S) -> S] : \A i, j \in DOMAIN s : i < j => Less(s[i], s[j])}

Event(kind, a, time) == [kind |-> kind, id |-> a.id, due |-> a.due, time |-> time]

Events(kind, actions, time) == [i \in DOMAIN actions |-> Event(kind, actions[i], time)]

DispatchPop ==
    /\ scheduler = "dispatch"
    /\ \E a \in pending :
          /\ IsDue(a) /\ \A b \in pending \ {a} : Before(a, b)
          /\ pending' = pending \ {a}
          /\ \/ /\ Late(a, clock)
                /\ outcomes' = Append(outcomes, Event("late", a, clock))
                /\ UNCHANGED scheduleVars
             \/ /\ ~Late(a, clock)
                /\ scheduler' = "tap" /\ action' = a /\ now' = clock
                /\ UNCHANGED outcomes
    /\ UNCHANGED <<endVars, pressed, held>> /\ ScheduleOnly

(* XTestKeyboard.tap takes the keyboard's own lock, until the key is up: the *)
(* display is open and the game has the focus.                               *)
DispatchCheck ==
    /\ ~keys_closed /\ focus = "game" /\ ScheduleGoes({"tap"}, "checked")
    /\ UNCHANGED <<pending, endVars, outcomes, pressed, held, action, now>> /\ ScheduleOnly

(* The key goes down for whoever has the focus now, *)
DispatchPress ==
    /\ ScheduleGoes({"checked"}, "down")
    /\ pressed' = Append(pressed, action.id)
    /\ UNCHANGED <<pending, endVars, outcomes, held, action, now>> /\ ScheduleOnly

(* and up, or it does not come up and tap raises. *)
DispatchRelease ==
    /\ \/ ScheduleGoes({"down"}, "tapped") /\ UNCHANGED <<held, action, now>>
       \/ ScheduleGoes({"down"}, "failing") /\ held' = TRUE /\ action' = NoAction /\ now' = 0
    /\ UNCHANGED <<pending, endVars, outcomes, pressed>> /\ ScheduleOnly

DispatchSent ==
    /\ ScheduleGoes({"tapped"}, "dispatch")
    /\ outcomes' = Append(outcomes, Event("sent", action, now))
    /\ action' = NoAction /\ now' = 0
    /\ UNCHANGED <<pending, endVars, pressed, held>> /\ ScheduleOnly

(* Faulty: the failure puts the action back in the heap. *)
DispatchFails_Requeues ==
    /\ ScheduleGoes({"tap", "tapped"}, "dispatch")
    /\ pending' = pending \cup {action}
    /\ action' = NoAction /\ now' = 0
    /\ UNCHANGED <<endVars, outcomes, pressed, held>> /\ ScheduleOnly

(* tap raises: the display is closed, the game lost the focus, the key does  *)
(* not go down, or the X server reports an error after the pair.             *)
DispatchFails ==
    /\ ScheduleGoes({"tap", "checked", "tapped"}, "failing")
    /\ action' = NoAction /\ now' = 0
    /\ UNCHANGED <<pending, endVars, outcomes, pressed, held>> /\ ScheduleOnly

DispatchEnds ==
    /\ ~(\E a \in pending : IsDue(a)) /\ ScheduleGoes({"dispatch"}, "wait")
    /\ UNCHANGED <<pending, endVars, outcomes, pressed, held, action, now>> /\ ScheduleOnly

(* _fail *)
ScheduleFails ==
    /\ ScheduleGoes({"failing"}, "ended")
    /\ error' = TRUE /\ stop' = TRUE
    /\ UNCHANGED <<pending, outcomes, pressed, held, action, now>> /\ ScheduleOnly

-----------------------------------------------------------------------------
(* The caller *)

CallOnly == UNCHANGED <<clock, pressed, error, captureVars, scheduleVars>>
KeysOnly == UNCHANGED <<held, focus>>

ObserveOnly == /\ UNCHANGED <<submitVars, pending, stop, closed, outcomes, keys_closed>>
               /\ CallOnly /\ KeysOnly

(* observe takes the latest frame, encodes it without _cv, and registers it. *)
ObserveTake ==
    /\ caller = "idle" /\ Free /\ Usable
    /\ latest.frame > last_returned
    /\ last_returned' = latest.frame
    /\ encoding' = latest
    /\ caller' = "encode"
    /\ UNCHANGED observations /\ ObserveOnly

(* Faulty: the frame is looked up again after the encoding. *)
ObserveStore_Latest ==
    /\ caller = "encode" /\ Free /\ Usable /\ Len(observations) < MaxObservations
    /\ observations' = Append(observations, latest)
    /\ encoding' = NoFrame
    /\ caller' = "idle"
    /\ UNCHANGED last_returned /\ ObserveOnly

ObserveStore ==
    /\ caller = "encode" /\ Free /\ Usable /\ Len(observations) < MaxObservations
    /\ observations' = Append(observations, encoding)
    /\ encoding' = NoFrame
    /\ caller' = "idle"
    /\ UNCHANGED last_returned /\ ObserveOnly

(* The bridge failed meanwhile, or has no room for the evidence. *)
ObserveRaises ==
    /\ caller = "encode" /\ Free
    /\ ~Usable \/ Len(observations) >= MaxObservations
    /\ encoding' = NoFrame
    /\ caller' = "idle"
    /\ UNCHANGED <<last_returned, observations>> /\ ObserveOnly

(* The game is given the focus before the space key is pressed.  The key may *)
(* not come up; then start raises, and may be tried again.                   *)
start ==
    /\ caller = "idle" /\ Free /\ Usable /\ ~started /\ ~keys_closed
    /\ focus' = "game"
    /\ \/ started' = TRUE /\ UNCHANGED held
       \/ held' = TRUE /\ UNCHANGED started
    /\ UNCHANGED <<observeVars, next_action, pending, stop, closed, outcomes,
                   keys_closed, caller>> /\ CallOnly

(* Faulty: only the actions already submitted are counted. *)
HasRoom_BeforeBatch(batch) ==
    Cardinality(pending) < MaxPending /\ next_action < MaxTotalActions

HasRoom(batch) ==
    /\ Cardinality(pending) + Len(batch) <= MaxPending
    /\ next_action + Len(batch) <= MaxTotalActions

(* The due times count from the receipt of the observation.  The bound keeps *)
(* them within the clock.                                                    *)
Proposals(observation, batch) ==
    [i \in DOMAIN batch |-> [due |-> observation.receipt + batch[i], id |-> next_action + i]]

submit(observation, batch) ==
    LET proposals == Range(Proposals(observation, batch))
        late == {a \in proposals : Late(a, clock)}
    IN
    /\ caller = "idle" /\ Free /\ Usable /\ started
    /\ HasRoom(batch)
    /\ \A a \in proposals : a.due <= MaxClock
    /\ next_action' = next_action + Len(batch)
    /\ pending' = pending \cup (proposals \ late)
    /\ \E dropped \in Listings(late, Older) :
          outcomes' = outcomes \o Events("late", dropped, clock)
    /\ UNCHANGED <<observeVars, started, stop, closed, keys_closed, caller>>
    /\ CallOnly /\ KeysOnly

Submit ==
    \E i \in DOMAIN observations : \E batch \in BoundedSeq(Delays, MaxBatch) :
        batch # <<>> /\ submit(observations[i], batch)

CloseOnly == UNCHANGED <<observeVars, submitVars, focus>> /\ CallOnly

(* Faulty: keys that are down stay down. *)
KeysClose_Held ==
    /\ scheduler \notin {"checked", "down"}
    /\ keys_closed' = TRUE /\ UNCHANGED held

(* XTestKeyboard.close lets go of the keys; it waits for the lock of tap.   *)
KeysClose ==
    /\ scheduler \notin {"checked", "down"}
    /\ keys_closed' = TRUE /\ held' = FALSE

CloseBegin ==
    /\ caller = "idle" /\ Free /\ ~closed
    /\ stop' = TRUE
    /\ caller' = "joining"
    /\ UNCHANGED <<pending, closed, outcomes, held, keys_closed>> /\ CloseOnly

Joined == capture = "ended" /\ scheduler = "ended"

(* Faulty: the rest of the heap is forgotten. *)
CloseDrain_Silent ==
    /\ caller = "joining" /\ Joined
    /\ pending' = {} /\ UNCHANGED outcomes
    /\ KeysClose /\ closed' = TRUE
    /\ caller' = "idle"
    /\ UNCHANGED stop /\ CloseOnly

CloseDrain ==
    /\ caller = "joining" /\ Joined
    /\ pending' = {}
    /\ \E dropped \in Listings(pending, Before) :
          outcomes' = outcomes \o Events("closed", dropped, clock)
    /\ KeysClose /\ closed' = TRUE
    /\ caller' = "idle"
    /\ UNCHANGED stop /\ CloseOnly

(* A thread is still alive after the join timed out. *)
CloseGivesUp ==
    /\ caller = "joining" /\ ~Joined
    /\ KeysClose
    /\ caller' = "idle"
    /\ UNCHANGED <<pending, closed, outcomes, stop>> /\ CloseOnly

-----------------------------------------------------------------------------
Capture == CaptureReceive \/ CaptureStore \/ CaptureFails \/ CaptureEnds

Dispatch == DispatchPop \/ DispatchCheck \/ DispatchPress \/ DispatchRelease \/ DispatchSent
            \/ DispatchFails \/ DispatchEnds

Schedule == ScheduleTurn \/ ScheduleLocks \/ ScheduleEnds \/ ScheduleWakes \/ ScheduleFails

Observe == ObserveTake \/ ObserveStore \/ ObserveRaises

Close == CloseBegin \/ CloseDrain \/ CloseGivesUp

Next == Tick \/ FocusMoves \/ Capture \/ Dispatch \/ Schedule \/ Observe \/ start \/ Submit \/ Close

Spec == Init /\ [][Next]_vars

(* The clock and the threads go on, a close that began returns.  Nothing    *)
(* makes a caller close, a frame come or a thread fail.                     *)
Fairness ==
    /\ WF_vars(Tick)
    /\ WF_vars(Dispatch) /\ WF_vars(Schedule)
    /\ WF_vars(CaptureStore) /\ WF_vars(CaptureEnds)
    /\ WF_vars(CloseDrain)

FairSpec == Spec /\ Fairness

-----------------------------------------------------------------------------
FrameType  == [frame : 0..MaxFrames, receipt : 0..MaxClock]
ActionType == [due : 0..MaxClock, id : 0..MaxTotalActions]

(* The state keeps its shape, and the heap, the evidence of observations   *)
(* and the number of actions stay within the limits that submit and        *)
(* observe check.                                                          *)
TypeOK ==
    /\ clock \in 0..MaxClock /\ receipt \in 0..MaxClock /\ now \in 0..MaxClock
    /\ {latest, encoding} \subseteq FrameType /\ last_returned \in 0..MaxFrames
    /\ observations \in BoundedSeq(FrameType, MaxObservations)
    /\ pending \subseteq ActionType /\ Cardinality(pending) <= MaxPending
    /\ action \in ActionType /\ next_action \in 0..MaxTotalActions
    /\ {started, stop, closed, error, held, keys_closed} \subseteq BOOLEAN
    /\ \A i \in DOMAIN outcomes : outcomes[i].kind \in {"sent", "late", "closed"}
    /\ pressed \in Seq(1..MaxTotalActions)
    /\ capture \in {"loop", "frame", "ended"}
    /\ scheduler \in {"loop", "locking", "dispatch", "tap", "checked", "down", "tapped",
                     "failing", "wait", "ended"}
    /\ focus \in {"game", "other"}
    /\ caller \in {"idle", "encode", "joining"}

Failed == error \/ scheduler = "failing"

Pending(id) == \E a \in pending : a.id = id
OutcomesOf(id) == {i \in DOMAIN outcomes : outcomes[i].id = id}
Places(id) == (IF Pending(id) THEN 1 ELSE 0) + (IF action.id = id THEN 1 ELSE 0)
              + Cardinality(OutcomesOf(id))

(* The evidence accounts for every action that was accepted, whatever       *)
(* threads fail or close gives up on: it waits, it is being dispatched, or  *)
(* exactly one event says what became of it.  Only the failure of the key   *)
(* press itself leaves one action, and no more, without an event.           *)
Accounted ==
    LET lost == {id \in 1..next_action : Places(id) = 0} IN
    /\ \A id \in 1..next_action : Places(id) <= 1
    /\ Cardinality(lost) <= 1
    /\ lost # {} => Failed

SentAmong(n) == {i \in 1..n : outcomes[i].kind = "sent"}

(* The action_sent events are the keys that went down, in their order: the  *)
(* n-th names the key pressed n-th.  At most one key, the last, has no      *)
(* event: the scheduler is about to write it or the press failed when the   *)
(* key had gone down.                                                       *)
EvidenceMatchesKeys ==
    LET sent == SentAmong(Len(outcomes))
        Nth(i) == Cardinality(SentAmong(i))
    IN
    /\ \A i \in sent : Nth(i) \in DOMAIN pressed /\ pressed[Nth(i)] = outcomes[i].id
    /\ Len(pressed) \in Cardinality(sent)..(Cardinality(sent) + 1)
    /\ Len(pressed) > Cardinality(sent) => scheduler \in {"down", "tapped"} \/ Failed

(* No action is sent early or more than LATE_NS late by the recorded time,  *)
(* none is dropped for lateness that was not late, whether at submission or *)
(* at dispatch, and none for a close that has not begun.                    *)
Punctual ==
    \A event \in Range(outcomes) :
        CASE event.kind = "sent"   -> event.time \in event.due..(event.due + LateTicks)
          [] event.kind = "late"   -> event.time > event.due + LateTicks
          [] event.kind = "closed" -> stop

(* Every observation shows a newer frame than the one before, though the    *)
(* capture thread replaces the frame while it is encoded.                   *)
ObservationsFresh ==
    \A i, j \in DOMAIN observations : i < j =>
        /\ observations[i].frame < observations[j].frame
        /\ observations[i].receipt <= observations[j].receipt

(* Keys go down in the order of their due times: none overtakes an action   *)
(* that waits in the heap, whatever batch that came with.                   *)
PressesInOrder ==
    [][pressed' # pressed => \A a \in pending :
          action.due < a.due \/ (action.due = a.due /\ action.id < a.id)]_vars

(* Once the keyboard is closed no key goes down or is down, not even by the *)
(* worker that close gave up on; once the bridge is closed its evidence is  *)
(* final.                                                                   *)
ClosedIsFinal ==
    [][/\ keys_closed => pressed' = pressed /\ ~held' /\ scheduler' # "down"
       /\ closed => UNCHANGED <<pending, outcomes, observations, next_action>>]_vars

(* Keys never go down for another window: losing the focus fails closed.    *)
(* (The focus is checked, and then the key is pressed.)                     *)
NeverTypesElsewhere == [][pressed' # pressed => focus = "game"]_vars

(* Every accepted action gets its event, unless the bridge fails or a close *)
(* gives up on a worker: then the events stay pending until another close.  *)
EveryActionResolved ==
    \A id \in 1..MaxTotalActions :
        id <= next_action ~> \/ OutcomesOf(id) # {}
                              \/ Failed
                              \/ (keys_closed /\ ~closed)
=============================================================================
