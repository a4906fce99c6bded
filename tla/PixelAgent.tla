------------------------------ MODULE PixelAgent -----------------------------
(***************************************************************************)
(* The pixel agent of examples/pixel_agent.cpp in its "pixel" mode: the    *)
(* main thread reads frames, follows the phase and turns the notes it sees *)
(* into tracks; the scheduler thread taps them when they are due.          *)
(*                                                                         *)
(* The game is outside: its notes are due at fixed times of the agent's    *)
(* clock, and a frame shows some of them, each at a place that is off by   *)
(* the age of the picture.  Times are whole units, averages rounded down.  *)
(***************************************************************************)
EXTENDS Integers, Sequences, FiniteSets, SequencesExt

CONSTANTS
    Notes,           \* the notes of the game, as [lane, at]
    PhaseStart,      \* when the game is waiting, scored, finished
    Travel,          \* how long before it is due a note is in sight
    Window,          \* observations this near are of one note (18 ms)
    LateLimit,       \* a note first seen later than this is left (8 ms)
    MaxGap,          \* a frame that comes after more than this is stale (25 ms)
    Error,           \* how far off a note is in a timely frame
    Corrections,     \* bound: what calibration may find
    MaxTime          \* bound: the safety limit (75 s)

(* Observations of one note are near each other, and of two notes of a lane *)
(* are not: the generator locks a lane for longer than the window.          *)
ASSUME PixelAssumption ==
    /\ {Travel, Window, LateLimit, MaxGap, Error, MaxTime} \subseteq Nat
    /\ Corrections \subseteq Int
    /\ IsFiniteSet(Notes) /\ Notes \subseteq [lane : Nat, at : Nat]
    /\ 2 * Error < Window
    /\ \A m, n \in Notes : m # n /\ m.lane = n.lane =>
          m.at - n.at >= Window + 2 * Error \/ n.at - m.at >= Window + 2 * Error

VARIABLES
    now, previous, last_receipt, sampled,
    tracks, next_track, correction, calibration_applied, stop,
    failed, complete, main, sched, chosen

frameVars == <<previous, last_receipt, sampled>>
trackVars == <<tracks, next_track>>
calVars   == <<correction, calibration_applied>>
schedVars == <<sched, chosen>>
vars == <<now, frameVars, trackVars, calVars, stop, failed, complete, main,
          schedVars>>

Lanes  == {n.lane : n \in Notes}

(* What the game is at: "calibration" stands for all that precedes WAIT. *)
GamePhase == CASE now >= PhaseStart.finished -> "finished"
               [] now >= PhaseStart.scored   -> "scored"
               [] now >= PhaseStart.waiting  -> "waiting"
               [] OTHER                      -> "calibration"

Near(a, b) == a - b < Window /\ b - a < Window
NoTrack == [lane |-> 0, target |-> 0]

Init ==
    /\ now = 0
    /\ previous = "unknown" /\ last_receipt = 0 /\ sampled = FALSE
    /\ tracks = [l \in Lanes |-> <<>>] /\ next_track = [l \in Lanes |-> 1]
    /\ correction = 0 /\ calibration_applied = FALSE /\ stop = FALSE
    /\ failed = FALSE /\ complete = FALSE
    /\ main = "reading" /\ sched = "choosing" /\ chosen = NoTrack

Tick ==
    /\ now < MaxTime /\ main # "ended"
    /\ now' = now + 1
    /\ UNCHANGED <<frameVars, trackVars, calVars, stop, failed, complete,
                   main, schedVars>>

-----------------------------------------------------------------------------
(* PhaseTracker::observe.  A whole frame shows the label of the phase, and  *)
(* the bare playfield when the game is scored; a damaged one shows neither. *)

Phase(whole) ==
    IF whole /\ GamePhase # "scored" THEN GamePhase
    ELSE IF whole /\ previous \in {"waiting", "scored"} THEN "scored"
    ELSE "unknown"

(* observe, for one note of a lane *)

Track(note, target) ==
    [note |-> note, target |-> target, observations |-> 1, seen |-> TRUE, tapped |-> FALSE]

LowerBound(ts, target) ==
    CHOOSE i \in 1..(Len(ts) + 1) :
        /\ \A j \in 1..(i - 1) : ts[j].target < target
        /\ i <= Len(ts) => ts[i].target >= target

(* The place of the track the observation belongs to, or 0. *)
Match(ts, target) ==
    LET i == LowerBound(ts, target) IN
    IF i <= Len(ts) /\ Near(ts[i].target, target) THEN i
    ELSE IF i > 1 /\ Near(ts[i - 1].target, target) THEN i - 1 ELSE 0

(* Once per frame: seen stands for last_receipt_ms being that of the frame. *)
(* More observations than Window - 1 leave the average where it is.         *)
Averaged(t, target) ==
    IF t.seen THEN t
    ELSE [t EXCEPT !.target = @ + (target - @) \div (t.observations + 1),
                   !.observations = IF @ < Window - 1 THEN @ + 1 ELSE @, !.seen = TRUE]

(* Faulty: new tracks go to the end. *)
Place_Last(ts, target) == Len(ts) + 1

Place(ts, target) == LowerBound(ts, target)

(* Faulty: the cursor stays. *)
Pulled_Not(next, place) == next

(* An insertion before the cursor of the lane takes it back. *)
Pulled(next, place) == IF place < next THEN place ELSE next

(* s has the tracks and the cursors; o is what is seen. *)
Observe(s, o) ==
    LET l  == o.note.lane
        ts == s.tracks[l]
        m  == Match(ts, o.target)
        p  == Place(ts, o.target)
    IN  IF m # 0 THEN [s EXCEPT !.tracks[l][m] = Averaged(@, o.target)]
        ELSE IF o.target < now - LateLimit THEN s
        ELSE [s EXCEPT !.tracks[l] = InsertAt(@, p, Track(o.note.at, o.target)),
                       !.next[l] = Pulled(@, p)]

(* use_for_tracking *)
UseForTracking_Always(receipt) == TRUE

UseForTracking(receipt) == last_receipt = 0 \/ receipt - last_receipt <= MaxGap

(* A picture that comes after a stall may be as old as the stall: its notes *)
(* are higher, which makes them seem due later.                             *)
Off == LET age == now - last_receipt
       IN  -Error .. (IF last_receipt # 0 /\ age > MaxGap THEN age ELSE Error)

InSight == {n \in Notes : n.at - now <= Travel /\ now - n.at <= LateLimit}

Sightings == UNION {{[n \in seen |-> n.at + off[n]] : off \in [seen -> Off]} :
                       seen \in SUBSET InSight}

(* One observation after the other. *)
Observed(os) == FoldLeft(Observe, [tracks |-> tracks, next |-> next_track], os)

Tracked(sighting) ==
    LET os == {[note |-> n, target |-> sighting[n]] : n \in DOMAIN sighting}
        s  == Observed(SetToSeq(os))
    IN  /\ tracks' = [l \in Lanes |-> [i \in DOMAIN s.tracks[l] |->
                                         [s.tracks[l][i] EXCEPT !.seen = FALSE]]]
        /\ next_track' = s.next

CalibrationEnds(phase) == phase \in {"waiting", "scored", "finished"}

Calibrate(phase) ==
    IF CalibrationEnds(phase) /\ ~calibration_applied
    THEN /\ correction' \in (IF sampled THEN Corrections ELSE {0})
         /\ calibration_applied' = TRUE
    ELSE UNCHANGED calVars

(* A frame: tracks, calibration and stop change under the lock. *)
Frame(whole) ==
    /\ main = "reading" /\ ~failed /\ now < MaxTime /\ now > last_receipt
    /\ last_receipt' = now
    /\ Phase(whole) # "unknown"
    /\ previous' = Phase(whole)
    /\ sampled' \in (IF Phase(whole) = "calibration" THEN {sampled, TRUE} ELSE {sampled})
    /\ IF UseForTracking(now) THEN \E sighting \in Sightings : Tracked(sighting)
       ELSE UNCHANGED trackVars
    /\ Calibrate(Phase(whole))
    /\ complete' = (Phase(whole) = "finished")
    /\ stop' = complete'
    /\ main' = IF complete' THEN "leaving" ELSE "reading"
    /\ UNCHANGED <<now, failed, schedVars>>

UnreadableFrame(whole) ==
    /\ main = "reading" /\ ~failed /\ now < MaxTime /\ now > last_receipt
    /\ Phase(whole) = "unknown"
    /\ last_receipt' = now
    /\ UNCHANGED <<now, previous, sampled, trackVars, calVars, stop, failed,
                   complete, main, schedVars>>

ReadFails ==
    /\ main = "reading" /\ ~failed /\ now < MaxTime
    /\ failed' = TRUE /\ main' = "leaving"
    /\ UNCHANGED <<now, frameVars, trackVars, calVars, stop, complete, schedVars>>

MainGivesUp ==
    /\ main = "reading" /\ (failed \/ now = MaxTime)
    /\ main' = "leaving"
    /\ UNCHANGED <<now, frameVars, trackVars, calVars, stop, failed, complete,
                   schedVars>>

MainStops ==
    /\ main = "leaving" /\ main' = "joining"
    /\ stop' = TRUE
    /\ UNCHANGED <<now, frameVars, trackVars, calVars, failed, complete, schedVars>>

MainJoins ==
    /\ main = "joining" /\ sched = "ended" /\ main' = "ended"
    /\ UNCHANGED <<now, frameVars, trackVars, calVars, stop, failed, complete,
                   schedVars>>

-----------------------------------------------------------------------------
(* schedule *)

(* The cursor of a lane steps over the tapped tracks. *)
Cursor(l) == CHOOSE i \in next_track[l]..(Len(tracks[l]) + 1) :
                /\ i <= Len(tracks[l]) => ~tracks[l][i].tapped
                /\ \A j \in next_track[l]..(i - 1) : tracks[l][j].tapped

Waiting == {l \in Lanes : Cursor(l) <= Len(tracks[l])}

Best(l) == tracks[l][Cursor(l)]

(* The lane whose next track is due first, the lowest of them. *)
Chosen == CHOOSE l \in Waiting : \A k \in Waiting :
             Best(l).target < Best(k).target \/ (Best(l).target = Best(k).target /\ l <= k)

Due == Waiting # {} /\ Best(Chosen).target + correction <= now

SchedulerStops ==
    /\ sched = "choosing" /\ stop
    /\ sched' = "ended"
    /\ UNCHANGED <<now, frameVars, trackVars, calVars, stop, failed, complete,
                   main, chosen>>

SchedulerChooses ==
    /\ sched = "choosing" /\ ~stop
    /\ next_track' = [l \in Lanes |-> Cursor(l)]
    /\ \/ ~Due /\ UNCHANGED <<tracks, sched, chosen>>
       \/ /\ Due
          /\ tracks' = [tracks EXCEPT ![Chosen][Cursor(Chosen)].tapped = TRUE]
          /\ chosen' = [lane |-> Chosen, target |-> Best(Chosen).target]
          /\ sched' = "tapping"
    /\ UNCHANGED <<now, frameVars, calVars, stop, failed, complete, main>>

(* cl_tap, tried again while it would block; then it is given up. *)
SchedulerTaps ==
    /\ sched = "tapping"
    /\ chosen' = NoTrack
    /\ \/ sched' = "choosing" /\ UNCHANGED failed
       \/ sched' = "ended" /\ failed' = TRUE
    /\ UNCHANGED <<now, frameVars, trackVars, calVars, stop, complete, main>>

-----------------------------------------------------------------------------
Main == \/ \E whole \in BOOLEAN : Frame(whole) \/ UnreadableFrame(whole)
        \/ ReadFails \/ MainGivesUp \/ MainStops \/ MainJoins

Scheduler == SchedulerStops \/ SchedulerChooses \/ SchedulerTaps

Next == Tick \/ Main \/ Scheduler

Spec == Init /\ [][Next]_vars

-----------------------------------------------------------------------------
(* Properties. *)

(* However late, damaged or stale the frames, a note has one track, so the  *)
(* agent taps it once; stale pixels of a note that has been hit, or of a    *)
(* picture taken before a stall, do not make another.  The tracks of a lane *)
(* stay in order while averaging moves them, as the binary search needs.    *)
OneTrackPerNote ==
    \A l \in Lanes : \A i, j \in DOMAIN tracks[l] :
        i < j => /\ tracks[l][i].note # tracks[l][j].note
                 /\ tracks[l][i].target < tracks[l][j].target

(* The cursors never hide a track: what the scheduler takes is the earliest *)
(* of all the tracks that are not tapped, a recovered one included.         *)
EarliestFirst ==
    [][sched = "choosing" /\ sched' = "tapping" =>
          \A l \in Lanes : \A i \in DOMAIN tracks[l] :
              tracks[l][i].tapped \/ chosen'.target <= tracks[l][i].target]_vars

=============================================================================
