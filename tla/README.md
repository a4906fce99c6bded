# A TLA+ verification of CHERS

CHERS is a visual rhythm benchmark. A program plays a hardware-random chart of
notes for about a minute; a human in its window or a client process that sees
only rendered frames taps lanes; every tap is judged in nanoseconds against the
chart, and the run leaves a report that a separate program can verify. This
directory models that program in TLA+, checks the models with TLC and proves
theorems about all of them with TLAPS. Paths below are paths of the
repository, and `PROJECT.json` gives for each definition the lines it stands for.

## 1. The system

| Component | Source | State it keeps | Operations | Talks to |
|---|---|---|---|---|
| Judgement engine | `src/core.cpp`, `include/chronolane/core.hpp` | chart, one cursor per lane, input log, last feedback per lane, last input time, reason of invalidity | constructor checks, `hit`, `invalidate`, `results` | called by the session under `core_mutex` |
| Chart generator | `src/core.cpp` (`generate_chart`, `uniform_below`) | chart so far, end of each lane's lock, statistics | one attempt after another, per stage | random source; its chart goes to the engine's constructor |
| Hardware random source | `src/core.cpp` | none | `next`, which fails after bounded retries | chart generator |
| Frame and input transport | `src/ipc.cpp`, `src/client.cpp`, `include/chers/client.h` | three shared frame slots, a lease, one client socket, deferred events; in the library the last sequence and two flags | `publish`, `poll`, `cl_connect`, `cl_read_frame`, `cl_tap`, close | render thread, input thread, a client process |
| Run session | `src/main.cpp` | origin, `finished`, `running`, human queue, report | `start`, `tap`, `abort`, `enqueue`, `input_loop`, `model_loop`, `main`, `save_results` | engine, transport, SDL events, signals |
| Timing statistics | `src/main.cpp` (`Timing`, `distribution`, `save_results`) | samples of three kinds | summaries and files of a run | session, verifier |
| Verifier | `tools/verify_run.py` | cursors and counts of its own replay | replay of notes, log and summaries, of the timing samples, verdict | the files of a finished run |
| Native vision bridge | `examples/codex_vision_bridge.py` | latest frame, observations, heap of actions, evidence, error | `observe`, `start`, `submit`, `close`, capture and scheduler threads | client library, X11 keyboard, evaluation runner |
| App-server client | `examples/codex_appserver_client.py` | message queue, deferred messages, next request number | `request`, `call`, `receive`, `respond`, `models`, `start_thread`, `close` | a model process over pipes |
| Evaluation runner | `tools/run_codex_evaluations.py` | thread and turn of a trial, time of START and of the last image, report; over all trials the list of summaries | `main`, `probe_vision`, `run_trial`, which launches, plays and cleans up | app-server client, bridge, game, verifier |
| Report writer | `tools/report_codex_runs.py` | rows, and the row selected for each configuration | `summarize_run`, `select_runs`, `generate_report` | the records the runner left |
| Pixel agent | `examples/pixel_agent.cpp` | phase tracker, tracks and a cursor per lane, calibration | `observe` and the frame loop, `schedule` | client library |
| Renderer, example clients | `src/render.cpp`, `examples/client.c`, `examples/python_client.py` | none of their own | pure conversions and thin wrappers | – |

What is hard, component by component, and what makes it correct:

- **Engine.** A cursor only moves forward, so one wrong skip loses a note for
  the whole run; both ends of the windows are inclusive while stages are
  half-open; counters are unsigned. It is correct when every tap takes the
  earliest note it may take, no note is scored twice, the log can be replayed,
  and an invalid run is frozen.
- **Generator.** A draw may round to zero, a lane is released exactly at the end
  of its lock, and locks outlive the calibration stage. It is correct when the
  constructor accepts every chart, the reserved space suffices, generation ends, and no lane is favoured.
- **Transport.** The client shares no lock with the server. It may time out with
  a request outstanding, find no room for its release, be lapped, or vanish and
  return in the middle of a poll. It is correct when a frame returned is one
  whole frame, newer than the last; when taps arrive in order, once; when both
  sides keep the protocol; and when a read is answered.
- **Session.** Three threads, a signal handler and two sources of input race for
  the end of a run. It is correct when a run has one report, when the verdict
  does not change after completion, when the exit code and the report agree and
  when the process does end.
- **Verifier and timing statistics.** Its matching differs from the engine's (by
  age only), and so does its arithmetic from that of `distribution`. It is
  correct when it accepts what the game saves and notices what was altered.
- **Bridge.** Presses of keys and the evidence about them cannot be one step; a
  press may fail after the key is down, the focus may move between the check and
  the press, and `close` may give up on a worker. It is correct when the evidence
  accounts for every action and tells which keys went down, in order, and when no
  key stays down.
- **App-server client and evaluation runner.** One queue carries the answers, the
  tool calls and the end of turns of every trial; a call defers what it does not
  wait for, an answer may come after its call timed out, and every step of a
  trial and of its clean-up may fail. It is correct when a trial ends, leaves a
  game, a bridge or a turn behind only if stopping it raised, acts on messages of
  its own thread only, and is published only if all of it was good; and when the
  campaign ends and lists every trial, all but the last one if it is broken off
  between the trial's own record and the list.
- **Report writer.** Attempts are repeated, and what decides about a run is
  said, partly twice, in four files. It is correct when the number published for
  a configuration is that of its first sound attempt, and when no one of the
  files, rewritten, can publish evidence the verifier would not have passed.
- **Pixel agent.** Frames are late, damaged or stale and measurements are off;
  two threads share tracks that move while a cursor steps over them. It is
  correct when a note has one track and the earliest track is always tapped.

`PROJECT.json` lists each hazard at its line, with the properties that catch it.

## 2. The modules

| Module | Models | Builds on |
|---|---|---|
| `Timeline` | timing constants, stages, `input_stage`, the chart checks | – |
| `Judge` | abstract: what the engine promises, without cursors | `Timeline` |
| `Engine` | `class Engine` | `Timeline`, instance of `Judge` |
| `ChartGen` | `generate_chart`, `uniform_below`, random source | `Timeline` |
| `FrameMailbox` | abstract: what the frame channel promises a reader | – |
| `FrameTransport` | `Server` and the client library over one socket | instance of `FrameMailbox` |
| `Session` | `App` and `main` | – |
| `Replay` | `save_results` and the replay of `verify_run.py` behind a played engine | `Engine` |
| `Audit` | the rest of `verify_run.py`, against `distribution` and `save_results` | – |
| `Report` | the records of a run and `report_codex_runs.py` | `Audit` |
| `VisionBridge` | `NativeVisionBridge`, `XTestKeyboard` and a desktop | – |
| `AppServer` | the queue and `call`, over an external process | – |
| `Client` | abstract: what the users of one `AppServer` keep to | `AppServer` |
| `Trial` | `run_trial`, with game and bridge | `AppServer`, instance of `Client` |
| `Campaign` | `main` and `probe_vision`; trials are any clients | `Client` |
| `PixelAgent` | `PhaseTracker`, `observe`, the frame loop, `schedule` | – |
| `EngineProofs` | theorems about `Engine`, then about `Replay` | `Replay` |
| `RunProofs` | theorems about `ChartGen`, then about `Session` | both |
| `TransportProofs`, `BridgeProofs`, `TrialProofs`, `ReportProofs`, `PixelProofs` | theorems about `FrameTransport`, `VisionBridge`, `Trial`, `Report`, `PixelAgent` | that module |
| `CampaignProofs` | theorems about `Client`, then about `Campaign` | `Campaign` |
| `MCEngine`, `MCReplay`, `MCReport`, `MCCampaign`, `MCPixelAgent` | values of constants for TLC | the module of that name |

### Engine and Judge

A call of `hit` or `invalidate` is one step, since callers serialise them
(`core.hpp`: single-threaded core). `hit` has one action per path through it:
invalid run, backwards time, outside the stages, log full, judged. The vector
`lane_notes_` and its cursor become a chart position: `StopsAt` says where the
code's `while` stops, and `HitJudged` performs everything up to the return.
Arithmetic on scores is left to `Replay`, which compares it with the verifier's.
`missed` keeps the counters' width with `% WordSize`.

`Judge` is `docs/ARCHITECTURE.md`'s promise in a few lines: a tap takes the
earliest free note of its lane within the good window. `ImplementsJudge` is the
refinement, with `taken` mapped to the consumed notes; it is checked and proved.

### ChartGen

One action is one attempt of the inner loop: any wait, any random word. The
exponential variate is abstracted to any rounded wait up to `MaxWait`, and
`-bound % bound` is computed modulo `Words`. Running out of random retries ends
in `Fail`, as the exception does. The behaviour is called `ChartSpec`, with
`ChartInit` and `ChartNext`, so that a module can extend `ChartGen` and `Session`.

### FrameTransport and FrameMailbox

Render thread, input thread, reader and tapper take steps of their own. `publish`
and `poll` are several steps with the mutex held, so the client's steps fall
in between. A slot holds the frame number in each of its two halves, so a torn
copy is visible in the state. The socket is external: two queues of packets, a
hang-up, a reset; `QueueLength` packets fit, which is where sends find no room.
The refinement of `FrameMailbox` maps a torn frame to an impossible value.
Packets no call of the library sends, credentials and the set-up of the mapping
are left out.

### Session

A step is what a thread does between two points at which another thread can see
or change what they share: `abort` looks at `finished`, later takes the lock,
later clears `running`, as in the code. Of the engine only the reason, the last
input time and the number of records are kept (`Engine` has the rest). Saving
throws before or after the report is complete.

### Replay

The engine is played by `Engine!Next`; `Save` writes the log, intact or with one
row altered, lost, repeated or exchanged with its neighbour, and the summaries
of `results`. The verifier then checks `notes.csv`, replays row by row with its
own cursors, and compares the sums. It records all errors; the model stops at the
first, since one error is enough for the verdict. `ReplayAssumption` asks of the
charts what `generate_chart` makes true: notes are numbered from zero, and a counter
can count them. `ReplayableCorrect` proves both of `ChartGen`.

### Audit and Report

`Audit` has no state: `Saved` is a run's directory as far as it concerns timing,
generation and flags, `distribution` the game's summary of samples, `recomputed`
the verifier's, `passed` its verdict. Durations are ticks far enough apart for the
verifier's tolerance, so equality stands for `isclose`; a mean is kept as a sum.
What `Replay` is about is one Boolean here. A violation of the format raises
`EvidenceError`, which fails the audit like an inconsistency does.

`Report` lets attempts follow each other: one starts in a directory of any name,
the game may save, the verifier judges, `run.json` is written. A fault damages
one place of a game's directory before the verdict, or rewrites one of the four
files of a run after it, with any values for all that the report reads in it:
`run.json` holds the configuration, the time, the status, the verdict and
`publishable`, `result.json` the flags and the notes, `verification.json` the
verdict again, `bridge.json` the input route. Which file `run.json` names as the
result is taken as fixed. Three values stand in no file and are only compared
with: whether the evidence, as verified, is such as a completed and valid game
saves (`genuine`), whether the attempt was completed too (`sound`), and what was
edited since. Reading the records is one step per row, in the order of
`select_runs`.

### VisionBridge

Critical sections of `_cv` are single steps, except `_dispatch_due`, which keeps
the lock while it presses keys, the clock goes on and `close` may give up. The
scheduler looks at `_stop` before it takes the lock, the capture thread stamps a
frame before it stores it, and `observe` encodes without the lock; each of these
is a pair of steps. A key press is four: the check of the focus, the key down, the
key up, the event. It may fail at each, and the key may stay down; `close` of the
keyboard waits for the lock a press holds and lets go of keys. The focus belongs
to the desktop and moves at any time; `start` gives it to the game. The events that
one `submit` or `close` writes are a listing of a set of actions in the order in
which the code meets them.

### AppServer, Client, Trial and Campaign

The process answers any request, in any order, late or never, or refuses it; its
turns send tool calls, errors and other requests and end by themselves. A message
is its kind, its thread and its place in the order of receipt, which stands for
the reader thread's time stamp: `run_trial` compares it with the time the last
image was returned. `call` takes one message per step, so the process interleaves
with it; its deadline may pass at any time. Notifications that `run_trial` only
records are left out.

`Client` says what `run_trial` and `probe_vision` have in common: one thread, its
turns one after the other, tool calls of that thread answered one at a time, and
on the way out the interruption of the last turn known. `ImplementsClient` shows
that `Trial` is such a client, so `Campaign` need not have the trial's inside:
its trials are *any* clients, its preflight is a client spelt out, and `main`
runs around both: the constructor and the pages of the catalog, directories made
and found to be there, efforts looked up, the list of summaries and the index
written from it, and `close`. A trial's `run.json` (`RecordTrial`) and the list
(`EndTrial`) are written in two steps. Whatever leaves `main` is one of four
ends: the campaign is finished, aborted by one of `main`'s own checks or calls,
not even connected, or broken off (`BreakOff`). The last stands for a
`KeyboardInterrupt`, which neither `run_trial` nor `probe_vision` catches, and
for a file that cannot be written, between any two steps of `main` and after a
client has cleaned up; if the index was being written it is cut short, and is
then taken as empty. In the middle of a client an interrupt is a `GiveUp`.

`Trial` adds one phase per point at which `run_trial` waits or may raise, and
the `finally` block in its order. Game and bridge are other programs here: the
game exits with 0 only when the started trial is over, and may fail after it has
saved a valid result (`main.cpp:427`); the bridge may fail at any time and may
not close; and `terminate` or `wait` may raise, so that the game goes on and
`cleanup_errors` says so. What raises is an `Exception`: an interrupt from the
keyboard that hits the `finally` block itself, and leaves out the rest of it, is
not in `Trial`. A game that an earlier trial left is not followed further. Writing to the pipe of the server either returns or raises. `elapsed` abstracts the clock to the intervals the code
tells apart (120 s to START, 61.04 s of trial, 66 s to the end).

### PixelAgent

A frame shows any part of the notes in sight, each off by up to `Error`; a frame
after a stall shows them as they were. `PixelAssumption` says why matching by
nearness can work: observations of one note are nearer than the window, notes of
one lane farther apart. Target averages are rounded down to ticks, and
observations beyond `Window - 1` are not counted, since they no longer move the
rounded average. Track numbers, which only reach the logs, are replaced by the
note a track was made for, which the code does not know and no action reads.
The scheduler marks a track under the lock and taps after releasing it.

## 3. The runs

| Run | Shows | Bounds, and why they are enough |
|---|---|---|
| `engine` | judgement, log, freezing, refinement of `Judge` | windows 1 and 2, lock 4, so that the windows of neighbours in a lane touch as 20 ms and 40 ms do; five accepted charts with notes at the ends of both stages and windows that meet, three the constructor must refuse; times at, just inside and just outside every boundary; a log of three, so that it overflows |
| `chart` | every random word and wait | three lanes, so that the rejection in `uniform_below` happens for one to three eligible lanes of eight words; stages of one and two locks; waits from zero to the length of a stage |
| `transport` | whole frames, order of taps, protocol, capacity of deferral (in `TypeOK`), and that a waiting read is answered | five frames, more than the three slots, so the publisher laps a reader; three taps for two socket places and two messages per poll, so that sends block and a poll overflows; two connections |
| `tap_dropped` | the first finding below | one tap, one connection |
| `session` | one report, frozen verdict, exit code, order of taps, and that a completed trial is reported or the process fails | completion at tick 1 of 2, so that every step falls before or after it; two socket events, two keys, a human queue of one, so that it overflows |
| `replay` | verifier against engine | two charts, a log of three rows, every single damage of it |
| `bridge` | evidence against key presses, each action resolved | late after one tick, delays zero and two; a queue of two, batches of two and two actions in all, so that a second batch exceeds each limit; two frames and two observations |
| `focus_lost` | the second finding below | one action, one tick |
| `trial` | end, clean-up, with each step of it failing, and publication of a trial; it is a `Client` | one trial, two messages the process sends unasked or late: enough for an error and START, or for a turn that ends and another that begins |
| `campaign` | threads of one server stay apart, the index however the campaign ends, the end | two models with two efforts each; catalogs on one page and two, in which a model is missing, has one effort only, or lacks the low one; three messages unasked or late: a turn that is not stopped, its tool call, and a message in the thread that takes it. A deadline ends a wait by fairness, so messages need not keep coming for that |
| `report` | genuine runs pass, only genuine ones are published, the first is | two attempts at any of two configurations, in directories named either way round; one fault, in any place of the evidence or with any values in one file of the records; recordings of none to three samples, with and without a long gap |
| `pixel` | one track per note, earliest first | two lanes; two notes of a lane as near as they may be, one between; errors of one tick, a window of three; a correction large enough to tap a note before an earlier one is found |

Deadlock is checked except in `bridge`, `focus_lost`, `trial`, `campaign`,
`report` and `pixel`, where a closed bridge, the last trial, the end of the
campaign, the last attempt or the agent leaves nothing more to do. Every
property of a passing run has a mutant: an operator that changes one definition
as a plausible bug would (named `<definition>_<bug>`, marked "Faulty"), under
which TLC finds the property violated.

### Fairness

- `FrameTransport`: the input thread polls in a loop (`main.cpp`, `input_loop`),
  so its steps are weakly fair, as are the end of a publication that began and
  the reader taking a packet that is there. The send of a reply is strongly
  fair: it can find the socket full, but the reader that waits empties it, so it
  cannot be full at every attempt. No client has to connect, read or tap.
- `Session`: each thread goes on (weak fairness); neither a signal, nor a key,
  nor a failure has to happen.
- `VisionBridge`: the clock, the scheduler, the storing of a received frame and
  the end of the capture thread are weakly fair, and a `close` whose threads
  have ended drains the heap. Frames, failures and calls are not fair.
- `Trial`: the supervisor goes on in each of its parts, its calls have deadlines
  (`call` raises `TimeoutError`), and time passes. The process, the game and the
  bridge may do nothing for ever.
- `Campaign`: `main` goes on, and so do the client's turns, whose calls have
  deadlines; the 90 seconds of a preflight pass, and a trial gives up in the end,
  which is `TrialEnds` of `Trial`. The process may do nothing for ever.

### Findings

`tap_dropped`: `README.md` ("input events may not be silently dropped") and
`agent.md` say taps are never lost quietly. When `reply_if_ready` finds the
client gone (`src/ipc.cpp:148`), or `recv` meets a reset (`:244`), `disconnect`
closes the socket with taps still queued in it and reports only a disconnect,
which `main.cpp:217` ignores. A tap that `cl_tap` accepted is lost and the run
stays valid. While the connection lasts no tap is lost without an overflow
(`NoTapLostWhileConnected`).

`focus_lost`: `XTestKeyboard` says "Losing focus fails closed instead of typing
into another application." (`examples/codex_vision_bridge.py:163`). The focus is
asked for in one request (`:228`) and the key sent in later ones (`:239`,
`:242`), which go to whoever has the focus then. A key may go down for another
window, and the evidence records the action as sent.

Seen while modelling, and in line with what the code says of itself: the default
`--efforts low maximum` name the same directory twice for a model with a single
effort, so that `run_trial` raises `FileExistsError` and ends the campaign; when
`initialize` fails, nobody closes the process the constructor has started; `call`
takes the message that the transport is closed out of the queue, so that a later
call waits for its deadline unless writing fails. An interrupt during a trial
leaves a `run.json` that the index does not list, and one while `index.json` is
being written loses the whole of the index; the report does not read the index.
When the game cannot be stopped, the error is recorded but the status is left:
the trial is not completed only because a game that still runs has no exit code
(`NothingLeftRunning`). Who rewrites `run.json` alone can publish an attempt
whose game was good and whose bridge or model was not, under any configuration
and time; who rewrites `result.json` alone changes the number shown. Nothing in
the repository promises otherwise: the report takes the files as they are.

## 4. The proofs

Everything below holds for every value of the constants that satisfies the
assumptions named in the modules, hence for any number of notes, frames, taps,
events, messages, clients and actions. Every invariant and every action property
that a passing run checks is the statement of a theorem, and so are the three
refinements; only liveness is not. Each theorem is about the module's `Spec`,
without its fairness, and rests on one inductive invariant of named parts,
which TLC checked on the run's instance before it was proved.

| Module | Theorem | Statement |
|---|---|---|
| `EngineProofs` | `TypeCorrect` | `[]TypeOK`; in particular the log stays within its capacity |
| | `CursorsCorrect` | `[]CursorsSafe`: a cursor never passes a note a later tap could hit |
| | `OneHitCorrect` | `[]OneHitPerNote`: a note is consumed exactly when one record names it |
| | `LogReplaysCorrect` | `[]LogReplays`: a replay without cursors finds for every record the note it names |
| | `InvalidFrozen` | `FrozenWhenInvalid`: an invalid run's notes, log and reason do not change |
| | `JudgeImplemented` | `ImplementsJudge`: the engine refines `Judge` |
| | `GenuineCorrect` | `[]GenuineAccepted`: the verifier never rejects what the program saved |
| | `DamageCorrect` | `[]DamageDetected`: what it finds consistent is the engine's log |
| `RunProofs` | `ChartAcceptedCorrect` | `[]ChartAccepted`: the constructor accepts every chart, and the space reserved suffices |
| | `ReplayableCorrect` | generated charts satisfy `ReplayAssumption`, for every `WordSize` above the space reserved |
| | `UnbiasedCorrect` | `[]Unbiased`: every eligible lane is chosen by equally many words |
| `TransportProofs` | `TypeCorrect` | `[]TypeOK`: a poll never collects more events than it has room for |
| | `ConformsCorrect` | `[]Conforms`: neither side ever catches the other breaking the protocol |
| | `TapsInOrderCorrect` | `[]TapsInOrder` |
| | `NoTapLostCorrect` | `[]NoTapLostWhileConnected` |
| | `ImplementsMailboxCorrect` | `ImplementsMailbox`: slots, lease and checks refine `FrameMailbox`, so no frame shown is torn or old |
| | `VerdictCorrect` | `VerdictFrozen`: completion freezes the verdict |
| | `NoBackwardsCorrect` | `[]NoBackwards` |
| | `ExitMatchesReportCorrect` | `[]ExitMatchesReport`: one report at most, and the exit code agrees with it |
| `BridgeProofs` | `TypeCorrect` | `[]TypeOK`: queue, evidence and action numbers stay within their limits |
| | `AccountedCorrect` | `[]Accounted`: every action is in one place, and only a failed press loses one |
| | `EvidenceCorrect` | `[]EvidenceMatchesKeys` |
| | `PunctualCorrect`, `FreshCorrect` | `[]Punctual`, `[]ObservationsFresh` |
| | `PressesInOrderCorrect`, `ClosedIsFinalCorrect` | the two action properties |
| `CampaignProofs` | `ThreadsApartCorrect` | `[]ThreadsApart` for clients that follow each other over one server |
| | `CampaignApart` | `[]ThreadsApart` for the whole campaign |
| | `IndexComplete` | `[]IndexListsEveryRun`: the index lists the trials, all but the last if the campaign is broken off |
| `TrialProofs` | `PublishedCorrect`, `NothingLeftCorrect` | `[]PublishedIsSound`, `[]NothingLeftRunning`: a game or bridge goes on only if stopping it raised, in a failed trial |
| | `ImplementsClientCorrect` | `ImplementsClient`: a trial is a client |
| `ReportProofs` | `PublishedCorrect` | `[](faults <= 1 => PublishedIsGenuine)`: one fault publishes no evidence that a good game could not have saved |
| | `VerdictExact` | `[]GenuinePasses`: the verifier accepts what the game saves, of runs that were completed and valid, and nothing else |
| | `SelectionCorrect` | `[]FirstIsSelected` |
| `PixelProofs` | `OneTrackCorrect` | `[]OneTrackPerNote` |
| | `EarliestCorrect` | `EarliestFirst` |

**Engine** (`TimelineAssumption`: `PerfectWindow <= GoodWindow`, a rest at least
one good window long, a positive lane lock; `EngineAssumption`). `IInv == TypeOK
/\ ChartSound /\ CursorsSafe /\ LogInOrder`. `CursorsSafe` compares targets with
the time of the *last* input, so it needs that input times only grow and that a
step of the scan cannot skip a note younger than the window; `ChartSound` (what
the constructor checked) stays true because a hit changes nothing but
`consumed`; `LogInOrder` ties the log to the last input. `OneHitPerNote` is
inductive on top of `IInv`: the scan stops at a note that is not consumed, so no
earlier record names it, and ids are unique by `ChartSound`. `LogReplays` is
inductive on top of both: `ScanFindsEarliest` says that where the scan stops is
the earliest note of `Hittable`, and the notes consumed are those earlier records
name. The same lemma maps a judged tap to `Judge`'s `Take` or `Waste`.

**Replay** (`ReplayAssumption`). `RunInv` adds to the engine's invariants that every
record says of its note what the chart says (`RecordsExact`). `ScanSound(n)` is what the
verifier's cursors know after n rows of the engine's taps: what they have passed is
named by one of those rows or too old, and what they have not passed is named by
none. With `LogReplays` this makes a row lead to the note the engine found
(`RowReplays`), though the one cursor passes notes by age alone and the other skips
what is consumed too. The sums: `Delays` is a fold that takes records in an arbitrary
order, the verifier adds row by row; `SumAnyOrder` shows by induction on the
number of records that the fold does not depend on the order, so that the summaries
after n rows (`Tallies(n)`) grow as the verifier's do and end as `results`.
`LogShape` says what a damaged log is: it has the taps of the engine's, or another
length, or rows out of order. `ReplayInv` has one part for each: with the same taps the
rows replayed so far are the records, the rows counted are as many as were
replayed, and the rows replayed are in order. A consistent verdict then leaves
only a log equal to the records. `missed` needs a counter that does not wrap: a stage
has no more hits than notes (`HitsWithin`, from `OneHitPerNote`).

**ChartGen** (`ChartGenAssumption`: both stages are a whole number of locks long,
at most as many lanes as random words). `GInv` follows each note to the lock of
its lane: it is not before the last attempt, and it lies one lock after the note
before it. That the reserve is enough is a pigeonhole: the notes of a lane are a
lock apart, so no two share lane and whole number of locks since the stage began.
`Unbiased` is arithmetic on `limit`: adding the distance of two lanes, modulo their
number, takes the words of one into those of the other without two falling together,
and so in both directions.

**FrameTransport** (`TransportAssumption`: a poll reads at least one message and
the socket holds at least one). `TInv` has three layers. The slots: only the slot
being filled, under the mutex, is not whole, and it is not the leased one. The
protocol: while the connection is open, what is on its way in either direction
(`ReleasesFit`, `RequestsFit`, `PendingFits`) agrees with the server's lease and
flags and with what the reader believes it holds; this is what makes `Conforms`
inductive, since the server's verdict depends on packets sent several steps
before, possibly by a read that timed out. The taps: every one that was accepted
is in exactly one of four queues, each ahead of the next, or has been delivered.
`Copies` then gives the refinement: a copy that passes the reader's second look
was protected by the lease for as long as the connection lasted.

**Session** (`SessionAssumption`). `VerdictFrozen` needs no invariant: each writer
looks at `finished` under the lock, which is what the proof goes through.
`TimeInv` says that the arrival time of anything still to be judged is not before
that of the last judged input, per thread and per place in it. `ReportInv`
follows the report from the moment it may be written to the exit.

**VisionBridge** (`BridgeAssumption`: natural numbers). `BInv` puts each number
that was given out in one place of three: the heap, the scheduler's hands, one
event (`Numbers`, `NoneLost`). Between the key and its event the keyboard is one
ahead (`Pressed`), and this may stay so only when the scheduler is broken. That an
action popped with the lock held is still the first when its key goes down
(`First`) is why `PressesInOrder` holds though the clock goes on. `Closing` adds
that a closed keyboard has no press under way, for `close` waits for its lock.

**Client, Campaign, Trial** (`AppServerAssumption`). `ThreadsApart` is not
inductive: `IInv` adds that request numbers are never used again, that a request
is either unanswered, answered in the queue, or answered and taken (`Numbered`,
`Reported`), and at each stage of a client what the process and the queue may
still say of its thread (`Starting`, `Running`, `Ended`, `Fresh`, `Stopping`,
`Answering`). `CInv` adds the calls that `main` makes between clients.
`TInv` of `TrialProofs` follows game and bridge through the `finally` block: a
bridge is left stuck only with an error recorded and the trial failed, a game that
still runs when it is to be stopped has failed the trial before, and a good exit is
the only way to `completed`. Together with `ImplementsClientCorrect` this carries the campaign's
theorem over to trials; a theorem about `Trial` that says so directly would have to
cite a theorem through an instance, which the prover does not see. The index needs
nothing of the server: `Indexed` follows `main` through its two loops. The trials among
the summaries, and among the rows of the index, are the runs so far, but for the last
one between its record and the list (`Covered`); what is listed has
a directory, and a directory is made once, so that a model whose preflight is listed,
having failed, is not tried again later (`Imaged`).

**Report** (`AuditAssumption`, `ReportAssumption`: samples are sequences of natural
numbers). The heart of `PublishedCorrect` is `PassedGenuine`: whatever was edited,
a directory the verifier passes is one a completed and valid game might have saved.
So what `run_trial` writes is honest (`Honest`). `Publishable` needs `publishable`
of `run.json` and the verdict of `verification.json`, each of which says that the
verifier passed the evidence: one rewritten file leaves the other (`StillEarned`),
so what was not earned is not shown (`RInv`). A second fault can make it so, and
that the attempt was completed stands in `run.json` alone.
`SelectionCorrect` follows the reading of the rows: what `select_runs` has left
behind is accounted for in what it selected (`Scanning`), and the start times of
sound attempts are in the order of the attempts, since a saved game takes time
(`OInv`). `VerdictExact` is what it needs of the verifier: the statistics recomputed are
those the game wrote, which is about sorted samples and sums. The choice in
`Ascending` exists because a finite sequence can be sorted (induction on its length),
and any two sorted permutations of it are equal, so percentiles agree.

**PixelAgent** (`PixelAssumption`: observations of one note are at most `2 * Error`
apart, notes of a lane at least `Window + 2 * Error`). `Sound` says that the tracks of a
lane stand for different notes, in the order of the notes, that the average of each is
within `Error` of its note, and that the cursor has passed tapped tracks only. So
matching by nearness finds the track of the note that is observed, if there is one, and
no other (`MatchIs`); an insertion is in order and takes the cursor along
(`InsertKeeps`); the average stays in the range of what is averaged (`AverageIs`). A
frame is a fold over the observations, taken by induction on their number
(`FoldKeeps`). `EarliestFirst` follows: the cursor of a lane stands where no earlier
track is untapped, and the lanes are compared.

Induction over data is done on sets: `SetInduction` says that a set that has zero and
the successors of its members has every natural number, and follows from the
well-foundedness of `<`. The library's induction theorems take an operator, which no
prover here instantiates; a set comes to the same. A fold of the community
modules is a `CHOOSE` of a recursive function, and `FoldExists` and `SumExists`
show that there is one.

What only TLC checks is liveness: `EveryActionResolved`, `TrialEnds`,
`CampaignEnds`, `CompletedIsReported`, and that a waiting read is answered
(`ReadAnswered`). That a deadline passes though messages keep coming is part of
the fairness assumed, not a result. `ENABLED` and fairness are out of the prover's reach.

`Listings` in `VisionBridge` and `Sortings` in `Report` are written so that they can
be reasoned about: the order of the events that one call writes, and of the rows a
report reads or shows, is given by its property instead of by a recursive sort.
Keys that differ leave exactly one order; only efforts of one model that are
neither low nor its maximum share a key here, and may be shown in either order.

## 5. Not modelled

- Renderer, example clients: functions from input to output without state
  between calls, or wrappers of the client library.
- JSON, CSV and Markdown, averages, latencies and score percentages: arithmetic
  and layout; no property here depends on them. The fixed fields of `result.json`
  (benchmark, resolution, entropy source, timeline) are compared with constants.
- RDSEED itself, the X server and the socket: external, modelled from their use.
  That letting go of a key works when a closing keyboard tries it
  (`codex_vision_bridge.py:263`, whose result the code does not look at) is
  assumed in `ClosedIsFinal`.
- Floating point: the rank of a percentile is an exact integer in the game's
  summary (`main.cpp:95`, in `double`) as in the verifier's (`verify_run.py:173`).
  With n samples `0.99*n` is off by less than `1e-15*n`, and `99*n/100` is a whole
  number or at least 0.01 away from one, so the two agree far beyond any number of
  samples a run has; but no run or proof shows it.
- The bridge's unthreaded mode, used by unit tests only.
- Of the runner the prompt, the tool schema, the challenge image and the events
  that are only recorded; of the bridge the look-up of the window by its process
  and the counts of `snapshot`; of the pixel agent its other two modes and the
  pixel arithmetic that reads labels, note centers and feedback.
- The copy of the bridge under `evidence/`, which is an earlier version kept with
  the results it produced, and the route checks beside it.

## 6. Plan

The order was the order of importance: `Timeline`, `Judge`, `Engine`, its
proofs, `ChartGen`, `FrameMailbox` and `FrameTransport`, `Session`, `Replay`,
`VisionBridge`, `AppServer`, `Trial`, `PixelAgent`, then `Client` and `Campaign`,
`Audit` and `Report`; then the proofs about `Client`, `Campaign`, `Trial`,
`Session`, `FrameTransport`, `ChartGen`, `VisionBridge` and `Report`, and at last of the
index, the verdict of `Audit`, `PixelAgent` and `Replay`. What is left:

1. A composition of `Session` and `Engine` in which the verdict of the report is
   that of the engine's log; `NoBackwardsCorrect` is what it needs of `Session`.
2. `ThreadsApart` stated of `Trial` itself.
3. The liveness properties, for which a prover with `ENABLED` is needed.
