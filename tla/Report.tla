-------------------------------- MODULE Report ------------------------------
(***************************************************************************)
(* From the evidence of a game to the number published for a model: the    *)
(* end of run_trial (tools/run_codex_evaluations.py), which verifies the   *)
(* one result and writes run.json, and tools/report_codex_runs.py, which   *)
(* reads every run.json below a directory and selects one run for each     *)
(* configuration.                                                          *)
(*                                                                         *)
(* Attempts follow each other; their directories have names in any order.  *)
(* A fault is damage to one place of a game's directory before it is       *)
(* verified, or one of the four files the report reads of a run rewritten  *)
(* afterwards, with whatever it can say.  Which file is read as the result *)
(* (benchmark_result) is taken as fixed.                                   *)
(***************************************************************************)
EXTENDS Audit

CONSTANTS Catalog,        \* models of the catalog in order, as [model, efforts]
          Recordings,     \* what timing samples a game may leave, as [Kind -> Seq(Nat)]
          MaxAttempts,    \* bound: attempts made
          MaxFaults       \* bound: faults

ASSUME ReportAssumption ==
    /\ MaxAttempts \in Nat /\ MaxFaults \in Nat
    /\ Recordings \subseteq [Kind -> Seq(Nat)]

VARIABLES
    now,         \* the time started_utc is taken from
    evidence,    \* directory of the game just played, or NoGame
    trial,       \* the attempt being made, as [directory, config, started]
    runs,        \* run directories, by name
    faults,      \* faults so far
    todo,        \* rows select_runs has still to look at, in order
    selected,    \* row by configuration
    published    \* the last report: attempts read, rows selected, and what is missing

vars == <<now, evidence, trial, runs, faults, todo, selected, published>>

Directory == 1..MaxAttempts
NoGame    == [none |-> TRUE]
NoTrial   == [directory |-> 0, config |-> <<>>, started |-> 0]
NoTime    == -1
Notes     == {0, 2}          \* bound: what a game scores

Position(model) == CHOOSE i \in DOMAIN Catalog : Catalog[i].model = model

Config == UNION {{<<m.model, e>> : e \in Range(m.efforts)} : m \in Range(Catalog)}

Init ==
    /\ now = 0 /\ evidence = NoGame /\ trial = NoTrial /\ runs = <<>>
    /\ faults = 0 /\ todo = <<>> /\ selected = <<>>
    /\ published = [read |-> {}, rows |-> <<>>, missing |-> {}]

Idle == trial = NoTrial /\ todo = <<>>

(* f with one more entry. *)
With(f, key, value) == [x \in DOMAIN f \cup {key} |-> IF x = key THEN value ELSE f[x]]

-----------------------------------------------------------------------------
(* An attempt.  Whatever fails before the game has saved a result leaves    *)
(* no evidence; a failure after it leaves some.                             *)

Start ==
    /\ Idle
    /\ \E d \in Directory \ DOMAIN runs, c \in Config :
          trial' = [directory |-> d, config |-> c, started |-> now]
    /\ UNCHANGED <<now, evidence, runs, faults, todo, selected, published>>

(* The game saves.  A completed trial takes time. *)
Save ==
    /\ trial # NoTrial /\ evidence = NoGame
    /\ \E completed, valid \in BOOLEAN, emitted \in Notes, samples \in Recordings :
          /\ completed => samples["frame_gap"] # <<>> /\ samples["poll"] # <<>>
          /\ evidence' = Saved(completed, valid, emitted, 1, samples)
    /\ now' = now + 1
    /\ UNCHANGED <<trial, runs, faults, todo, selected, published>>

DamageEvidence ==
    /\ evidence # NoGame /\ faults < MaxFaults
    /\ evidence' \in Damaged(evidence)
    /\ faults' = faults + 1
    /\ UNCHANGED <<now, trial, runs, todo, selected, published>>

(* What some game might have saved. *)
Genuine(e) ==
    /\ e = Saved(e.completed, e.valid, e.generation.emitted, e.generation.dropped,
                 [k \in Kind |-> Durations(e, k)])
    /\ e.completed => e.timing["frame_gap"] # <<>> /\ e.timing["poll"] # <<>>

(* run.json, verification.json, result.json and bridge.json, as far as the  *)
(* report looks at them; and, in none of them, what the attempt was: the    *)
(* nth one, its evidence as verified that of a completed and valid game     *)
(* (genuine), the attempt completed too (sound); and the files edited since.*)
Run(e, completed) ==
    LET verified == e # NoGame /\ passed(e, FALSE)
        good     == e # NoGame /\ e.completed /\ e.valid
    IN  [config |-> trial.config, started |-> trial.started, completed |-> completed,
         verification_passed |-> verified, verification |-> verified,
         publishable |-> completed /\ verified /\ good,
         result |-> good, settings |-> TRUE, keyboard |-> TRUE,
         notes |-> IF e = NoGame THEN 0 ELSE e.scored,
         nth |-> Cardinality(DOMAIN runs) + 1,
         genuine |-> good /\ Genuine(e), sound |-> completed /\ good /\ Genuine(e),
         edited |-> {}]

(* The end of run_trial; status is "completed" only if the game exited well. *)
Record ==
    /\ trial # NoTrial
    /\ \E completed \in BOOLEAN :
          /\ completed => evidence # NoGame
          /\ runs' = With(runs, trial.directory, Run(evidence, completed))
    /\ now' \in {now, now + 1}
    /\ trial' = NoTrial /\ evidence' = NoGame
    /\ UNCHANGED <<faults, todo, selected, published>>

(* r are the records of d with one file rewritten. *)
Rewrite(d, file, r) == runs' = [runs EXCEPT ![d] = [r EXCEPT !.edited = @ \cup {file}]]

EditRun ==
    /\ Idle /\ faults < MaxFaults
    /\ \E d \in DOMAIN runs :
          \/ \E c \in Config, t \in {NoTime} \cup 0..now, done, v, p, s \in BOOLEAN :
                Rewrite(d, "run.json",
                        [runs[d] EXCEPT !.config = c, !.started = t, !.completed = done,
                                        !.verification_passed = v, !.publishable = p,
                                        !.settings = s])
          \/ \E good \in BOOLEAN, n \in Notes :
                Rewrite(d, "result.json", [runs[d] EXCEPT !.result = good, !.notes = n])
          \/ \E v \in BOOLEAN :
                Rewrite(d, "verification.json", [runs[d] EXCEPT !.verification = v])
          \/ \E k \in BOOLEAN :
                Rewrite(d, "bridge.json", [runs[d] EXCEPT !.keyboard = k])
    /\ faults' = faults + 1
    /\ UNCHANGED <<now, evidence, trial, todo, selected, published>>

-----------------------------------------------------------------------------
(* The report. *)

(* Faulty: run.json is trusted, whatever the result and the verifier say. *)
Publishable_Trusting(r) ==
    /\ r.publishable /\ r.completed /\ r.verification_passed
    /\ r.settings /\ r.keyboard /\ r.notes > 0

(* summarize_run *)
Publishable(r) ==
    /\ r.publishable /\ r.completed /\ r.verification_passed
    /\ r.result /\ r.verification /\ r.settings
    /\ r.keyboard
    /\ r.notes > 0

(* Faulty: only the name of the directory counts. *)
StartedBefore_ByName(d1, d2) == d1 < d2

(* The order of select_runs: rows without a time come last, and names decide *)
(* between equal times.                                                      *)
StartedBefore(d1, d2) ==
    LET a == runs[d1].started
        b == runs[d2].started
    IN  \/ a # NoTime /\ (b = NoTime \/ a < b)
        \/ a = b /\ d1 < d2

(* sorted, which may leave rows of equal keys in any order. *)
Sortings(S, Less(_, _)) ==
    {s \in [1..Cardinality(S) -> S] :
        \A i, j \in DOMAIN s : i < j => s[i] # s[j] /\ ~Less(s[j], s[i])}

GenerateReport ==
    /\ Idle /\ runs # <<>>
    /\ todo' \in Sortings(DOMAIN runs, StartedBefore)
    /\ selected' = <<>>
    /\ UNCHANGED <<now, evidence, trial, runs, faults, published>>

Eligible(r) == Publishable(r) /\ r.started # NoTime

(* _configuration_key *)
EffortOrder(m, e) == IF e = "low" THEN 0 ELSE IF e = Last(m.efforts) THEN 1 ELSE 2

DisplayedBefore(d1, d2) ==
    LET Key(d) == LET c == runs[d].config
                      p == Position(c[1])
                  IN  3 * p + EffortOrder(Catalog[p], c[2])
    IN  Key(d1) < Key(d2)

(* What a catalog model is to be tried with: low, and the last it supports. *)
Requested ==
    UNION {{<<m.model, e>> : e \in Range(m.efforts) \cap {"low", Last(m.efforts)}}
           : m \in {n \in Range(Catalog) : n.efforts # <<>>}}

SelectRuns ==
    /\ todo # <<>>
    /\ LET d == Head(todo)
           c == runs[d].config
           chosen == Eligible(runs[d]) /\ c \notin DOMAIN selected
       IN  selected' = IF chosen THEN With(selected, c, d) ELSE selected
    /\ todo' = Tail(todo)
    /\ IF todo' # <<>> THEN UNCHANGED published
       ELSE \E rows \in Sortings(Range(selected'), DisplayedBefore) :
               published' = [read |-> DOMAIN runs, rows |-> rows,
                             missing |-> Requested \ DOMAIN selected']
    /\ UNCHANGED <<now, evidence, trial, runs, faults>>

-----------------------------------------------------------------------------
Next == Start \/ Save \/ DamageEvidence \/ Record \/ EditRun \/ GenerateReport \/ SelectRuns

Spec == Init /\ [][Next]_vars

-----------------------------------------------------------------------------
(* Properties. *)

(* The verifier passes exactly what a completed, valid game might have      *)
(* saved, however long its gaps, whatever was edited; gaps beyond 16 ms     *)
(* matter only when compliance is required.                                 *)
GenuinePasses ==
    evidence # NoGame =>
        LET accepted == passed(evidence, FALSE)
            frames   == evidence.timing["frame_gap"]
        IN  /\ accepted <=> Genuine(evidence) /\ evidence.completed /\ evidence.valid
            /\ passed(evidence, TRUE) <=>
                  accepted /\ \A i \in DOMAIN frames : frames[i].duration <= Long

(* With one fault at most, no number is published for a run whose evidence, *)
(* as it was verified, a completed and valid game could not have saved.     *)
(* Only a rewritten run.json can publish an attempt that failed after its   *)
(* game (the verdict of verification.json is needed too, that of the trial  *)
(* stands in run.json alone), and only a rewritten result.json one that     *)
(* scored no notes.                                                         *)
PublishedIsGenuine ==
    todo = <<>> =>
        \A c \in DOMAIN selected :
            LET r == runs[selected[c]]
            IN  /\ r.genuine
                /\ "run.json" \notin r.edited => r.sound
                /\ "result.json" \notin r.edited => r.notes > 0

(* As long as nothing is edited the row of a configuration is the first     *)
(* sound attempt that was made at it, whatever the directories are called   *)
(* and however often the report is generated; every configuration with a    *)
(* sound attempt among those read has a row, and a requested one without a  *)
(* row is listed as missing and not shown as a zero.                        *)
FirstIsSelected ==
    LET Sound(c) == {d \in DOMAIN runs : runs[d].config = c /\ runs[d].sound /\ runs[d].notes > 0}
        Shown(c) == \E d \in Range(published.rows) : runs[d].config = c
    IN  Idle /\ faults = 0 =>
        /\ \A d \in Range(published.rows) :
              \A d2 \in Sound(runs[d].config) : runs[d].nth <= runs[d2].nth
        /\ \A d \in published.read : d \in Sound(runs[d].config) => Shown(runs[d].config)
        /\ published.read # {} =>
              \A c \in Requested : c \in published.missing <=> ~Shown(c)
=============================================================================
