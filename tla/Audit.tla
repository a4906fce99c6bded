-------------------------------- MODULE Audit -------------------------------
(***************************************************************************)
(* What tools/verify_run.py checks around the replay of the log (module    *)
(* Replay): the flags of result.json, the accounting of the generator, the *)
(* timing samples against the summaries main.cpp saved, and the verdict.   *)
(*                                                                         *)
(* Durations are in ticks, far apart enough for the verifier's tolerance.  *)
(* A mean is kept as the sum, its count standing beside it.                *)
(***************************************************************************)
EXTENDS Integers, SequencesExt

CONSTANTS Short, Long       \* 2 ms and 16 ms

ASSUME AuditAssumption == Short \in Nat /\ Long \in Nat /\ Short < Long

Kind == {"frame_gap", "render", "poll"}

-----------------------------------------------------------------------------
(* Summaries of the durations v, the 99th percentile being at place rank.  *)

Exceeding(v, limit) == Cardinality({i \in DOMAIN v : v[i] > limit})

Ascending(v) ==
    LET p == CHOOSE p \in [DOMAIN v -> DOMAIN v] :
                 \A i, j \in DOMAIN v : i < j => p[i] # p[j] /\ v[p[i]] <= v[p[j]]
    IN  [i \in DOMAIN v |-> v[p[i]]]

Total(v) == FoldSeq(+, 0, v)

Described(v, rank) ==
    LET ordered == Ascending(v)
    IN  [count |-> Len(v), sum |-> Total(v),
         p50 |-> ordered[(Len(v) - 1) \div 2 + 1], p99 |-> ordered[rank],
         max |-> ordered[Len(v)],
         over_16ms |-> Exceeding(v, Long), over_2ms |-> Exceeding(v, Short)]

NoSamples == [count |-> 0, sum |-> 0, p50 |-> 0, p99 |-> 0, max |-> 0,
              over_16ms |-> 0, over_2ms |-> 0]

Ceiling(a, b) == -((-a) \div b)

(* distribution, of main.cpp *)
distribution(v) ==
    IF v = <<>> THEN NoSamples
    ELSE LET rank == Ceiling(99 * Len(v), 100)
         IN  Described(v, IF rank < Len(v) THEN rank ELSE Len(v))

(* Faulty: the rank is rounded down. *)
recomputed_Down(v) ==
    IF v = <<>> THEN NoSamples
    ELSE LET rank == (99 * Len(v)) \div 100 IN Described(v, IF rank = 0 THEN 1 ELSE rank)

(* _replay_timing *)
recomputed(v) ==
    IF v = <<>> THEN NoSamples ELSE Described(v, (99 * Len(v) + 99) \div 100)

-----------------------------------------------------------------------------
(* A run's directory. *)

Compliant(frames) == frames.count > 0 /\ frames.over_16ms = 0

(* timing_samples.csv: per kind the rows, as [index, duration]. *)
Rows(v) == [i \in DOMAIN v |-> [index |-> i - 1, duration |-> v[i]]]

(* save_results.  A run that is not valid has a reason; scored and replays  *)
(* stand for the chart and the score, which Replay is about.                *)
Saved(completed, valid, emitted, dropped, samples) ==
    LET claims == [k \in Kind |-> distribution(samples[k])]
    IN  [completed |-> completed, valid |-> completed /\ valid, reason |-> ~valid,
         scored |-> emitted, replays |-> TRUE,
         generation |-> [attempts |-> emitted + dropped, emitted |-> emitted, dropped |-> dropped],
         timing |-> [k \in Kind |-> Rows(samples[k])],
         claims |-> claims,
         compliant |-> Compliant(claims["frame_gap"])]

(* Damage to one place of the directory. *)
DamagedRows(s) ==
    (UNION {{RemoveAt(s, i), InsertAt(s, i, s[i]),
             [s EXCEPT ![i].duration = @ + 1]} : i \in DOMAIN s})
    \cup {[s EXCEPT ![i] = s[i + 1], ![i + 1] = s[i]] : i \in 1..(Len(s) - 1)}

Damaged(e) ==
    {[e EXCEPT !.completed = ~@], [e EXCEPT !.valid = ~@], [e EXCEPT !.compliant = ~@],
     [e EXCEPT !.replays = FALSE]}
    \cup {[e EXCEPT !.generation[f] = @ + 1] : f \in DOMAIN e.generation}
    \cup {[e EXCEPT !.claims[k][f] = @ + 1] : k \in Kind, f \in DOMAIN NoSamples}
    \cup UNION {{[e EXCEPT !.timing[k] = s] : s \in DamagedRows(e.timing[k])} : k \in Kind}

-----------------------------------------------------------------------------
(* _verify *)

Durations(e, k) == [i \in DOMAIN e.timing[k] |-> e.timing[k][i].duration]

TimingCompliant(e) == Compliant(recomputed(Durations(e, "frame_gap")))

(* _distribution *)
InRange(c) ==
    /\ 0 <= c.over_16ms /\ c.over_16ms <= c.over_2ms /\ c.over_2ms <= c.count
    /\ c.p50 <= c.p99 /\ c.p99 <= c.max /\ c.sum <= c.max * c.count
    /\ c.count = 0 => c = NoSamples
    /\ (c.max > Long => c.over_16ms > 0) /\ (c.max < Long => c.over_16ms = 0)
    /\ (c.max > Short => c.over_2ms > 0) /\ (c.max < Short => c.over_2ms = 0)

TimingConsistent(e) ==
    /\ \A k \in Kind :
          /\ InRange(e.claims[k])
          /\ \A i \in DOMAIN e.timing[k] : e.timing[k][i].index = i - 1
          /\ e.claims[k] = recomputed(Durations(e, k))
    /\ e.compliant = TimingCompliant(e)
    /\ e.completed => e.claims["frame_gap"].count > 0 /\ e.claims["poll"].count > 0

FlagsConsistent(e) == e.valid => e.completed /\ ~e.reason

GenerationConsistent(e) ==
    /\ e.generation.attempts = e.generation.emitted + e.generation.dropped
    /\ e.generation.emitted = e.scored

(* verify_run.  What it appends to the errors after this changes no verdict. *)
passed(e, require_timing) ==
    /\ FlagsConsistent(e) /\ e.replays /\ GenerationConsistent(e) /\ TimingConsistent(e)
    /\ e.completed /\ e.valid
    /\ require_timing => TimingCompliant(e)
=============================================================================
