----------------------------- MODULE PixelProofs -----------------------------
(***************************************************************************)
(* OneTrackPerNote and EarliestFirst for PixelAgent, for any notes that    *)
(* are as far apart as PixelAssumption says, any frames and any time.      *)
(***************************************************************************)
EXTENDS PixelAgent, FiniteSetTheorems, SequenceTheorems, TLAPS

-----------------------------------------------------------------------------
(* Induction. *)

LEMMA SetInduction ==
    ASSUME NEW T, 0 \in T, \A n \in T \cap Nat : n + 1 \in T
    PROVE  Nat \subseteq T
<1> SUFFICES ASSUME Nat \ T # {} PROVE FALSE
  OBVIOUS
<1>1. PICK x \in Nat \ T : \A y \in Nat \ T : <<y, x>> \notin OpToRel(<, Nat)
  <2>1. \E x \in Nat \ T : \A y \in Nat \ T : <<y, x>> \notin OpToRel(<, Nat)
    BY NatLessThanWellFounded, WFMin
  <2>2. QED
    BY <2>1
<1>2. \A y \in Nat \ T : ~ (y < x)
  BY <1>1 DEF OpToRel
<1>3. x - 1 \in Nat /\ x - 1 < x /\ (x - 1) + 1 = x
  OBVIOUS
<1>4. (x - 1) + 1 \in T
  BY <1>2, <1>3
<1>5. QED
  BY <1>3, <1>4

(* A set of natural numbers has a least element. *)
LEMMA Least ==
    ASSUME NEW T, T \subseteq Nat, T # {}
    PROVE  \E x \in T : \A y \in T : x <= y
<1>1. \E x \in T : \A y \in T : <<y, x>> \notin OpToRel(<, Nat)
  BY NatLessThanWellFounded, WFMin
<1>2. PICK x \in T : \A y \in T : <<y, x>> \notin OpToRel(<, Nat)
  BY <1>1
<1>3. \A y \in T : ~(y < x)
  BY <1>2 DEF OpToRel
<1>4. \A y \in T : x <= y
  BY <1>3
<1>5. QED
  BY <1>4

-----------------------------------------------------------------------------
(* Folds.  A fold over a finite set S takes the elements that c picks, one  *)
(* after the other; o says what one more element does to a value.           *)

FoldStep(g, b, c, o, s) == IF s = {} THEN b ELSE o[<<c[s], g[s \ {c[s]}]>>]

FoldsIn(S, X, c, o) ==
    /\ \A s \in SUBSET S : s # {} => c[s] \in s
    /\ \A i \in S, x \in X : o[<<i, x>>] \in X

Solves(g, S, b, c, o) == g = [s \in SUBSET S |-> FoldStep(g, b, c, o, s)]

UpTo(S, k) == {s \in SUBSET S : Cardinality(s) <= k}

Partial(S, X, b, c, o, k) ==
    {g \in [UpTo(S, k) -> X] : \A s \in UpTo(S, k) : g[s] = FoldStep(g, b, c, o, s)}

LEMMA Smaller ==
    ASSUME NEW S, IsFiniteSet(S), NEW s \in SUBSET S, NEW x \in s
    PROVE  /\ s \ {x} \in SUBSET S
           /\ Cardinality(s) \in Nat
           /\ Cardinality(s \ {x}) = Cardinality(s) - 1
<1>1. IsFiniteSet(s)
  BY FS_Subset
<1>2. Cardinality(s) \in Nat
  BY <1>1, FS_CardinalityType
<1>3. Cardinality(s \ {x}) = Cardinality(s) - 1
  BY <1>1, FS_RemoveElement
<1>4. QED
  BY <1>2, <1>3

(* The recursion has a solution on the sets of at most k elements, ... *)
LEMMA PartialExists ==
    ASSUME NEW S, IsFiniteSet(S), NEW X, NEW b \in X, NEW c, NEW o,
           \A s \in SUBSET S : s # {} => c[s] \in s,
           \A i \in S, x \in X : o[<<i, x>>] \in X
    PROVE  \A k \in Nat : Partial(S, X, b, c, o, k) # {}
<1> DEFINE T == {k \in Nat : Partial(S, X, b, c, o, k) # {}}
<1>1. 0 \in T
  <2> DEFINE g == [s \in UpTo(S, 0) |-> b]
  <2>1. ASSUME NEW s \in UpTo(S, 0) PROVE s = {}
    <3>1. IsFiniteSet(s) /\ Cardinality(s) <= 0
      BY FS_Subset DEF UpTo
    <3>2. Cardinality(s) = 0
      BY <3>1, FS_CardinalityType
    <3>3. QED
      BY <3>1, <3>2, FS_EmptySet
  <2>2. g \in Partial(S, X, b, c, o, 0)
    BY <2>1 DEF Partial, FoldStep
  <2>3. QED
    BY <2>2
<1>2. ASSUME NEW k \in T \cap Nat PROVE k + 1 \in T
  <2>1. PICK g : g \in Partial(S, X, b, c, o, k)
    BY <1>2
  <2> DEFINE h == [s \in UpTo(S, k + 1) |-> FoldStep(g, b, c, o, s)]
  <2>2. /\ \A s \in UpTo(S, k) : s \in UpTo(S, k + 1)
        /\ \A s \in UpTo(S, k) : g[s] = FoldStep(g, b, c, o, s) /\ g[s] \in X
    <3>1. g \in [UpTo(S, k) -> X] /\ \A s \in UpTo(S, k) : g[s] = FoldStep(g, b, c, o, s)
      BY <2>1 DEF Partial
    <3>2. ASSUME NEW s \in UpTo(S, k) PROVE s \in UpTo(S, k + 1)
      <4>1. IsFiniteSet(s)
        BY FS_Subset DEF UpTo
      <4>2. Cardinality(s) \in Nat
        BY <4>1, FS_CardinalityType
      <4>3. QED
        BY <4>2, <1>2 DEF UpTo
    <3>3. QED
      BY <3>1, <3>2
  <2>3. \A s \in UpTo(S, k) : h[s] = g[s]
    BY <2>2
  <2>4. ASSUME NEW s \in UpTo(S, k + 1)
        PROVE  h[s] \in X /\ h[s] = FoldStep(h, b, c, o, s)
    <3>1. h[s] = FoldStep(g, b, c, o, s)
      OBVIOUS
    <3> HIDE DEF h
    <3>2. CASE s = {}
      BY <3>1, <3>2 DEF FoldStep
    <3>3. CASE s # {}
      <4>1. s \in SUBSET S /\ Cardinality(s) <= k + 1 /\ c[s] \in s
        BY <3>3 DEF UpTo
      <4>2. /\ s \ {c[s]} \in SUBSET S /\ Cardinality(s) \in Nat
            /\ Cardinality(s \ {c[s]}) = Cardinality(s) - 1
        BY <4>1, Smaller
      <4>3. s \ {c[s]} \in UpTo(S, k)
        BY <4>1, <4>2, <1>2 DEF UpTo
      <4>4. h[s \ {c[s]}] = g[s \ {c[s]}] /\ g[s \ {c[s]}] \in X
        BY <2>2, <2>3, <4>3
      <4>5. h[s] = o[<<c[s], g[s \ {c[s]}]>>]
        BY <3>1, <3>3 DEF FoldStep
      <4>6. h[s] \in X
        BY <4>1, <4>4, <4>5
      <4>7. FoldStep(h, b, c, o, s) = o[<<c[s], h[s \ {c[s]}]>>]
        BY <3>3 DEF FoldStep
      <4>8. QED
        BY <4>4, <4>5, <4>6, <4>7
    <3>4. QED
      BY <3>2, <3>3
  <2>5. h \in Partial(S, X, b, c, o, k + 1)
    <3>1. h \in [UpTo(S, k + 1) -> X]
      BY <2>4
    <3> HIDE DEF h
    <3>2. QED
      BY <3>1, <2>4 DEF Partial
  <2>6. QED
    BY <2>5
<1> HIDE DEF T
<1>3. Nat \subseteq T
  BY <1>1, <1>2, SetInduction
<1>4. QED
  BY <1>3 DEF T

(* ... and so on all sets: a fold is a solution of its recursion. *)
LEMMA FoldExists ==
    ASSUME NEW S, IsFiniteSet(S), NEW X, NEW b \in X, NEW c, NEW o, FoldsIn(S, X, c, o)
    PROVE  \E g \in [SUBSET S -> X] : Solves(g, S, b, c, o)
<1>1. PICK k : k = Cardinality(S)
  OBVIOUS
<1>2. k \in Nat
  BY <1>1, FS_CardinalityType
<1>3. PICK g : g \in Partial(S, X, b, c, o, k)
  BY <1>2, PartialExists DEF FoldsIn
<1>4. UpTo(S, k) = SUBSET S
  <2>1. ASSUME NEW s \in SUBSET S PROVE Cardinality(s) <= k
    BY <1>1, FS_Subset
  <2>2. QED
    BY <2>1 DEF UpTo
<1>5. g \in [SUBSET S -> X] /\ \A s \in SUBSET S : g[s] = FoldStep(g, b, c, o, s)
  BY <1>3, <1>4 DEF Partial
<1>6. Solves(g, S, b, c, o)
  BY <1>5 DEF Solves
<1>7. QED
  BY <1>5, <1>6

(* What every step of a solution keeps holds at its end. *)
LEMMA FoldKeeps ==
    ASSUME NEW S, IsFiniteSet(S), NEW X, NEW c, NEW g, g[{}] \in X,
           \A s \in SUBSET S : s # {} => c[s] \in s,
           \A s \in SUBSET S : s # {} /\ g[s \ {c[s]}] \in X => g[s] \in X
    PROVE  g[S] \in X
<1> DEFINE T == {n \in Nat : \A s \in SUBSET S : Cardinality(s) = n => g[s] \in X}
<1>1. 0 \in T
  <2> SUFFICES ASSUME NEW s \in SUBSET S, Cardinality(s) = 0 PROVE g[s] \in X
    OBVIOUS
  <2>1. s = {}
    BY FS_Subset, FS_EmptySet
  <2>2. QED
    BY <2>1
<1>2. ASSUME NEW n \in T \cap Nat PROVE n + 1 \in T
  <2> SUFFICES ASSUME NEW s \in SUBSET S, Cardinality(s) = n + 1 PROVE g[s] \in X
    OBVIOUS
  <2>1. s # {}
    <3>1. n \in Nat
      BY <1>2
    <3>2. Cardinality(s) # 0
      BY <3>1
    <3>3. QED
      BY <3>2, FS_EmptySet
  <2>2. c[s] \in s
    BY <2>1
  <2>3. s \ {c[s]} \in SUBSET S /\ Cardinality(s \ {c[s]}) = n
    BY <2>2, <1>2, Smaller
  <2>4. g[s \ {c[s]}] \in X
    BY <2>3, <1>2
  <2>5. QED
    BY <2>1, <2>4
<1> HIDE DEF T
<1>3. Nat \subseteq T
  BY <1>1, <1>2, SetInduction
<1>4. Cardinality(S) \in Nat
  BY FS_CardinalityType
<1>5. QED
  BY <1>3, <1>4 DEF T

-----------------------------------------------------------------------------
(* The tracks. *)

Mark == [note : Int, target : Int, observations : Nat \ {0}, seen : BOOLEAN, tapped : BOOLEAN]

(* A note of the lane, and what may be seen of it in time. *)
Of(l, note, target) ==
    /\ \E n \in Notes : n.lane = l /\ n.at = note
    /\ note \in Nat /\ target \in Int /\ target - note <= Error /\ note - target <= Error

(* The tracks of a lane are of notes of the lane, in their order. *)
Ordered(l, ts) ==
    /\ \A i \in 1..Len(ts) : Of(l, ts[i].note, ts[i].target)
    /\ \A i, j \in 1..Len(ts) : i < j => ts[i].note < ts[j].note

(* What the cursor has passed is tapped. *)
Passed(ts, next) ==
    /\ next \in 1..(Len(ts) + 1)
    /\ \A i \in 1..Len(ts) : i < next => ts[i].tapped

State == {s \in [tracks : [Lanes -> Seq(Mark)], next : [Lanes -> Int]] :
            \A l \in Lanes : Ordered(l, s.tracks[l]) /\ Passed(s.tracks[l], s.next[l])}

Sound == [tracks |-> tracks, next |-> next_track] \in State

PixelInv == Sound /\ now \in Nat /\ last_receipt \in Nat

LEMMA Constants ==
    /\ Window \in Nat /\ Error \in Nat /\ 2 * Error < Window /\
         Notes \subseteq [lane : Nat, at : Nat]
    /\ LateLimit \in Nat /\ MaxGap \in Nat
    /\ IsFiniteSet(Notes)
BY PixelAssumption

(* Observations of one note are near each other, those of two are not, and  *)
(* come in the order of the notes.                                          *)
LEMMA Apart ==
    ASSUME NEW l, NEW x, NEW y, NEW t, NEW u, Of(l, x, t), Of(l, y, u)
    PROVE  /\ Near(t, u) <=> x = y
           /\ x < y <=> u - t >= Window
           /\ x < y => t < u
<1>1. /\ x \in Nat /\ y \in Nat /\ t \in Int /\ u \in Int
      /\ t - x <= Error /\ x - t <= Error /\ u - y <= Error /\ y - u <= Error
  BY DEF Of
<1>2. x # y => x - y >= Window + 2 * Error \/ y - x >= Window + 2 * Error
  <2>1. PICK m \in Notes : m.lane = l /\ m.at = x
    BY DEF Of
  <2>2. PICK n \in Notes : n.lane = l /\ n.at = y
    BY DEF Of
  <2>3. QED
    BY <2>1, <2>2, PixelAssumption
<1>3. QED
  BY <1>1, <1>2, Constants DEF Near

(* The tracks of a lane are in the order of their times, too. *)
LEMMA TargetsOrdered ==
    ASSUME NEW l, NEW ts \in Seq(Mark), Ordered(l, ts)
    PROVE  \A i, j \in 1..Len(ts) : i < j => ts[i].target < ts[j].target
<1> SUFFICES ASSUME NEW i \in 1..Len(ts), NEW j \in 1..Len(ts), i < j
             PROVE  ts[i].target < ts[j].target
  OBVIOUS
<1>1. Of(l, ts[i].note, ts[i].target) /\ Of(l, ts[j].note, ts[j].target)
  BY DEF Ordered
<1>2. ts[i].note < ts[j].note
  BY DEF Ordered
<1>3. QED
  BY <1>1, <1>2, Apart

LEMMA MarkFields ==
    ASSUME NEW ts \in Seq(Mark)
    PROVE  /\ Len(ts) \in Nat /\ DOMAIN ts = 1..Len(ts)
           /\ \A i \in 1..Len(ts) :
                 /\ ts[i] \in Mark /\ ts[i].note \in Int /\ ts[i].target \in Int
                 /\ ts[i].observations \in Nat \ {0}
<1>1. Len(ts) \in Nat /\ DOMAIN ts = 1..Len(ts) /\ \A i \in 1..Len(ts) : ts[i] \in Mark
  BY ElementOfSeq, LenProperties
<1>2. QED
  BY <1>1 DEF Mark

FirstFrom(ts, target, p) ==
    /\ \A j \in 1..(p - 1) : ts[j].target < target
    /\ p <= Len(ts) => ts[p].target >= target

LEMMA LowerBoundIs ==
    ASSUME NEW ts \in Seq(Mark), NEW target \in Int
    PROVE  /\ LowerBound(ts, target) \in 1..(Len(ts) + 1)
           /\ FirstFrom(ts, target, LowerBound(ts, target))
<1> DEFINE n == Len(ts)
           K == {i \in 1..(n + 1) : i = n + 1 \/ ts[i].target >= target}
<1>1. n \in Nat /\ \A i \in 1..n : ts[i].target \in Int
  BY MarkFields
<1>2. n + 1 \in K /\ K \subseteq Nat
  BY <1>1
<1>3. PICK p \in K : \A y \in K : p <= y
  <2> HIDE DEF K
  <2>1. \E p \in K : \A y \in K : p <= y
    BY <1>2, Least
  <2>2. QED
    BY <2>1
<1>4. p \in 1..(n + 1) /\ (p <= n => ts[p].target >= target)
  BY <1>1
<1>5. ASSUME NEW j \in 1..(p - 1) PROVE ts[j].target < target
  <2>1. j \in 1..n /\ j < p
    BY <1>1, <1>4
  <2>2. j \notin K
    BY <1>1, <1>3, <1>4, <2>1
  <2>3. ~(ts[j].target >= target)
    BY <2>1, <2>2, <1>1
  <2>4. QED
    BY <2>1, <2>3, <1>1
<1>6. p \in 1..(Len(ts) + 1) /\ FirstFrom(ts, target, p)
  BY <1>4, <1>5 DEF FirstFrom
<1> HIDE DEF n, K
<1> DEFINE q == CHOOSE i \in 1..(Len(ts) + 1) : FirstFrom(ts, target, i)
<1>7. LowerBound(ts, target) = q
  BY DEF LowerBound, FirstFrom
<1>8. q \in 1..(Len(ts) + 1) /\ FirstFrom(ts, target, q)
  BY <1>6
<1>9. QED
  BY <1>7, <1>8

(* An observation is matched with the track of its note, if there is one. *)
LEMMA MatchIs ==
    ASSUME NEW l, NEW ts \in Seq(Mark), Ordered(l, ts), NEW x, NEW t, Of(l, x, t)
    PROVE  /\ Match(ts, t) \in 0..Len(ts)
           /\ Match(ts, t) # 0 => ts[Match(ts, t)].note = x
           /\ Match(ts, t) = 0 => \A k \in 1..Len(ts) : ts[k].note # x
<1>1. PICK p : p = LowerBound(ts, t)
  OBVIOUS
<1>2. PICK n : n = Len(ts)
  OBVIOUS
<1>3. /\ n \in Nat /\ p \in 1..(n + 1) /\ t \in Int
      /\ \A k \in 1..n : Of(l, ts[k].note, ts[k].target) /\ ts[k].target \in Int
      /\ \A i, j \in 1..n : i < j => ts[i].target < ts[j].target
  <2>1. t \in Int
    BY DEF Of
  <2>2. LowerBound(ts, t) \in 1..(Len(ts) + 1)
    BY <2>1, LowerBoundIs
  <2>3. \A k \in 1..n : Of(l, ts[k].note, ts[k].target)
    BY <1>2 DEF Ordered
  <2>4. \A i, j \in 1..n : i < j => ts[i].target < ts[j].target
    BY <1>2, TargetsOrdered
  <2>5. QED
    BY <1>1, <1>2, <2>1, <2>2, <2>3, <2>4, MarkFields
<1>4. /\ \A j \in 1..(p - 1) : ts[j].target < t
      /\ p <= n => ts[p].target >= t
  <2>1. FirstFrom(ts, t, LowerBound(ts, t))
    BY <1>3, LowerBoundIs
  <2>2. QED
    BY <2>1, <1>1, <1>2 DEF FirstFrom
<1>5. \A k \in 1..n : Near(ts[k].target, t) <=> ts[k].note = x
  BY <1>3, Apart
<1>6. Match(ts, t) = IF p <= n /\ Near(ts[p].target, t) THEN p
                     ELSE IF p > 1 /\ Near(ts[p - 1].target, t) THEN p - 1 ELSE 0
  BY <1>1, <1>2 DEF Match
<1>7. CASE p <= n /\ Near(ts[p].target, t)
  <2>1. Match(ts, t) = p /\ p \in 1..n
    BY <1>3, <1>6, <1>7
  <2>2. QED
    BY <1>2, <1>3, <1>5, <1>7, <2>1
<1>8. CASE ~(p <= n /\ Near(ts[p].target, t)) /\ p > 1 /\ Near(ts[p - 1].target, t)
  <2>1. Match(ts, t) = p - 1 /\ p - 1 \in 1..n
    BY <1>3, <1>6, <1>8
  <2>2. QED
    BY <1>2, <1>3, <1>5, <1>8, <2>1
<1>9. CASE ~(p <= n /\ Near(ts[p].target, t)) /\ ~(p > 1 /\ Near(ts[p - 1].target, t))
  <2>1. Match(ts, t) = 0
    BY <1>6, <1>9
  <2>2. ASSUME NEW k \in 1..n, ts[k].note = x PROVE FALSE
    <3>1. Near(ts[k].target, t)
      BY <1>5, <2>2
    <3>2. CASE k >= p
      <4>1. p \in 1..n /\ ts[p].target \in Int /\ ts[k].target \in Int
        BY <1>3, <3>2
      <4>2. ts[p].target >= t /\ ts[p].target <= ts[k].target
        <5>1. p = k \/ p < k
          BY <1>3, <3>2
        <5>2. QED
          BY <1>3, <1>4, <4>1, <5>1
      <4>3. Near(ts[p].target, t)
        BY <3>1, <4>1, <4>2, <1>3, Constants DEF Near
      <4>4. QED
        BY <1>9, <4>1, <4>3
    <3>3. CASE k < p
      <4>1. p - 1 \in 1..n /\ ts[p - 1].target \in Int /\ ts[k].target \in Int /\ p > 1
        BY <1>3, <3>3
      <4>2. ts[p - 1].target < t /\ ts[k].target <= ts[p - 1].target
        <5>1. k = p - 1 \/ k < p - 1
          BY <1>3, <3>3
        <5>2. p - 1 \in 1..(p - 1)
          BY <1>3, <4>1
        <5>3. QED
          BY <1>3, <1>4, <4>1, <5>1, <5>2
      <4>3. Near(ts[p - 1].target, t)
        BY <3>1, <4>1, <4>2, <1>3, Constants DEF Near
      <4>4. QED
        BY <1>9, <4>1, <4>3
    <3>4. QED
      BY <1>3, <3>2, <3>3
  <2>3. QED
    BY <2>1, <2>2, <1>2, <1>3
<1>10. QED
  BY <1>7, <1>8, <1>9

(* The average of what may be seen of a note in time may be seen of it. *)
LEMMA AverageIs ==
    ASSUME NEW l, NEW m \in Mark, NEW t, Of(l, m.note, m.target), Of(l, m.note, t)
    PROVE  /\ Averaged(m, t) \in Mark
           /\ Averaged(m, t).note = m.note /\ Averaged(m, t).tapped = m.tapped
           /\ Of(l, m.note, Averaged(m, t).target)
<1>1. CASE m.seen
  BY <1>1 DEF Averaged
<1>2. CASE ~m.seen
  <2>1. PICK a : a = m.target + (t - m.target) \div (m.observations + 1)
    OBVIOUS
  <2>2. /\ m.note \in Int /\ m.target \in Int /\ t \in Int /\ m.observations \in Nat \ {0}
        /\ m.tapped \in BOOLEAN
    BY DEF Mark, Of
  <2>3. PICK k : k = m.observations + 1
    OBVIOUS
  <2>4. k \in Nat /\ k > 1
    BY <2>2, <2>3
  <2>5. PICK d : d = t - m.target
    OBVIOUS
  <2>6. PICK q : q = d \div k
    OBVIOUS
  <2>7. q \in Int /\ (d >= 0 => 0 <= q /\ q <= d) /\ (d < 0 => d <= q /\ q <= 0)
    <3>1. d \in Int /\ q \in Int
      BY <2>2, <2>4, <2>5, <2>6
    <3>2. k * q <= d /\ d < k * q + k
      BY <2>4, <2>6, <3>1
    <3>3. QED
      BY <2>4, <3>1, <3>2
  <2>8. a = m.target + q
    BY <2>1, <2>3, <2>5, <2>6
  <2>9. Of(l, m.note, a)
    <3>1. /\ m.target - m.note <= Error /\ m.note - m.target <= Error
          /\ t - m.note <= Error /\ m.note - t <= Error
      BY DEF Of
    <3>2. a \in Int /\ a - m.note <= Error /\ m.note - a <= Error
      BY <2>2, <2>5, <2>7, <2>8, <3>1, Constants
    <3>3. QED
      BY <3>2 DEF Of
  <2>10. PICK b : b = IF m.observations < Window - 1 THEN m.observations + 1 ELSE m.observations
    OBVIOUS
  <2>11. b \in Nat \ {0} /\ a \in Int
    BY <2>2, <2>10, <2>7, <2>8
  <2>12. Averaged(m, t) = [note |-> m.note, target |-> a, observations |-> b, seen |-> TRUE,
                           tapped |-> m.tapped]
    BY <1>2, <2>1, <2>10 DEF Averaged, Mark
  <2>13. QED
    BY <2>2, <2>9, <2>11, <2>12 DEF Mark
<1>3. QED
  BY <1>1, <1>2 DEF Mark

LEMMA InsertIs ==
    ASSUME NEW S, NEW s \in Seq(S), NEW p \in 1..(Len(s) + 1), NEW e \in S
    PROVE  /\ InsertAt(s, p, e) \in Seq(S)
           /\ Len(InsertAt(s, p, e)) = Len(s) + 1
           /\ \A i \in 1..(Len(s) + 1) :
                 InsertAt(s, p, e)[i] = IF i < p THEN s[i] ELSE IF i = p THEN e ELSE s[i - 1]
<1>1. PICK n : n = Len(s)
  OBVIOUS
<1>2. PICK a : a = SubSeq(s, 1, p - 1)
  OBVIOUS
<1>3. PICK b : b = SubSeq(s, p, n)
  OBVIOUS
<1>4. PICK c : c = <<e>>
  OBVIOUS
<1>5. n \in Nat /\ p \in 1..(n + 1) /\ \A i \in 1..n : s[i] \in S
  BY <1>1, ElementOfSeq, LenProperties
<1>6. /\ a \in Seq(S) /\ Len(a) = p - 1 /\ \A i \in 1..(p - 1) : a[i] = s[i]
  <2>1. \A i \in 1..(p - 1) : s[i] \in S
    BY <1>5
  <2>2. p - 1 \in Int /\ 1 \in Int
    BY <1>5
  <2>3. /\ a \in Seq(S)
        /\ Len(a) = IF 1 <= p - 1 THEN p - 1 - 1 + 1 ELSE 0
        /\ \A i \in 1..(p - 1 - 1 + 1) : a[i] = s[1 + i - 1]
    BY <1>2, <2>1, <2>2, SubSeqProperties
  <2>4. Len(a) = p - 1
    BY <1>5, <2>3
  <2>5. ASSUME NEW i \in 1..(p - 1) PROVE a[i] = s[i]
    <3>1. i \in 1..(p - 1 - 1 + 1) /\ 1 + i - 1 = i
      BY <1>5
    <3>2. QED
      BY <2>3, <3>1
  <2>6. QED
    BY <2>3, <2>4, <2>5
<1>7. /\ b \in Seq(S) /\ Len(b) = n - p + 1 /\ \A i \in 1..(n - p + 1) : b[i] = s[p + i - 1]
  <2>1. \A i \in p..n : s[i] \in S
    BY <1>5
  <2>2. p \in Int /\ n \in Int
    BY <1>5
  <2>3. /\ b \in Seq(S)
        /\ Len(b) = IF p <= n THEN n - p + 1 ELSE 0
        /\ \A i \in 1..(n - p + 1) : b[i] = s[p + i - 1]
    BY <1>3, <2>1, <2>2, SubSeqProperties
  <2>4. Len(b) = n - p + 1
    BY <1>5, <2>3
  <2>5. QED
    BY <2>3, <2>4
<1>8. c \in Seq(S) /\ Len(c) = 1 /\ c[1] = e
  BY <1>4
<1>9. PICK d : d = a \o c
  OBVIOUS
<1>10. d \in Seq(S) /\ Len(d) = p /\ \A i \in 1..p : d[i] = IF i < p THEN s[i] ELSE e
  <2>1. /\ a \o c \in Seq(S) /\ Len(a \o c) = Len(a) + Len(c)
        /\ \A i \in 1..(Len(a) + Len(c)) :
              (a \o c)[i] = IF i <= Len(a) THEN a[i] ELSE c[i - Len(a)]
    BY <1>6, <1>8, ConcatProperties
  <2>2. /\ d \in Seq(S) /\ Len(d) = Len(a) + Len(c)
        /\ \A i \in 1..(Len(a) + Len(c)) : d[i] = IF i <= Len(a) THEN a[i] ELSE c[i - Len(a)]
    BY <2>1, <1>9, Zenon
  <2>3. Len(a) = p - 1 /\ Len(a) + Len(c) = p
    BY <1>5, <1>6, <1>8
  <2>4. ASSUME NEW i \in 1..p PROVE d[i] = IF i < p THEN s[i] ELSE e
    <3>1. d[i] = IF i <= p - 1 THEN a[i] ELSE c[i - (p - 1)]
      BY <2>2, <2>3
    <3>2. CASE i < p
      BY <3>1, <3>2, <1>5, <1>6
    <3>3. CASE i = p
      <4>1. ~(i <= p - 1) /\ i - (p - 1) = 1
        BY <3>3, <1>5
      <4>2. QED
        BY <3>1, <3>3, <4>1, <1>5, <1>8
    <3>4. i < p \/ i = p
      BY <1>5
    <3>5. QED
      BY <3>2, <3>3, <3>4
  <2>5. QED
    BY <2>2, <2>3, <2>4
<1>11. /\ d \o b \in Seq(S) /\ Len(d \o b) = n + 1
       /\ \A i \in 1..(n + 1) :
             (d \o b)[i] = IF i < p THEN s[i] ELSE IF i = p THEN e ELSE s[i - 1]
  <2>1. /\ d \o b \in Seq(S) /\ Len(d \o b) = Len(d) + Len(b)
        /\ \A i \in 1..(Len(d) + Len(b)) :
              (d \o b)[i] = IF i <= Len(d) THEN d[i] ELSE b[i - Len(d)]
    BY <1>7, <1>10, ConcatProperties
  <2>2. Len(d) = p /\ Len(d) + Len(b) = n + 1
    BY <1>5, <1>7, <1>10
  <2>3. ASSUME NEW i \in 1..(n + 1)
        PROVE  (d \o b)[i] = IF i < p THEN s[i] ELSE IF i = p THEN e ELSE s[i - 1]
    <3>1. (d \o b)[i] = IF i <= p THEN d[i] ELSE b[i - p]
      BY <2>1, <2>2
    <3>2. CASE i <= p
      <4>1. i \in 1..p
        BY <3>2, <1>5
      <4>2. d[i] = IF i < p THEN s[i] ELSE e
        BY <4>1, <1>10
      <4>3. i < p \/ i = p
        BY <4>1, <1>5
      <4>4. QED
        BY <3>1, <3>2, <4>2, <4>3, <1>5
    <3>3. CASE i > p
      <4>1. i - p \in 1..(n - p + 1) /\ p + (i - p) - 1 = i - 1
        BY <3>3, <1>5
      <4>2. b[i - p] = s[i - 1]
        BY <4>1, <1>7
      <4>3. ~(i <= p) /\ ~(i < p) /\ i # p
        BY <3>3, <1>5
      <4>4. QED
        BY <3>1, <4>2, <4>3
    <3>4. i <= p \/ i > p
      BY <1>5
    <3>5. QED
      BY <3>2, <3>3, <3>4
  <2>4. QED
    BY <2>1, <2>2, <2>3
<1>12. InsertAt(s, p, e) = d \o b
  BY <1>1, <1>2, <1>3, <1>4, <1>9 DEF InsertAt
<1>13. QED
  BY <1>1, <1>11, <1>12

(* A new track comes where the order of the notes has it. *)
LEMMA InsertKeeps ==
    ASSUME NEW l, NEW ts \in Seq(Mark), Ordered(l, ts), NEW next, Passed(ts, next),
           NEW x, NEW t, Of(l, x, t), \A k \in 1..Len(ts) : ts[k].note # x,
           NEW p, p = LowerBound(ts, t),
           NEW new, new = InsertAt(ts, p, Track(x, t))
    PROVE  new \in Seq(Mark) /\ Ordered(l, new) /\ Passed(new, Pulled(next, p))
<1>1. PICK n : n = Len(ts)
  OBVIOUS
<1>2. PICK e : e = Track(x, t)
  OBVIOUS
<1>3. e \in Mark /\ e.note = x /\ e.target = t /\ Of(l, e.note, e.target)
  BY <1>2 DEF Track, Mark, Of
<1>4. t \in Int
  BY DEF Of
<1>5. /\ n \in Nat /\ p \in 1..(n + 1)
      /\ \A k \in 1..(p - 1) : ts[k].target < t
      /\ p <= n => ts[p].target >= t
      /\ \A k \in 1..n : ts[k].note \in Int /\ ts[k].target \in Int
      /\ \A k \in 1..n : Of(l, ts[k].note, ts[k].target)
      /\ \A i, j \in 1..n : i < j => ts[i].note < ts[j].note
  <2>1. p \in 1..(Len(ts) + 1) /\ FirstFrom(ts, t, p)
    BY <1>4, LowerBoundIs
  <2>2. \A i, j \in 1..n : i < j => ts[i].note < ts[j].note
    BY <1>1 DEF Ordered
  <2>3. \A k \in 1..n : Of(l, ts[k].note, ts[k].target)
    BY <1>1 DEF Ordered
  <2>4. QED
    BY <2>1, <2>2, <2>3, <1>1, MarkFields DEF FirstFrom
<1>6. /\ new \in Seq(Mark) /\ Len(new) = n + 1
      /\ \A i \in 1..(n + 1) : new[i] = IF i < p THEN ts[i] ELSE IF i = p THEN e ELSE ts[i - 1]
  <2>1. p \in 1..(Len(ts) + 1)
    BY <1>1, <1>5
  <2>2. /\ InsertAt(ts, p, e) \in Seq(Mark) /\ Len(InsertAt(ts, p, e)) = Len(ts) + 1
        /\ \A i \in 1..(Len(ts) + 1) :
              InsertAt(ts, p, e)[i] = IF i < p THEN ts[i] ELSE IF i = p THEN e ELSE ts[i - 1]
    BY <1>3, <2>1, InsertIs
  <2>3. new = InsertAt(ts, p, e)
    BY <1>2
  <2>4. QED
    BY <1>1, <2>2, <2>3, Zenon
<1>7. ASSUME NEW k \in 1..n PROVE (k < p => ts[k].note < x) /\ (k >= p => x < ts[k].note)
  <2>1. /\ ts[k].note \in Int /\ ts[k].target \in Int /\ x \in Int
        /\ Of(l, ts[k].note, ts[k].target) /\ ts[k].note # x
    BY <1>1, <1>5 DEF Of
  <2>2. x < ts[k].note => t < ts[k].target
    BY <2>1, Apart
  <2>3. ts[k].note < x => ts[k].target < t
    BY <2>1, Apart
  <2>4. k < p => ts[k].target < t
    <3>1. k < p => k \in 1..(p - 1)
      BY <1>5
    <3>2. QED
      BY <3>1, <1>5
  <2>5. k >= p => ts[k].target >= t
    <3> SUFFICES ASSUME k >= p PROVE ts[k].target >= t
      OBVIOUS
    <3>1. p \in 1..n /\ ts[p].target >= t /\ ts[p].target \in Int
      BY <1>5
    <3>2. p < k => ts[p].target < ts[k].target
      BY <1>1, <3>1, TargetsOrdered
    <3>3. CASE p < k
      BY <2>1, <3>1, <3>2, <3>3, <1>4
    <3>4. CASE p = k
      BY <3>1, <3>4
    <3>5. QED
      BY <3>3, <3>4, <1>5, <3>1
  <2>6. QED
    BY <1>4, <2>1, <2>2, <2>3, <2>4, <2>5
<1>8. ASSUME NEW i \in 1..(n + 1)
      PROVE  /\ i < p => i \in 1..n /\ new[i] = ts[i]
             /\ i = p => new[i] = e
             /\ i > p => i - 1 \in 1..n /\ i - 1 >= p /\ new[i] = ts[i - 1]
  BY <1>5, <1>6
<1>9. ASSUME NEW i \in 1..(n + 1) PROVE Of(l, new[i].note, new[i].target)
  <2>1. CASE i < p
    BY <2>1, <1>5, <1>8
  <2>2. CASE i = p
    BY <2>2, <1>3, <1>8
  <2>3. CASE i > p
    BY <2>3, <1>5, <1>8
  <2>4. QED
    BY <2>1, <2>2, <2>3, <1>5
<1>10. ASSUME NEW i \in 1..(n + 1), NEW j \in 1..(n + 1), i < j PROVE new[i].note < new[j].note
  <2>1. CASE j < p
    <3>1. i < p /\ i \in 1..n /\ j \in 1..n /\ new[i] = ts[i] /\ new[j] = ts[j]
      BY <2>1, <1>5, <1>8, <1>10
    <3>2. QED
      BY <3>1, <1>5, <1>10
  <2>2. CASE j = p
    <3>1. i < p /\ i \in 1..n /\ new[i] = ts[i] /\ new[j] = e
      BY <2>2, <1>5, <1>8, <1>10
    <3>2. QED
      BY <3>1, <1>3, <1>7
  <2>3. CASE j > p /\ i < p
    <3>1. i \in 1..n /\ new[i] = ts[i] /\ j - 1 \in 1..n /\ j - 1 >= p /\ new[j] = ts[j - 1]
      BY <2>3, <1>8
    <3>2. i < j - 1
      BY <2>3, <3>1, <1>5
    <3>3. QED
      BY <3>1, <3>2, <1>5
  <2>4. CASE j > p /\ i = p
    <3>1. new[i] = e /\ j - 1 \in 1..n /\ j - 1 >= p /\ new[j] = ts[j - 1]
      BY <2>4, <1>8
    <3>2. QED
      BY <3>1, <1>3, <1>7
  <2>5. CASE j > p /\ i > p
    <3>1. /\ i - 1 \in 1..n /\ new[i] = ts[i - 1]
          /\ j - 1 \in 1..n /\ new[j] = ts[j - 1]
      BY <2>5, <1>8
    <3>2. i - 1 < j - 1
      BY <1>10
    <3>3. QED
      BY <3>1, <3>2, <1>5
  <2>6. QED
    BY <2>1, <2>2, <2>3, <2>4, <2>5, <1>5
<1>11. Ordered(l, new)
  BY <1>6, <1>9, <1>10 DEF Ordered
<1>12. next \in 1..(n + 1) /\ \A i \in 1..n : i < next => ts[i].tapped
  BY <1>1 DEF Passed
<1>13. Passed(new, Pulled(next, p))
  <2>1. PICK c : c = Pulled(next, p)
    OBVIOUS
  <2>2. c = IF p < next THEN p ELSE next
    BY <2>1 DEF Pulled
  <2>3. c \in 1..(n + 2) /\ c <= next /\ c <= p
    BY <1>5, <1>12, <2>2
  <2>4. ASSUME NEW i \in 1..(n + 1), i < c PROVE new[i].tapped
    <3>1. i < p /\ i < next /\ i \in 1..n
      BY <1>5, <1>12, <2>3, <2>4
    <3>2. QED
      BY <3>1, <1>8, <1>12
  <2>5. QED
    BY <1>6, <2>1, <2>3, <2>4, <1>5 DEF Passed
<1>14. QED
  BY <1>6, <1>11, <1>13

(* The average stays with its note, in its place. *)
LEMMA AverageKeeps ==
    ASSUME NEW l, NEW ts \in Seq(Mark), Ordered(l, ts), NEW next, Passed(ts, next),
           NEW t, NEW m \in 1..Len(ts), Of(l, ts[m].note, t),
           NEW new, new = [ts EXCEPT ![m] = Averaged(ts[m], t)]
    PROVE  new \in Seq(Mark) /\ Ordered(l, new) /\ Passed(new, next)
<1>1. PICK n : n = Len(ts)
  OBVIOUS
<1>2. n \in Nat /\ DOMAIN ts = 1..n /\ \A i \in 1..n : ts[i] \in Mark
  BY <1>1, MarkFields
<1>3. PICK a : a = Averaged(ts[m], t)
  OBVIOUS
<1>4. /\ a \in Mark /\ a.note = ts[m].note /\ a.tapped = ts[m].tapped
      /\ Of(l, a.note, a.target)
  <2>1. ts[m] \in Mark /\ Of(l, ts[m].note, ts[m].target)
    BY <1>1, <1>2 DEF Ordered
  <2>2. QED
    BY <1>3, <2>1, AverageIs
<1>5. new = [i \in 1..n |-> IF i = m THEN a ELSE ts[i]]
  BY <1>2, <1>3
<1>6. new \in [1..n -> Mark]
  BY <1>2, <1>4, <1>5
<1>7. new \in Seq(Mark) /\ Len(new) = n
  BY <1>2, <1>6
<1>8. \A i \in 1..n : new[i].note = ts[i].note /\ new[i].tapped = ts[i].tapped
  BY <1>4, <1>5
<1>9. \A i \in 1..n : Of(l, new[i].note, new[i].target)
  <2>1. \A i \in 1..n : Of(l, ts[i].note, ts[i].target)
    BY <1>1 DEF Ordered
  <2>2. \A i \in 1..n : new[i] = a \/ new[i] = ts[i]
    BY <1>5
  <2>3. QED
    BY <1>4, <2>1, <2>2
<1>10. Ordered(l, new)
  <2>1. \A i, j \in 1..n : i < j => ts[i].note < ts[j].note
    BY <1>1 DEF Ordered
  <2>2. \A i, j \in 1..n : i < j => new[i].note < new[j].note
    BY <1>8, <2>1
  <2>3. QED
    BY <1>7, <1>9, <2>2 DEF Ordered
<1>11. Passed(new, next)
  BY <1>1, <1>7, <1>8 DEF Passed
<1>12. QED
  BY <1>7, <1>10, <1>11

Observation == {o \in [note : Notes, target : Int] : Of(o.note.lane, o.note.at, o.target)}

LEMMA ObserveKeeps == ASSUME NEW s \in State, NEW o \in Observation PROVE Observe(s, o) \in State
<1>1. PICK l : l = o.note.lane
  OBVIOUS
<1>2. PICK ts : ts = s.tracks[l]
  OBVIOUS
<1>3. PICK x : x = o.note.at
  OBVIOUS
<1>4. PICK t : t = o.target
  OBVIOUS
<1>5. PICK m : m = Match(ts, t)
  OBVIOUS
<1>6. PICK p : p = LowerBound(ts, t)
  OBVIOUS
<1>7. /\ l \in Lanes /\ ts \in Seq(Mark) /\ Of(l, x, t)
      /\ s \in [tracks : [Lanes -> Seq(Mark)], next : [Lanes -> Int]]
      /\ \A k \in Lanes : Ordered(k, s.tracks[k]) /\ Passed(s.tracks[k], s.next[k])
  BY <1>1, <1>2, <1>3, <1>4 DEF State, Observation, Lanes
<1>8. Ordered(l, ts) /\ Passed(ts, s.next[l]) /\ s.next[l] \in Int
  BY <1>2, <1>7
<1>9. /\ m \in 0..Len(ts)
      /\ m # 0 => ts[m].note = x
      /\ m = 0 => \A k \in 1..Len(ts) : ts[k].note # x
  BY <1>5, <1>7, <1>8, MatchIs
<1>10. ASSUME NEW new \in Seq(Mark), NEW c \in Int, Ordered(l, new), Passed(new, c),
              NEW u, u = [tracks |-> [s.tracks EXCEPT ![l] = new],
                next |-> [s.next EXCEPT ![l] = c]]
       PROVE  u \in State
  <2>1. u \in [tracks : [Lanes -> Seq(Mark)], next : [Lanes -> Int]]
    BY <1>7, <1>10
  <2>2. ASSUME NEW k \in Lanes PROVE Ordered(k, u.tracks[k]) /\ Passed(u.tracks[k], u.next[k])
    <3>1. CASE k = l
      <4>1. u.tracks[k] = new /\ u.next[k] = c
        BY <1>7, <1>10, <3>1
      <4>2. QED
        BY <1>10, <3>1, <4>1
    <3>2. CASE k # l
      <4>1. u.tracks[k] = s.tracks[k] /\ u.next[k] = s.next[k]
        BY <1>7, <1>10, <3>2
      <4>2. QED
        BY <1>7, <4>1
    <3>3. QED
      BY <3>1, <3>2
  <2>3. QED
    BY <2>1, <2>2 DEF State
<1>11. CASE m # 0
  <2>1. PICK new : new = [ts EXCEPT ![m] = Averaged(ts[m], t)]
    OBVIOUS
  <2>2. m \in 1..Len(ts) /\ Of(l, ts[m].note, t)
    BY <1>7, <1>9, <1>11, MarkFields
  <2>3. new \in Seq(Mark) /\ Ordered(l, new) /\ Passed(new, s.next[l])
    BY <1>7, <1>8, <2>1, <2>2, AverageKeeps
  <2>4. Observe(s, o) = [s EXCEPT !.tracks[l][m] = Averaged(@, t)]
    BY <1>1, <1>2, <1>4, <1>5, <1>11 DEF Observe
  <2>5. Observe(s, o) = [tracks |-> [s.tracks EXCEPT ![l] = new],
                         next |-> [s.next EXCEPT ![l] = s.next[l]]]
    BY <1>2, <1>7, <2>1, <2>4
  <2>6. QED
    BY <1>8, <1>10, <2>3, <2>5
<1>12. CASE m = 0 /\ t < now - LateLimit
  BY <1>1, <1>2, <1>4, <1>5, <1>12 DEF Observe
<1>13. CASE m = 0 /\ ~(t < now - LateLimit)
  <2>1. PICK new : new = InsertAt(ts, p, Track(x, t))
    OBVIOUS
  <2>2. PICK c : c = Pulled(s.next[l], p)
    OBVIOUS
  <2>3. new \in Seq(Mark) /\ Ordered(l, new) /\ Passed(new, c)
    BY <1>6, <1>7, <1>8, <1>9, <1>13, <2>1, <2>2, InsertKeeps
  <2>4. c \in Int
    <3>1. p \in Int
      BY <1>6, <1>7, LowerBoundIs, MarkFields DEF Of
    <3>2. QED
      BY <1>8, <2>2, <3>1 DEF Pulled
  <2>5. Observe(s, o) = [s EXCEPT !.tracks[l] = InsertAt(@, p, Track(x, t)),
                                  !.next[l] = Pulled(@, p)]
    BY <1>1, <1>2, <1>3, <1>4, <1>5, <1>6, <1>13 DEF Observe, Place
  <2>6. Observe(s, o) = [tracks |-> [s.tracks EXCEPT ![l] = new],
                         next |-> [s.next EXCEPT ![l] = c]]
    BY <1>2, <1>7, <2>1, <2>2, <2>5
  <2>7. QED
    BY <1>10, <2>3, <2>4, <2>6
<1>14. QED
  BY <1>11, <1>12, <1>13

-----------------------------------------------------------------------------
(* A frame. *)

(* The greatest of some places. *)
LEMMA MaxIs ==
    ASSUME NEW n \in Nat, NEW S \in SUBSET (1..n), S # {}
    PROVE  Max(S) \in S
<1> DEFINE K == {n - x : x \in S}
<1>1. K \subseteq Nat /\ K # {}
  OBVIOUS
<1>2. PICK k \in K : \A y \in K : k <= y
  <2> HIDE DEF K
  <2>1. \E k \in K : \A y \in K : k <= y
    BY <1>1, Least
  <2>2. QED
    BY <2>1
<1>3. PICK x \in S : k = n - x
  OBVIOUS
<1>4. ASSUME NEW y \in S PROVE x >= y
  <2>1. n - x <= n - y
    BY <1>2, <1>3
  <2>2. x \in 1..n /\ y \in 1..n
    OBVIOUS
  <2>3. QED
    BY <2>1, <2>2
<1>5. \E z \in S : \A y \in S : z >= y
  BY <1>4
<1>6. QED
  BY <1>5 DEF Max

LEMMA ObservedKeeps ==
    ASSUME Sound, NEW n \in Nat, NEW os \in [1..n -> Observation]
    PROVE  Observed(os) \in State
<1> DEFINE D == 1..n
           b == [tracks |-> tracks, next |-> next_track]
           c == [s \in SUBSET D |-> Max(s)]
           o == [p \in D \X State |-> Observe(p[2], os[p[1]])]
           G == CHOOSE g : g = [s \in SUBSET DOMAIN os |->
                    IF s = {} THEN b ELSE Observe(g[s \ {Max(s)}], os[Max(s)])]
<1>1. Observed(os) = G[DOMAIN os]
  BY Zenon DEF Observed, FoldLeft, MapThenFoldSet
<1>2. DOMAIN os = D /\ IsFiniteSet(D) /\ b \in State /\ \A i \in D : os[i] \in Observation
  BY FS_Interval DEF Sound
<1>3. \A s \in SUBSET D : s # {} => c[s] = Max(s) /\ c[s] \in s
  BY MaxIs
<1> HIDE DEF D, b, c
<1>4. \A i \in D, x \in State : o[<<i, x>>] = Observe(x, os[i])
  OBVIOUS
<1> HIDE DEF o
<1>5. \A i \in D, x \in State : o[<<i, x>>] \in State
  BY <1>2, <1>4, ObserveKeeps
<1>6. PICK f \in [SUBSET D -> State] : f = [s \in SUBSET D |-> FoldStep(f, b, c, o, s)]
  <2>1. \A s \in SUBSET D : s # {} => c[s] \in s
    BY <1>3
  <2>2. b \in State /\ IsFiniteSet(D)
    BY <1>2
  <2>3. \E g \in [SUBSET D -> State] : Solves(g, D, b, c, o)
    <3>1. FoldsIn(D, State, c, o)
      BY <1>5, <2>1 DEF FoldsIn
    <3>2. QED
      BY <2>2, <3>1, FoldExists
  <2>4. QED
    BY <2>3 DEF Solves
<1>7. ASSUME NEW s \in SUBSET D
      PROVE  FoldStep(f, b, c, o, s) = IF s = {} THEN b ELSE Observe(f[s \ {Max(s)}], os[Max(s)])
  <2>1. CASE s = {}
    BY <2>1 DEF FoldStep
  <2>2. CASE s # {}
    <3>1. c[s] = Max(s) /\ c[s] \in D /\ f[s \ {c[s]}] \in State
      BY <1>3, <2>2
    <3>2. QED
      BY <1>4, <2>2, <3>1 DEF FoldStep
  <2>3. QED
    BY <2>1, <2>2
<1>8. f = [s \in SUBSET DOMAIN os |->
              IF s = {} THEN b ELSE Observe(f[s \ {Max(s)}], os[Max(s)])]
  BY <1>2, <1>6, <1>7
<1>9. G = [s \in SUBSET DOMAIN os |->
              IF s = {} THEN b ELSE Observe(G[s \ {Max(s)}], os[Max(s)])]
  BY <1>8
<1> HIDE DEF G
<1>10. G[{}] \in State
  BY <1>2, <1>9
<1>11. ASSUME NEW s \in SUBSET D, s # {}, G[s \ {c[s]}] \in State PROVE G[s] \in State
  <2>1. G[s] = Observe(G[s \ {c[s]}], os[c[s]])
    BY <1>2, <1>3, <1>9, <1>11
  <2>2. c[s] \in D
    BY <1>3, <1>11
  <2>3. QED
    BY <1>2, <1>11, <2>1, <2>2, ObserveKeeps
<1>12. G[D] \in State
  BY <1>2, <1>3, <1>10, <1>11, FoldKeeps
<1>13. QED
  BY <1>1, <1>2, <1>12

(* A finite set as a sequence. *)
LEMMA SetToSeqIs ==
    ASSUME NEW S, IsFiniteSet(S)
    PROVE  Cardinality(S) \in Nat /\ SetToSeq(S) \in [1..Cardinality(S) -> S]
<1> DEFINE f == CHOOSE f \in [1..Cardinality(S) -> S] : IsInjective(f)
<1>1. Cardinality(S) \in Nat
  BY FS_CardinalityType
<1>2. PICK h : h \in Bijection(1..Cardinality(S), S)
  <2>1. ExistsBijection(1..Cardinality(S), S)
    BY FS_CardinalityType
  <2>2. QED
    BY <2>1 DEF ExistsBijection
<1>3. \E g \in [1..Cardinality(S) -> S] : IsInjective(g)
  BY <1>2 DEF Bijection, Injection
<1>4. f \in [1..Cardinality(S) -> S]
  BY <1>3
<1>5. SetToSeq(S) = f
  BY DEF SetToSeq
<1>6. QED
  BY <1>1, <1>4, <1>5

(* What a timely frame shows of a note is near the note. *)
LEMMA SightingIs ==
    ASSUME PixelInv, UseForTracking(now), NEW sighting \in Sightings
    PROVE  LET os == {[note |-> n, target |-> sighting[n]] : n \in DOMAIN sighting}
           IN  os \subseteq Observation /\ IsFiniteSet(os)
<1>1. Off = -Error .. Error
  BY Constants DEF Off, UseForTracking, PixelInv
<1>2. PICK seen \in SUBSET InSight : \E off \in [seen -> Off] :
         sighting = [n \in seen |-> n.at + off[n]]
  BY DEF Sightings
<1>3. PICK off \in [seen -> Off] : sighting = [n \in seen |-> n.at + off[n]]
  BY <1>2
<1>4. DOMAIN sighting = seen /\ seen \subseteq Notes
  BY <1>3 DEF InSight
<1> DEFINE O(n) == [note |-> n, target |-> sighting[n]]
<1>5. ASSUME NEW n \in seen PROVE O(n) \in Observation
  <2>1. n \in Notes /\ n.at \in Nat /\ off[n] \in -Error .. Error
    BY <1>1, <1>3, <1>4, Constants
  <2>2. sighting[n] = n.at + off[n]
    BY <1>3
  <2>3. sighting[n] \in Int /\ sighting[n] - n.at <= Error /\ n.at - sighting[n] <= Error
    BY <2>1, <2>2, Constants
  <2>4. Of(n.lane, n.at, sighting[n])
    BY <2>1, <2>3 DEF Of
  <2>5. QED
    BY <2>1, <2>3, <2>4 DEF Observation
<1>6. IsFiniteSet(seen)
  BY <1>4, Constants, FS_Subset
<1>7. IsFiniteSet({O(n) : n \in seen})
  <2> DEFINE f == [n \in seen |-> O(n)]
             T == {O(n) : n \in seen}
  <2>1. f \in [seen -> T] /\ \A y \in T : \E n \in seen : f[n] = y
    OBVIOUS
  <2> HIDE DEF f, T
  <2>2. f \in Surjection(seen, T)
    BY <2>1 DEF Surjection
  <2>3. IsFiniteSet(T)
    BY <1>6, <2>2, FS_Surjection
  <2>4. QED
    BY <2>3 DEF T
<1>8. QED
  BY <1>4, <1>5, <1>7

(* The mark that a track was seen in this frame goes with the frame. *)
LEMMA TrackedKeeps ==
    ASSUME Sound, NEW sighting,
           LET os == {[note |-> n, target |-> sighting[n]] : n \in DOMAIN sighting}
           IN  os \subseteq Observation /\ IsFiniteSet(os),
           Tracked(sighting)
    PROVE  Sound'
<1>1. PICK os : os = {[note |-> n, target |-> sighting[n]] : n \in DOMAIN sighting}
  OBVIOUS
<1>2. os \subseteq Observation /\ IsFiniteSet(os)
  BY <1>1
<1>3. PICK q : q = SetToSeq(os)
  OBVIOUS
<1>4. PICK n \in Nat : q \in [1..n -> Observation]
  BY <1>2, <1>3, SetToSeqIs
<1>5. PICK s : s = Observed(q)
  OBVIOUS
<1>6. s \in State
  BY <1>4, <1>5, ObservedKeeps
<1>7. /\ tracks' = [l \in Lanes |-> [i \in DOMAIN s.tracks[l] |->
                                       [s.tracks[l][i] EXCEPT !.seen = FALSE]]]
      /\ next_track' = s.next
  BY <1>1, <1>3, <1>5 DEF Tracked
<1>8. /\ s \in [tracks : [Lanes -> Seq(Mark)], next : [Lanes -> Int]]
      /\ \A l \in Lanes : Ordered(l, s.tracks[l]) /\ Passed(s.tracks[l], s.next[l])
  BY <1>6 DEF State
<1>9. ASSUME NEW l \in Lanes
      PROVE  /\ tracks'[l] \in Seq(Mark) /\ Ordered(l, tracks'[l])
             /\ Passed(tracks'[l], next_track'[l])
  <2>1. PICK ts : ts = s.tracks[l]
    OBVIOUS
  <2>2. PICK k : k = Len(ts)
    OBVIOUS
  <2>3. /\ ts \in Seq(Mark) /\ k \in Nat /\ DOMAIN ts = 1..k
        /\ \A i \in 1..k : ts[i] \in Mark
    BY <1>8, <2>1, <2>2, MarkFields
  <2>4. PICK new : new = tracks'[l]
    OBVIOUS
  <2>5. new = [i \in 1..k |-> [ts[i] EXCEPT !.seen = FALSE]]
    BY <1>7, <2>1, <2>3, <2>4
  <2>6. \A i \in 1..k : /\ new[i] \in Mark /\ new[i].note = ts[i].note
                         /\ new[i].target = ts[i].target /\ new[i].tapped = ts[i].tapped
    BY <2>3, <2>5 DEF Mark
  <2>7. new \in Seq(Mark) /\ Len(new) = k
    BY <2>3, <2>5, <2>6
  <2>8. Ordered(l, ts) /\ Passed(ts, s.next[l])
    BY <1>8, <2>1
  <2>9. Ordered(l, new)
    BY <2>2, <2>6, <2>7, <2>8 DEF Ordered
  <2>10. Passed(new, s.next[l])
    BY <2>2, <2>6, <2>7, <2>8 DEF Passed
  <2>11. QED
    BY <1>7, <2>4, <2>7, <2>9, <2>10
<1>10. [tracks |-> tracks', next |-> next_track'] \in State
  <2>1. tracks' \in [Lanes -> Seq(Mark)]
    <3>1. DOMAIN tracks' = Lanes /\ tracks' = [l \in Lanes |-> tracks'[l]]
      BY <1>7
    <3>2. QED
      BY <1>9, <3>1
  <2>2. next_track' \in [Lanes -> Int]
    BY <1>7, <1>8
  <2>3. QED
    BY <1>9, <2>1, <2>2 DEF State
<1>11. QED
  BY <1>10 DEF Sound

-----------------------------------------------------------------------------
(* The scheduler. *)

LEMMA SoundParts ==
    ASSUME Sound, NEW l \in Lanes
    PROVE  /\ tracks[l] \in Seq(Mark) /\ next_track[l] \in Int
           /\ Ordered(l, tracks[l]) /\ Passed(tracks[l], next_track[l])
           /\ tracks \in [Lanes -> Seq(Mark)] /\ next_track \in [Lanes -> Int]
<1>1. PICK s : s = [tracks |-> tracks, next |-> next_track]
  OBVIOUS
<1>2. /\ s.tracks = tracks /\ s.next = next_track
      /\ s \in [tracks : [Lanes -> Seq(Mark)], next : [Lanes -> Int]]
      /\ Ordered(l, s.tracks[l]) /\ Passed(s.tracks[l], s.next[l])
  BY <1>1 DEF Sound, State
<1>3. QED
  BY <1>2

FirstOpen(l, i) ==
    /\ i <= Len(tracks[l]) => ~tracks[l][i].tapped
    /\ \A j \in next_track[l]..(i - 1) : tracks[l][j].tapped

LEMMA CursorIs ==
    ASSUME Sound, NEW l \in Lanes
    PROVE  /\ Cursor(l) \in 1..(Len(tracks[l]) + 1)
           /\ Cursor(l) <= Len(tracks[l]) => ~tracks[l][Cursor(l)].tapped
           /\ \A j \in 1..Len(tracks[l]) : j < Cursor(l) => tracks[l][j].tapped
<1>1. PICK ts : ts = tracks[l]
  OBVIOUS
<1>2. PICK n : n = Len(ts)
  OBVIOUS
<1>3. PICK a : a = next_track[l]
  OBVIOUS
<1>4. /\ ts \in Seq(Mark) /\ n \in Nat /\ a \in 1..(n + 1)
      /\ \A j \in 1..n : j < a => ts[j].tapped
      /\ \A j \in 1..n : ts[j].tapped \in BOOLEAN
  BY <1>1, <1>2, <1>3, SoundParts, MarkFields DEF Passed, Mark
<1> DEFINE K == {i \in a..(n + 1) : i = n + 1 \/ ~ts[i].tapped}
<1>5. n + 1 \in K /\ K \subseteq Nat
  BY <1>4
<1>6. PICK p \in K : \A y \in K : p <= y
  <2> HIDE DEF K
  <2>1. \E p \in K : \A y \in K : p <= y
    BY <1>5, Least
  <2>2. QED
    BY <2>1
<1>7. p \in a..(n + 1) /\ (p <= n => ~ts[p].tapped)
  BY <1>4
<1>8. ASSUME NEW j \in a..(p - 1) PROVE ts[j].tapped
  <2>1. j \in a..(n + 1) /\ j < p /\ j # n + 1
    BY <1>4, <1>7
  <2>2. j \notin K
    BY <1>4, <1>6, <1>7, <2>1
  <2>3. QED
    BY <2>1, <2>2
<1>9. FirstOpen(l, p)
  BY <1>1, <1>2, <1>3, <1>7, <1>8 DEF FirstOpen
<1> HIDE DEF K
<1> DEFINE q == CHOOSE i \in next_track[l]..(Len(tracks[l]) + 1) : FirstOpen(l, i)
<1>10. Cursor(l) = q
  BY DEF Cursor, FirstOpen
<1>11. q \in next_track[l]..(Len(tracks[l]) + 1) /\ FirstOpen(l, q)
  BY <1>1, <1>2, <1>3, <1>7, <1>9
<1> HIDE DEF q
<1>12. PICK c : c = Cursor(l)
  OBVIOUS
<1>13. c \in a..(n + 1) /\ (c <= n => ~ts[c].tapped) /\ \A j \in a..(c - 1) : ts[j].tapped
  BY <1>1, <1>2, <1>3, <1>10, <1>11, <1>12 DEF FirstOpen
<1>14. \A j \in 1..n : j < c => ts[j].tapped
  <2> SUFFICES ASSUME NEW j \in 1..n, j < c PROVE ts[j].tapped
    OBVIOUS
  <2>1. CASE j < a
    BY <2>1, <1>4
  <2>2. CASE j >= a
    BY <2>2, <1>4, <1>13
  <2>3. QED
    BY <2>1, <2>2, <1>4
<1>15. c \in 1..(n + 1)
  BY <1>4, <1>13
<1>16. QED
  BY <1>1, <1>2, <1>12, <1>13, <1>14, <1>15

Sooner(l, k) ==
    Best(l).target < Best(k).target \/ (Best(l).target = Best(k).target /\ l <= k)

(* A lane that has a track to tap has one that is due first. *)
LEMMA ChosenIs ==
    ASSUME Sound, Waiting # {}
    PROVE  /\ Chosen \in Waiting
           /\ \A k \in Waiting : Best(k).target \in Int /\ Best(Chosen).target <= Best(k).target
<1>1. ASSUME NEW l \in Waiting
      PROVE  l \in Nat /\ Best(l).target \in Int /\ Best(l).target + Error \in Nat
  <2>1. l \in Lanes /\ Cursor(l) \in 1..Len(tracks[l])
    BY CursorIs, SoundParts, MarkFields DEF Waiting
  <2>2. l \in Nat
    BY <2>1, Constants DEF Lanes
  <2>3. Of(l, Best(l).note, Best(l).target)
    BY <2>1, SoundParts DEF Ordered, Best
  <2>4. QED
    BY <2>2, <2>3, Constants DEF Of
<1> DEFINE A == {Best(l).target + Error : l \in Waiting}
<1>2. A \subseteq Nat /\ A # {}
  BY <1>1
<1>3. PICK a \in A : \A b \in A : a <= b
  <2> HIDE DEF A
  <2>1. \E a \in A : \A b \in A : a <= b
    BY <1>2, Least
  <2>2. QED
    BY <2>1
<1> DEFINE B == {l \in Waiting : Best(l).target + Error = a}
<1>4. B \subseteq Nat /\ B # {}
  BY <1>1
<1>5. PICK m \in B : \A l \in B : m <= l
  <2> HIDE DEF B
  <2>1. \E m \in B : \A l \in B : m <= l
    BY <1>4, Least
  <2>2. QED
    BY <2>1
<1>6. m \in Waiting /\ Best(m).target + Error = a
  OBVIOUS
<1>7. ASSUME NEW k \in Waiting PROVE Sooner(m, k)
  <2>1. Best(m).target + Error <= Best(k).target + Error
    BY <1>3, <1>6
  <2>2. Best(m).target \in Int /\ Best(k).target \in Int /\ Best(m).target <= Best(k).target
    BY <1>1, <1>6, <2>1, Constants
  <2>3. CASE Best(m).target = Best(k).target
    <3>1. k \in B
      BY <1>6, <2>3
    <3>2. m <= k
      BY <1>5, <3>1
    <3>3. QED
      BY <2>3, <3>2 DEF Sooner
  <2>4. CASE Best(m).target < Best(k).target
    BY <2>4 DEF Sooner
  <2>5. QED
    BY <2>2, <2>3, <2>4
<1> HIDE DEF A, B
<1> DEFINE q == CHOOSE l \in Waiting : \A k \in Waiting : Sooner(l, k)
<1>8. Chosen = q
  BY DEF Chosen, Sooner
<1>9. q \in Waiting /\ \A k \in Waiting : Sooner(q, k)
  BY <1>6, <1>7
<1> HIDE DEF q
<1>10. \A k \in Waiting : Best(q).target <= Best(k).target
  BY <1>1, <1>9 DEF Sooner
<1>11. QED
  BY <1>1, <1>8, <1>9, <1>10

LEMMA ChoosesKeeps == ASSUME Sound, SchedulerChooses PROVE Sound'
<1>1. next_track' = [l \in Lanes |-> Cursor(l)]
  BY DEF SchedulerChooses
<1>2. ASSUME NEW l \in Lanes
      PROVE  /\ tracks[l] \in Seq(Mark) /\ Ordered(l, tracks[l]) /\ Cursor(l) \in Int
             /\ Passed(tracks[l], Cursor(l))
  BY CursorIs, SoundParts, MarkFields DEF Passed
<1>3. CASE UNCHANGED tracks
  <2>1. [tracks |-> tracks, next |-> [l \in Lanes |-> Cursor(l)]] \in State
    BY <1>2, SoundParts DEF State, Sound
  <2>2. QED
    BY <1>1, <1>3, <2>1 DEF Sound
<1>4. CASE Due /\ tracks' = [tracks EXCEPT ![Chosen][Cursor(Chosen)].tapped = TRUE]
  <2>1. Chosen \in Lanes /\ Cursor(Chosen) \in 1..Len(tracks[Chosen])
    BY <1>4, ChosenIs, CursorIs, SoundParts, MarkFields DEF Due, Waiting
  <2>2. PICK c : c = Chosen
    OBVIOUS
  <2>3. PICK m : m = Cursor(c)
    OBVIOUS
  <2>4. PICK ts : ts = tracks[c]
    OBVIOUS
  <2>5. PICK n : n = Len(ts)
    OBVIOUS
  <2>6. PICK new : new = tracks'[c]
    OBVIOUS
  <2>7. /\ c \in Lanes /\ m \in 1..n /\ ts \in Seq(Mark) /\ n \in Nat /\ DOMAIN ts = 1..n
        /\ Ordered(c, ts) /\ Passed(ts, m) /\ tracks \in [Lanes -> Seq(Mark)]
        /\ \A i \in 1..n : ts[i] \in Mark
    BY <2>1, <2>2, <2>3, <2>4, <2>5, <1>2, MarkFields, SoundParts
  <2>8. tracks' = [tracks EXCEPT ![c][m].tapped = TRUE]
    BY <1>4, <2>2, <2>3
  <2>9. new = [ts EXCEPT ![m].tapped = TRUE] /\ \A l \in Lanes : l # c => tracks'[l] = tracks[l]
    BY <2>4, <2>6, <2>7, <2>8
  <2>10. new = [i \in 1..n |-> IF i = m THEN [ts[i] EXCEPT !.tapped = TRUE] ELSE ts[i]]
    BY <2>7, <2>9
  <2>11. \A i \in 1..n : /\ new[i] \in Mark /\ new[i].note = ts[i].note
                          /\ new[i].target = ts[i].target /\ (ts[i].tapped => new[i].tapped)
    BY <2>7, <2>10 DEF Mark
  <2>12. new \in Seq(Mark) /\ Len(new) = n
    <3>1. new \in [1..n -> Mark]
      BY <2>10, <2>11
    <3>2. QED
      BY <2>7, <3>1
  <2>13. Ordered(c, new)
    BY <2>5, <2>7, <2>11, <2>12 DEF Ordered
  <2>14. Passed(new, m)
    BY <2>5, <2>7, <2>11, <2>12 DEF Passed
  <2>15. ASSUME NEW l \in Lanes
         PROVE  /\ tracks'[l] \in Seq(Mark) /\ Ordered(l, tracks'[l])
                /\ Passed(tracks'[l], Cursor(l))
    <3>1. CASE l = c
      BY <3>1, <2>3, <2>6, <2>12, <2>13, <2>14
    <3>2. CASE l # c
      BY <3>2, <2>9, <1>2
    <3>3. QED
      BY <3>1, <3>2
  <2>16. tracks' \in [Lanes -> Seq(Mark)]
    <3>1. tracks' = [l \in Lanes |-> tracks'[l]]
      BY <2>7, <2>8
    <3>2. QED
      BY <2>15, <3>1
  <2>17. [tracks |-> tracks', next |-> [l \in Lanes |-> Cursor(l)]] \in State
    BY <1>2, <2>15, <2>16 DEF State
  <2>18. QED
    BY <1>1, <2>17 DEF Sound
<1>5. QED
  BY <1>3, <1>4 DEF SchedulerChooses

LEMMA FrameKeeps == ASSUME PixelInv, NEW whole, Frame(whole) PROVE Sound'
<1>1. CASE UseForTracking(now) /\ \E sighting \in Sightings : Tracked(sighting)
  <2>1. PICK sighting \in Sightings : Tracked(sighting)
    BY <1>1
  <2>2. QED
    BY <1>1, <2>1, SightingIs, TrackedKeeps DEF PixelInv
<1>2. CASE UNCHANGED trackVars
  BY <1>2 DEF trackVars, PixelInv, Sound
<1>3. QED
  BY <1>1, <1>2 DEF Frame

LEMMA PixelStep == ASSUME PixelInv, [Next]_vars PROVE PixelInv'
<1>1. Sound'
  <2>1. CASE \E whole \in BOOLEAN : Frame(whole)
    BY <2>1, FrameKeeps
  <2>2. CASE SchedulerChooses
    BY <2>2, ChoosesKeeps DEF PixelInv
  <2>3. CASE UNCHANGED trackVars
    BY <2>3 DEF trackVars, PixelInv, Sound
  <2>4. QED
    BY <2>1, <2>2, <2>3 DEF Next, Main, Scheduler, Tick, UnreadableFrame, ReadFails, MainGivesUp,
       MainStops, MainJoins, SchedulerStops, SchedulerTaps, vars
<1>2. now' \in Nat /\ last_receipt' \in Nat
  <2>1. CASE Tick \/ UNCHANGED vars
    BY <2>1 DEF PixelInv, Tick, vars, frameVars
  <2>2. CASE \E whole \in BOOLEAN : Frame(whole) \/ UnreadableFrame(whole)
    <3>1. now' = now /\ last_receipt' = now
      BY <2>2 DEF Frame, UnreadableFrame
    <3>2. QED
      BY <3>1 DEF PixelInv
  <2>3. CASE ReadFails \/ MainGivesUp \/ MainStops \/ MainJoins
    BY <2>3 DEF PixelInv, ReadFails, MainGivesUp, MainStops, MainJoins, frameVars
  <2>4. CASE Scheduler
    BY <2>4 DEF PixelInv, Scheduler, SchedulerStops, SchedulerChooses, SchedulerTaps, frameVars
  <2>5. QED
    BY <2>1, <2>2, <2>3, <2>4 DEF Next, Main
<1>3. QED
  BY <1>1, <1>2 DEF PixelInv

LEMMA PixelInit == Init => PixelInv
<1> SUFFICES ASSUME Init PROVE PixelInv
  OBVIOUS
<1>1. /\ tracks = [l \in Lanes |-> <<>>] /\ next_track = [l \in Lanes |-> 1]
      /\ now = 0 /\ last_receipt = 0
  BY DEF Init
<1>2. <<>> \in Seq(Mark) /\ Len(<<>>) = 0
  OBVIOUS
<1>3. \A l \in Lanes : Ordered(l, <<>>) /\ Passed(<<>>, 1)
  BY <1>2 DEF Ordered, Passed
<1>4. [tracks |-> tracks, next |-> next_track] \in State
  BY <1>1, <1>2, <1>3 DEF State
<1>5. QED
  BY <1>1, <1>4 DEF PixelInv, Sound

(* However late, damaged or stale the frames are and however the threads    *)
(* interleave, a note of the game has one track, and the tracks of a lane   *)
(* are in the order of their times.                                         *)
THEOREM OneTrackCorrect == Spec => []OneTrackPerNote
<1>1. PixelInv => OneTrackPerNote
  <2> SUFFICES ASSUME PixelInv, NEW l \in Lanes, NEW i \in DOMAIN tracks[l],
                      NEW j \in DOMAIN tracks[l], i < j
               PROVE  /\ tracks[l][i].note # tracks[l][j].note
                      /\ tracks[l][i].target < tracks[l][j].target
    BY DEF OneTrackPerNote
  <2>1. tracks[l] \in Seq(Mark) /\ Ordered(l, tracks[l])
    BY SoundParts DEF PixelInv
  <2>2. i \in 1..Len(tracks[l]) /\ j \in 1..Len(tracks[l])
    BY <2>1, MarkFields
  <2>3. tracks[l][i].note < tracks[l][j].note /\ tracks[l][i].note \in Int
    BY <2>1, <2>2, MarkFields DEF Ordered
  <2>4. QED
    BY <2>1, <2>2, <2>3, TargetsOrdered
<1>2. QED
  BY <1>1, PixelInit, PixelStep, PTL DEF Spec

(* A cursor never hides a track: what the scheduler takes is the earliest   *)
(* of all that are not tapped yet, in any lane.                             *)
THEOREM EarliestCorrect == Spec => EarliestFirst
<1>1. ASSUME PixelInv, [Next]_vars, sched = "choosing", sched' = "tapping",
             NEW l \in Lanes, NEW i \in DOMAIN tracks[l], ~tracks[l][i].tapped
      PROVE  chosen'.target <= tracks[l][i].target
  <2>1. SchedulerChooses
    BY <1>1 DEF Next, Main, Scheduler, Tick, Frame, UnreadableFrame, ReadFails, MainGivesUp,
       MainStops, MainJoins, SchedulerStops, SchedulerTaps, vars, schedVars
  <2>2. Due /\ chosen'.target = Best(Chosen).target
    BY <1>1, <2>1 DEF SchedulerChooses
  <2>3. /\ Sound /\ tracks[l] \in Seq(Mark) /\ Ordered(l, tracks[l])
        /\ i \in 1..Len(tracks[l]) /\ Len(tracks[l]) \in Nat
    BY <1>1, SoundParts, MarkFields DEF PixelInv
  <2>4. Cursor(l) \in 1..(Len(tracks[l]) + 1) /\ ~(i < Cursor(l))
    BY <1>1, <2>3, CursorIs
  <2>5. PICK m : m = Cursor(l)
    OBVIOUS
  <2>6. m \in 1..Len(tracks[l]) /\ m <= i
    BY <2>3, <2>4, <2>5
  <2>7. l \in Waiting /\ Best(l) = tracks[l][m]
    BY <2>5, <2>6 DEF Waiting, Best
  <2>8. Best(Chosen).target <= Best(l).target /\ Best(Chosen).target \in Int
    BY <2>2, <2>3, <2>7, ChosenIs DEF Due
  <2>9. tracks[l][m].target \in Int /\ tracks[l][i].target \in Int
    BY <2>3, <2>6, MarkFields
  <2>10. CASE m = i
    BY <2>2, <2>7, <2>8, <2>10
  <2>11. CASE m < i
    <3>1. tracks[l][m].target < tracks[l][i].target
      BY <2>3, <2>6, <2>11, TargetsOrdered
    <3>2. QED
      BY <2>2, <2>7, <2>8, <2>9, <3>1
  <2>12. QED
    BY <2>3, <2>6, <2>10, <2>11
<1>2. PixelInv /\ [Next]_vars =>
         [sched = "choosing" /\ sched' = "tapping" =>
             \A l \in Lanes : \A i \in DOMAIN tracks[l] :
                 tracks[l][i].tapped \/ chosen'.target <= tracks[l][i].target]_vars
  BY <1>1
<1>3. QED
  BY <1>2, PixelInit, PixelStep, PTL DEF Spec, EarliestFirst
=============================================================================
