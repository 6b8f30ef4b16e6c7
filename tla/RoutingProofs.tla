---------------------------- MODULE RoutingProofs ----------------------------
(***************************************************************************)
(* Proofs about the router: what it chooses, for every history of the      *)
(* providers and every preference.                                         *)
(***************************************************************************)
EXTENDS Routing, TLAPS

(***************************************************************************)
(* Fractions with a positive denominator are ordered.                      *)
(***************************************************************************)

Fraction == Int \X (Nat \ {0})

LEMMA Cancel ==
  ASSUME NEW x \in Int, NEW y \in Int, NEW d \in Nat \ {0}
  PROVE  /\ x * d > y * d <=> x > y
         /\ x * d = y * d <=> x = y
<1>1. x > y => x * d > y * d
  <2> SUFFICES ASSUME x > y PROVE x * d > y * d
    OBVIOUS
  <2>1. x - y \in Nat /\ x - y >= 1 /\ (x - y) * d >= 1 /\ (x - y) * d = x * d - y * d
    OBVIOUS
  <2> QED
    BY <2>1
<1>2. y > x => y * d > x * d
  <2> SUFFICES ASSUME y > x PROVE y * d > x * d
    OBVIOUS
  <2>1. y - x \in Nat /\ y - x >= 1 /\ (y - x) * d >= 1 /\ (y - x) * d = y * d - x * d
    OBVIOUS
  <2> QED
    BY <2>1
<1>3. x * d \in Int /\ y * d \in Int
  OBVIOUS
<1> QED
  BY <1>1, <1>2, <1>3

\* ~Above is a total preorder, Ties its equivalence.
LEMMA AboveOrders ==
  ASSUME NEW s \in Fraction, NEW t \in Fraction, NEW u \in Fraction
  PROVE  /\ Above(s, t) \/ Above(t, s) \/ Ties(s, t)
         /\ Above(s, t) => ~Above(t, s) /\ ~Ties(s, t)
         /\ Ties(s, t) => Ties(t, s)
         /\ ~Above(t, s) /\ ~Above(u, t) => ~Above(u, s)
         /\ Above(s, t) /\ ~Above(u, t) => Above(s, u)
         /\ ~Above(t, s) /\ Above(t, u) => Above(s, u)
<1> DEFINE a == s[1]  b == s[2]  c == t[1]  d == t[2]  e == u[1]  f == u[2]
<1>1. a \in Int /\ c \in Int /\ e \in Int
  BY DEF Fraction
<1>2. b \in Nat \ {0} /\ d \in Nat \ {0} /\ f \in Nat \ {0}
  BY DEF Fraction
<1>3. /\ Above(s, t) <=> a * d > c * b
      /\ Above(t, s) <=> c * b > a * d
      /\ Ties(s, t) <=> a * d = c * b
      /\ Ties(t, s) <=> c * b = a * d
      /\ Above(t, u) <=> c * f > e * d
      /\ Above(u, t) <=> e * d > c * f
      /\ Above(s, u) <=> a * f > e * b
      /\ Above(u, s) <=> e * b > a * f
  BY DEF Above, Ties
<1> HIDE DEF a, b, c, d, e, f
\* All three are compared over the common denominator.
<1> DEFINE x == a * d * f  y == c * b * f  z == e * b * d
<1>4. a * d \in Int /\ c * b \in Int /\ c * f \in Int /\ e * d \in Int /\ a * f \in Int /\ e * b \in Int
  BY <1>1, <1>2
<1>5. /\ a * d * f = x /\ c * b * f = y
      /\ c * f * b = y /\ e * d * b = z
      /\ a * f * d = x /\ e * b * d = z
  BY <1>1, <1>2
<1>6. x \in Int /\ y \in Int /\ z \in Int
  BY <1>1, <1>2
<1> HIDE DEF x, y, z
<1> DEFINE ad == a * d  cb == c * b  cf == c * f  ed == e * d  af == a * f  eb == e * b
<1>7. /\ ad * f = x /\ cb * f = y
      /\ cf * b = y /\ ed * b = z
      /\ af * d = x /\ eb * d = z
  BY <1>5
<1>8. /\ ad \in Int /\ cb \in Int /\ cf \in Int /\ ed \in Int /\ af \in Int /\ eb \in Int
  BY <1>4
<1>10. /\ Above(s, t) <=> ad > cb
       /\ Above(t, s) <=> cb > ad
       /\ Ties(s, t) <=> ad = cb
       /\ Ties(t, s) <=> cb = ad
       /\ Above(t, u) <=> cf > ed
       /\ Above(u, t) <=> ed > cf
       /\ Above(s, u) <=> af > eb
       /\ Above(u, s) <=> eb > af
  BY <1>3
<1> HIDE DEF ad, cb, cf, ed, af, eb
<1>11. /\ ad > cb <=> x > y
       /\ cb > ad <=> y > x
       /\ ad = cb <=> x = y
  BY <1>2, <1>8, <1>7, Cancel
<1>12. /\ cf > ed <=> y > z
       /\ ed > cf <=> z > y
  BY <1>2, <1>8, <1>7, Cancel
<1>13. /\ af > eb <=> x > z
       /\ eb > af <=> z > x
  BY <1>2, <1>8, <1>7, Cancel
<1> QED
  BY <1>6, <1>10, <1>11, <1>12, <1>13

(***************************************************************************)
(* Scores                                                                  *)
(***************************************************************************)

\* What StatsFor may return.
IsStats(stats) ==
    /\ stats.runs \in [Provider -> Nat] /\ stats.adoptions \in [Provider -> Nat]
    /\ stats.rejects \in [Provider -> Nat] /\ stats.minutes \in [Provider -> Nat]

Bonus(p, model, effort) ==
    (IF model /\ p \in ModelSelection THEN 2 ELSE 0)
      + (IF effort /\ p \in EffortSelection THEN 1 ELSE 0)

LEMMA BonusIsNatural ==
  ASSUME NEW p \in Provider, NEW model \in BOOLEAN, NEW effort \in BOOLEAN
  PROVE  Bonus(p, model, effort) \in Nat
  BY DEF Bonus

LEMMA ScoreIsFraction ==
  ASSUME NEW stats, IsStats(stats), NEW p \in Provider, Qualified(stats, p),
         NEW model \in BOOLEAN, NEW effort \in BOOLEAN
  PROVE  ScoreWithModel(stats, p, model, effort) \in Fraction
<1> DEFINE n == stats.runs[p]  m == stats.minutes[p]
           a == stats.adoptions[p]  r == stats.rejects[p]  B == Bonus(p, model, effort)
<1>1. n \in Nat \ {0} /\ m \in Nat /\ a \in Nat /\ r \in Nat /\ B \in Nat
  BY BonusIsNatural DEF IsStats, Qualified, MinAutoSamples
<1> DEFINE X == 7 * a + 5 * (n - r)  D == n * (n + m)
<1>2. /\ ScoreWithModel(stats, p, model, effort)
           = <<X * (n + m) + 3 * n * n + B * D, D>>
  BY <1>1 DEF ScoreWithModel, Score, Bonus
<1>3. X \in Int /\ n + m \in Nat \ {0}
  BY <1>1
<1> HIDE DEF n, m, B, X
<1>4. D \in Nat \ {0}
  <2>1. D \in Nat
    BY <1>1, <1>3
  <2>2. 1 <= n + m /\ n * (n + m) > 0 * (n + m)
    BY <1>1, <1>3, Cancel
  <2> QED
    BY <2>1, <2>2, <1>3
<1>5. X * (n + m) + 3 * n * n + B * D \in Int
  BY <1>1, <1>3, <1>4
<1> QED
  BY <1>2, <1>4, <1>5 DEF Fraction

(***************************************************************************)
(* The choice                                                              *)
(***************************************************************************)

Zero == <<0, 1>>

LEMMA Positions ==
  /\ Provider = {"codex", "claude", "agy", "reasonix"}
  /\ Position("codex") = 1 /\ Position("claude") = 2
  /\ Position("agy") = 3 /\ Position("reasonix") = 4
<1>1. DOMAIN Candidates = 1 .. 4
  BY DEF Candidates
<1>2. /\ Candidates[1] = "codex" /\ Candidates[2] = "claude"
      /\ Candidates[3] = "agy" /\ Candidates[4] = "reasonix"
  BY DEF Candidates
<1>3. \A i \in DOMAIN Candidates : i = 1 \/ i = 2 \/ i = 3 \/ i = 4
  BY <1>1
<1>4. Provider = {"codex", "claude", "agy", "reasonix"}
  BY <1>1, <1>2, <1>3 DEF Provider, ToSet
<1>5. Position("codex") = 1
  BY <1>1, <1>2, <1>3 DEF Position
<1>6. Position("claude") = 2
  BY <1>1, <1>2, <1>3 DEF Position
<1>7. Position("agy") = 3
  BY <1>1, <1>2, <1>3 DEF Position
<1>8. Position("reasonix") = 4
  BY <1>1, <1>2, <1>3 DEF Position
<1> QED
  BY <1>4, <1>5, <1>6, <1>7, <1>8

\* The best of the qualified candidates in S, which the second pass has seen.
Leads(stats, model, effort, best, S) ==
    LET sc(q) == ScoreWithModel(stats, q, model, effort)
    IN  /\ best.id = NoID => best.score = Zero
        /\ best.id # NoID => /\ best.id \in S /\ Qualified(stats, best.id)
                             /\ best.score = sc(best.id)
                             /\ best.id # Default => Above(best.score, Zero)
        /\ ~Above(Zero, best.score)
        /\ \A q \in S : Qualified(stats, q) => ~Above(sc(q), best.score)
        /\ \A q \in S : Qualified(stats, q) /\ Ties(sc(q), best.score) =>
             \/ best.id = Default
             \/ best.id = NoID /\ q # Default
             \/ best.id # NoID /\ q # Default /\ Position(best.id) <= Position(q)

LEMMA KeepLeads ==
  ASSUME NEW stats, IsStats(stats), NEW model \in BOOLEAN, NEW effort \in BOOLEAN,
         NEW best, NEW S \in SUBSET Provider, NEW p \in Provider,
         Leads(stats, model, effort, best, S),
         \A q \in S : Position(q) < Position(p)
  PROVE  Leads(stats, model, effort, Keep(stats, model, effort, best, p), S \cup {p})
<1> DEFINE sc(q) == ScoreWithModel(stats, q, model, effort)
           next  == Keep(stats, model, effort, best, p)
           old   == best.score
<1>1. \A q \in Provider : Qualified(stats, q) => sc(q) \in Fraction
  BY ScoreIsFraction
<1>2. Zero \in Fraction /\ old \in Fraction
  <2>1. Zero \in Fraction
    BY DEF Zero, Fraction
  <2> QED
    BY <2>1, <1>1 DEF Leads
<1>3. ~Above(Zero, Zero)
  BY DEF Above, Zero
<1>4. \A q \in Provider : q # NoID /\ Position(q) \in Nat
  <2> TAKE q \in Provider
  <2>1. q = "codex" \/ q = "claude" \/ q = "agy" \/ q = "reasonix"
    BY Positions
  <2>2. q # NoID
    <3>1. "codex" # NoID /\ "claude" # NoID /\ "agy" # NoID /\ "reasonix" # NoID
      BY Zenon DEF NoID
    <3> QED
      BY <2>1, <3>1
  <2>3. Position(q) \in Nat
    BY <2>1, Positions
  <2> QED
    BY <2>2, <2>3
<1>5. CASE Qualified(stats, p) /\ Better(sc(p), old, p)
  <2>1. next.id = p /\ next.score = sc(p) /\ sc(p) \in Fraction
    BY <1>1, <1>5 DEF Keep
  <2>2. ~Above(old, sc(p)) /\ (p # Default => Above(sc(p), old))
    BY <1>2, <1>5, <2>1, AboveOrders DEF Better
  <2>3. ~Above(Zero, sc(p)) /\ (p # Default => Above(sc(p), Zero))
    BY <1>2, <2>1, <2>2, AboveOrders DEF Leads
  <2>4. ASSUME NEW q \in S \cup {p}, Qualified(stats, q)
        PROVE  ~Above(sc(q), sc(p)) /\ (Ties(sc(q), sc(p)) /\ p # Default => q = p)
    <3>1. CASE q = p
      BY <3>1, <2>1, AboveOrders
    <3>2. CASE q # p
      <4>1. q \in S /\ sc(q) \in Fraction /\ ~Above(sc(q), old)
        BY <1>1, <2>4, <3>2 DEF Leads
      <4> HIDE DEF sc
      <4>2. ~Above(sc(q), sc(p))
        BY <1>2, <2>1, <2>2, <4>1, AboveOrders
      <4>3. p # Default => Above(sc(p), sc(q))
        BY <1>2, <2>1, <2>2, <4>1, AboveOrders
      <4> QED
        BY <2>1, <4>1, <4>2, <4>3, AboveOrders
    <3> QED
      BY <3>1, <3>2
  <2>5. p # NoID /\ Position(p) \in Nat
    BY <1>4
  <2> HIDE DEF next, sc
  <2>6. Leads(stats, model, effort, next, S \cup {p})
    BY <1>5, <2>1, <2>3, <2>4, <2>5 DEF Leads, sc
  <2> QED
    BY <2>6 DEF next
<1>6. CASE ~(Qualified(stats, p) /\ Better(sc(p), old, p))
  <2>1. next = best
    BY <1>6 DEF Keep
  <2>2. Qualified(stats, p) => ~Above(sc(p), old) /\ (Ties(sc(p), old) => p # Default)
    BY <1>6 DEF Better
  <2>3. best.id # NoID => best.id \in S
    BY DEF Leads
  <2>5. best.id # NoID => Position(best.id) <= Position(p)
    <3> SUFFICES ASSUME best.id \in S PROVE Position(best.id) <= Position(p)
      BY <2>3
    <3> QED
      BY <1>4
  <2> HIDE DEF next
  <2>4. Leads(stats, model, effort, next, S \cup {p})
    BY <2>1, <2>2, <2>3, <2>5 DEF Leads
  <2> QED
    BY <2>4 DEF next
<1> QED
  BY <1>5, <1>6

LEMMA SecondLeads ==
  ASSUME NEW stats, IsStats(stats), NEW model \in BOOLEAN, NEW effort \in BOOLEAN
  PROVE  Leads(stats, model, effort, Second(stats, model, effort), Provider)
<1> DEFINE Then(best, i) == Keep(stats, model, effort, best, Candidates[i])
           b0 == [id |-> NoID, score |-> Zero]
           b1 == Then(b0, 1)  b2 == Then(b1, 2)  b3 == Then(b2, 3)  b4 == Then(b3, 4)
<1>1. Second(stats, model, effort) = b4
  BY DEF Second, Zero
<1>2. /\ Candidates[1] = "codex" /\ Candidates[2] = "claude"
      /\ Candidates[3] = "agy" /\ Candidates[4] = "reasonix"
  BY DEF Candidates
<1>3. Leads(stats, model, effort, b0, {})
  BY DEF Leads, Above, Zero
<1>8. /\ \A q \in {"codex"} : Position(q) < Position("claude")
      /\ \A q \in {"codex", "claude"} : Position(q) < Position("agy")
      /\ \A q \in {"codex", "claude", "agy"} : Position(q) < Position("reasonix")
  BY Positions
<1>9. /\ "codex" \in Provider /\ "claude" \in Provider
      /\ "agy" \in Provider /\ "reasonix" \in Provider
  BY Positions
<1>4. Leads(stats, model, effort, b1, {"codex"})
  <2> HIDE DEF b0
  <2>1. Leads(stats, model, effort, b1, {} \cup {"codex"})
    BY <1>2, <1>3, <1>8, <1>9, KeepLeads
  <2> QED
    BY <2>1
<1>5. Leads(stats, model, effort, b2, {"codex", "claude"})
  <2> HIDE DEF b1
  <2>1. Leads(stats, model, effort, b2, {"codex"} \cup {"claude"})
    BY <1>2, <1>4, <1>8, <1>9, KeepLeads
  <2>2. {"codex"} \cup {"claude"} = {"codex", "claude"}
    OBVIOUS
  <2> QED
    BY <2>1, <2>2
<1>6. Leads(stats, model, effort, b3, {"codex", "claude", "agy"})
  <2> HIDE DEF b2
  <2>1. Leads(stats, model, effort, b3, {"codex", "claude"} \cup {"agy"})
    BY <1>2, <1>5, <1>8, <1>9, KeepLeads
  <2>2. {"codex", "claude"} \cup {"agy"} = {"codex", "claude", "agy"}
    OBVIOUS
  <2> QED
    BY <2>1, <2>2
<1>7. Leads(stats, model, effort, b4, Provider)
  <2> HIDE DEF b3
  <2>1. Leads(stats, model, effort, b4, {"codex", "claude", "agy"} \cup {"reasonix"})
    BY <1>2, <1>6, <1>8, <1>9, KeepLeads
  <2>2. {"codex", "claude", "agy"} \cup {"reasonix"} = Provider
    BY Positions
  <2> QED
    BY <2>1, <2>2
<1> QED
  BY <1>1, <1>7

IsChoice(stats, model, effort, choice) ==
    LET best == Best(stats, model, effort)
    IN  IF best = {} \/ Default \in best
          THEN choice = Default
          ELSE choice \in best /\ \A p \in best : Position(choice) <= Position(p)

LEMMA ChoiceIsRight ==
  ASSUME NEW stats, IsStats(stats), NEW model \in BOOLEAN, NEW effort \in BOOLEAN
  PROVE  IsChoice(stats, model, effort, SelectCoordinator(stats, model, effort))
<1> DEFINE choice == SelectCoordinator(stats, model, effort)
           sc(q)  == ScoreWithModel(stats, q, model, effort)
           best   == Second(stats, model, effort)
           B      == Best(stats, model, effort)
<1>1. CASE \A p \in Provider : ~Qualified(stats, p)
  <2>1. B = {}
    BY <1>1 DEF Best
  <2>2. Candidates[SelectInSeq(Candidates, LAMBDA p : p \in ModelSelection)] = Default
    <3> DEFINE I == {i \in 1 .. Len(Candidates) : Candidates[i] \in ModelSelection}
    <3>1. Len(Candidates) = 4 /\ Candidates[1] = Default /\ Default \in ModelSelection
      BY Positions DEF Candidates, Default, ModelSelection
    <3>2. 1 \in I /\ \A i \in I : i \in Nat /\ 1 <= i
      BY <3>1
    <3> HIDE DEF I
    <3>3. (CHOOSE x \in I : \A y \in I : x =< y) = 1
      BY <3>2
    <3>4. SelectInSeq(Candidates, LAMBDA p : p \in ModelSelection) = 1
      BY <3>2, <3>3 DEF SelectInSeq, Min, I
    <3> QED
      BY <3>1, <3>4
  <2> QED
    BY <1>1, <2>1, <2>2 DEF SelectCoordinator, IsChoice
<1>2. CASE ~\A p \in Provider : ~Qualified(stats, p)
  <2>1. Leads(stats, model, effort, best, Provider)
    BY SecondLeads
  <2>2. choice = IF best.id = NoID THEN Default ELSE best.id
    BY <1>2 DEF SelectCoordinator
  <2>3. \A q \in Provider : Qualified(stats, q) => sc(q) \in Fraction
    BY ScoreIsFraction
  <2>4. Zero \in Fraction
    BY DEF Zero, Fraction
  <2> HIDE DEF best
  <2>5. CASE best.id = NoID
    <3>1. best.score = Zero /\ choice = Default
      BY <2>1, <2>2, <2>5 DEF Leads
    <3>2. B = {}
      BY <2>1, <3>1 DEF Best, Leads, Zero
    <3> QED
      BY <3>1, <3>2 DEF IsChoice
  <2>6. CASE best.id # NoID
    <3> DEFINE c == best.id
    <3>1. choice = c /\ c \in Provider /\ Qualified(stats, c) /\ best.score = sc(c)
          /\ (c # Default => Above(sc(c), Zero)) /\ sc(c) \in Fraction
      BY <2>1, <2>2, <2>3, <2>6 DEF Leads
    <3>2. \A q \in Provider : Qualified(stats, q) =>
            ~Above(sc(q), sc(c)) /\ (Ties(sc(q), sc(c)) /\ c # Default
                                       => q # Default /\ Position(c) <= Position(q))
      BY <2>1, <2>6, <3>1 DEF Leads
    <3>3. B = {p \in Provider : /\ Qualified(stats, p) /\ Above(sc(p), Zero)
                                /\ \A q \in Provider : Qualified(stats, q) => ~Above(sc(q), sc(p))}
      BY DEF Best, Zero
    <3> HIDE DEF c, sc, choice, B
    <3>4. \A p \in B : p \in Provider /\ Qualified(stats, p) /\ Ties(sc(p), sc(c))
      BY <2>3, <3>1, <3>2, <3>3, AboveOrders
    <3>5. c # Default => c \in B
      BY <3>1, <3>2, <3>3
    <3>6. c # Default => Default \notin B /\ \A p \in B : Position(c) <= Position(p)
      BY <3>2, <3>4
    <3>8. B # {} => c \in B
      <4> SUFFICES ASSUME NEW p \in B PROVE c \in B
        OBVIOUS
      <4>1. Above(sc(p), Zero) /\ sc(p) \in Fraction /\ ~Above(sc(p), sc(c))
        BY <2>3, <3>2, <3>3
      <4>2. Above(sc(c), Zero)
        BY <2>4, <3>1, <4>1, AboveOrders
      <4> QED
        BY <3>1, <3>2, <3>3, <4>2
    <3>7. IF B = {} \/ Default \in B THEN choice = Default
            ELSE choice \in B /\ \A p \in B : Position(choice) <= Position(p)
      BY <3>1, <3>5, <3>6, <3>8
    <3> QED
      BY <3>7 DEF IsChoice, B, choice
  <2> QED
    BY <2>5, <2>6
<1> QED
  BY <1>1, <1>2

LEMMA InitStats == Init => IsStats(Stats)
  BY DEF Init, IsStats, Stats

LEMMA StepStats == IsStats(Stats) /\ [Next]_vars => IsStats(Stats)'
<1> SUFFICES ASSUME IsStats(Stats), [Next]_vars PROVE IsStats(Stats)'
  OBVIOUS
<1>1. ASSUME NEW p \in Provider, RecordRun(p) PROVE IsStats(Stats)'
  BY <1>1 DEF IsStats, Stats, RecordRun
<1>2. ASSUME NEW p \in Provider, RecordAdoption(p) PROVE IsStats(Stats)'
  BY <1>2 DEF IsStats, Stats, RecordAdoption
<1>3. ASSUME NEW p \in Provider, NEW passed \in BOOLEAN, NEW duration \in {0, 1},
             RecordAttemptOutcome(p, passed, duration)
      PROVE  IsStats(Stats)'
  BY <1>3 DEF IsStats, Stats, RecordAttemptOutcome
<1>4. CASE UNCHANGED vars
  BY <1>4 DEF IsStats, Stats, vars
<1> QED
  BY <1>1, <1>2, <1>3, <1>4 DEF Next

THEOREM Recorded == Spec => []IsStats(Stats)
  BY InitStats, StepStats, PTL DEF Spec

\* For every history and both preferences the router chooses the default if no
\* provider has enough runs, and, whenever one that has scores above zero, a
\* best of those, ties to the default and then to the earlier in the list; a
\* provider without enough runs that is not the default is never chosen before
\* one that has them (SelectCoordinator 90-162).
THEOREM ChoiceIsBestHolds == Spec => []ChoiceIsBest
<1>1. IsStats(Stats) => ChoiceIsBest
  <2> SUFFICES ASSUME IsStats(Stats), NEW model \in BOOLEAN, NEW effort \in BOOLEAN
               PROVE  LET choice == SelectCoordinator(Stats, model, effort)
                          best   == Best(Stats, model, effort)
                      IN  /\ (\A p \in Provider : ~Qualified(Stats, p)) => choice = Default
                          /\ best # {} => /\ choice \in best
                                          /\ \A p \in best : Position(choice) <= Position(p)
                          /\ (\E q \in Provider : Qualified(Stats, q)) /\ choice # Default
                               => Qualified(Stats, choice)
    BY DEF ChoiceIsBest
  <2> DEFINE choice == SelectCoordinator(Stats, model, effort)
             best   == Best(Stats, model, effort)
  <2>1. IF best = {} \/ Default \in best
          THEN choice = Default
          ELSE choice \in best /\ \A p \in best : Position(choice) <= Position(p)
    BY ChoiceIsRight DEF IsChoice
  <2>2. (\A p \in Provider : ~Qualified(Stats, p)) => best = {}
    BY DEF Best
  <2>3. best \subseteq Provider /\ \A p \in best : Position(Default) <= Position(p)
    BY Positions DEF Best, Default
  <2>4. /\ (\A p \in Provider : ~Qualified(Stats, p)) => choice = Default
        /\ best # {} => choice \in best /\ \A p \in best : Position(choice) <= Position(p)
        /\ (\E q \in Provider : Qualified(Stats, q)) /\ choice # Default
             => Qualified(Stats, choice)
    <3>1. \A p \in best : Qualified(Stats, p)
      BY DEF Best
    <3> HIDE DEF choice, best
    <3> QED
      BY <2>1, <2>2, <2>3, <3>1
  <2> QED
    BY <2>4
<1> QED
  BY <1>1, Recorded, PTL

(***************************************************************************)
(* Results that come in                                                    *)
(***************************************************************************)

\* A chosen provider that scores higher, the others as before, stays chosen.
LEMMA HigherStays ==
  ASSUME NEW old, IsStats(old), NEW new, IsStats(new), new.runs = old.runs,
         NEW model \in BOOLEAN, NEW effort \in BOOLEAN, NEW c \in Provider, NEW d,
         IsChoice(old, model, effort, c), IsChoice(new, model, effort, d),
         Qualified(old, c) => Above(ScoreWithModel(new, c, model, effort),
                                    ScoreWithModel(old, c, model, effort)),
         \A q \in Provider \ {c} :
           ScoreWithModel(new, q, model, effort) = ScoreWithModel(old, q, model, effort)
  PROVE  d = c
<1> DEFINE so(q) == ScoreWithModel(old, q, model, effort)
           sn(q) == ScoreWithModel(new, q, model, effort)
           Q     == {q \in Provider : Qualified(old, q)}
           Bo    == Best(old, model, effort)
           Bn    == Best(new, model, effort)
<1>1. \A q \in Provider : Qualified(new, q) <=> q \in Q
  BY DEF Qualified
<1>2. \A q \in Q : so(q) \in Fraction /\ sn(q) \in Fraction
  BY <1>1, ScoreIsFraction
<1>3. Zero \in Fraction
  BY DEF Zero, Fraction
<1>4. Bo = {p \in Q : Above(so(p), Zero) /\ \A q \in Q : ~Above(so(q), so(p))}
  BY DEF Best, Zero
<1>5. Bn = {p \in Q : Above(sn(p), Zero) /\ \A q \in Q : ~Above(sn(q), sn(p))}
  BY <1>1 DEF Best, Zero
<1>6. c \in Q => Above(sn(c), so(c))
  OBVIOUS
<1>7. \A q \in Q \ {c} : sn(q) = so(q)
  OBVIOUS
<1>8. /\ Bo = {} \/ Default \in Bo => c = Default
      /\ Bo # {} /\ Default \notin Bo => c \in Bo
      /\ Bn = {} \/ Default \in Bn => d = Default
      /\ Bn # {} /\ Default \notin Bn => d \in Bn
  BY DEF IsChoice
<1> HIDE DEF so, sn, Q, Bo, Bn
<1>9. CASE c \in Bo
  <2>1. c \in Q /\ Above(so(c), Zero) /\ \A q \in Q : ~Above(so(q), so(c))
    BY <1>4, <1>9
  <2>2. Above(sn(c), Zero)
    BY <1>2, <1>3, <1>6, <2>1, AboveOrders
  <2>3. \A q \in Q \ {c} : Above(sn(c), sn(q))
    BY <1>2, <1>6, <1>7, <2>1, AboveOrders
  <2>4. \A q \in Q : ~Above(sn(q), sn(c))
    BY <1>2, <2>1, <2>3, AboveOrders
  <2>5. Bn = {c}
    BY <1>2, <1>5, <2>1, <2>2, <2>3, <2>4, AboveOrders
  <2> QED
    BY <1>8, <2>5
<1>10. CASE c \notin Bo
  <2>1. c = Default /\ Bo = {}
    BY <1>8, <1>10
  <2>2. ASSUME NEW q \in Bn, q # c PROVE FALSE
    <3>1. q \in Q /\ Above(so(q), Zero) /\ so(q) = sn(q) /\ \A u \in Q : ~Above(sn(u), so(q))
      BY <1>5, <1>7, <2>2
    <3>2. \A u \in Q \ {c} : ~Above(so(u), so(q))
      BY <1>7, <3>1
    <3>3. c \in Q => ~Above(so(c), so(q))
      BY <1>2, <1>6, <3>1, AboveOrders
    <3>4. q \in Bo
      BY <1>4, <3>1, <3>2, <3>3
    <3> QED
      BY <2>1, <3>4
  <2> QED
    BY <1>8, <2>1, <2>2
<1> QED
  BY <1>9, <1>10

\* Better results or less time make a score higher.
LEMMA ScoreRises ==
  ASSUME NEW X \in Int, NEW Y \in Int, NEW A \in Nat \ {0}, NEW C \in Nat \ {0},
         NEW n \in Nat \ {0}, NEW b \in Nat,
         Y >= X, C <= A, Y > X \/ C < A
  PROVE  Above(<<Y * C + 3 * n * n + b * (n * C), n * C>>,
               <<X * A + 3 * n * n + b * (n * A), n * A>>)
<1> DEFINE K == A * C  N == 3 * n * n  M == b * n
<1>1. K \in Nat \ {0} /\ N \in Nat \ {0} /\ M \in Nat
  <2>1. K \in Nat /\ N \in Nat /\ M \in Nat
    OBVIOUS
  <2>2. A * C > 0 * C /\ n * n > 0 * n
    BY Cancel
  <2> QED
    BY <2>1, <2>2
<1> HIDE DEF K, N, M
<1>2. Y * K + N * A > X * K + N * C
  <2>1. Y * K \in Int /\ X * K \in Int /\ N * A \in Int /\ N * C \in Int
    BY <1>1
  <2>2. Y > X => Y * K > X * K
    BY <1>1, Cancel
  <2>3. C < A => A * N > C * N
    BY <1>1, Cancel
  <2>4. A * N = N * A /\ C * N = N * C
    BY <1>1
  <2>5. (Y = X => Y * K = X * K) /\ (C = A => N * C = N * A)
    OBVIOUS
  <2> QED
    BY <2>1, <2>2, <2>3, <2>4, <2>5
<1>3. (Y * K + N * A + M * K) * n > (X * K + N * C + M * K) * n
  <2> DEFINE l == Y * K + N * A  r == X * K + N * C  k == M * K
  <2>1. l \in Int /\ r \in Int /\ k \in Int /\ l > r
    BY <1>1, <1>2
  <2> HIDE DEF l, r, k
  <2>2. l + k > r + k
    BY <2>1
  <2>3. (l + k) * n > (r + k) * n
    BY <2>1, <2>2, Cancel
  <2> QED
    BY <2>3 DEF l, r, k
<1>4. (Y * C + 3 * n * n + b * (n * C)) * (n * A) = (Y * K + N * A + M * K) * n
  BY DEF K, N, M
<1>5. (X * A + 3 * n * n + b * (n * A)) * (n * C) = (X * K + N * C + M * K) * n
  BY DEF K, N, M
<1> QED
  BY <1>3, <1>4, <1>5 DEF Above

LEMMA ResultsRaise ==
  ASSUME NEW old, IsStats(old), NEW new, IsStats(new), new.runs = old.runs,
         NEW model \in BOOLEAN, NEW effort \in BOOLEAN,
         NEW c \in Provider, Qualified(old, c),
         new.adoptions[c] >= old.adoptions[c], new.rejects[c] <= old.rejects[c],
         new.minutes[c] <= old.minutes[c],
         \/ new.adoptions[c] > old.adoptions[c]
         \/ new.rejects[c] < old.rejects[c]
         \/ new.minutes[c] < old.minutes[c]
  PROVE  Above(ScoreWithModel(new, c, model, effort), ScoreWithModel(old, c, model, effort))
<1> DEFINE n == old.runs[c]  b == Bonus(c, model, effort)
           X == 7 * old.adoptions[c] + 5 * (n - old.rejects[c])
           Y == 7 * new.adoptions[c] + 5 * (n - new.rejects[c])
           A == n + old.minutes[c]  C == n + new.minutes[c]
<1>1. /\ n \in Nat \ {0} /\ b \in Nat
      /\ old.adoptions[c] \in Nat /\ old.rejects[c] \in Nat /\ old.minutes[c] \in Nat
      /\ new.adoptions[c] \in Nat /\ new.rejects[c] \in Nat /\ new.minutes[c] \in Nat
  BY BonusIsNatural DEF IsStats, Qualified, MinAutoSamples
<1>2. X \in Int /\ Y \in Int /\ A \in Nat \ {0} /\ C \in Nat \ {0}
  <2> HIDE DEF n
  <2> QED
    BY <1>1
<1>3. Y >= X /\ C <= A /\ (Y > X \/ C < A)
  <2> HIDE DEF n
  <2> QED
    BY <1>1
<1>4. ScoreWithModel(old, c, model, effort) = <<X * A + 3 * n * n + b * (n * A), n * A>>
  BY <1>1 DEF ScoreWithModel, Score, Bonus
<1>5. ScoreWithModel(new, c, model, effort) = <<Y * C + 3 * n * n + b * (n * C), n * C>>
  BY <1>1 DEF ScoreWithModel, Score, Bonus
<1> HIDE DEF n, b, X, Y, A, C
<1> QED
  <2>1. Above(<<Y * C + 3 * n * n + b * (n * C), n * C>>, <<X * A + 3 * n * n + b * (n * A), n * A>>)
    BY <1>1, <1>2, <1>3, ScoreRises
  <2> QED
    BY <1>4, <1>5, <2>1

\* A score depends on the provider's own records.
LEMMA OwnRecords ==
  ASSUME NEW old, NEW new, new.runs = old.runs, NEW model, NEW effort, NEW q,
         new.adoptions[q] = old.adoptions[q], new.rejects[q] = old.rejects[q],
         new.minutes[q] = old.minutes[q]
  PROVE  ScoreWithModel(new, q, model, effort) = ScoreWithModel(old, q, model, effort)
  BY DEF ScoreWithModel, Score

\* An adoption of the provider that would be chosen never turns the router
\* away from it; a rejected or slower attempt never turns it towards one
\* (RecordAdoption, RecordAttemptOutcome, score 166-185).
THEOREM ChoiceFollowsResultsHolds == Spec => ChoiceFollowsResults
<1> DEFINE Chosen(stats, model, effort) == SelectCoordinator(stats, model, effort)
           Follows == \A model, effort \in BOOLEAN :
              LET before == SelectCoordinator(Stats, model, effort)
                  after  == SelectCoordinator(Stats', model, effort)
              IN  /\ adoptions'[before] > adoptions[before] => after = before
                  /\ /\ after # Default
                     /\ rejects'[after] > rejects[after] \/ minutes'[after] > minutes[after]
                     => before = after
<1>1. ASSUME IsStats(Stats), IsStats(Stats'), [Next]_vars PROVE Follows
  <2> SUFFICES ASSUME NEW model \in BOOLEAN, NEW effort \in BOOLEAN
               PROVE  LET before == SelectCoordinator(Stats, model, effort)
                          after  == SelectCoordinator(Stats', model, effort)
                      IN  /\ adoptions'[before] > adoptions[before] => after = before
                          /\ /\ after # Default
                             /\ rejects'[after] > rejects[after] \/ minutes'[after] > minutes[after]
                             => before = after
    OBVIOUS
  <2> DEFINE before == SelectCoordinator(Stats, model, effort)
             after  == SelectCoordinator(Stats', model, effort)
             old    == Stats
             new    == Stats'
  <2>1. IsChoice(old, model, effort, before) /\ IsChoice(new, model, effort, after)
    BY <1>1, ChoiceIsRight
  <2>2. before \in Provider /\ after \in Provider
    <3>1. Default \in Provider
      BY Positions DEF Default
    <3> QED
      BY <2>1, <3>1 DEF IsChoice, Best
  <2>3. /\ old.runs = runs /\ new.runs = runs' /\ old.adoptions = adoptions /\ new.adoptions = adoptions'
        /\ old.rejects = rejects /\ new.rejects = rejects'
        /\ old.minutes = minutes /\ new.minutes = minutes'
    BY DEF Stats
  <2>4. IsStats(old) /\ IsStats(new)
    BY <1>1
  <2> HIDE DEF before, after, old, new
  <2>5. ASSUME NEW p \in Provider, RecordRun(p)
        PROVE  UNCHANGED <<adoptions, rejects, minutes>>
    BY <2>5 DEF RecordRun
  <2>6. ASSUME NEW p \in Provider, RecordAdoption(p)
        PROVE  /\ adoptions'[before] > adoptions[before] => after = before
               /\ UNCHANGED <<rejects, minutes>>
    <3>1. UNCHANGED <<runs, rejects, minutes>> /\ adoptions' = [adoptions EXCEPT ![p] = @ + 1]
      BY <2>6 DEF RecordAdoption
    <3>2. adoptions \in [Provider -> Nat] /\ rejects \in [Provider -> Nat] /\ minutes \in [Provider -> Nat]
      BY <2>3, <2>4 DEF IsStats
    <3>3. CASE before # p
      BY <2>2, <3>1, <3>2, <3>3
    <3>4. CASE before = p
      <4>1. \A q \in Provider \ {p} : ScoreWithModel(new, q, model, effort) = ScoreWithModel(old, q, model, effort)
        <5> TAKE q \in Provider \ {p}
        <5>1. /\ new.adoptions[q] = old.adoptions[q] /\ new.rejects[q] = old.rejects[q]
              /\ new.minutes[q] = old.minutes[q] /\ new.runs = old.runs
          BY <2>3, <3>1, <3>2
        <5> QED
          BY <5>1, OwnRecords
      <4>2. Qualified(old, p) => Above(ScoreWithModel(new, p, model, effort), ScoreWithModel(old, p, model, effort))
        <5>1. /\ new.adoptions[p] = old.adoptions[p] + 1 /\ old.adoptions[p] \in Nat
              /\ new.rejects[p] = old.rejects[p] /\ old.rejects[p] \in Nat
              /\ new.minutes[p] = old.minutes[p] /\ old.minutes[p] \in Nat
              /\ new.runs = old.runs
          BY <2>3, <3>1, <3>2
        <5>2. /\ new.adoptions[p] > old.adoptions[p] /\ new.adoptions[p] >= old.adoptions[p]
              /\ new.rejects[p] <= old.rejects[p] /\ new.minutes[p] <= old.minutes[p]
          BY <5>1
        <5> QED
          BY <2>4, <5>1, <5>2, ResultsRaise
      <4>3. new.runs = old.runs
        BY <2>3, <3>1
      <4> QED
        BY <2>1, <2>4, <3>1, <3>4, <4>1, <4>2, <4>3, HigherStays
    <3> QED
      BY <3>3, <3>4, <3>1
  <2>7. ASSUME NEW p \in Provider, NEW passed \in BOOLEAN, NEW duration \in {0, 1},
               RecordAttemptOutcome(p, passed, duration)
        PROVE  /\ adoptions' = adoptions
               /\ rejects'[after] > rejects[after] \/ minutes'[after] > minutes[after] => before = after
    <3>1. /\ UNCHANGED <<runs, adoptions>>
          /\ rejects' = (IF passed THEN rejects ELSE [rejects EXCEPT ![p] = @ + 1])
          /\ minutes' = [minutes EXCEPT ![p] = @ + duration]
      BY <2>7 DEF RecordAttemptOutcome
    <3>2. adoptions \in [Provider -> Nat] /\ rejects \in [Provider -> Nat] /\ minutes \in [Provider -> Nat]
      BY <2>3, <2>4 DEF IsStats
    <3>3. \A q \in Provider \ {p} : rejects'[q] = rejects[q] /\ minutes'[q] = minutes[q]
      BY <3>1, <3>2
    <3>4. rejects'[p] >= rejects[p] /\ minutes'[p] >= minutes[p]
          /\ rejects'[p] \in Nat /\ minutes'[p] \in Nat
      BY <3>1, <3>2
    <3>5. CASE ~(rejects'[after] > rejects[after] \/ minutes'[after] > minutes[after])
      BY <3>1, <3>5
    <3>6. CASE rejects'[after] > rejects[after] \/ minutes'[after] > minutes[after]
      <4>1. after = p
        <5>1. CASE after # p
          BY <2>2, <3>2, <3>3, <3>6, <5>1
        <5> QED
          BY <5>1
      <4>2. \A q \in Provider \ {p} : ScoreWithModel(old, q, model, effort) = ScoreWithModel(new, q, model, effort)
        <5> TAKE q \in Provider \ {p}
        <5>1. /\ old.adoptions[q] = new.adoptions[q] /\ old.rejects[q] = new.rejects[q]
              /\ old.minutes[q] = new.minutes[q] /\ old.runs = new.runs
          BY <2>3, <3>1, <3>3
        <5> QED
          BY <5>1, OwnRecords
      <4>3. new.runs = old.runs /\ adoptions'[p] = adoptions[p] /\ adoptions[p] \in Nat
        BY <2>3, <3>1, <3>2
      <4>4. Qualified(new, p) => Above(ScoreWithModel(old, p, model, effort), ScoreWithModel(new, p, model, effort))
        BY <2>3, <2>4, <3>4, <3>6, <4>1, <4>3, ResultsRaise
      <4> QED
        BY <2>1, <2>2, <2>4, <3>1, <4>1, <4>2, <4>3, <4>4, HigherStays
    <3> QED
      BY <3>5, <3>6
  <2>8. UNCHANGED vars => UNCHANGED <<adoptions, rejects, minutes>>
    BY DEF vars
  <2>9. /\ adoptions'[before] > adoptions[before] => after = before
        /\ /\ after # Default
           /\ rejects'[after] > rejects[after] \/ minutes'[after] > minutes[after]
           => before = after
    <3>1. \A q \in Provider : adoptions[q] \in Nat /\ rejects[q] \in Nat /\ minutes[q] \in Nat
      BY <2>3, <2>4 DEF IsStats
    <3> QED
      BY <1>1, <2>2, <2>5, <2>6, <2>7, <2>8, <3>1 DEF Next
  <2> QED
    BY <2>9 DEF before, after
<1>2. IsStats(Stats)' <=> IsStats(Stats')
  BY DEF IsStats
<1>3. IsStats(Stats) /\ IsStats(Stats)' /\ [Next]_vars => [Follows]_vars
  BY <1>1, <1>2
<1>4. Follows <=> \A model, effort \in BOOLEAN :
              LET before == SelectCoordinator(Stats, model, effort)
                  after  == SelectCoordinator(Stats', model, effort)
              IN  /\ adoptions'[before] > adoptions[before] => after = before
                  /\ /\ after # Default
                     /\ rejects'[after] > rejects[after] \/ minutes'[after] > minutes[after]
                     => before = after
  OBVIOUS
<1> QED
  BY <1>3, Recorded, PTL DEF Spec, ChoiceFollowsResults
=============================================================================
