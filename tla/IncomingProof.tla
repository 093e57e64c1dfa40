----------------------------- MODULE IncomingProof ----------------------------
(* Proofs about the archives on their way in and the backends of blobs, as   *)
(* Incoming has them side by side, for every set of archives, uploads, keys  *)
(* and requests: a batch in processing has a job and a finished one tells    *)
(* all, under anything others do meanwhile; a blob in use is whole somewhere *)
(* through uploads, deletions and migrations.                                *)
EXTENDS Incoming, SequenceTheorems, FiniteSetTheorems, WellFoundedInduction, TLAPS

-----------------------------------------------------------------------------
(* Unpacking: recursion and induction over the positions of a sequence.      *)

\* Induction over the naturals, for a set of them.
LEMMA Induction ==
    ASSUME NEW S, 0 \in S, \A n \in Nat : n \in S => n + 1 \in S
    PROVE  Nat \subseteq S
  <1> DEFINE T == Nat \ S
  <1>1. SUFFICES ASSUME T # {} PROVE FALSE
    OBVIOUS
  <1>2. PICK x \in T : \A y \in T : ~ (<<y, x>> \in OpToRel(<, Nat))
    BY <1>1, NatLessThanWellFounded, WFMin
  <1>3. x # 0 /\ x - 1 \in Nat
    OBVIOUS
  <1>4. x - 1 < x
    OBVIOUS
  <1>5. <<x - 1, x>> \in OpToRel(<, Nat)
    BY <1>3, <1>4 DEF OpToRel
  <1>6. x - 1 \in S
    BY <1>2, <1>3, <1>5
  <1>7. QED
    BY <1>3, <1>6

\* The same over the positions of a sequence.
LEMMA Positions ==
    ASSUME NEW N \in Nat, NEW T, 0 \in T, \A i \in 1..N : i - 1 \in T => i \in T
    PROVE  0..N \subseteq T
  <1> DEFINE S == {i \in Nat : i <= N => i \in T}
  <1>1. 0 \in S
    OBVIOUS
  <1>2. ASSUME NEW i \in Nat, i \in S PROVE i + 1 \in S
    <2>1. i + 1 <= N => i + 1 \in 1..N /\ (i + 1) - 1 = i /\ i <= N
      OBVIOUS
    <2>2. QED
      BY <1>2, <2>1
  <1>3. Nat \subseteq S
    <2> HIDE DEF S
    <2>1. QED
      BY <1>1, <1>2, Induction
  <1>4. QED
    BY <1>3

\* A function over the positions up to N is defined by its first value and by
\* how each of the others comes from the one before.
StepByStep(f, N, b, step) == f = [i \in 0..N |-> IF i = 0 THEN b ELSE step[i][f[i - 1]]]

LEMMA Recursion ==
    ASSUME NEW S, NEW N \in Nat, NEW b \in S, NEW step \in [1..N -> [S -> S]]
    PROVE  \E f \in [0..N -> S] : StepByStep(f, N, b, step)
  <1> DEFINE Good(m, f) == /\ f[0] = b
                           /\ \A i \in 1..m : f[i] = step[i][f[i - 1]]
             P == {m \in Nat : m <= N => \E f \in [0..m -> S] : Good(m, f)}
  <1>1. 0 \in P
    <2> DEFINE f == [i \in 0..0 |-> b]
    <2>1. f \in [0..0 -> S] /\ Good(0, f)
      OBVIOUS
    <2>2. QED
      BY <2>1
  <1>2. ASSUME NEW m \in Nat, m \in P
        PROVE  m + 1 \in P
    <2> SUFFICES ASSUME m + 1 <= N
                 PROVE  \E f \in [0..(m + 1) -> S] : Good(m + 1, f)
      OBVIOUS
    <2>1. PICK f \in [0..m -> S] : Good(m, f)
      BY <1>2
    <2> DEFINE g == [i \in 0..(m + 1) |-> IF i = m + 1 THEN step[m + 1][f[m]] ELSE f[i]]
    <2>2. f[m] \in S /\ step[m + 1][f[m]] \in S
      OBVIOUS
    <2>3. g \in [0..(m + 1) -> S]
      BY <2>2
    <2>4. \A i \in 0..m : g[i] = f[i]
      OBVIOUS
    <2>5. g[m + 1] = step[m + 1][g[m]]
      BY <2>4
    <2>6. Good(m + 1, g)
      <3> HIDE DEF g
      <3>1. g[0] = b
        BY <2>1, <2>4
      <3>2. ASSUME NEW i \in 1..(m + 1)
            PROVE  g[i] = step[i][g[i - 1]]
        <4>1. CASE i = m + 1
          BY <2>5, <4>1
        <4>2. CASE i \in 1..m
          <5>1. i \in 0..m /\ i - 1 \in 0..m
            BY <4>2
          <5>2. QED
            BY <2>1, <2>4, <4>2, <5>1
        <4>3. QED
          BY <4>1, <4>2
      <3>3. QED
        BY <3>1, <3>2
    <2>7. QED
      BY <2>3, <2>6
  <1>3. N \in P
    <2> HIDE DEF P
    <2>1. QED
      BY <1>1, <1>2, Induction
  <1>4. PICK f \in [0..N -> S] : Good(N, f)
    BY <1>3
  <1>5. f = [i \in 0..N |-> IF i = 0 THEN b ELSE step[i][f[i - 1]]]
    <2>1. \A i \in 0..N : f[i] = IF i = 0 THEN b ELSE step[i][f[i - 1]]
      BY <1>4
    <2>2. QED
      BY <2>1
  <1>6. QED
    BY <1>5 DEF StepByStep

\* The function f is what Through goes through.
Goes(f, entries, step, first) ==
    /\ f[0] = first
    /\ \A i \in 1..Len(entries) : f[i] = step[entries[i]][f[i - 1]]
    /\ Through(entries, step, first) = f[Len(entries)]

\* What Through makes of the first value is the last of a function over the
\* positions, each step a step of the entry there.
LEMMA ThroughIs ==
    ASSUME NEW E, NEW S, NEW entries \in Seq(E), NEW step \in [E -> [S -> S]], NEW first \in S
    PROVE  \E f \in [0..Len(entries) -> S] : Goes(f, entries, step, first)
  <1> DEFINE N == Len(entries)
             after == [i \in 1..N |-> step[entries[i]]]
             Is(f) == f = [i \in 0..N |-> IF i = 0 THEN first ELSE step[entries[i]][f[i - 1]]]
             g == CHOOSE f : Is(f)
  <1>1. N \in Nat /\ after \in [1..N -> [S -> S]]
    OBVIOUS
  <1>2. PICK f \in [0..N -> S] : StepByStep(f, N, first, after)
    <2> HIDE DEF after, N
    <2>1. QED
      BY <1>1, Recursion
  <1>3. Is(f)
    <2>1. \A i \in 0..N : i # 0 => after[i] = step[entries[i]]
      OBVIOUS
    <2> HIDE DEF after
    <2>2. QED
      BY <1>2, <2>1 DEF StepByStep
  <1>4. Is(g)
    BY <1>3
  <1>5. Through(entries, step, first) = g[N]
    BY DEF Through
  <1>6. g[0] = first /\ \A i \in 1..N : g[i] = step[entries[i]][g[i - 1]]
    <2> HIDE DEF g
    <2>1. QED
      BY <1>1, <1>4
  <1>7. g \in [0..N -> S]
    <2> DEFINE T == {i \in 0..N : g[i] \in S}
    <2>1. 0..N \subseteq T
      <3> HIDE DEF g
      <3>1. 0 \in T
        BY <1>1, <1>6
      <3>2. \A i \in 1..N : i - 1 \in T => i \in T
        BY <1>1, <1>6
      <3> HIDE DEF T, N
      <3>3. QED
        BY <1>1, <3>1, <3>2, Positions
    <2>2. QED
      <3> HIDE DEF g
      <3>1. QED
        BY <1>4, <2>1
  <1>8. QED
    <2> HIDE DEF g
    <2>1. QED
      BY <1>5, <1>6, <1>7 DEF Goes

\* What an entry makes of the counter is in its range again, whatever comes out
\* of the archives inside.
Opens(left, open) == left # 0 => open \in [Trees -> [Acc -> Acc]]

LEMMA CountedType == ASSUME NEW acc \in Acc, NEW e \in Entry PROVE Counted(acc, e) \in Acc
  <1>1. Size[e.content] \in Nat
    BY UnpackingAssumption
  <1>2. Add(acc, e) \in Acc
    <2>1. acc.n + 1 \in Nat /\ acc.total + Size[e.content] \in Nat
      BY <1>1 DEF Acc
    <2>2. QED
      BY <2>1 DEF Acc, Add
  <1>3. [Add(acc, e) EXCEPT !.fault = "bomb"] \in Acc
    BY <1>2 DEF Acc
  <1>4. QED
    BY <1>2, <1>3 DEF Counted

LEMMA YieldType ==
    ASSUME NEW acc \in Acc, NEW e \in Entry, NEW left, NEW open, Opens(left, open)
    PROVE  Yield(acc, e, left, open) \in Acc
  <1>1. [acc EXCEPT !.out = Append(@, e)] \in Acc
    BY DEF Acc
  <1>2. [acc EXCEPT !.fault = "broken"] \in Acc
    BY DEF Acc
  <1>3. e.kind \notin {"file", "broken"} /\ left # 0 => open[e.inner][acc] \in Acc
    BY UnpackingAssumption DEF Opens
  <1>4. QED
    BY <1>1, <1>2, <1>3 DEF Yield

-----------------------------------------------------------------------------
(* What the counter says against what the archive holds.                     *)

Within(acc) == acc.n <= MaxEntries /\ acc.total <= MaxTotal

\* From acc to r, all that is tallied in w was counted, and found to be within
\* the limits; or it was given up, as a bomb only if w, on top of what there
\* was, is beyond them.
Agrees(acc, r, w) ==
    IF acc.fault # "none" THEN r.fault = acc.fault
    ELSE /\ r.fault = "none" => /\ r.n = acc.n + w.n /\ r.total = acc.total + w.total
                                /\ w.fits
                                /\ Within(acc) => Within(r)
         /\ r.fault = "bomb" => \/ acc.n + w.n > MaxEntries
                                \/ acc.total + w.total > MaxTotal
                                \/ ~w.fits

LEMMA AgreesChain ==
    ASSUME NEW a \in Acc, NEW b \in Acc, NEW c \in Acc, NEW v \in Tally, NEW w \in Tally,
           Agrees(a, b, v), Agrees(b, c, w)
    PROVE  Agrees(a, c, Plus(v, w))
  <1>1. /\ a.n \in Nat /\ a.total \in Nat /\ b.n \in Nat /\ b.total \in Nat
        /\ v.n \in Nat /\ v.total \in Nat /\ w.n \in Nat /\ w.total \in Nat
        /\ MaxEntries \in Nat /\ MaxTotal \in Nat
    BY UnpackingAssumption DEF Acc, Tally
  <1>2. /\ Plus(v, w).n = v.n + w.n /\ Plus(v, w).total = v.total + w.total
        /\ Plus(v, w).fits <=> v.fits /\ w.fits
    BY DEF Plus
  <1>3. CASE a.fault # "none"
    BY <1>3 DEF Agrees
  <1>4. CASE a.fault = "none" /\ b.fault = "none"
    BY <1>1, <1>2, <1>4 DEF Agrees
  <1>5. CASE a.fault = "none" /\ b.fault # "none"
    BY <1>1, <1>2, <1>5 DEF Agrees
  <1>6. QED
    BY <1>3, <1>4, <1>5

LEMMA PlusType ==
    ASSUME NEW v \in Tally, NEW w \in Tally PROVE Plus(v, w) \in Tally
  BY DEF Plus, Tally

LEMMA NothingType == Nothing \in Tally
  BY DEF Nothing, Tally

LEMMA NothingAgrees == \A acc \in Acc : Agrees(acc, acc, Nothing)
  BY DEF Agrees, Nothing, Acc

\* An entry itself, and what is inside of it.
Own(e) == IF e.safe THEN One(e) ELSE Nothing
In(e, left, below) == IF e.safe THEN Inside(e, left, below) ELSE Nothing

LEMMA OwnType == \A e \in Entry : Own(e) \in Tally
  BY UnpackingAssumption, NothingType DEF Own, One, Tally

LEMMA CountedAgrees ==
    ASSUME NEW acc \in Acc, NEW e \in Entry
    PROVE  Agrees(acc, Counted(acc, e), Own(e))
  <1>1. CASE PassedOver(acc, e)
    <2>1. Counted(acc, e) = acc
      BY <1>1 DEF Counted
    <2>2. acc.fault # "none" \/ Own(e) = Nothing
      BY <1>1 DEF PassedOver, Own
    <2>3. QED
      BY <2>1, <2>2, NothingAgrees DEF Agrees
  <1>2. CASE ~PassedOver(acc, e)
    <2>1. acc.fault = "none" /\ Own(e) = One(e)
      BY <1>2 DEF PassedOver, Own
    <2>2. /\ acc.n \in Nat /\ acc.total \in Nat /\ Size[e.content] \in Nat
          /\ MaxEntries \in Nat /\ MaxTotal \in Nat /\ MaxEntry \in Nat
      BY UnpackingAssumption DEF Acc
    <2>3. /\ Add(acc, e).n = acc.n + 1 /\ Add(acc, e).total = acc.total + Size[e.content]
          /\ Add(acc, e).fault = "none"
      BY <2>1 DEF Add, Acc
    <2>4. /\ One(e).n = 1 /\ One(e).total = Size[e.content]
          /\ One(e).fits <=> Size[e.content] <= MaxEntry
      BY DEF One
    <2>5. CASE Bomb(Add(acc, e), e)
      <3>1. Counted(acc, e).fault = "bomb"
        BY <1>2, <2>5 DEF Counted, Add, Acc
      <3>2. QED
        BY <2>1, <2>2, <2>3, <2>4, <2>5, <3>1 DEF Agrees, Bomb
    <2>6. CASE ~Bomb(Add(acc, e), e)
      <3>1. Counted(acc, e) = Add(acc, e)
        BY <1>2, <2>6 DEF Counted
      <3>2. QED
        BY <2>1, <2>2, <2>3, <2>4, <2>6, <3>1 DEF Agrees, Bomb, Within
    <2>7. QED
      BY <2>5, <2>6
  <1>3. QED
    BY <1>1, <1>2

\* The archives inside are opened as they are tallied.
Tallied(left, below) == left # 0 => below \in [Trees -> Tally]
OpensRight(left, open, below) ==
    /\ Opens(left, open) /\ Tallied(left, below)
    /\ left # 0 => \A t \in Trees, acc \in Acc : Agrees(acc, open[t][acc], below[t])

LEMMA InType ==
    ASSUME NEW e \in Entry, NEW left \in Nat, NEW below, Tallied(left, below)
    PROVE  In(e, left, below) \in Tally
  BY UnpackingAssumption, NothingType DEF In, Inside, Tallied

LEMMA YieldAgrees ==
    ASSUME NEW acc \in Acc, NEW e \in Entry, NEW left \in Nat, NEW open, NEW below,
           OpensRight(left, open, below)
    PROVE  Agrees(acc, Yield(acc, e, left, open), In(e, left, below))
  <1>1. CASE PassedOver(acc, e)
    <2>1. Yield(acc, e, left, open) = acc
      BY <1>1 DEF Yield
    <2>2. acc.fault # "none" \/ In(e, left, below) = Nothing
      BY <1>1 DEF PassedOver, In
    <2>3. QED
      BY <2>1, <2>2, NothingAgrees DEF Agrees
  <1>2. CASE ~PassedOver(acc, e) /\ (e.kind = "file" \/ left = 0)
    <2>1. In(e, left, below) = Nothing
      BY <1>2 DEF In, Inside
    <2>2. Yield(acc, e, left, open) = [acc EXCEPT !.out = Append(@, e)]
      BY <1>2 DEF Yield
    <2>3. QED
      BY <2>1, <2>2 DEF Agrees, Nothing, Within, Acc
  <1>3. CASE ~PassedOver(acc, e) /\ e.kind = "broken" /\ left # 0
    <2>1. Yield(acc, e, left, open) = [acc EXCEPT !.fault = "broken"]
      BY <1>3 DEF Yield
    <2>2. acc.fault = "none"
      BY <1>3 DEF PassedOver
    <2>3. QED
      BY <2>1, <2>2 DEF Agrees, Acc
  <1>4. CASE ~PassedOver(acc, e) /\ e.kind = "archive" /\ left # 0
    <2>1. e.inner \in Trees /\ e.safe
      BY <1>4, UnpackingAssumption DEF PassedOver
    <2>2. Yield(acc, e, left, open) = open[e.inner][acc]
      BY <1>4 DEF Yield
    <2>3. In(e, left, below) = below[e.inner]
      BY <1>4, <2>1 DEF In, Inside
    <2>4. QED
      BY <1>4, <2>1, <2>2, <2>3 DEF OpensRight
  <1>5. QED
    BY <1>1, <1>2, <1>3, <1>4, UnpackingAssumption

LEMMA NothingAlone == Plus(Nothing, Nothing) = Nothing
  <1>1. 0 + 0 = 0 /\ (TRUE /\ TRUE) = TRUE
    OBVIOUS
  <1>2. QED
    BY <1>1, Zenon DEF Plus, Nothing

LEMMA PlusTurned ==
    ASSUME NEW a \in Tally, NEW b \in Tally, NEW c \in Tally, NEW d \in Tally
    PROVE  Plus(Plus(a, b), Plus(c, d)) = Plus(Plus(a, c), Plus(b, d))
  BY DEF Plus, Tally

LEMMA ShareIs ==
    ASSUME NEW e, NEW left, NEW below
    PROVE  Share(e, left, below) = Plus(Own(e), In(e, left, below))
  <1>2. CASE e.safe
    BY <1>2 DEF Share, Own, In
  <1>3. CASE ~e.safe
    BY NothingAlone, <1>3 DEF Share, Own, In
  <1>4. QED
    BY <1>2, <1>3

LEMMA ShareType ==
    ASSUME NEW e \in Entry, NEW left \in Nat, NEW below, Tallied(left, below)
    PROVE  Share(e, left, below) \in Tally
  BY ShareIs, OwnType, InType, PlusType

\* An entry that is counted and yielded at once.
LEMMA StepAgrees ==
    ASSUME NEW acc \in Acc, NEW e \in Entry, NEW left \in Nat, NEW open, NEW below,
           OpensRight(left, open, below)
    PROVE  /\ Yield(Counted(acc, e), e, left, open) \in Acc
           /\ Agrees(acc, Yield(Counted(acc, e), e, left, open), Share(e, left, below))
  <1> DEFINE b == Counted(acc, e)
             c == Yield(b, e, left, open)
  <1>1. b \in Acc /\ Agrees(acc, b, Own(e))
    BY CountedType, CountedAgrees
  <1>2. c \in Acc /\ Agrees(b, c, In(e, left, below))
    <2> HIDE DEF b
    <2>1. QED
      BY <1>1, YieldType, YieldAgrees DEF OpensRight
  <1>3. Own(e) \in Tally /\ In(e, left, below) \in Tally
    BY OwnType, InType DEF OpensRight
  <1>4. Agrees(acc, c, Plus(Own(e), In(e, left, below)))
    <2> HIDE DEF b, c
    <2>1. QED
      BY <1>1, <1>2, <1>3, AgreesChain
  <1>5. QED
    BY <1>2, <1>4, ShareIs

\* The tallies of all the entries.
Tallies(entries, share) ==
    Through(entries, [e \in Entry |-> [t \in Tally |-> Plus(t, share[e])]], Nothing)

LEMMA TalliesAre ==
    ASSUME NEW entries \in Seq(Entry), NEW share \in [Entry -> Tally]
    PROVE  \E h \in [0..Len(entries) -> Tally] :
            /\ h[0] = Nothing
            /\ \A i \in 1..Len(entries) : h[i] = Plus(h[i - 1], share[entries[i]])
            /\ Tallies(entries, share) = h[Len(entries)]
  <1> DEFINE step == [e \in Entry |-> [t \in Tally |-> Plus(t, share[e])]]
  <1>1. step \in [Entry -> [Tally -> Tally]]
    BY PlusType
  <1>2. PICK h \in [0..Len(entries) -> Tally] : Goes(h, entries, step, Nothing)
    <2> HIDE DEF step
    <2>1. QED
      BY <1>1, NothingType, ThroughIs
  <1>3. ASSUME NEW i \in 1..Len(entries)
        PROVE  h[i] = Plus(h[i - 1], share[entries[i]])
    <2>1. entries[i] \in Entry /\ h[i - 1] \in Tally
      OBVIOUS
    <2>2. step[entries[i]][h[i - 1]] = Plus(h[i - 1], share[entries[i]])
      BY <2>1
    <2>3. h[i] = step[entries[i]][h[i - 1]]
      BY <1>2 DEF Goes
    <2>4. QED
      BY <2>2, <2>3
  <1>4. Tallies(entries, share) = h[Len(entries)] /\ h[0] = Nothing
    BY <1>2 DEF Goes, Tallies
  <1>5. QED
    BY <1>3, <1>4

LEMMA TalliesType ==
    ASSUME NEW entries \in Seq(Entry), NEW share \in [Entry -> Tally]
    PROVE  Tallies(entries, share) \in Tally
  <1>1. PICK h \in [0..Len(entries) -> Tally] : Tallies(entries, share) = h[Len(entries)]
    BY TalliesAre
  <1>2. QED
    BY <1>1

\* What is tallied in two goes comes to the same.
LEMMA TalliesOfParts ==
    ASSUME NEW entries \in Seq(Entry), NEW own \in [Entry -> Tally], NEW in \in [Entry -> Tally],
           NEW both \in [Entry -> Tally], \A e \in Entry : both[e] = Plus(own[e], in[e])
    PROVE  Tallies(entries, both) = Plus(Tallies(entries, own), Tallies(entries, in))
  <1>1. PICK o \in [0..Len(entries) -> Tally] :
              /\ o[0] = Nothing
              /\ \A i \in 1..Len(entries) : o[i] = Plus(o[i - 1], own[entries[i]])
              /\ Tallies(entries, own) = o[Len(entries)]
    BY TalliesAre
  <1>2. PICK n \in [0..Len(entries) -> Tally] :
              /\ n[0] = Nothing
              /\ \A i \in 1..Len(entries) : n[i] = Plus(n[i - 1], in[entries[i]])
              /\ Tallies(entries, in) = n[Len(entries)]
    BY TalliesAre
  <1>3. PICK h \in [0..Len(entries) -> Tally] :
              /\ h[0] = Nothing
              /\ \A i \in 1..Len(entries) : h[i] = Plus(h[i - 1], both[entries[i]])
              /\ Tallies(entries, both) = h[Len(entries)]
    BY TalliesAre
  <1> DEFINE N == Len(entries)
             T == {i \in 0..N : h[i] = Plus(o[i], n[i])}
  <1>4. N \in Nat /\ \A i \in 1..N : entries[i] \in Entry /\ i - 1 \in 0..N /\ i \in 0..N
    OBVIOUS
  <1>5. 0 \in T
    BY <1>1, <1>2, <1>3, NothingAlone
  <1>6. ASSUME NEW i \in 1..N, i - 1 \in T
        PROVE  i \in T
    <2>1. /\ o[i - 1] \in Tally /\ n[i - 1] \in Tally /\ own[entries[i]] \in Tally
          /\ in[entries[i]] \in Tally /\ both[entries[i]] = Plus(own[entries[i]], in[entries[i]])
      BY <1>4
    <2>2. h[i] = Plus(Plus(o[i - 1], n[i - 1]), Plus(own[entries[i]], in[entries[i]]))
      BY <1>3, <1>4, <1>6, <2>1
    <2>3. /\ o[i] = Plus(o[i - 1], own[entries[i]])
          /\ n[i] = Plus(n[i - 1], in[entries[i]])
      BY <1>1, <1>2
    <2>4. h[i] = Plus(o[i], n[i])
      BY <2>1, <2>2, <2>3, PlusTurned
    <2>5. QED
      BY <1>4, <2>4
  <1>7. 0..N \subseteq T
    <2> HIDE DEF T, N
    <2>1. QED
      BY <1>4, <1>5, <1>6, Positions
  <1>8. QED
    BY <1>1, <1>2, <1>3, <1>4, <1>7

\* Steps that agree with their tallies agree when they are done one after the
\* other.
LEMMA ThroughAgrees ==
    ASSUME NEW entries \in Seq(Entry), NEW acc \in Acc,
           NEW step \in [Entry -> [Acc -> Acc]], NEW share \in [Entry -> Tally],
           \A e \in Entry, a \in Acc : Agrees(a, step[e][a], share[e])
    PROVE  /\ Through(entries, step, acc) \in Acc
           /\ Agrees(acc, Through(entries, step, acc), Tallies(entries, share))
  <1>1. PICK f \in [0..Len(entries) -> Acc] : Goes(f, entries, step, acc)
    BY ThroughIs
  <1>2. PICK h \in [0..Len(entries) -> Tally] :
              /\ h[0] = Nothing
              /\ \A i \in 1..Len(entries) : h[i] = Plus(h[i - 1], share[entries[i]])
              /\ Tallies(entries, share) = h[Len(entries)]
    BY TalliesAre
  <1> DEFINE N == Len(entries)
             T == {i \in 0..N : Agrees(acc, f[i], h[i])}
  <1>3. N \in Nat /\ \A i \in 1..N : entries[i] \in Entry /\ i - 1 \in 0..N /\ i \in 0..N
    OBVIOUS
  <1>4. 0 \in T
    BY <1>1, <1>2, <1>3, NothingAgrees DEF Goes
  <1>5. ASSUME NEW i \in 1..N, i - 1 \in T
        PROVE  i \in T
    <2> DEFINE e == entries[i]
               b == f[i - 1]
               v == h[i - 1]
    <2>1. e \in Entry /\ b \in Acc /\ v \in Tally /\ f[i] \in Acc /\ Agrees(acc, b, v)
      BY <1>3, <1>5
    <2>2. f[i] = step[e][b] /\ h[i] = Plus(v, share[e])
      BY <1>1, <1>2 DEF Goes
    <2> HIDE DEF e, b, v
    <2>3. Agrees(b, f[i], share[e]) /\ share[e] \in Tally
      BY <2>1, <2>2
    <2>4. Agrees(acc, f[i], h[i])
      BY <2>1, <2>2, <2>3, AgreesChain
    <2>5. QED
      BY <1>3, <2>4
  <1>6. 0..N \subseteq T
    <2> HIDE DEF T, N
    <2>1. QED
      BY <1>3, <1>4, <1>5, Positions
  <1>7. QED
    BY <1>1, <1>2, <1>3, <1>6 DEF Goes

-----------------------------------------------------------------------------
(* An archive, with the archives inside opened rightly.                      *)

LEMMA SumIs ==
    ASSUME NEW entries \in Seq(Entry), NEW left \in Nat, NEW below, Tallied(left, below)
    PROVE  /\ [e \in Entry |-> Share(e, left, below)] \in [Entry -> Tally]
           /\ Sum(entries, left, below)
                = Tallies(entries, [e \in Entry |-> Share(e, left, below)])
  <1> DEFINE share == [e \in Entry |-> Share(e, left, below)]
  <1>1. share \in [Entry -> Tally]
    BY ShareType
  <1>2. [e \in Entry |-> [t \in Tally |-> Plus(t, Share(e, left, below))]]
          = [e \in Entry |-> [t \in Tally |-> Plus(t, share[e])]]
    OBVIOUS
  <1>3. QED
    BY <1>1, <1>2 DEF Sum, Tallies

LEMMA SumType ==
    ASSUME NEW entries \in Seq(Entry), NEW left \in Nat, NEW below, Tallied(left, below)
    PROVE  Sum(entries, left, below) \in Tally
  <1> DEFINE share == [e \in Entry |-> Share(e, left, below)]
  <1>1. share \in [Entry -> Tally] /\ Sum(entries, left, below) = Tallies(entries, share)
    BY SumIs
  <1> HIDE DEF share
  <1>2. QED
    BY <1>1, TalliesType

LEMMA ThroughType ==
    ASSUME NEW E, NEW S, NEW entries \in Seq(E), NEW step \in [E -> [S -> S]], NEW first \in S
    PROVE  Through(entries, step, first) \in S
  <1>1. PICK f \in [0..Len(entries) -> S] : Goes(f, entries, step, first)
    BY ThroughIs
  <1>2. QED
    BY <1>1 DEF Goes

LEMMA IterType ==
    ASSUME NEW archive \in Trees, NEW left, NEW open, Opens(left, open), NEW acc \in Acc
    PROVE  Iter(archive, left, open, acc) \in Acc
  <1> DEFINE streaming ==
                  [e \in Entry |-> [a \in Acc |-> Yield(Counted(a, e), e, left, open)]]
             yielding == Yielding(left, open)
  <1>1. streaming \in [Entry -> [Acc -> Acc]]
    BY CountedType, YieldType
  <1>2. Counting \in [Entry -> [Acc -> Acc]]
    BY CountedType DEF Counting
  <1>3. yielding \in [Entry -> [Acc -> Acc]]
    BY YieldType DEF Yielding
  <1>4. archive.entries \in Seq(Entry)
    BY UnpackingAssumption
  <1>5. /\ Streamed(archive.entries, left, open, acc) = Through(archive.entries, streaming, acc)
        /\ Sevenz(archive.entries, left, open, acc)
              = Through(archive.entries, yielding, Through(archive.entries, Counting, acc))
    BY DEF Streamed, Sevenz
  <1>6. QED
    <2> HIDE DEF streaming, yielding
    <2>1. QED
      BY <1>1, <1>2, <1>3, <1>4, <1>5, ThroughType DEF Iter

LEMMA StreamedAgrees ==
    ASSUME NEW entries \in Seq(Entry), NEW left \in Nat, NEW open, NEW below,
           OpensRight(left, open, below), NEW acc \in Acc
    PROVE  /\ Streamed(entries, left, open, acc) \in Acc
           /\ Agrees(acc, Streamed(entries, left, open, acc), Sum(entries, left, below))
  <1> DEFINE step == [e \in Entry |-> [a \in Acc |-> Yield(Counted(a, e), e, left, open)]]
             share == [e \in Entry |-> Share(e, left, below)]
  <1>1. step \in [Entry -> [Acc -> Acc]]
    BY StepAgrees
  <1>2. \A e \in Entry, a \in Acc : Agrees(a, step[e][a], share[e])
    BY StepAgrees
  <1>3. share \in [Entry -> Tally] /\ Sum(entries, left, below) = Tallies(entries, share)
    BY SumIs DEF OpensRight
  <1>4. Streamed(entries, left, open, acc) = Through(entries, step, acc)
    BY DEF Streamed
  <1>5. QED
    <2> HIDE DEF step, share
    <2>1. QED
      BY <1>1, <1>2, <1>3, <1>4, ThroughAgrees

LEMMA SevenzAgrees ==
    ASSUME NEW entries \in Seq(Entry), NEW left \in Nat, NEW open, NEW below,
           OpensRight(left, open, below), NEW acc \in Acc
    PROVE  /\ Sevenz(entries, left, open, acc) \in Acc
           /\ Agrees(acc, Sevenz(entries, left, open, acc), Sum(entries, left, below))
  <1> DEFINE yielding == Yielding(left, open)
             own == [e \in Entry |-> Own(e)]
             in == [e \in Entry |-> In(e, left, below)]
             share == [e \in Entry |-> Share(e, left, below)]
             b == Through(entries, Counting, acc)
             c == Through(entries, yielding, b)
  <1>1. Counting \in [Entry -> [Acc -> Acc]] /\ own \in [Entry -> Tally]
    BY CountedType, OwnType DEF Counting
  <1>2. yielding \in [Entry -> [Acc -> Acc]] /\ in \in [Entry -> Tally]
    BY YieldType, InType DEF Yielding, OpensRight
  <1>3. \A e \in Entry, a \in Acc : Agrees(a, Counting[e][a], own[e])
    BY CountedAgrees DEF Counting
  <1>4. \A e \in Entry, a \in Acc : Agrees(a, yielding[e][a], in[e])
    BY YieldAgrees DEF Yielding
  <1>5. share \in [Entry -> Tally] /\ Sum(entries, left, below) = Tallies(entries, share)
    BY SumIs DEF OpensRight
  <1>6. \A e \in Entry : share[e] = Plus(own[e], in[e])
    BY ShareIs
  <1>7. Sevenz(entries, left, open, acc) = c
    BY DEF Sevenz
  <1> HIDE DEF yielding, own, in, share
  <1>8. b \in Acc /\ Agrees(acc, b, Tallies(entries, own))
    BY <1>1, <1>3, ThroughAgrees
  <1> HIDE DEF b
  <1>9. c \in Acc /\ Agrees(b, c, Tallies(entries, in))
    BY <1>2, <1>4, <1>8, ThroughAgrees
  <1> HIDE DEF c
  <1>10. Agrees(acc, c, Plus(Tallies(entries, own), Tallies(entries, in)))
    BY <1>1, <1>2, <1>8, <1>9, TalliesType, AgreesChain
  <1>11. Tallies(entries, share) = Plus(Tallies(entries, own), Tallies(entries, in))
    BY <1>1, <1>2, <1>5, <1>6, TalliesOfParts
  <1>12. QED
    BY <1>5, <1>7, <1>9, <1>10, <1>11

LEMMA IterAgrees ==
    ASSUME NEW archive \in Trees, NEW left \in Nat, NEW open, NEW below,
           OpensRight(left, open, below), NEW acc \in Acc
    PROVE  Agrees(acc, Iter(archive, left, open, acc), Sum(archive.entries, left, below))
  BY UnpackingAssumption, StreamedAgrees, SevenzAgrees DEF Iter

-----------------------------------------------------------------------------
(* Level by level.                                                           *)

\* What is open below a level.
Under(f, left) == IF left = 0 THEN <<>> ELSE f[left - 1]

\* The functions over the levels are what they are defined to be.
LEMMA UnpackIs ==
    /\ Unpack \in [0..MaxDepth -> [Trees -> [Acc -> Acc]]]
    /\ \A left \in 0..MaxDepth, archive \in Trees, acc \in Acc :
            Unpack[left][archive][acc] = Iter(archive, left, Under(Unpack, left), acc)
  <1> DEFINE S == [Trees -> [Acc -> Acc]]
             Level(left, open) ==
                  [archive \in Trees |-> [acc \in Acc |-> Iter(archive, left, open, acc)]]
             step == [i \in 1..MaxDepth |-> [open \in S |-> Level(i, open)]]
             b == Level(0, <<>>)
             Is(f) == f = [left \in 0..MaxDepth |-> Level(left, Under(f, left))]
  <1>1. MaxDepth \in Nat
    BY UnpackingAssumption
  <1>2. b \in S
    BY IterType DEF Opens
  <1>3. \A left, open : Opens(left, open) => Level(left, open) \in S
    BY IterType
  <1>4. step \in [1..MaxDepth -> [S -> S]]
    BY <1>3 DEF Opens
  <1>5. PICK f \in [0..MaxDepth -> S] : StepByStep(f, MaxDepth, b, step)
    <2> HIDE DEF S, b, step
    <2>1. QED
      BY <1>1, <1>2, <1>4, Recursion
  <1>6. Is(f)
    <2>1. \A i \in 1..MaxDepth : f[i - 1] \in S
      BY <1>1
    <2>2. \A i \in 1..MaxDepth : step[i][f[i - 1]] = Level(i, f[i - 1])
      BY <2>1
    <2> HIDE DEF step, Level, S
    <2>3. \A i \in 0..MaxDepth : (IF i = 0 THEN b ELSE step[i][f[i - 1]]) = Level(i, Under(f, i))
      BY <1>1, <2>2 DEF Under
    <2>4. QED
      BY <1>5, <2>3 DEF StepByStep
  <1>7. Is(Unpack)
    BY <1>6 DEF Unpack, Under
  <1> HIDE DEF Level
  <1>8. \A i \in 0..MaxDepth : Unpack[i] = Level(i, Under(Unpack, i))
    BY <1>7
  <1> DEFINE T == {i \in 0..MaxDepth : Unpack[i] \in S}
  <1>9. 0..MaxDepth \subseteq T
    <2>1. 0 \in T
      BY <1>1, <1>3, <1>8 DEF Under, Opens
    <2>2. ASSUME NEW i \in 1..MaxDepth, i - 1 \in T
          PROVE  i \in T
      <3>1. i \in 0..MaxDepth /\ i # 0 /\ Unpack[i - 1] \in S
        BY <1>1, <2>2
      <3> HIDE DEF S
      <3>2. Opens(i, Unpack[i - 1])
        BY <3>1 DEF Opens, S
      <3>3. Unpack[i] = Level(i, Unpack[i - 1])
        BY <1>8, <3>1 DEF Under
      <3>4. QED
        BY <1>3, <3>1, <3>2, <3>3
    <2> HIDE DEF T
    <2>3. QED
      BY <1>1, <2>1, <2>2, Positions
  <1>10. Unpack \in [0..MaxDepth -> S]
    BY <1>7, <1>9
  <1>11. ASSUME NEW left \in 0..MaxDepth, NEW archive \in Trees, NEW acc \in Acc
         PROVE  Unpack[left][archive][acc] = Iter(archive, left, Under(Unpack, left), acc)
    <2>1. Unpack[left][archive][acc] = Level(left, Under(Unpack, left))[archive][acc]
      BY <1>8
    <2>2. QED
      BY <2>1 DEF Level
  <1>12. QED
    BY <1>10, <1>11

LEMMA WholeIs ==
    /\ Whole \in [0..MaxDepth -> [Trees -> Tally]]
    /\ \A left \in 0..MaxDepth, archive \in Trees :
            Whole[left][archive] = Sum(archive.entries, left, Under(Whole, left))
  <1> DEFINE S == [Trees -> Tally]
             Level(left, below) == [archive \in Trees |-> Sum(archive.entries, left, below)]
             step == [i \in 1..MaxDepth |-> [below \in S |-> Level(i, below)]]
             b == Level(0, <<>>)
             Is(f) == f = [left \in 0..MaxDepth |-> Level(left, Under(f, left))]
  <1>1. MaxDepth \in Nat
    BY UnpackingAssumption
  <1>2. \A left \in Nat : \A below : Tallied(left, below) => Level(left, below) \in S
    BY UnpackingAssumption, SumType
  <1>3. b \in S
    BY <1>2 DEF Tallied
  <1>4. step \in [1..MaxDepth -> [S -> S]]
    BY <1>1, <1>2 DEF Tallied
  <1>5. PICK f \in [0..MaxDepth -> S] : StepByStep(f, MaxDepth, b, step)
    <2> HIDE DEF S, b, step
    <2>1. QED
      BY <1>1, <1>3, <1>4, Recursion
  <1>6. Is(f)
    <2>1. \A i \in 1..MaxDepth : f[i - 1] \in S
      BY <1>1
    <2>2. \A i \in 1..MaxDepth : step[i][f[i - 1]] = Level(i, f[i - 1])
      BY <2>1
    <2> HIDE DEF step, Level, S
    <2>3. \A i \in 0..MaxDepth : (IF i = 0 THEN b ELSE step[i][f[i - 1]]) = Level(i, Under(f, i))
      BY <1>1, <2>2 DEF Under
    <2>4. QED
      BY <1>5, <2>3 DEF StepByStep
  <1>7. Is(Whole)
    BY <1>6 DEF Whole, Under
  <1> HIDE DEF Level
  <1>8. \A i \in 0..MaxDepth : Whole[i] = Level(i, Under(Whole, i))
    BY <1>7
  <1> DEFINE T == {i \in 0..MaxDepth : Whole[i] \in S}
  <1>9. 0..MaxDepth \subseteq T
    <2>1. 0 \in T
      BY <1>1, <1>2, <1>8 DEF Under, Tallied
    <2>2. ASSUME NEW i \in 1..MaxDepth, i - 1 \in T
          PROVE  i \in T
      <3>1. i \in 0..MaxDepth /\ i \in Nat /\ i # 0 /\ Whole[i - 1] \in S
        BY <1>1, <2>2
      <3>2. Tallied(i, Whole[i - 1])
        BY <3>1 DEF Tallied
      <3> HIDE DEF S
      <3>3. Whole[i] = Level(i, Whole[i - 1])
        BY <1>8, <3>1 DEF Under
      <3>4. QED
        BY <1>2, <3>1, <3>2, <3>3
    <2> HIDE DEF T
    <2>3. QED
      BY <1>1, <2>1, <2>2, Positions
  <1>10. Whole \in [0..MaxDepth -> S]
    BY <1>7, <1>9
  <1>11. ASSUME NEW left \in 0..MaxDepth, NEW archive \in Trees
         PROVE  Whole[left][archive] = Sum(archive.entries, left, Under(Whole, left))
    <2>1. Whole[left][archive] = Level(left, Under(Whole, left))[archive]
      BY <1>8
    <2>2. QED
      BY <2>1 DEF Level
  <1>12. QED
    BY <1>10, <1>11

\* On every level an archive is unpacked as it is tallied.
LEMMA UnpackAgrees ==
    ASSUME NEW left \in 0..MaxDepth, NEW archive \in Trees, NEW acc \in Acc
    PROVE  Agrees(acc, Unpack[left][archive][acc], Whole[left][archive])
  <1> DEFINE Right(i) == \A t \in Trees, a \in Acc : Agrees(a, Unpack[i][t][a], Whole[i][t])
             T == {i \in 0..MaxDepth : Right(i)}
  <1>1. MaxDepth \in Nat
    BY UnpackingAssumption
  <1>2. ASSUME NEW i \in 0..MaxDepth, OpensRight(i, Under(Unpack, i), Under(Whole, i))
        PROVE  i \in T
    <2>1. \A t \in Trees, a \in Acc :
                Agrees(a, Iter(t, i, Under(Unpack, i), a), Sum(t.entries, i, Under(Whole, i)))
      BY <1>2, IterAgrees
    <2>2. QED
      BY <2>1, UnpackIs, WholeIs
  <1>3. 0 \in T
    BY <1>1, <1>2 DEF OpensRight, Opens, Tallied
  <1>4. ASSUME NEW i \in 1..MaxDepth, i - 1 \in T
        PROVE  i \in T
    <2>1. i \in 0..MaxDepth /\ i # 0 /\ i - 1 \in 0..MaxDepth /\ Right(i - 1)
      BY <1>1, <1>4
    <2>2. Under(Unpack, i) = Unpack[i - 1] /\ Under(Whole, i) = Whole[i - 1]
      BY <2>1 DEF Under
    <2>3. Unpack[i - 1] \in [Trees -> [Acc -> Acc]] /\ Whole[i - 1] \in [Trees -> Tally]
      BY <2>1, UnpackIs, WholeIs
    <2>4. OpensRight(i, Under(Unpack, i), Under(Whole, i))
      BY <2>1, <2>2, <2>3 DEF OpensRight, Opens, Tallied
    <2>5. QED
      BY <1>2, <2>1, <2>4
  <1>5. 0..MaxDepth \subseteq T
    <2> HIDE DEF T
    <2>1. QED
      BY <1>1, <1>3, <1>4, Positions
  <1>6. QED
    BY <1>5

\* What the extraction of an archive, with all that is in it, lets through is
\* within the limits as a whole, and what it gives up as a bomb is not
\* (ingest/archive.py, _Counter.add and _iter).
THEOREM ExtractObeysLimits ==
    \A a \in Trees : /\ Extract(a) \in Acc
                     /\ Extract(a).fault = "none" => WithinLimits(a)
                     /\ Extract(a).fault = "bomb" => ~WithinLimits(a)
  <1> SUFFICES ASSUME NEW a \in Trees
               PROVE  /\ Extract(a) \in Acc
                      /\ Extract(a).fault = "none" => WithinLimits(a)
                      /\ Extract(a).fault = "bomb" => ~WithinLimits(a)
    OBVIOUS
  <1> DEFINE r == Unpack[MaxDepth][a][Fresh]
             w == Whole[MaxDepth][a]
  <1>1. /\ MaxDepth \in 0..MaxDepth
        /\ MaxEntries \in Nat /\ MaxTotal \in Nat
    BY UnpackingAssumption
  <1>2. Fresh \in Acc
    BY DEF Fresh, Acc
  <1>3. r \in Acc /\ w \in Tally
    BY <1>1, <1>2, UnpackIs, WholeIs
  <1>4. Agrees(Fresh, r, w)
    BY <1>1, <1>2, UnpackAgrees
  <1>5. Extract(a) = r /\ (WithinLimits(a) <=> w.n <= MaxEntries /\ w.total <= MaxTotal /\ w.fits)
    BY DEF Extract, WithinLimits
  <1>6. /\ Fresh.n = 0 /\ Fresh.total = 0 /\ Fresh.fault = "none"
        /\ w.n \in Nat /\ w.total \in Nat
    BY <1>3 DEF Fresh, Tally
  <1>7. Within(Fresh)
    BY <1>1, <1>6 DEF Within
  <1> HIDE DEF r, w
  <1>8. r.fault = "none" => w.n <= MaxEntries /\ w.total <= MaxTotal /\ w.fits
    BY <1>3, <1>4, <1>6, <1>7 DEF Agrees, Within
  <1>9. r.fault = "bomb" => ~(w.n <= MaxEntries /\ w.total <= MaxTotal /\ w.fits)
    BY <1>1, <1>4, <1>6 DEF Agrees
  <1>10. QED
    BY <1>3, <1>5, <1>8, <1>9

-----------------------------------------------------------------------------
(* Archives: the inductive invariant.                                        *)

File == IN_!Entries
Names == {x.name : x \in File \cup Uploads}
Contents == {x.content : x \in File \cup Uploads}
Row == [name : Names, content : Contents, trashed : BOOLEAN]
Notes == {"none", "quota", "failure"}
Item == [entry : File, outcome : IN_!Outcomes, note : Notes]
BatchRow ==
    [archive : Archives, status : {"processing", "done", "partial", "failed"},
     items : Seq(Item), created : Nat, conflicts : Nat]

WaitingJob == [at : {"committed"}, mode : {"skip", "new"}]
WorkingJob ==
    [at : {"entries", "flush"}, mode : {"skip", "new"}, todo : Seq(File), items : Seq(Item),
     own : SUBSET Row, back : SUBSET Row, stop : BOOLEAN,
     write : {"created", "new_from_conflict", "restored", None}, overtaken : BOOLEAN]
OtherUpload == [at : {"read", "flushed"}, doc : Row, overtaken : BOOLEAN]

IngestTyped ==
    /\ live \in BOOLEAN /\ stuck \in BOOLEAN
    /\ docs \subseteq Row
    /\ batch \in BatchRow \cup {None}
    /\ job \in WaitingJob \cup WorkingJob \cup {IN_!NoJob}
    /\ upload \in OtherUpload \cup {IN_!NoUpload}

Distinct(S) == \A d, e \in IN_!LiveIn(S) : d # e => d.content # e.content

\* What the session wrote clashes with nothing that is live, and what it is
\* about to write with nothing it wrote.
OwnAreNew ==
    IN_!Working =>
        /\ \A d \in job.own : ~d.trashed
        /\ Distinct(job.own)
        /\ \A d \in job.own, x \in IN_!LiveIn(docs) : d.content # x.content
        /\ job.at = "flush" => /\ job.todo # <<>> /\ ~job.stop
                               /\ job.write \in {"created", "new_from_conflict", "restored"}
                               /\ \A d \in job.own : d.content # Head(job.todo).content

\* Nor does what another has flushed.
FlushedIsNew ==
    upload.at = "flushed" =>
        /\ ~upload.doc.trashed
        /\ \A x \in IN_!LiveIn(docs) : x.content # upload.doc.content
        /\ IN_!Working => \A d \in job.own : d.content # upload.doc.content
ReadIsLive == upload.at # "none" => ~upload.doc.trashed

\* There is one batch, in processing as long as it has a job, and gone with
\* the domain.
OneBatch ==
    /\ ~live => batch = None
    /\ job.at # "none" /\ live => batch \in BatchRow
    /\ job.at # "none" /\ batch # None => batch.status = "processing"

\* The items so far are what has been taken in of the files, and the rest is
\* the rest.
InStep(files, items, todo) ==
    /\ Len(items) + Len(todo) = Len(files)
    /\ \A i \in 1..Len(items) : items[i].entry = files[i]
    /\ \A i \in 1..Len(todo) : todo[i] = files[Len(items) + i]

\* An error of the quota is the last item, and stops it; the others are errors
\* like it.
QuotaEnds(items, stop) ==
    /\ stop => Len(items) > 0
    /\ \A i \in 1..Len(items) : /\ items[i].note = "quota" <=> stop /\ i = Len(items)
                                /\ items[i].note = "quota" => items[i].outcome = "error"

ItemsFollow ==
    IN_!Working => /\ live => InStep(Extracted(batch.archive).out, job.items, job.todo)
                   /\ QuotaEnds(job.items, job.stop)

IngestInv ==
    /\ IngestTyped /\ Distinct(docs) /\ OwnAreNew /\ FlushedIsNew /\ ReadIsLive
    /\ OneBatch /\ ItemsFollow /\ IN_!ProcessingIsUnderWay /\ IN_!BatchTellsAll

-----------------------------------------------------------------------------
(* Backends: the inductive invariant.                                        *)

Bodies == {"whole", "cut"}
Blobs == [key : Keys, body : Bodies]
Spooled == [op : {"looked", "stored"}, key : Keys]
           \cup [op : {"copying"}, key : Keys, spoilt : BOOLEAN]
Migration == [to : ST!Backends, delete : BOOLEAN, left : SUBSET Keys, copied : Blobs \cup {None},
              quiet : BOOLEAN]

StorageTyped ==
    /\ obj \in [ST!Backends -> [Keys -> Bodies \cup {None}]]
    /\ active \in ST!Backends /\ synced \in ST!Backends \cup {None}
    /\ held \subseteq Keys /\ torn \subseteq Keys
    /\ spool \in [Requests -> Spooled \cup {ST!Idle}]
    /\ mig \in Migration \cup {None}

StoredKeys == {k \in Keys : \E r \in Requests : spool[r].op = "stored" /\ spool[r].key = k}
SomeWhole(k) == \E b \in ST!Backends : obj[b][k] = "whole"

HeldIsWhole == \A k \in held \ torn : SomeWhole(k)

\* What an upload found is whole somewhere, or found cut, which counts when
\* its row is committed.
StoredIsThere == \A k \in StoredKeys \ torn : obj[active][k] = "cut" \/ SomeWhole(k)

\* What the migration took when it was cut is on record as torn, and stays so:
\* it is on the backend that deletions do not reach.
CutIsTorn ==
    mig # None /\ mig.copied # None /\ mig.copied.body = "cut" =>
        /\ mig.copied.key \in torn
        /\ ST!Exists(ST!Other(active), mig.copied.key)

\* The keys that have to be on the backend that everything is copied to.
Needed(source) == ((held \cup StoredKeys) \ torn) \cup ST!Stored(source)

QuietRun ==
    mig # None /\ mig.quiet =>
        /\ active = ST!Other(mig.to)
        /\ \A k \in Needed(ST!Other(mig.to)) : k \in mig.left \/ ST!Exists(mig.to, k)

SyncedHasAll ==
    synced # None => /\ mig = None \/ mig.copied = None
                     /\ \A k \in Needed(ST!Other(synced)) : ST!Exists(synced, k)

StorageInv ==
    StorageTyped /\ HeldIsWhole /\ StoredIsThere /\ CutIsTorn /\ QuietRun /\ SyncedHasAll

-----------------------------------------------------------------------------
(* Archives: what the helpers do.                                            *)

LEMMA ExtractedTyped ==
    ASSUME NEW a \in Archives
    PROVE  Extracted(a).out \in Seq(File) /\ Extracted(a).fault \in {"none", "bomb", "broken"}
  BY IncomingAssumption DEF IN_!IngestAssumption, File

LEMMA JobByPlace ==
    ASSUME IngestTyped
    PROVE  /\ IN_!Working => job \in WorkingJob
           /\ job.at = "committed" => job \in WaitingJob
           /\ job.at \in {"none", "committed", "entries", "flush"}
           /\ job.at = "none" => job = IN_!NoJob
           /\ upload.at # "none" => upload \in OtherUpload
           /\ upload.at \in {"none", "read", "flushed"}
  BY DEF IngestTyped, IN_!Working, WorkingJob, WaitingJob, IN_!NoJob, OtherUpload, IN_!NoUpload

LEMMA NobodyThere ==
    IN_!NoJob.at = "none" /\ IN_!NoUpload.at = "none"
  BY DEF IN_!NoJob, IN_!NoUpload

LEMMA RowsOf ==
    ASSUME NEW e \in File \cup Uploads
    PROVE  /\ IN_!Doc(e.name, e.content) \in Row /\ ~IN_!Doc(e.name, e.content).trashed
           /\ IN_!Doc(e.name, e.content).content = e.content
           /\ IN_!InTrash(e.name, e.content) \in Row
           /\ IN_!InTrash(e.name, e.content).trashed
  BY DEF Row, Names, Contents, IN_!Doc, IN_!InTrash

LEMMA RowsAgain ==
    ASSUME NEW d \in Row
    PROVE  /\ IN_!Doc(d.name, d.content) \in Row /\ ~IN_!Doc(d.name, d.content).trashed
           /\ IN_!Doc(d.name, d.content).content = d.content
           /\ IN_!InTrash(d.name, d.content) \in Row
           /\ IN_!InTrash(d.name, d.content).trashed
  BY DEF Row, IN_!Doc, IN_!InTrash

LEMMA OutcomeMeans ==
    ASSUME NEW S, NEW n, NEW c, NEW mode
    PROVE  /\ IN_!Outcome(S, n, c, mode) \in IN_!Outcomes
           /\ IN_!Outcome(S, n, c, mode) \in {"created", "new_from_conflict", "restored"} =>
                 \A d \in IN_!LiveIn(S) : d.content # c
  BY DEF IN_!Outcome, IN_!Outcomes

\* The item of the file at hand.
LEMMA ItemTyped ==
    ASSUME NEW j \in WorkingJob, j.todo # <<>>, NEW o \in IN_!Outcomes, NEW note \in Notes
    PROVE  /\ IN_!Item(Head(j.todo), o, note) \in Item
           /\ IN_!Item(Head(j.todo), o, note).entry = Head(j.todo)
           /\ IN_!Item(Head(j.todo), o, note).outcome = o
           /\ IN_!Item(Head(j.todo), o, note).note = note
  <1>1. Head(j.todo) \in File
    BY HeadTailProperties DEF WorkingJob
  <1> QED BY <1>1 DEF Item, IN_!Item

LEMMA Recording ==
    ASSUME NEW j \in WorkingJob, j.todo # <<>>, NEW item \in Item, item.entry = Head(j.todo)
    PROVE  LET next == IN_!Record(j, item)
               n == Len(j.items)
           IN  /\ next \in WorkingJob /\ next.at = "entries" /\ next.write = None
               /\ next.own = j.own /\ next.back = j.back /\ next.stop = j.stop
               /\ next.mode = j.mode /\ next.overtaken = j.overtaken
               /\ Len(next.items) = n + 1
               /\ \A i \in 1..n : next.items[i] = j.items[i]
               /\ next.items[n + 1].entry = j.todo[1] /\ next.items[n + 1] = item
               /\ Len(next.todo) = Len(j.todo) - 1
               /\ \A i \in 1..Len(next.todo) : next.todo[i] = j.todo[i + 1]
  <1> DEFINE e == Head(j.todo)
             next == IN_!Record(j, item)
             n == Len(j.items)
  <1>1. j.items \in Seq(Item) /\ j.todo \in Seq(File)
    BY DEF WorkingJob
  <1>2. /\ e \in File /\ Tail(j.todo) \in Seq(File) /\ Len(Tail(j.todo)) = Len(j.todo) - 1
        /\ \A i \in 1..Len(Tail(j.todo)) : Tail(j.todo)[i] = j.todo[i + 1]
    BY <1>1, HeadTailProperties
  <1>3. e = j.todo[1] /\ item.entry = e
    BY <1>1
  <1>4. next = [j EXCEPT !.at = "entries", !.todo = Tail(@), !.write = None,
                         !.items = Append(@, item)]
    BY DEF IN_!Record
  <1> HIDE DEF e
  <1>5. /\ Append(j.items, item) \in Seq(Item)
        /\ Len(Append(j.items, item)) = n + 1
        /\ \A i \in 1..n : Append(j.items, item)[i] = j.items[i]
        /\ Append(j.items, item)[n + 1] = item
    BY <1>1, AppendProperties
  <1>6. /\ next.at = "entries" /\ next.write = None /\ next.todo = Tail(j.todo)
        /\ next.items = Append(j.items, item)
        /\ next.own = j.own /\ next.back = j.back /\ next.stop = j.stop
        /\ next.mode = j.mode /\ next.overtaken = j.overtaken
    BY <1>4 DEF WorkingJob
  <1>7. next \in WorkingJob
    BY <1>2, <1>4, <1>5 DEF WorkingJob
  <1> HIDE DEF next
  <1>8. /\ next \in WorkingJob /\ next.at = "entries" /\ next.write = None
        /\ next.own = j.own /\ next.back = j.back /\ next.stop = j.stop
        /\ next.mode = j.mode /\ next.overtaken = j.overtaken
        /\ Len(next.items) = n + 1
        /\ \A i \in 1..n : next.items[i] = j.items[i]
        /\ next.items[n + 1].entry = j.todo[1] /\ next.items[n + 1] = item
        /\ Len(next.todo) = Len(j.todo) - 1
        /\ \A i \in 1..Len(next.todo) : next.todo[i] = j.todo[i + 1]
    BY <1>2, <1>3, <1>5, <1>6, <1>7
  <1> QED BY <1>8 DEF next

LEMMA OneMore ==
    ASSUME NEW files \in Seq(File), NEW items \in Seq(Item), NEW todo \in Seq(File), todo # <<>>,
           NEW items2 \in Seq(Item), NEW todo2 \in Seq(File),
           Len(items2) = Len(items) + 1,
           \A i \in 1..Len(items) : items2[i] = items[i],
           items2[Len(items) + 1].entry = todo[1],
           Len(todo2) = Len(todo) - 1,
           \A i \in 1..Len(todo2) : todo2[i] = todo[i + 1],
           InStep(files, items, todo)
    PROVE  InStep(files, items2, todo2)
  <1> DEFINE n == Len(items)
  <1>1. n \in Nat /\ Len(todo) \in Nat \ {0} /\ Len(todo2) \in Nat /\ Len(items2) = n + 1
    OBVIOUS
  <1>2. /\ n + Len(todo) = Len(files)
        /\ \A i \in 1..n : items[i].entry = files[i]
        /\ \A i \in 1..Len(todo) : todo[i] = files[n + i]
    BY DEF InStep
  <1>3. Len(items2) + Len(todo2) = Len(files)
    <2>1. Len(items2) + Len(todo2) = (n + 1) + (Len(todo) - 1)
      BY <1>1
    <2>2. (n + 1) + (Len(todo) - 1) = n + Len(todo)
      BY <1>1
    <2> QED BY <1>2, <2>1, <2>2
  <1>4. ASSUME NEW i \in 1..Len(items2) PROVE items2[i].entry = files[i]
    <2>1. CASE i \in 1..n
      BY <1>2, <2>1
    <2>2. CASE i = n + 1
      <3>1. 1 \in 1..Len(todo) /\ todo[1] = files[n + 1]
        BY <1>1, <1>2
      <3> QED BY <2>2, <3>1
    <2> QED BY <1>1, <2>1, <2>2
  <1>5. ASSUME NEW i \in 1..Len(todo2) PROVE todo2[i] = files[Len(items2) + i]
    <2>1. i + 1 \in 1..Len(todo) /\ todo2[i] = todo[i + 1] /\ n + (i + 1) = Len(items2) + i
      BY <1>1
    <2> QED BY <1>2, <2>1
  <1> QED BY <1>3, <1>4, <1>5 DEF InStep

LEMMA OneMoreOutcome ==
    ASSUME NEW items \in Seq(Item), NEW items2 \in Seq(Item), NEW stop2 \in BOOLEAN,
           Len(items2) = Len(items) + 1,
           \A i \in 1..Len(items) : items2[i] = items[i],
           stop2 <=> items2[Len(items) + 1].note = "quota",
           stop2 => items2[Len(items) + 1].outcome = "error",
           QuotaEnds(items, FALSE)
    PROVE  QuotaEnds(items2, stop2)
  <1> DEFINE n == Len(items)
  <1>1. n \in Nat /\ Len(items2) = n + 1
    OBVIOUS
  <1>2. \A i \in 1..n : items2[i].note # "quota"
    BY DEF QuotaEnds
  <1>3. \A i \in 1..(n + 1) : i \in 1..n \/ i = n + 1
    BY <1>1
  <1>4. \A i \in 1..n : i # n + 1
    BY <1>1
  <1> HIDE DEF n
  <1>5. \A i \in 1..Len(items2) : /\ items2[i].note = "quota" <=> stop2 /\ i = Len(items2)
                                  /\ items2[i].note = "quota" => items2[i].outcome = "error"
    BY <1>1, <1>2, <1>3, <1>4 DEF n
  <1>6. Len(items2) > 0
    BY <1>1
  <1> QED BY <1>5, <1>6 DEF QuotaEnds

-----------------------------------------------------------------------------
(* Archives: what a finished batch counts.                                   *)

LEMMA Counts ==
    ASSUME NEW items \in Seq(Item), NEW O
    PROVE  /\ IN_!Count(items, O) \in Nat
           /\ IN_!Count(items, O) = 0 <=> \A i \in 1..Len(items) : items[i].outcome \notin O
  <1> DEFINE C == {i \in DOMAIN items : items[i].outcome \in O}
  <1>1. DOMAIN items = 1..Len(items) /\ Len(items) \in Nat
    OBVIOUS
  <1>a. C \in SUBSET (1..Len(items)) /\ IsFiniteSet(1..Len(items))
    BY <1>1, FS_Interval
  <1> HIDE DEF C
  <1>2. IsFiniteSet(C) /\ Cardinality(C) \in Nat
    BY <1>a, FS_Subset, FS_CardinalityType
  <1>3. Cardinality(C) = 0 <=> C = {}
    BY <1>2, FS_EmptySet
  <1>4. IN_!Count(items, O) = Cardinality(C)
    BY DEF C, IN_!Count, IN_!Cardinality, Cardinality
  <1> QED BY <1>1, <1>2, <1>3, <1>4 DEF C

LEMMA CountsApart ==
    ASSUME NEW items \in Seq(Item), NEW O, NEW P, O \cap P = {}
    PROVE  IN_!Count(items, O) + IN_!Count(items, P) <= Len(items)
  <1> DEFINE C == {i \in DOMAIN items : items[i].outcome \in O}
             D == {i \in DOMAIN items : items[i].outcome \in P}
  <1>1. DOMAIN items = 1..Len(items) /\ Len(items) \in Nat
    OBVIOUS
  <1>a. IsFiniteSet(1..Len(items)) /\ Cardinality(1..Len(items)) = Len(items)
    BY <1>1, FS_Interval
  <1>2. /\ C \in SUBSET (1..Len(items)) /\ D \in SUBSET (1..Len(items))
        /\ C \cup D \in SUBSET (1..Len(items)) /\ C \cap D = {}
    BY <1>1
  <1> HIDE DEF C, D
  <1>3. IsFiniteSet(C) /\ IsFiniteSet(D) /\ Cardinality(C \cup D) <= Len(items)
    BY <1>a, <1>2, FS_Subset
  <1>4. Cardinality(C \cup D) = Cardinality(C) + Cardinality(D) - Cardinality(C \cap D)
    BY <1>3, FS_Union
  <1>5. Cardinality(C \cap D) = 0 /\ Cardinality(C) \in Nat /\ Cardinality(D) \in Nat
    BY <1>2, <1>3, FS_EmptySet, FS_CardinalityType
  <1>6. IN_!Count(items, O) = Cardinality(C) /\ IN_!Count(items, P) = Cardinality(D)
    BY DEF C, D, IN_!Count, IN_!Cardinality, Cardinality
  <1> QED BY <1>1, <1>3, <1>4, <1>5, <1>6

-----------------------------------------------------------------------------
(* Archives: the steps of the job.                                           *)

LEMMA InInit == IN_!Init => IngestInv
  <1> SUFFICES ASSUME IN_!Init PROVE IngestInv
    OBVIOUS
  <1>1. /\ live = TRUE /\ docs = {} /\ batch = None /\ job = IN_!NoJob
        /\ upload = IN_!NoUpload /\ stuck = FALSE
    BY DEF IN_!Init
  <1>2. job.at = "none" /\ upload.at = "none"
    BY <1>1, NobodyThere
  <1> QED
    BY <1>1, <1>2 DEF IngestInv, IngestTyped, Distinct, IN_!LiveIn, OwnAreNew, FlushedIsNew,
       ReadIsLive, OneBatch, ItemsFollow, IN_!Working, IN_!ProcessingIsUnderWay, IN_!BatchTellsAll

LEMMA InUploadArchive ==
    ASSUME IngestInv, NEW a \in Archives, NEW mode \in {"skip", "new"},
           IN_!UploadArchive(a, mode)
    PROVE  IngestInv'
  <1> DEFINE row == [archive |-> a, status |-> "processing", items |-> <<>>, created |-> 0,
                     conflicts |-> 0]
             waiting == [at |-> "committed", mode |-> mode]
  <1>1. live /\ batch' = row /\ job' = waiting /\ stuck' = FALSE /\ UNCHANGED <<live, docs, upload>>
    BY DEF IN_!UploadArchive
  <1>2. row \in BatchRow /\ row.status = "processing"
    BY DEF BatchRow
  <1>3. waiting \in WaitingJob /\ waiting.at = "committed"
    BY DEF WaitingJob
  <1> HIDE DEF row, waiting
  <1>4. IngestTyped'
    BY <1>1, <1>2, <1>3 DEF IngestInv, IngestTyped
  <1>5. ~IN_!Working' /\ job'.at # "none"
    BY <1>1, <1>3 DEF IN_!Working
  <1>6. Distinct(docs)' /\ FlushedIsNew' /\ ReadIsLive' /\ OwnAreNew' /\ ItemsFollow'
    BY <1>1, <1>5 DEF IngestInv, Distinct, FlushedIsNew, ReadIsLive, OwnAreNew, ItemsFollow
  <1>7. OneBatch' /\ IN_!ProcessingIsUnderWay' /\ IN_!BatchTellsAll'
    BY <1>1, <1>2, <1>5 DEF OneBatch, IN_!ProcessingIsUnderWay, IN_!BatchTellsAll
  <1> QED BY <1>4, <1>6, <1>7 DEF IngestInv

\* The end of a job, whichever, writes nothing but the batch.
LEMMA JobEnds ==
    ASSUME IngestInv, job' = IN_!NoJob, UNCHANGED <<live, docs, upload>>, stuck' \in BOOLEAN,
           batch' \in BatchRow \cup {None}, batch = None => batch' = None,
           IN_!ProcessingIsUnderWay', IN_!BatchTellsAll'
    PROVE  IngestInv'
  <1>1. job'.at = "none"
    BY NobodyThere
  <1>2. IngestTyped'
    BY DEF IngestInv, IngestTyped
  <1>3. ~IN_!Working'
    BY <1>1 DEF IN_!Working
  <1>4. Distinct(docs)' /\ FlushedIsNew' /\ ReadIsLive' /\ OwnAreNew' /\ ItemsFollow'
    BY <1>3 DEF IngestInv, Distinct, FlushedIsNew, ReadIsLive, OwnAreNew, ItemsFollow
  <1>5. OneBatch'
    BY <1>1 DEF IngestInv, OneBatch
  <1> QED BY <1>2, <1>4, <1>5 DEF IngestInv

LEMMA InJobExtracts ==
    ASSUME IngestInv, IN_!JobExtracts
    PROVE  IngestInv'
  <1>1. job.at = "committed" /\ UNCHANGED <<live, docs, upload>>
    BY DEF IN_!JobExtracts
  <1>2. job \in WaitingJob
    BY <1>1, JobByPlace DEF IngestInv
  <1>3. CASE batch = None
    <2> DEFINE x == [fault |-> "gone"]
    <2>1. x.fault = "gone"
      OBVIOUS
    <2>2. job' = IN_!NoJob /\ batch' = batch /\ (stuck' <=> stuck)
      BY <1>3, <2>1 DEF IN_!JobExtracts, IngestInv, IngestTyped
    <2>3. stuck' \in BOOLEAN
      BY <1>3 DEF IN_!JobExtracts
    <2>4. IN_!ProcessingIsUnderWay' /\ IN_!BatchTellsAll'
      BY <1>3, <2>2 DEF IN_!ProcessingIsUnderWay, IN_!BatchTellsAll
    <2> QED BY <1>1, <1>3, <2>2, <2>3, <2>4, JobEnds
  <1>4. CASE batch # None
    <2> DEFINE x == Extracted(batch.archive)
    <2>1. batch \in BatchRow /\ batch.archive \in Archives /\ batch.status = "processing"
      BY <1>1, <1>4 DEF IngestInv, IngestTyped, OneBatch, BatchRow
    <2>2. x.out \in Seq(File) /\ x.fault \in {"none", "bomb", "broken"}
      BY <2>1, ExtractedTyped
    <2>3. /\ job' = IF x.fault # "none" THEN IN_!NoJob
                    ELSE [at |-> "entries", mode |-> job.mode, todo |-> x.out, items |-> <<>>,
                          own |-> {}, back |-> {}, stop |-> FALSE, write |-> None,
                          overtaken |-> FALSE]
          /\ batch' = IF x.fault \in {"bomb", "broken"}
                      THEN [batch EXCEPT !.status = IN_!StatusAfter(x.fault)] ELSE batch
          /\ stuck' = (stuck \/ x.fault = "broken")
      BY <1>4 DEF IN_!JobExtracts
    <2> HIDE DEF x
    <2>4. CASE x.fault # "none"
      <3>1. batch' = [batch EXCEPT !.status = IN_!StatusAfter(x.fault)]
        BY <2>2, <2>3, <2>4
      <3>2. batch' \in BatchRow /\ batch'.status = IN_!StatusAfter(x.fault)
        BY <2>1, <2>2, <3>1 DEF BatchRow, IN_!StatusAfter
      <3>3. /\ x.fault = "bomb" => batch'.status = "failed"
            /\ x.fault = "broken" => batch'.status = "processing" /\ stuck'
        BY <2>3, <3>2 DEF IN_!StatusAfter
      <3>4. IN_!ProcessingIsUnderWay' /\ IN_!BatchTellsAll'
        BY <2>2, <2>4, <3>3 DEF IN_!ProcessingIsUnderWay, IN_!BatchTellsAll
      <3> QED BY <1>1, <1>4, <2>3, <2>4, <3>2, <3>4, JobEnds
    <2>5. CASE x.fault = "none"
      <3> DEFINE j == [at |-> "entries", mode |-> job.mode, todo |-> x.out, items |-> <<>>,
                       own |-> {}, back |-> {}, stop |-> FALSE, write |-> None,
                       overtaken |-> FALSE]
      <3>1. job' = j /\ batch' = batch /\ (stuck' <=> stuck)
        BY <2>3, <2>5
      <3>2. j \in WorkingJob
        BY <1>2, <2>2 DEF WorkingJob, WaitingJob
      <3>3. j.at = "entries" /\ j.own = {} /\ j.items = <<>> /\ j.todo = x.out
            /\ j.stop = FALSE
        OBVIOUS
      <3> HIDE DEF j
      <3>4. IngestTyped'
        BY <1>1, <2>1, <2>3, <3>1, <3>2 DEF IngestInv, IngestTyped
      <3>5. Distinct(docs)' /\ ReadIsLive' /\ OneBatch'
        BY <1>1, <2>1, <3>1 DEF IngestInv, Distinct, ReadIsLive, OneBatch
      <3>6. OwnAreNew' /\ FlushedIsNew'
        BY <1>1, <3>1, <3>3 DEF IngestInv, OwnAreNew, FlushedIsNew, Distinct, IN_!LiveIn
      <3>7. InStep(x.out, <<>>, x.out) /\ QuotaEnds(<<>>, FALSE)
        BY <2>2 DEF InStep, QuotaEnds
      <3>8. ItemsFollow'
        <4>1. Extracted(batch'.archive).out = x.out
          BY <3>1 DEF x
        <4>2. /\ InStep(Extracted(batch'.archive).out, job'.items, job'.todo)
              /\ QuotaEnds(job'.items, job'.stop)
          BY <3>1, <3>3, <3>7, <4>1
        <4> QED BY <4>2 DEF ItemsFollow
      <3>9. IN_!ProcessingIsUnderWay' /\ IN_!BatchTellsAll'
        BY <2>1, <3>1, <3>3 DEF IN_!ProcessingIsUnderWay, IN_!BatchTellsAll
      <3> QED BY <3>4, <3>5, <3>6, <3>8, <3>9 DEF IngestInv
    <2> QED BY <2>4, <2>5
  <1> QED BY <1>3, <1>4

LEMMA InJobDies ==
    ASSUME IngestInv, IN_!JobDies
    PROVE  IngestInv'
  <1>1. job' = IN_!NoJob /\ stuck' = TRUE /\ UNCHANGED <<live, docs, batch, upload>>
    BY DEF IN_!JobDies
  <1>2. IN_!ProcessingIsUnderWay' /\ IN_!BatchTellsAll'
    BY <1>1 DEF IngestInv, IN_!ProcessingIsUnderWay, IN_!BatchTellsAll
  <1> QED BY <1>1, <1>2, JobEnds DEF IngestInv, IngestTyped

LEMMA InEntryPoisons ==
    ASSUME IngestInv, IN_!EntryPoisons
    PROVE  IngestInv'
  <1>1. job' = IN_!NoJob /\ stuck' = TRUE /\ UNCHANGED <<live, docs, batch, upload>>
    BY DEF IN_!EntryPoisons
  <1>2. IN_!ProcessingIsUnderWay' /\ IN_!BatchTellsAll'
    BY <1>1 DEF IngestInv, IN_!ProcessingIsUnderWay, IN_!BatchTellsAll
  <1> QED BY <1>1, <1>2, JobEnds DEF IngestInv, IngestTyped

\* A step of the job from one entry to the next, or to the flush of this one.
LEMMA JobGoesOn ==
    ASSUME IngestInv, IN_!Working, job' \in WorkingJob, UNCHANGED <<live, docs, batch, upload, stuck>>,
           OwnAreNew', ItemsFollow',
           upload.at = "flushed" => \A d \in job'.own : d.content # upload.doc.content
    PROVE  IngestInv'
  <1>1. IngestTyped'
    BY DEF IngestInv, IngestTyped
  <1>2. Distinct(docs)' /\ FlushedIsNew' /\ ReadIsLive'
    BY DEF IngestInv, Distinct, FlushedIsNew, ReadIsLive
  <1>3. job.at # "none" /\ job'.at # "none"
    BY DEF IN_!Working, WorkingJob
  <1>4. OneBatch' /\ IN_!ProcessingIsUnderWay' /\ IN_!BatchTellsAll'
    BY <1>3 DEF IngestInv, OneBatch, IN_!ProcessingIsUnderWay, IN_!BatchTellsAll
  <1> QED BY <1>1, <1>2, <1>4 DEF IngestInv

\* The files the job works on are some.
LEMMA FilesOf ==
    ASSUME IngestInv, IN_!Working, live
    PROVE  Extracted(batch.archive).out \in Seq(File)
  <1>1. batch \in BatchRow
    BY DEF IngestInv, OneBatch, IN_!Working
  <1> QED BY <1>1, ExtractedTyped DEF BatchRow

LEMMA RecordFollows ==
    ASSUME IngestInv, IN_!Working, job.todo # <<>>, ~job.stop, UNCHANGED <<live, batch>>,
           NEW item \in Item, item.entry = Head(job.todo), job' \in WorkingJob,
           LET next == IN_!Record(job, item)
           IN  job'.items = next.items /\ job'.todo = next.todo,
           job'.stop <=> item.note = "quota",
           item.note = "quota" => item.outcome = "error"
    PROVE  ItemsFollow'
  <1> DEFINE next == IN_!Record(job, item)
  <1>1. job \in WorkingJob
    BY JobByPlace DEF IngestInv
  <1>2. /\ next \in WorkingJob
        /\ Len(next.items) = Len(job.items) + 1
        /\ \A i \in 1..Len(job.items) : next.items[i] = job.items[i]
        /\ next.items[Len(job.items) + 1].entry = job.todo[1]
        /\ next.items[Len(job.items) + 1] = item
        /\ Len(next.todo) = Len(job.todo) - 1
        /\ \A i \in 1..Len(next.todo) : next.todo[i] = job.todo[i + 1]
    BY <1>1, Recording
  <1>3. job'.items = next.items /\ job'.todo = next.todo
    OBVIOUS
  <1> HIDE DEF next
  <1>4. /\ job.items \in Seq(Item) /\ job.todo \in Seq(File)
        /\ next.items \in Seq(Item) /\ next.todo \in Seq(File) /\ job'.stop \in BOOLEAN
    BY <1>1, <1>2 DEF WorkingJob
  <1>5. QuotaEnds(job.items, FALSE)
    BY <1>1 DEF IngestInv, ItemsFollow, QuotaEnds, WorkingJob
  <1>6. QuotaEnds(next.items, job'.stop)
    BY <1>2, <1>4, <1>5, OneMoreOutcome
  <1>7. live => InStep(Extracted(batch.archive).out, next.items, next.todo)
    <2> SUFFICES ASSUME live
                 PROVE  InStep(Extracted(batch.archive).out, next.items, next.todo)
      OBVIOUS
    <2>1. Extracted(batch.archive).out \in Seq(File)
      BY FilesOf
    <2>2. InStep(Extracted(batch.archive).out, job.items, job.todo)
      BY DEF IngestInv, ItemsFollow
    <2> QED BY <1>2, <1>4, <2>1, <2>2, OneMore
  <1> QED BY <1>3, <1>6, <1>7 DEF ItemsFollow

LEMMA InEntryReads ==
    ASSUME IngestInv, IN_!EntryReads
    PROVE  IngestInv'
  <1> DEFINE e == Head(job.todo)
             o == IN_!Outcome(IN_!Seen, e.name, e.content, job.mode)
             item == IN_!Item(e, o, IF o = "error" THEN "quota" ELSE "none")
             next == IN_!Record(job, item)
  <1>1. /\ job.at = "entries" /\ job.todo # <<>> /\ ~job.stop
        /\ job' = CASE o = "error" -> [next EXCEPT !.stop = TRUE]
                    [] o \in {"skipped", "skipped_type", "deduplicated"} -> next
                    [] OTHER -> [job EXCEPT !.at = "flush", !.write = o]
        /\ UNCHANGED <<live, docs, batch, upload, stuck>>
    <2>1. o = "error" => next = IN_!Record(job, IN_!Item(e, o, "quota"))
      OBVIOUS
    <2>2. o # "error" => next = IN_!Record(job, IN_!Item(e, o, "none"))
      OBVIOUS
    <2>3. "error" \notin {"skipped", "skipped_type", "deduplicated"}
      OBVIOUS
    <2> HIDE DEF next, item, o
    <2> QED BY <2>1, <2>2, <2>3 DEF IN_!EntryReads, o
  <1>2. IN_!Working
    BY <1>1 DEF IN_!Working
  <1>3. job \in WorkingJob
    BY <1>2, JobByPlace DEF IngestInv
  <1>4. /\ o \in IN_!Outcomes
        /\ o \in {"created", "new_from_conflict", "restored"} =>
              \A d \in IN_!LiveIn(IN_!Seen) : d.content # e.content
    BY OutcomeMeans
  <1> HIDE DEF o
  <1>a. /\ item \in Item /\ item.entry = Head(job.todo)
        /\ item.note = "quota" <=> o = "error"
        /\ item.note = "quota" => item.outcome = "error"
    <2>1. (IF o = "error" THEN "quota" ELSE "none") \in Notes
      BY DEF Notes
    <2> QED BY <1>1, <1>3, <1>4, <2>1, ItemTyped
  <1> HIDE DEF item
  <1>5. /\ next \in WorkingJob /\ next.at = "entries" /\ next.own = job.own /\ next.stop = job.stop
    BY <1>1, <1>3, <1>a, Recording
  <1> HIDE DEF next, e
  <1>6. CASE o \in {"error", "skipped", "skipped_type", "deduplicated"}
    <2>1. /\ job' \in WorkingJob /\ job'.at = "entries" /\ job'.own = job.own
          /\ job'.items = next.items /\ job'.todo = next.todo
          /\ job'.stop <=> o = "error"
      <3>1. CASE o = "error"
        <4>1. job' = [next EXCEPT !.stop = TRUE]
          BY <1>1, <3>1
        <4> QED BY <1>5, <3>1, <4>1 DEF WorkingJob
      <3>2. CASE o \in {"skipped", "skipped_type", "deduplicated"}
        <4>1. job' = next
          BY <1>1, <3>2
        <4> QED BY <1>1, <1>5, <3>2, <4>1
      <3> QED BY <1>6, <3>1, <3>2
    <2>2. OwnAreNew'
      BY <1>1, <1>2, <2>1 DEF IngestInv, OwnAreNew, Distinct, IN_!LiveIn
    <2>3. ItemsFollow'
      BY <1>1, <1>2, <1>a, <2>1, RecordFollows DEF next
    <2>4. upload.at = "flushed" => \A d \in job'.own : d.content # upload.doc.content
      BY <1>2, <2>1 DEF IngestInv, FlushedIsNew
    <2> QED BY <1>1, <1>2, <2>1, <2>2, <2>3, <2>4, JobGoesOn
  <1>7. CASE o \in {"created", "new_from_conflict", "restored"}
    <2>1. job' = [job EXCEPT !.at = "flush", !.write = o]
      BY <1>1, <1>7
    <2>2. /\ job' \in WorkingJob /\ job'.at = "flush" /\ job'.own = job.own
          /\ job'.items = job.items /\ job'.todo = job.todo /\ job'.stop = job.stop
          /\ job'.write = o
      BY <1>3, <1>7, <2>1 DEF WorkingJob
    <2>3. \A d \in job.own : d.content # e.content
      <3>1. \A d \in job.own : d \in IN_!LiveIn(IN_!Seen)
        BY <1>2 DEF IngestInv, OwnAreNew, IN_!LiveIn, IN_!Seen
      <3> QED BY <1>4, <1>7, <3>1
    <2>4. OwnAreNew'
      BY <1>1, <1>2, <1>7, <2>2, <2>3 DEF IngestInv, OwnAreNew, Distinct, IN_!LiveIn, e
    <2>5. ItemsFollow'
      BY <1>1, <1>2, <2>2 DEF IngestInv, ItemsFollow
    <2>6. upload.at = "flushed" => \A d \in job'.own : d.content # upload.doc.content
      BY <1>2, <2>2 DEF IngestInv, FlushedIsNew
    <2> QED BY <1>1, <1>2, <2>2, <2>4, <2>5, <2>6, JobGoesOn
  <1> QED BY <1>4, <1>6, <1>7 DEF IN_!Outcomes

\* An entry that fails is an item like another.
LEMMA InEntryFails ==
    ASSUME IngestInv, IN_!EntryFails
    PROVE  IngestInv'
  <1> DEFINE item == IN_!Item(Head(job.todo), "error", "failure")
             next == IN_!Record(job, item)
  <1>1. /\ job.at = "entries" /\ job.todo # <<>> /\ ~job.stop
        /\ job' = next
        /\ UNCHANGED <<live, docs, batch, upload, stuck>>
    BY DEF IN_!EntryFails
  <1>2. IN_!Working
    BY <1>1 DEF IN_!Working
  <1>3. job \in WorkingJob
    BY <1>2, JobByPlace DEF IngestInv
  <1>4. item \in Item /\ item.entry = Head(job.todo) /\ item.note = "failure"
    <2>1. "error" \in IN_!Outcomes /\ "failure" \in Notes
      BY DEF IN_!Outcomes, Notes
    <2> QED BY <1>1, <1>3, <2>1, ItemTyped
  <1> HIDE DEF item
  <1>5. /\ job' \in WorkingJob /\ job'.at = "entries" /\ job'.own = job.own /\ ~job'.stop
    BY <1>1, <1>3, <1>4, Recording
  <1>6. OwnAreNew'
    BY <1>1, <1>2, <1>5 DEF IngestInv, OwnAreNew, Distinct, IN_!LiveIn
  <1>7. ItemsFollow'
    BY <1>1, <1>2, <1>4, <1>5, RecordFollows
  <1>8. upload.at = "flushed" => \A d \in job'.own : d.content # upload.doc.content
    BY <1>2, <1>5 DEF IngestInv, FlushedIsNew
  <1> QED BY <1>1, <1>2, <1>5, <1>6, <1>7, <1>8, JobGoesOn

LEMMA InEntryFlushes ==
    ASSUME IngestInv, IN_!EntryFlushes
    PROVE  IngestInv'
  <1> DEFINE o == job.write
             item == IN_!Item(Head(job.todo), o, "none")
             next == IN_!Record(job, item)
  <1>1. job.at = "flush" /\ IN_!Working
    BY DEF IN_!EntryFlushes, IN_!Working
  <1>2. job \in WorkingJob
    BY <1>1, JobByPlace DEF IngestInv
  <1>3. /\ job.todo # <<>> /\ ~job.stop /\ o \in {"created", "new_from_conflict", "restored"}
        /\ \A d \in job.own : d.content # Head(job.todo).content
    BY <1>1 DEF IngestInv, OwnAreNew
  <1>4. PICK e \in File : e = Head(job.todo)
    BY <1>2, <1>3, HeadTailProperties DEF WorkingJob
  <1>5. o \in IN_!Outcomes /\ o # "error"
    BY <1>3 DEF IN_!Outcomes
  <1> DEFINE doc == IN_!Doc(e.name, e.content)
             old == IN_!InTrash(e.name, e.content)
  <1>6. /\ ~IN_!Waits(e.content) /\ ~IN_!Refuses(e)
        /\ job' = [next EXCEPT !.own = @ \cup {doc},
                               !.back = IF o = "restored" THEN @ \cup {old} ELSE @]
        /\ UNCHANGED <<live, docs, batch, upload, stuck>>
    BY <1>4 DEF IN_!EntryFlushes
  <1>7. doc \in Row /\ ~doc.trashed /\ doc.content = e.content /\ old \in Row
    BY <1>4, RowsOf
  <1>a. item \in Item /\ item.entry = Head(job.todo) /\ item.note = "none"
    <2>1. "none" \in Notes
      BY DEF Notes
    <2> HIDE DEF o
    <2> QED BY <1>2, <1>3, <1>5, <2>1, ItemTyped
  <1> HIDE DEF o, doc, old, item
  <1>8. /\ next \in WorkingJob /\ next.at = "entries" /\ next.own = job.own
        /\ next.back = job.back /\ next.stop = job.stop
    BY <1>2, <1>3, <1>a, Recording
  <1> HIDE DEF next
  <1>9. /\ job' \in WorkingJob /\ job'.at = "entries" /\ job'.own = job.own \cup {doc}
        /\ job'.items = next.items /\ job'.todo = next.todo /\ job'.stop = job.stop
    BY <1>6, <1>7, <1>8 DEF WorkingJob
  <1>10. \A x \in IN_!LiveIn(docs) : x.content # e.content
    BY <1>6 DEF IN_!Refuses
  <1>11. OwnAreNew'
    <2>1. /\ \A d \in job.own : ~d.trashed
          /\ Distinct(job.own)
          /\ \A d \in job.own, x \in IN_!LiveIn(docs) : d.content # x.content
      BY <1>1 DEF IngestInv, OwnAreNew
    <2>2. \A d \in job'.own : d \in job.own \/ d = doc
      BY <1>9
    <2>3. \A d \in job'.own : ~d.trashed
      BY <1>7, <2>1, <2>2
    <2>4. Distinct(job'.own)
      BY <1>3, <1>4, <1>7, <2>1, <2>2 DEF Distinct, IN_!LiveIn
    <2>5. \A d \in job'.own, x \in IN_!LiveIn(docs) : d.content # x.content
      BY <1>7, <1>10, <2>1, <2>2
    <2>6. IN_!LiveIn(docs)' = IN_!LiveIn(docs)
      BY <1>6 DEF IN_!LiveIn
    <2> QED BY <1>9, <2>3, <2>4, <2>5, <2>6 DEF OwnAreNew, Distinct, IN_!LiveIn
  <1>12. ItemsFollow'
    BY <1>1, <1>3, <1>6, <1>9, <1>a, RecordFollows DEF next
  <1>13. upload.at = "flushed" => \A d \in job'.own : d.content # upload.doc.content
    BY <1>1, <1>6, <1>7, <1>9 DEF IngestInv, FlushedIsNew, IN_!Waits
  <1> QED BY <1>1, <1>6, <1>9, <1>11, <1>12, <1>13, JobGoesOn

\* What a finished batch says, from what its job did.
LEMMA CommitTells ==
    ASSUME NEW row \in BatchRow, NEW items \in Seq(Item), NEW todo \in Seq(File), NEW stop \in BOOLEAN,
           InStep(Extracted(row.archive).out, items, todo), QuotaEnds(items, stop),
           todo = <<>> \/ stop,
           NEW created, created = IN_!Count(items, {"created", "new_from_conflict"}),
           NEW conflicts, conflicts = IN_!Count(items, {"skipped"})
    PROVE  LET files == Extracted(row.archive).out
               n == Len(items)
               status == IF stop \/ IN_!Count(items, {"error"}) > 0 THEN "partial" ELSE "done"
           IN  /\ [i \in 1..n |-> items[i].entry] = SubSeq(files, 1, n)
               /\ status = "done" <=> IN_!Count(items, {"error"}) = 0
               /\ n < Len(files) => n > 0 /\ items[n].note = "quota"
               /\ \A i \in 1..n : items[i].note = "quota" => i = n
               /\ created \in Nat /\ conflicts \in Nat /\ created + conflicts <= n
  <1> DEFINE files == Extracted(row.archive).out
             n == Len(items)
             errors == IN_!Count(items, {"error"})
  <1>1. files \in Seq(File) /\ n \in Nat /\ Len(todo) \in Nat
    BY ExtractedTyped DEF BatchRow
  <1>2. /\ n + Len(todo) = Len(files)
        /\ \A i \in 1..n : items[i].entry = files[i]
    BY DEF InStep
  <1>3. errors \in Nat /\ (errors = 0 <=> \A i \in 1..n : items[i].outcome # "error")
    BY Counts
  <1>4. stop => errors # 0
    <2> SUFFICES ASSUME stop PROVE errors # 0
      OBVIOUS
    <2>1. n \in 1..n /\ items[n].outcome = "error"
      BY <1>1 DEF QuotaEnds
    <2> QED BY <1>3, <2>1
  <1>5. /\ stop => n > 0 /\ items[n].note = "quota"
        /\ \A i \in 1..n : items[i].note = "quota" => i = n
    BY <1>1 DEF QuotaEnds
  <1>6. created \in Nat /\ conflicts \in Nat /\ created + conflicts <= n
    BY Counts, CountsApart
  <1>7. Len(files) \in Nat /\ n <= Len(files) /\ (todo = <<>> => n = Len(files))
    BY <1>1, <1>2
  <1>8. [i \in 1..n |-> items[i].entry] = SubSeq(files, 1, n)
    <2>1. \A i \in 1..n : files[i] \in File
      BY <1>1, <1>7, ElementOfSeq
    <2>2. /\ SubSeq(files, 1, n) \in Seq(File)
          /\ Len(SubSeq(files, 1, n)) = n
          /\ \A i \in 1..n : SubSeq(files, 1, n)[i] = files[i]
      <3>1. /\ SubSeq(files, 1, n) \in Seq(File)
            /\ Len(SubSeq(files, 1, n)) = IF 1 <= n THEN n - 1 + 1 ELSE 0
            /\ \A i \in 1..(n - 1 + 1) : SubSeq(files, 1, n)[i] = files[1 + i - 1]
        BY <1>1, <2>1, SubSeqProperties
      <3> QED BY <1>1, <3>1
    <2> DEFINE front == SubSeq(files, 1, n)
    <2> HIDE DEF front
    <2>3. front = [i \in 1..n |-> front[i]]
      BY <2>2 DEF front
    <2>4. \A i \in 1..n : front[i] = items[i].entry
      BY <1>2, <2>2 DEF front
    <2>5. front = [i \in 1..n |-> items[i].entry]
      BY <2>3, <2>4
    <2> QED BY <2>5 DEF front
  <1> HIDE DEF files, n, errors
  <1>9. /\ [i \in 1..n |-> items[i].entry] = SubSeq(files, 1, n)
        /\ (IF stop \/ errors > 0 THEN "partial" ELSE "done") = "done" <=> errors = 0
        /\ n < Len(files) => n > 0 /\ items[n].note = "quota"
        /\ \A i \in 1..n : items[i].note = "quota" => i = n
        /\ created \in Nat /\ conflicts \in Nat /\ created + conflicts <= n
    BY <1>1, <1>3, <1>4, <1>5, <1>6, <1>7, <1>8
  <1> QED BY <1>9 DEF files, n, errors

LEMMA SeenIsLive ==
    \A x \in IN_!LiveIn(IN_!Seen) : x \in IN_!LiveIn(docs) \/ x \in job.own
  BY DEF IN_!LiveIn, IN_!Seen

LEMMA InJobCommits ==
    ASSUME IngestInv, IN_!JobCommits
    PROVE  IngestInv'
  <1> DEFINE created == IN_!Count(job.items, {"created", "new_from_conflict"})
             conflicts == IN_!Count(job.items, {"skipped"})
             errors == IN_!Count(job.items, {"error"})
             status == IN_!FinalStatus(job)
  <1>1. /\ job.at = "entries" /\ (job.todo = <<>> \/ job.stop) /\ live
        /\ docs' = IN_!Seen
        /\ batch' = [batch EXCEPT !.status = status, !.items = job.items,
                                  !.created = created, !.conflicts = conflicts]
        /\ job' = IN_!NoJob
        /\ upload' = IF upload.at = "none" THEN upload ELSE [upload EXCEPT !.overtaken = TRUE]
        /\ UNCHANGED <<live, stuck>>
    BY DEF IN_!JobCommits
  <1>2. IN_!Working /\ job.at # "none"
    BY <1>1 DEF IN_!Working
  <1>3. job \in WorkingJob /\ batch \in BatchRow
    BY <1>1, <1>2, JobByPlace DEF IngestInv, OneBatch
  <1>4. /\ InStep(Extracted(batch.archive).out, job.items, job.todo)
        /\ QuotaEnds(job.items, job.stop)
    BY <1>1, <1>2 DEF IngestInv, ItemsFollow
  <1>5. LET files == Extracted(batch.archive).out
            n == Len(job.items)
        IN  /\ [i \in 1..n |-> job.items[i].entry] = SubSeq(files, 1, n)
            /\ status = "done" <=> errors = 0
            /\ n < Len(files) => n > 0 /\ job.items[n].note = "quota"
            /\ \A i \in 1..n : job.items[i].note = "quota" => i = n
            /\ created \in Nat /\ conflicts \in Nat /\ created + conflicts <= n
    <2>1. /\ job.items \in Seq(Item) /\ job.todo \in Seq(File) /\ job.stop \in BOOLEAN
      BY <1>3 DEF WorkingJob
    <2>2. status = IF job.stop \/ errors > 0 THEN "partial" ELSE "done"
      BY DEF IN_!FinalStatus
    <2> QED BY <1>1, <1>3, <1>4, <2>1, <2>2, CommitTells
  <1>6. status \in {"partial", "done"}
    BY DEF IN_!FinalStatus
  <1> HIDE DEF created, conflicts, status
  <1>7. created \in Nat /\ conflicts \in Nat /\ job.items \in Seq(Item)
    BY <1>3, <1>5 DEF WorkingJob
  <1>8. /\ batch' \in BatchRow /\ batch'.archive = batch.archive /\ batch'.status = status
        /\ batch'.items = job.items /\ batch'.created = created /\ batch'.conflicts = conflicts
    BY <1>1, <1>3, <1>6, <1>7 DEF BatchRow
  <1>9. /\ job'.at = "none" /\ ~IN_!Working'
    BY <1>1, NobodyThere DEF IN_!Working
  <1>10. /\ upload' \in OtherUpload \cup {IN_!NoUpload}
         /\ upload'.at = upload.at /\ (upload.at # "none" => upload'.doc = upload.doc)
    BY <1>1, JobByPlace DEF IngestInv, IngestTyped, OtherUpload
  <1>11. IngestTyped'
    <2>1. docs' \subseteq Row
      BY <1>1, <1>3 DEF IngestInv, IngestTyped, IN_!Seen, WorkingJob
    <2> QED BY <1>1, <1>8, <1>10, <2>1 DEF IngestInv, IngestTyped
  <1>12. /\ Distinct(job.own) /\ (\A d \in job.own : ~d.trashed)
         /\ \A d \in job.own, x \in IN_!LiveIn(docs) : d.content # x.content
    BY <1>2 DEF IngestInv, OwnAreNew
  <1>13. Distinct(docs)'
    <2> SUFFICES ASSUME NEW x \in IN_!LiveIn(IN_!Seen), NEW y \in IN_!LiveIn(IN_!Seen), x # y
                 PROVE  x.content # y.content
      BY <1>1 DEF Distinct, IN_!LiveIn
    <2>1. /\ x \in IN_!LiveIn(docs) \/ x \in IN_!LiveIn(job.own)
          /\ y \in IN_!LiveIn(docs) \/ y \in IN_!LiveIn(job.own)
      BY <1>12, SeenIsLive DEF IN_!LiveIn
    <2>2. IN_!LiveIn(job.own) \subseteq job.own
      BY DEF IN_!LiveIn
    <2> QED BY <1>12, <2>1, <2>2 DEF IngestInv, Distinct
  <1>14. FlushedIsNew' /\ ReadIsLive'
    <2>1. upload.at = "flushed" =>
             \A x \in IN_!LiveIn(IN_!Seen) : x.content # upload.doc.content
      BY <1>2, SeenIsLive DEF IngestInv, FlushedIsNew
    <2> QED BY <1>1, <1>9, <1>10, <2>1
            DEF IngestInv, FlushedIsNew, ReadIsLive, IN_!LiveIn
  <1>15. OwnAreNew' /\ ItemsFollow' /\ OneBatch'
    BY <1>1, <1>9 DEF OwnAreNew, ItemsFollow, OneBatch, IngestInv
  <1>16. IN_!ProcessingIsUnderWay'
    BY <1>6, <1>8 DEF IN_!ProcessingIsUnderWay
  <1>17. IN_!BatchTellsAll'
    <2>1. Extracted(batch'.archive).out = Extracted(batch.archive).out
      BY <1>8
    <2>2. IN_!Count(batch'.items, {"error"}) = errors
      BY <1>8
    <2> QED BY <1>5, <1>8, <2>1, <2>2 DEF IN_!BatchTellsAll
  <1> QED BY <1>11, <1>13, <1>14, <1>15, <1>16, <1>17 DEF IngestInv

-----------------------------------------------------------------------------
(* Archives: what others do meanwhile.                                       *)

\* What a commit of theirs does to the job, and to another upload, is to
\* overtake it.
SameJob == /\ job'.at = job.at
           /\ IN_!Working => /\ job' \in WorkingJob /\ job'.todo = job.todo
                             /\ job'.items = job.items /\ job'.own = job.own
                             /\ job'.back = job.back /\ job'.stop = job.stop
                             /\ job'.write = job.write
           /\ ~IN_!Working => job' = job

LEMMA Overtaking ==
    ASSUME IngestInv, IN_!Overtake
    PROVE  SameJob
  <1>1. CASE IN_!Working
    <2>1. job \in WorkingJob /\ job' = [job EXCEPT !.overtaken = TRUE]
      BY <1>1, JobByPlace DEF IngestInv, IN_!Overtake
    <2> QED BY <1>1, <2>1 DEF SameJob, WorkingJob
  <1>2. CASE ~IN_!Working
    BY <1>2 DEF SameJob, IN_!Overtake
  <1> QED BY <1>1, <1>2

LEMMA NobodyOvertakes ==
    ASSUME IngestInv, UNCHANGED job
    PROVE  SameJob
  BY JobByPlace DEF IngestInv, SameJob

\* Whatever others do to the documents is harmless if it keeps the contents
\* apart: of the live documents, from the job's, and from the upload's.
LEMMA OthersAct ==
    ASSUME IngestInv, SameJob, UNCHANGED <<live, batch, stuck>>,
           docs' \subseteq Row, upload' \in OtherUpload \cup {IN_!NoUpload},
           Distinct(docs)', ReadIsLive', FlushedIsNew',
           IN_!Working => \A d \in job.own, x \in IN_!LiveIn(docs)' : d.content # x.content
    PROVE  IngestInv'
  <1>1. job' \in WaitingJob \cup WorkingJob \cup {IN_!NoJob}
    BY DEF IngestInv, IngestTyped, SameJob
  <1>2. IngestTyped'
    BY <1>1 DEF IngestInv, IngestTyped
  <1>3. IN_!Working' <=> IN_!Working
    BY DEF SameJob, IN_!Working
  <1>4. OwnAreNew'
    BY <1>3 DEF IngestInv, OwnAreNew, SameJob, Distinct, IN_!LiveIn
  <1>5. OneBatch' /\ IN_!ProcessingIsUnderWay' /\ IN_!BatchTellsAll'
    BY DEF IngestInv, OneBatch, IN_!ProcessingIsUnderWay, IN_!BatchTellsAll, SameJob
  <1>6. ItemsFollow'
    BY <1>3 DEF IngestInv, ItemsFollow, SameJob
  <1> QED BY <1>2, <1>4, <1>5, <1>6 DEF IngestInv

LEMMA FewerLive ==
    ASSUME IngestInv, UNCHANGED <<live, batch, job, upload, stuck>>, docs' \subseteq Row,
           IN_!LiveIn(docs)' \subseteq IN_!LiveIn(docs)
    PROVE  IngestInv'
  <1>1. SameJob
    BY NobodyOvertakes
  <1>2. Distinct(docs)'
    BY DEF IngestInv, Distinct
  <1>3. FlushedIsNew' /\ ReadIsLive'
    BY DEF IngestInv, FlushedIsNew, ReadIsLive, IN_!Working
  <1>4. IN_!Working => \A d \in job.own, x \in IN_!LiveIn(docs)' : d.content # x.content
    BY DEF IngestInv, OwnAreNew
  <1>5. upload' \in OtherUpload \cup {IN_!NoUpload}
    BY DEF IngestInv, IngestTyped
  <1> QED BY <1>1, <1>2, <1>3, <1>4, <1>5, OthersAct

LEMMA InUploadReads ==
    ASSUME IngestInv, NEW x \in Uploads, IN_!UploadReads(x)
    PROVE  IngestInv'
  <1> DEFINE row == [at |-> "read", doc |-> IN_!Doc(x.name, x.content), overtaken |-> FALSE]
  <1>1. upload' = row /\ UNCHANGED <<live, docs, batch, job, stuck>>
    BY DEF IN_!UploadReads
  <1>2. row \in OtherUpload /\ row.at = "read" /\ ~row.doc.trashed
    BY RowsOf DEF OtherUpload
  <1> HIDE DEF row
  <1>3. SameJob
    BY <1>1, NobodyOvertakes
  <1>4. Distinct(docs)' /\ ReadIsLive' /\ FlushedIsNew' /\ docs' \subseteq Row
    BY <1>1, <1>2 DEF IngestInv, IngestTyped, Distinct, ReadIsLive, FlushedIsNew
  <1>5. IN_!Working => \A d \in job.own, y \in IN_!LiveIn(docs)' : d.content # y.content
    BY <1>1 DEF IngestInv, OwnAreNew, IN_!LiveIn
  <1> QED BY <1>1, <1>2, <1>3, <1>4, <1>5, OthersAct

LEMMA InUploadFlushes ==
    ASSUME IngestInv, IN_!UploadFlushes
    PROVE  IngestInv'
  <1>1. /\ upload.at = "read"
        /\ ~(IN_!Working /\ \E d \in job.own : d.content = upload.doc.content)
        /\ upload' = IF \E d \in IN_!LiveIn(docs) : d.content = upload.doc.content
                     THEN IN_!NoUpload ELSE [upload EXCEPT !.at = "flushed"]
        /\ UNCHANGED <<live, docs, batch, job, stuck>>
    BY DEF IN_!UploadFlushes
  <1>2. upload \in OtherUpload /\ ~upload.doc.trashed
    BY <1>1, JobByPlace DEF IngestInv, ReadIsLive
  <1>3. \/ upload' = IN_!NoUpload
        \/ /\ upload' \in OtherUpload /\ upload'.doc = upload.doc
           /\ \A d \in IN_!LiveIn(docs) : d.content # upload.doc.content
    BY <1>1, <1>2 DEF OtherUpload
  <1>4. SameJob
    BY <1>1, NobodyOvertakes
  <1>5. Distinct(docs)' /\ docs' \subseteq Row
    BY <1>1 DEF IngestInv, IngestTyped, Distinct
  <1>6. ReadIsLive' /\ FlushedIsNew'
    BY <1>1, <1>2, <1>3, NobodyThere DEF ReadIsLive, FlushedIsNew, IN_!LiveIn, IN_!Working
  <1>7. IN_!Working => \A d \in job.own, y \in IN_!LiveIn(docs)' : d.content # y.content
    BY <1>1 DEF IngestInv, OwnAreNew, IN_!LiveIn
  <1> QED BY <1>1, <1>3, <1>4, <1>5, <1>6, <1>7, OthersAct

LEMMA InUploadCommits ==
    ASSUME IngestInv, IN_!UploadCommits
    PROVE  IngestInv'
  <1>1. /\ upload.at = "flushed" /\ docs' = docs \cup {upload.doc} /\ upload' = IN_!NoUpload
        /\ IN_!Overtake /\ UNCHANGED <<live, batch, stuck>>
    BY DEF IN_!UploadCommits
  <1>2. SameJob
    BY <1>1, Overtaking
  <1>3. /\ upload.doc \in Row
        /\ \A x \in IN_!LiveIn(docs) : x.content # upload.doc.content
        /\ IN_!Working => \A d \in job.own : d.content # upload.doc.content
    BY <1>1, JobByPlace DEF IngestInv, FlushedIsNew, OtherUpload
  <1>4. \A x \in IN_!LiveIn(docs)' : x \in IN_!LiveIn(docs) \/ x = upload.doc
    BY <1>1 DEF IN_!LiveIn
  <1>5. Distinct(docs)' /\ docs' \subseteq Row
    BY <1>1, <1>3, <1>4 DEF IngestInv, IngestTyped, Distinct
  <1>6. ReadIsLive' /\ FlushedIsNew'
    BY <1>1, NobodyThere DEF ReadIsLive, FlushedIsNew
  <1>7. IN_!Working => \A d \in job.own, x \in IN_!LiveIn(docs)' : d.content # x.content
    BY <1>3, <1>4 DEF IngestInv, OwnAreNew
  <1> QED BY <1>1, <1>2, <1>5, <1>6, <1>7, OthersAct

LEMMA InTrashes ==
    ASSUME IngestInv, NEW d \in docs, IN_!Trash(d)
    PROVE  IngestInv'
  <1>1. /\ docs' = (docs \ {d}) \cup {IN_!InTrash(d.name, d.content)}
        /\ UNCHANGED <<live, batch, job, upload, stuck>>
    BY DEF IN_!Trash
  <1>2. IN_!InTrash(d.name, d.content) \in Row /\ IN_!InTrash(d.name, d.content).trashed
    BY RowsAgain DEF IngestInv, IngestTyped
  <1>3. docs' \subseteq Row /\ IN_!LiveIn(docs)' \subseteq IN_!LiveIn(docs)
    BY <1>1, <1>2 DEF IngestInv, IngestTyped, IN_!LiveIn
  <1> QED BY <1>1, <1>3, FewerLive

LEMMA InPurge ==
    ASSUME IngestInv, NEW d \in docs, IN_!Purge(d)
    PROVE  IngestInv'
  <1>1. docs' = docs \ {d} /\ UNCHANGED <<live, batch, job, upload, stuck>>
    BY DEF IN_!Purge
  <1>2. docs' \subseteq Row /\ IN_!LiveIn(docs)' \subseteq IN_!LiveIn(docs)
    BY <1>1 DEF IngestInv, IngestTyped, IN_!LiveIn
  <1> QED BY <1>1, <1>2, FewerLive

LEMMA InRestore ==
    ASSUME IngestInv, NEW d \in docs, IN_!Restore(d)
    PROVE  IngestInv'
  <1> DEFINE doc == IN_!Doc(d.name, d.content)
  <1>1. /\ IN_!Free(d) /\ ~IN_!Waits(d.content)
        /\ \A x \in IN_!LiveIn(docs) : x.content # d.content
        /\ docs' = (docs \ {d}) \cup {doc}
        /\ IN_!Overtake
        /\ upload' = IF upload.at = "none" THEN upload ELSE [upload EXCEPT !.overtaken = TRUE]
        /\ UNCHANGED <<live, batch, stuck>>
    BY DEF IN_!Restore
  <1>2. doc \in Row /\ ~doc.trashed /\ doc.content = d.content
    BY RowsAgain DEF IngestInv, IngestTyped
  <1> HIDE DEF doc
  <1>3. SameJob
    BY <1>1, Overtaking
  <1>4. \A x \in IN_!LiveIn(docs)' : x \in IN_!LiveIn(docs) \/ x = doc
    BY <1>1 DEF IN_!LiveIn
  <1>5. Distinct(docs)' /\ docs' \subseteq Row
    BY <1>1, <1>2, <1>4 DEF IngestInv, IngestTyped, Distinct
  <1>6. /\ upload' \in OtherUpload \cup {IN_!NoUpload}
        /\ upload'.at = upload.at /\ (upload.at # "none" => upload'.doc = upload.doc)
    BY <1>1, JobByPlace DEF IngestInv, IngestTyped, OtherUpload
  <1>7. (IN_!Working' <=> IN_!Working) /\ (IN_!Working => job'.own = job.own)
    BY <1>3 DEF SameJob, IN_!Working
  <1>8. ReadIsLive' /\ FlushedIsNew'
    BY <1>1, <1>2, <1>4, <1>6, <1>7 DEF IngestInv, ReadIsLive, FlushedIsNew, IN_!Waits
  <1>9. IN_!Working => \A o \in job.own, x \in IN_!LiveIn(docs)' : o.content # x.content
    BY <1>1, <1>2, <1>4 DEF IngestInv, OwnAreNew, IN_!Free
  <1> QED BY <1>1, <1>3, <1>5, <1>6, <1>8, <1>9, OthersAct

LEMMA InDeleteDomain ==
    ASSUME IngestInv, IN_!DeleteDomain
    PROVE  IngestInv'
  <1>1. /\ live' = FALSE /\ docs' = {} /\ batch' = None /\ upload' = IN_!NoUpload
        /\ UNCHANGED <<job, stuck>>
    BY DEF IN_!DeleteDomain
  <1>2. IngestTyped'
    BY <1>1 DEF IngestInv, IngestTyped
  <1>3. Distinct(docs)' /\ FlushedIsNew' /\ ReadIsLive'
    BY <1>1, NobodyThere DEF Distinct, IN_!LiveIn, FlushedIsNew, ReadIsLive
  <1>4. OwnAreNew' /\ ItemsFollow'
    BY <1>1 DEF IngestInv, OwnAreNew, ItemsFollow, Distinct, IN_!LiveIn, IN_!Working
  <1>5. OneBatch' /\ IN_!ProcessingIsUnderWay' /\ IN_!BatchTellsAll'
    BY <1>1 DEF OneBatch, IN_!ProcessingIsUnderWay, IN_!BatchTellsAll
  <1> QED BY <1>2, <1>3, <1>4, <1>5 DEF IngestInv

LEMMA InStutter == IngestInv /\ UNCHANGED invars => IngestInv'
  <1> SUFFICES ASSUME IngestInv, UNCHANGED invars PROVE IngestInv'
    OBVIOUS
  <1>1. UNCHANGED <<live, batch, job, upload, stuck>> /\ docs' = docs
    BY DEF invars
  <1>2. docs' \subseteq Row /\ IN_!LiveIn(docs)' \subseteq IN_!LiveIn(docs)
    BY <1>1 DEF IngestInv, IngestTyped, IN_!LiveIn
  <1> QED BY <1>1, <1>2, FewerLive

LEMMA InNext == IngestInv /\ (IN_!Next \/ UNCHANGED invars) => IngestInv'
  BY InUploadArchive, InJobExtracts, InEntryReads, InEntryFails, InEntryFlushes, InEntryPoisons, InJobCommits,
     InJobDies, InUploadReads, InUploadFlushes, InUploadCommits, InTrashes, InRestore, InPurge,
     InDeleteDomain, InStutter
  DEF IN_!Next

-----------------------------------------------------------------------------
(* Archives: the quota.                                                      *)

\* What nobody overtook still fits: what the session sees, once it wrote; with
\* the file it is about to write; and with the other upload's.
JobFits ==
    IN_!Working =>
        /\ IsFiniteSet(IN_!Bytes(job.own))
        /\ ~job.overtaken =>
              /\ job.own # {} => IN_!Used(IN_!Seen) <= Quota
              /\ job.at = "flush" =>
                    IN_!Used(IN_!Seen) + Size[Head(job.todo).content] <= Quota
UploadFits ==
    upload.at # "none" /\ ~upload.overtaken =>
        IN_!Used(docs) + Size[upload.doc.content] <= Quota

QuotaInv == IsFiniteSet(IN_!Bytes(docs)) /\ JobFits /\ UploadFits

LEMMA UsedCounts == \A S : IN_!Used(S) = Cardinality(IN_!Bytes(S))
  BY DEF IN_!Used, IN_!Cardinality, Cardinality

LEMMA BytesOf ==
    \A S, p : p \in IN_!Bytes(S) <=>
        \E d \in IN_!LiveIn(S) : p \in {d} \X (1..Size[d.content])
  BY DEF IN_!Bytes

LEMMA SizeTyped == \A c \in Contents : Size[c] \in Nat
  BY IncomingAssumption DEF IN_!IngestAssumption, Contents, File

LEMMA FileBytes ==
    ASSUME NEW d, NEW n \in Nat
    PROVE  IsFiniteSet({d} \X (1..n)) /\ Cardinality({d} \X (1..n)) = n
  <1> DEFINE S == 1..n
             T == {d} \X S
             f == [i \in S |-> <<d, i>>]
  <1>1. IsFiniteSet(S) /\ Cardinality(S) = n
    BY FS_Interval
  <1>2. f \in Bijection(S, T)
    <2>1. f \in [S -> T] /\ \A i \in S : f[i] = <<d, i>>
      OBVIOUS
    <2>2. f \in Injection(S, T)
      BY <2>1 DEF Injection, IsInjective
    <2>3. ASSUME NEW t \in T PROVE \E i \in S : f[i] = t
      <3>1. PICK i \in S : t = <<d, i>>
        OBVIOUS
      <3> QED BY <2>1, <3>1
    <2>4. f \in Surjection(S, T)
      BY <2>1, <2>3 DEF Surjection
    <2> QED BY <2>2, <2>4 DEF Bijection
  <1>3. ExistsBijection(S, T)
    BY <1>2 DEF ExistsBijection
  <1> QED BY <1>1, <1>3, FS_Bijection

LEMMA UsedLess ==
    ASSUME NEW S, NEW T, IsFiniteSet(IN_!Bytes(S)), IN_!LiveIn(T) \subseteq IN_!LiveIn(S)
    PROVE  /\ IsFiniteSet(IN_!Bytes(T)) /\ IN_!Used(T) <= IN_!Used(S)
           /\ IN_!Used(S) \in Nat /\ IN_!Used(T) \in Nat
  <1>1. IN_!Bytes(T) \in SUBSET IN_!Bytes(S)
    BY BytesOf
  <1>2. /\ IsFiniteSet(IN_!Bytes(T))
        /\ Cardinality(IN_!Bytes(T)) <= Cardinality(IN_!Bytes(S))
    BY <1>1, FS_Subset
  <1>3. Cardinality(IN_!Bytes(T)) \in Nat /\ Cardinality(IN_!Bytes(S)) \in Nat
    BY <1>2, FS_CardinalityType
  <1> QED BY <1>2, <1>3, UsedCounts

LEMMA UsedMore ==
    ASSUME NEW S, NEW T, NEW d, IsFiniteSet(IN_!Bytes(S)), Size[d.content] \in Nat,
           IN_!LiveIn(T) \subseteq IN_!LiveIn(S) \cup {d}
    PROVE  /\ IsFiniteSet(IN_!Bytes(T)) /\ IN_!Used(T) <= IN_!Used(S) + Size[d.content]
           /\ IN_!Used(S) \in Nat /\ IN_!Used(T) \in Nat
  <1> DEFINE B == IN_!Bytes(S)
             F == {d} \X (1..Size[d.content])
  <1>1. IN_!Bytes(T) \in SUBSET (B \cup F)
    BY BytesOf
  <1> HIDE DEF B, F
  <1>2. IsFiniteSet(F) /\ Cardinality(F) = Size[d.content]
    BY FileBytes DEF F
  <1>3. IsFiniteSet(B)
    BY DEF B
  <1>4. /\ IsFiniteSet(B \cup F) /\ IsFiniteSet(B \cap F)
        /\ Cardinality(B \cup F) = Cardinality(B) + Cardinality(F) - Cardinality(B \cap F)
    <2>1. B \cap F \in SUBSET B
      OBVIOUS
    <2> QED BY <1>2, <1>3, <2>1, FS_Union, FS_Subset
  <1>5. /\ IsFiniteSet(IN_!Bytes(T))
        /\ Cardinality(IN_!Bytes(T)) <= Cardinality(B \cup F)
    BY <1>1, <1>4, FS_Subset
  <1>6. /\ Cardinality(B) \in Nat /\ Cardinality(B \cap F) \in Nat
        /\ Cardinality(B \cup F) \in Nat /\ Cardinality(IN_!Bytes(T)) \in Nat
    BY <1>3, <1>4, <1>5, FS_CardinalityType
  <1> QED BY <1>2, <1>4, <1>5, <1>6, UsedCounts DEF B

LEMMA SeenFinite ==
    ASSUME QuotaInv, IN_!Working
    PROVE  IsFiniteSet(IN_!Bytes(IN_!Seen))
  <1> DEFINE B == IN_!Bytes(docs)
             O == IN_!Bytes(job.own)
  <1>1. IN_!Bytes(IN_!Seen) \in SUBSET (B \cup O)
    BY SeenIsLive, BytesOf DEF IN_!LiveIn
  <1> HIDE DEF B, O
  <1>2. IsFiniteSet(B) /\ IsFiniteSet(O)
    BY DEF QuotaInv, JobFits, B, O
  <1>3. IsFiniteSet(B \cup O)
    BY <1>2, FS_Union
  <1> QED BY <1>1, <1>3, FS_Subset

LEMMA QuInit == IN_!Init => QuotaInv
  <1> SUFFICES ASSUME IN_!Init PROVE QuotaInv
    OBVIOUS
  <1>1. docs = {} /\ job = IN_!NoJob /\ upload = IN_!NoUpload
    BY DEF IN_!Init
  <1>2. IN_!Bytes(docs) = {}
    BY <1>1, BytesOf DEF IN_!LiveIn
  <1>3. job.at = "none" /\ upload.at = "none"
    BY <1>1, NobodyThere
  <1> QED BY <1>2, <1>3, FS_EmptySet DEF QuotaInv, JobFits, UploadFits, IN_!Working

\* The job reads, flushes or ends, and the documents stay.
LEMMA QuJobSteps ==
    ASSUME IngestInv, QuotaInv, UNCHANGED <<docs, upload>>, JobFits'
    PROVE  QuotaInv'
  BY DEF QuotaInv, UploadFits

LEMMA QuJobAway ==
    ASSUME IngestInv, QuotaInv, UNCHANGED <<docs, upload>>, ~IN_!Working'
    PROVE  QuotaInv'
  BY QuJobSteps DEF JobFits

LEMMA QuJobExtracts ==
    ASSUME IngestInv, QuotaInv, IN_!JobExtracts
    PROVE  QuotaInv'
  <1> DEFINE x == IF batch = None THEN [fault |-> "gone"] ELSE Extracted(batch.archive)
             j == [at |-> "entries", mode |-> job.mode, todo |-> x.out, items |-> <<>>,
                   own |-> {}, back |-> {}, stop |-> FALSE, write |-> None,
                   overtaken |-> FALSE]
  <1>1. job' = (IF x.fault # "none" THEN IN_!NoJob ELSE j) /\ UNCHANGED <<docs, upload>>
    BY DEF IN_!JobExtracts
  <1>2. j.at = "entries" /\ j.own = {}
    OBVIOUS
  <1> HIDE DEF x, j
  <1>3. CASE x.fault # "none"
    <2>1. ~IN_!Working'
      BY <1>1, <1>3, NobodyThere DEF IN_!Working
    <2> QED BY <1>1, <2>1, QuJobAway
  <1>4. CASE x.fault = "none"
    <2>1. job'.own = {} /\ job'.at = "entries"
      BY <1>1, <1>2, <1>4
    <2>2. IN_!Bytes({}) = {}
      BY BytesOf DEF IN_!LiveIn
    <2>3. IsFiniteSet(IN_!Bytes(job'.own))
      BY <2>1, <2>2, FS_EmptySet
    <2>4. IsFiniteSet(IN_!Bytes(job.own))'
      BY <2>3 DEF IN_!Bytes, IN_!LiveIn
    <2>5. JobFits'
      BY <2>1, <2>4 DEF JobFits
    <2> QED BY <1>1, <2>5, QuJobSteps
  <1> QED BY <1>3, <1>4

LEMMA QuEntryReads ==
    ASSUME IngestInv, QuotaInv, IN_!EntryReads
    PROVE  QuotaInv'
  <1> DEFINE e == Head(job.todo)
             o == IN_!Outcome(IN_!Seen, e.name, e.content, job.mode)
             item == IN_!Item(e, o, IF o = "error" THEN "quota" ELSE "none")
             next == IN_!Record(job, item)
  <1>1. /\ job.at = "entries" /\ job.todo # <<>>
        /\ job' = CASE o = "error" -> [next EXCEPT !.stop = TRUE]
                    [] o \in {"skipped", "skipped_type", "deduplicated"} -> next
                    [] OTHER -> [job EXCEPT !.at = "flush", !.write = o]
        /\ UNCHANGED <<live, docs, batch, upload, stuck>>
    <2>1. o = "error" => next = IN_!Record(job, IN_!Item(e, o, "quota"))
      OBVIOUS
    <2>2. o # "error" => next = IN_!Record(job, IN_!Item(e, o, "none"))
      OBVIOUS
    <2>3. "error" \notin {"skipped", "skipped_type", "deduplicated"}
      OBVIOUS
    <2> HIDE DEF next, item, o
    <2> QED BY <2>1, <2>2, <2>3 DEF IN_!EntryReads, o
  <1>2. IN_!Working
    BY <1>1 DEF IN_!Working
  <1>3. job \in WorkingJob
    BY <1>2, JobByPlace DEF IngestInv
  <1>4. /\ o \in IN_!Outcomes
        /\ o \in {"created", "new_from_conflict", "restored"} =>
              IN_!Used(IN_!Seen) + Size[e.content] <= Quota
    BY DEF IN_!Outcome, IN_!Outcomes, IN_!Fits
  <1> HIDE DEF o
  <1>5. /\ next \in WorkingJob /\ next.at = "entries" /\ next.own = job.own
        /\ next.back = job.back /\ next.overtaken = job.overtaken
    <2>1. (IF o = "error" THEN "quota" ELSE "none") \in Notes
      BY DEF Notes
    <2>2. item \in Item /\ item.entry = Head(job.todo)
      BY <1>1, <1>3, <1>4, <2>1, ItemTyped
    <2> HIDE DEF item
    <2> QED BY <1>1, <1>3, <2>2, Recording
  <1> HIDE DEF next, e
  <1>6. /\ job'.own = job.own /\ job'.back = job.back /\ job'.overtaken = job.overtaken
        /\ \/ job'.at = "entries"
           \/ /\ job'.at = "flush" /\ job'.todo = job.todo
              /\ IN_!Used(IN_!Seen) + Size[e.content] <= Quota
    <2>1. CASE o = "error"
      BY <1>1, <1>5, <2>1 DEF WorkingJob
    <2>2. CASE o \in {"skipped", "skipped_type", "deduplicated"}
      BY <1>1, <1>5, <2>2
    <2>3. CASE o \in {"created", "new_from_conflict", "restored"}
      <3>1. job' = [job EXCEPT !.at = "flush", !.write = o]
        BY <1>1, <2>3
      <3> QED BY <1>3, <1>4, <2>3, <3>1 DEF WorkingJob
    <2> QED BY <1>4, <2>1, <2>2, <2>3 DEF IN_!Outcomes
  <1>7. /\ IN_!Seen' = IN_!Seen /\ IN_!Used(IN_!Seen)' = IN_!Used(IN_!Seen)
        /\ IN_!Bytes(job.own)' = IN_!Bytes(job.own)
    BY <1>1, <1>6 DEF IN_!Seen, IN_!Used, IN_!Bytes, IN_!LiveIn
  <1>8. JobFits'
    BY <1>2, <1>6, <1>7 DEF QuotaInv, JobFits, e
  <1> QED BY <1>1, <1>8, QuJobSteps

LEMMA QuEntryFails ==
    ASSUME IngestInv, QuotaInv, IN_!EntryFails
    PROVE  QuotaInv'
  <1> DEFINE item == IN_!Item(Head(job.todo), "error", "failure")
             next == IN_!Record(job, item)
  <1>1. /\ job.at = "entries" /\ job.todo # <<>> /\ job' = next
        /\ UNCHANGED <<live, docs, batch, upload, stuck>>
    BY DEF IN_!EntryFails
  <1>2. IN_!Working
    BY <1>1 DEF IN_!Working
  <1>3. job \in WorkingJob
    BY <1>2, JobByPlace DEF IngestInv
  <1>4. item \in Item /\ item.entry = Head(job.todo)
    <2>1. "error" \in IN_!Outcomes /\ "failure" \in Notes
      BY DEF IN_!Outcomes, Notes
    <2> QED BY <1>1, <1>3, <2>1, ItemTyped
  <1> HIDE DEF item
  <1>5. /\ job'.at = "entries" /\ job'.own = job.own
        /\ job'.back = job.back /\ job'.overtaken = job.overtaken
    BY <1>1, <1>3, <1>4, Recording
  <1>6. /\ IN_!Seen' = IN_!Seen /\ IN_!Used(IN_!Seen)' = IN_!Used(IN_!Seen)
        /\ IN_!Bytes(job.own)' = IN_!Bytes(job.own)
    BY <1>1, <1>5 DEF IN_!Seen, IN_!Used, IN_!Bytes, IN_!LiveIn
  <1>7. JobFits'
    BY <1>2, <1>5, <1>6 DEF QuotaInv, JobFits
  <1> QED BY <1>1, <1>7, QuJobSteps

LEMMA QuEntryFlushes ==
    ASSUME IngestInv, QuotaInv, IN_!EntryFlushes
    PROVE  QuotaInv'
  <1> DEFINE o == job.write
             item == IN_!Item(Head(job.todo), o, "none")
             next == IN_!Record(job, item)
  <1>1. job.at = "flush" /\ IN_!Working
    BY DEF IN_!EntryFlushes, IN_!Working
  <1>2. job \in WorkingJob
    BY <1>1, JobByPlace DEF IngestInv
  <1>3. /\ job.todo # <<>> /\ o \in {"created", "new_from_conflict", "restored"}
    BY <1>1 DEF IngestInv, OwnAreNew
  <1>4. PICK e \in File : e = Head(job.todo)
    BY <1>2, <1>3, HeadTailProperties DEF WorkingJob
  <1>5. o \in IN_!Outcomes
    BY <1>3 DEF IN_!Outcomes
  <1> DEFINE doc == IN_!Doc(e.name, e.content)
             old == IN_!InTrash(e.name, e.content)
  <1>6. /\ job' = [next EXCEPT !.own = @ \cup {doc},
                               !.back = IF o = "restored" THEN @ \cup {old} ELSE @]
        /\ UNCHANGED <<live, docs, batch, upload, stuck>>
    BY <1>4 DEF IN_!EntryFlushes
  <1>7. doc \in Row /\ doc.content = e.content /\ old \in Row /\ Size[e.content] \in Nat
    BY <1>4, RowsOf, SizeTyped DEF Row
  <1>a. item \in Item /\ item.entry = Head(job.todo)
    <2>1. "none" \in Notes
      BY DEF Notes
    <2> HIDE DEF o
    <2> QED BY <1>2, <1>3, <1>5, <2>1, ItemTyped
  <1> HIDE DEF o, doc, old, item
  <1>8. /\ next \in WorkingJob /\ next.at = "entries" /\ next.own = job.own
        /\ next.back = job.back /\ next.overtaken = job.overtaken
    BY <1>2, <1>3, <1>a, Recording
  <1> HIDE DEF next
  <1>9. /\ job'.at = "entries" /\ job'.own = job.own \cup {doc}
        /\ job.back \subseteq job'.back /\ job'.overtaken = job.overtaken
    BY <1>6, <1>7, <1>8 DEF WorkingJob
  <1> DEFINE own2 == job'.own
             seen2 == IN_!Seen'
  <1>10. IN_!LiveIn(own2) \subseteq IN_!LiveIn(job.own) \cup {doc}
    BY <1>9 DEF IN_!LiveIn
  <1>11. IN_!LiveIn(seen2) \subseteq IN_!LiveIn(IN_!Seen) \cup {doc}
    BY <1>6, <1>9 DEF IN_!LiveIn, IN_!Seen
  <1> HIDE DEF own2, seen2
  <1>12. IsFiniteSet(IN_!Bytes(job.own)) /\ IsFiniteSet(IN_!Bytes(IN_!Seen))
    BY <1>1, SeenFinite DEF QuotaInv, JobFits
  <1>13. IsFiniteSet(IN_!Bytes(own2))
    BY <1>7, <1>10, <1>12, UsedMore
  <1>14. /\ IN_!Used(seen2) <= IN_!Used(IN_!Seen) + Size[e.content]
         /\ IN_!Used(seen2) \in Nat /\ IN_!Used(IN_!Seen) \in Nat
    BY <1>7, <1>11, <1>12, UsedMore
  <1>15. ~job.overtaken => IN_!Used(seen2) <= Quota
    <2>1. ~job.overtaken => IN_!Used(IN_!Seen) + Size[e.content] <= Quota
      BY <1>1, <1>4 DEF QuotaInv, JobFits
    <2>2. Quota \in Nat
      BY IncomingAssumption DEF IN_!IngestAssumption
    <2> QED BY <1>7, <1>14, <2>1, <2>2
  <1>16. IN_!Bytes(job.own)' = IN_!Bytes(own2) /\ IN_!Used(IN_!Seen)' = IN_!Used(seen2)
    BY DEF own2, seen2, IN_!Bytes, IN_!LiveIn, IN_!Used
  <1>17. JobFits'
    BY <1>9, <1>13, <1>15, <1>16 DEF JobFits
  <1> QED BY <1>6, <1>17, QuJobSteps

LEMMA QuJobCommits ==
    ASSUME IngestInv, QuotaInv, IN_!JobCommits
    PROVE  QuotaInv'
  <1>1. /\ job.at = "entries" /\ docs' = IN_!Seen /\ job' = IN_!NoJob
        /\ upload' = IF upload.at = "none" THEN upload ELSE [upload EXCEPT !.overtaken = TRUE]
    BY DEF IN_!JobCommits
  <1>2. IN_!Working
    BY <1>1 DEF IN_!Working
  <1>3. IN_!Bytes(docs)' = IN_!Bytes(IN_!Seen)
    BY <1>1 DEF IN_!Bytes, IN_!LiveIn
  <1>4. IsFiniteSet(IN_!Bytes(docs))'
    BY <1>2, <1>3, SeenFinite
  <1>5. JobFits'
    BY <1>1, NobodyThere DEF JobFits, IN_!Working
  <1>6. UploadFits'
    <2>1. upload'.at # "none" => upload'.overtaken
      BY <1>1, JobByPlace DEF IngestInv, OtherUpload
    <2> QED BY <2>1 DEF UploadFits
  <1> QED BY <1>4, <1>5, <1>6 DEF QuotaInv

-----------------------------------------------------------------------------
(* Archives: the quota, and the others.                                      *)

\* Fewer live documents leave what fits fitting.
LEMMA QuFewerLive ==
    ASSUME IngestInv, QuotaInv, UNCHANGED job, IN_!LiveIn(docs)' \subseteq IN_!LiveIn(docs),
           \/ UNCHANGED upload
           \/ upload'.at = "none"
           \/ upload.at # "none" /\ upload'.doc = upload.doc
                 /\ upload'.overtaken = upload.overtaken
    PROVE  /\ QuotaInv'
           /\ IN_!Used(docs)' <= IN_!Used(docs)
           /\ IN_!Used(docs) \in Nat /\ IN_!Used(docs)' \in Nat
  <1> DEFINE docs2 == docs'
             seen2 == IN_!Seen'
  <1>1. IN_!LiveIn(docs2) \subseteq IN_!LiveIn(docs)
    BY DEF IN_!LiveIn
  <1>2. IN_!LiveIn(seen2) \subseteq IN_!LiveIn(IN_!Seen)
    BY DEF IN_!LiveIn, IN_!Seen
  <1>3. /\ IN_!Bytes(docs)' = IN_!Bytes(docs2) /\ IN_!Used(docs)' = IN_!Used(docs2)
        /\ IN_!Used(IN_!Seen)' = IN_!Used(seen2)
        /\ IN_!Bytes(job.own)' = IN_!Bytes(job.own)
    BY DEF docs2, seen2, IN_!Bytes, IN_!LiveIn, IN_!Used
  <1> HIDE DEF docs2, seen2
  <1>4. /\ IsFiniteSet(IN_!Bytes(docs2)) /\ IN_!Used(docs2) <= IN_!Used(docs)
        /\ IN_!Used(docs2) \in Nat /\ IN_!Used(docs) \in Nat
    BY <1>1, UsedLess DEF QuotaInv
  <1>5. Quota \in Nat
    BY IncomingAssumption DEF IN_!IngestAssumption
  <1>6. JobFits'
    <2>1. IN_!Working' <=> IN_!Working
      BY DEF IN_!Working
    <2> SUFFICES ASSUME IN_!Working
                 PROVE  /\ IsFiniteSet(IN_!Bytes(job.own))
                        /\ ~job.overtaken =>
                              /\ job.own # {} => IN_!Used(seen2) <= Quota
                              /\ job.at = "flush" =>
                                    IN_!Used(seen2) + Size[Head(job.todo).content] <= Quota
      BY <1>3, <2>1 DEF JobFits
    <2>2. job \in WorkingJob
      BY JobByPlace DEF IngestInv
    <2>3. /\ IN_!Used(seen2) <= IN_!Used(IN_!Seen)
          /\ IN_!Used(seen2) \in Nat /\ IN_!Used(IN_!Seen) \in Nat
      BY <1>2, SeenFinite, UsedLess
    <2>4. ASSUME job.at = "flush" PROVE Size[Head(job.todo).content] \in Nat
      <3>1. job.todo # <<>>
        BY <2>4 DEF IngestInv, OwnAreNew
      <3>2. Head(job.todo) \in File
        BY <2>2, <3>1, HeadTailProperties DEF WorkingJob
      <3> QED BY <3>2, SizeTyped DEF Contents
    <2>5. /\ IsFiniteSet(IN_!Bytes(job.own))
          /\ ~job.overtaken =>
                /\ job.own # {} => IN_!Used(IN_!Seen) <= Quota
                /\ job.at = "flush" =>
                      IN_!Used(IN_!Seen) + Size[Head(job.todo).content] <= Quota
      BY DEF QuotaInv, JobFits
    <2> QED BY <1>5, <2>3, <2>4, <2>5
  <1>7. UploadFits'
    <2> SUFFICES ASSUME upload'.at # "none", ~upload'.overtaken
                 PROVE  IN_!Used(docs2) + Size[upload'.doc.content] <= Quota
      BY <1>3 DEF UploadFits
    <2>1. upload.at # "none" /\ upload'.doc = upload.doc /\ ~upload.overtaken
      OBVIOUS
    <2>2. upload.doc \in Row
      BY <2>1, JobByPlace DEF IngestInv, OtherUpload
    <2>3. Size[upload.doc.content] \in Nat
      BY <2>2, SizeTyped DEF Row
    <2>4. IN_!Used(docs) + Size[upload.doc.content] <= Quota
      BY <2>1 DEF QuotaInv, UploadFits
    <2> QED BY <1>4, <1>5, <2>1, <2>3, <2>4
  <1> QED BY <1>3, <1>4, <1>6, <1>7 DEF QuotaInv

LEMMA QuUploadReads ==
    ASSUME IngestInv, QuotaInv, NEW x \in Uploads, IN_!UploadReads(x)
    PROVE  QuotaInv'
  <1>1. /\ IN_!Outcome(docs, x.name, x.content, "skip") = "created"
        /\ upload' = [at |-> "read", doc |-> IN_!Doc(x.name, x.content), overtaken |-> FALSE]
        /\ UNCHANGED <<live, docs, batch, job, stuck>>
    BY DEF IN_!UploadReads
  <1>2. upload'.doc.content = x.content
    BY <1>1 DEF IN_!Doc
  <1>3. IN_!Used(docs) + Size[x.content] <= Quota
    BY <1>1 DEF IN_!Outcome, IN_!Fits
  <1>4. UploadFits'
    BY <1>1, <1>2, <1>3 DEF UploadFits, IN_!Used, IN_!Bytes, IN_!LiveIn
  <1>5. JobFits' /\ IsFiniteSet(IN_!Bytes(docs))'
    BY <1>1 DEF QuotaInv, JobFits, IN_!Working, IN_!Used, IN_!Bytes, IN_!LiveIn, IN_!Seen
  <1> QED BY <1>4, <1>5 DEF QuotaInv

\* What overtakes asks nothing of the quota but that there be an end to it.
LEMMA QuOvertakes ==
    ASSUME IngestInv, QuotaInv, IN_!Overtake, NEW doc \in Row,
           IN_!LiveIn(docs)' \subseteq IN_!LiveIn(docs) \cup {doc},
           upload'.at # "none" => upload'.overtaken
    PROVE  /\ QuotaInv'
           /\ IN_!Used(docs)' <= IN_!Used(docs) + Size[doc.content]
  <1> DEFINE docs2 == docs'
  <1>1. IN_!LiveIn(docs2) \subseteq IN_!LiveIn(docs) \cup {doc}
    BY DEF IN_!LiveIn
  <1>2. IN_!Bytes(docs)' = IN_!Bytes(docs2) /\ IN_!Used(docs)' = IN_!Used(docs2)
    BY DEF docs2, IN_!Bytes, IN_!LiveIn, IN_!Used
  <1> HIDE DEF docs2
  <1>3. Size[doc.content] \in Nat
    BY SizeTyped DEF Row
  <1>4. IsFiniteSet(IN_!Bytes(docs2)) /\ IN_!Used(docs2) <= IN_!Used(docs) + Size[doc.content]
    BY <1>1, <1>3, UsedMore DEF QuotaInv
  <1>5. SameJob /\ (IN_!Working' <=> IN_!Working) /\ (IN_!Working => job'.overtaken)
    <2>1. SameJob
      BY Overtaking
    <2>2. IN_!Working => job \in WorkingJob
      BY JobByPlace DEF IngestInv
    <2>3. IN_!Working => job'.overtaken
      BY <2>2 DEF IN_!Overtake, WorkingJob
    <2> QED BY <2>1, <2>3 DEF SameJob, IN_!Working
  <1>6. JobFits'
    <2> SUFFICES ASSUME IN_!Working PROVE IsFiniteSet(IN_!Bytes(job.own))'
      BY <1>5 DEF JobFits
    <2>1. IN_!Bytes(job.own)' = IN_!Bytes(job.own)
      BY <1>5 DEF SameJob, IN_!Bytes, IN_!LiveIn
    <2> QED BY <2>1 DEF QuotaInv, JobFits
  <1>7. UploadFits'
    BY DEF UploadFits
  <1> QED BY <1>2, <1>4, <1>6, <1>7 DEF QuotaInv

LEMMA QuUploadFlushes ==
    ASSUME IngestInv, QuotaInv, IN_!UploadFlushes
    PROVE  QuotaInv'
  <1>1. /\ upload.at = "read"
        /\ \/ upload' = IN_!NoUpload
           \/ upload' = [upload EXCEPT !.at = "flushed"]
        /\ UNCHANGED <<docs, job>>
    BY DEF IN_!UploadFlushes
  <1>2. \/ upload'.at = "none"
        \/ upload.at # "none" /\ upload'.doc = upload.doc
              /\ upload'.overtaken = upload.overtaken
    BY <1>1, JobByPlace, NobodyThere DEF IngestInv, OtherUpload
  <1>3. IN_!LiveIn(docs)' \subseteq IN_!LiveIn(docs)
    BY <1>1 DEF IN_!LiveIn
  <1> QED BY <1>1, <1>2, <1>3, QuFewerLive

LEMMA QuUploadCommits ==
    ASSUME IngestInv, QuotaInv, IN_!UploadCommits
    PROVE  /\ QuotaInv'
           /\ ~upload.overtaken => IN_!Used(docs)' <= Quota
  <1>1. /\ upload.at = "flushed" /\ docs' = docs \cup {upload.doc} /\ upload' = IN_!NoUpload
        /\ IN_!Overtake
    BY DEF IN_!UploadCommits
  <1>2. upload.doc \in Row
    BY <1>1, JobByPlace DEF IngestInv, OtherUpload
  <1>3. IN_!LiveIn(docs)' \subseteq IN_!LiveIn(docs) \cup {upload.doc}
    BY <1>1 DEF IN_!LiveIn
  <1>4. QuotaInv' /\ IN_!Used(docs)' <= IN_!Used(docs) + Size[upload.doc.content]
    BY <1>1, <1>2, <1>3, NobodyThere, QuOvertakes
  <1>5. ASSUME ~upload.overtaken PROVE IN_!Used(docs)' <= Quota
    <2> DEFINE docs2 == docs'
    <2>1. IN_!LiveIn(docs2) \subseteq IN_!LiveIn(docs2)
      OBVIOUS
    <2>2. IN_!Used(docs)' = IN_!Used(docs2) /\ IN_!Bytes(docs)' = IN_!Bytes(docs2)
      BY DEF IN_!Used, IN_!Bytes, IN_!LiveIn
    <2> HIDE DEF docs2
    <2>3. IN_!Used(docs2) \in Nat /\ IN_!Used(docs) \in Nat
      BY <1>4, <2>1, <2>2, UsedLess DEF QuotaInv
    <2>4. Size[upload.doc.content] \in Nat /\ Quota \in Nat
      BY <1>2, SizeTyped, IncomingAssumption DEF Row, IN_!IngestAssumption
    <2>5. IN_!Used(docs) + Size[upload.doc.content] <= Quota
      BY <1>1, <1>5 DEF QuotaInv, UploadFits
    <2> QED BY <1>4, <2>2, <2>3, <2>4, <2>5
  <1> QED BY <1>4, <1>5

LEMMA QuTrash ==
    ASSUME IngestInv, QuotaInv, NEW d \in docs, IN_!Trash(d)
    PROVE  QuotaInv' /\ ~(IN_!Used(docs)' > IN_!Used(docs))
  <1>1. /\ docs' = (docs \ {d}) \cup {IN_!InTrash(d.name, d.content)}
        /\ UNCHANGED <<live, batch, job, upload, stuck>>
    BY DEF IN_!Trash
  <1>2. IN_!InTrash(d.name, d.content).trashed
    BY RowsAgain DEF IngestInv, IngestTyped
  <1>3. IN_!LiveIn(docs)' \subseteq IN_!LiveIn(docs)
    BY <1>1, <1>2 DEF IN_!LiveIn
  <1> QED BY <1>1, <1>3, QuFewerLive

LEMMA QuPurge ==
    ASSUME IngestInv, QuotaInv, NEW d \in docs, IN_!Purge(d)
    PROVE  QuotaInv' /\ ~(IN_!Used(docs)' > IN_!Used(docs))
  <1>1. docs' = docs \ {d} /\ UNCHANGED <<live, batch, job, upload, stuck>>
    BY DEF IN_!Purge
  <1>2. IN_!LiveIn(docs)' \subseteq IN_!LiveIn(docs)
    BY <1>1 DEF IN_!LiveIn
  <1> QED BY <1>1, <1>2, QuFewerLive

LEMMA QuRestore ==
    ASSUME IngestInv, QuotaInv, NEW d \in docs, IN_!Restore(d)
    PROVE  /\ QuotaInv'
           /\ d.trashed /\ docs' = (docs \ {d}) \cup {IN_!Doc(d.name, d.content)}
  <1> DEFINE doc == IN_!Doc(d.name, d.content)
  <1>1. /\ docs' = (docs \ {d}) \cup {doc} /\ IN_!Overtake
        /\ upload' = IF upload.at = "none" THEN upload ELSE [upload EXCEPT !.overtaken = TRUE]
        /\ d.trashed
    BY DEF IN_!Restore, IN_!LiveIn
  <1>2. doc \in Row
    BY RowsAgain DEF IngestInv, IngestTyped
  <1> HIDE DEF doc
  <1>3. IN_!LiveIn(docs)' \subseteq IN_!LiveIn(docs) \cup {doc}
    BY <1>1 DEF IN_!LiveIn
  <1>4. upload'.at # "none" => upload'.overtaken
    BY <1>1, JobByPlace DEF IngestInv, OtherUpload
  <1>5. QuotaInv'
    BY <1>1, <1>2, <1>3, <1>4, QuOvertakes
  <1> QED BY <1>1, <1>5 DEF doc

LEMMA QuDeleteDomain ==
    ASSUME IngestInv, QuotaInv, IN_!DeleteDomain
    PROVE  QuotaInv' /\ ~(IN_!Used(docs)' > IN_!Used(docs))
  <1>1. docs' = {} /\ upload' = IN_!NoUpload /\ UNCHANGED job
    BY DEF IN_!DeleteDomain
  <1>2. IN_!LiveIn(docs)' \subseteq IN_!LiveIn(docs) /\ upload'.at = "none"
    BY <1>1, NobodyThere DEF IN_!LiveIn
  <1> QED BY <1>1, <1>2, QuFewerLive

LEMMA QuStays ==
    ASSUME IngestInv, QuotaInv, UNCHANGED docs
    PROVE  ~(IN_!Used(docs)' > IN_!Used(docs))
  <1>1. IN_!LiveIn(docs) \subseteq IN_!LiveIn(docs)
    OBVIOUS
  <1>2. IN_!Used(docs) \in Nat
    BY <1>1, UsedLess DEF QuotaInv
  <1>3. IN_!Used(docs)' = IN_!Used(docs)
    BY DEF IN_!Used, IN_!Bytes, IN_!LiveIn
  <1> QED BY <1>2, <1>3

LEMMA QuStutter ==
    ASSUME IngestInv, QuotaInv, UNCHANGED invars
    PROVE  QuotaInv'
  <1>1. UNCHANGED <<docs, job, upload>>
    BY DEF invars
  <1>2. IN_!LiveIn(docs)' \subseteq IN_!LiveIn(docs)
    BY <1>1 DEF IN_!LiveIn
  <1> QED BY <1>1, <1>2, QuFewerLive

LEMMA QuNext ==
    ASSUME IngestInv, QuotaInv, IN_!Next \/ UNCHANGED invars
    PROVE  QuotaInv'
  <1>1. ASSUME NEW a \in Archives, NEW mode \in {"skip", "new"}, IN_!UploadArchive(a, mode)
        PROVE  QuotaInv'
    <2>1. UNCHANGED <<docs, upload>> /\ ~IN_!Working'
      BY <1>1 DEF IN_!UploadArchive, IN_!Working
    <2> QED BY <2>1, QuJobAway
  <1>2. ASSUME IN_!JobDies \/ IN_!EntryPoisons PROVE QuotaInv'
    <2>1. UNCHANGED <<docs, upload>> /\ ~IN_!Working'
      BY <1>2, NobodyThere DEF IN_!JobDies, IN_!EntryPoisons, IN_!Working
    <2> QED BY <2>1, QuJobAway
  <1> QED
    BY <1>1, <1>2, QuJobExtracts, QuEntryReads, QuEntryFails, QuEntryFlushes, QuJobCommits, QuUploadReads,
       QuUploadFlushes, QuUploadCommits, QuTrash, QuPurge, QuRestore, QuDeleteDomain, QuStutter
    DEF IN_!Next

\* The one commit of a job that nobody overtook.
LEMMA CommitFits ==
    ASSUME IngestInv, QuotaInv, IN_!JobCommits, ~job.overtaken
    PROVE  IN_!Used(docs)' <= Quota \/ ~(IN_!Used(docs)' > IN_!Used(docs))
  <1>1. job.at = "entries" /\ docs' = IN_!Seen
    BY DEF IN_!JobCommits
  <1>2. IN_!Working
    BY <1>1 DEF IN_!Working
  <1>3. IN_!Used(docs)' = IN_!Used(IN_!Seen)
    BY <1>1 DEF IN_!Used, IN_!Bytes, IN_!LiveIn
  <1>4. CASE job.own # {}
    BY <1>2, <1>3, <1>4 DEF QuotaInv, JobFits
  <1>5. CASE job.own = {}
    <2>1. IN_!LiveIn(IN_!Seen) \subseteq IN_!LiveIn(docs)
      BY <1>5, SeenIsLive
    <2>2. /\ IN_!Used(IN_!Seen) <= IN_!Used(docs)
          /\ IN_!Used(IN_!Seen) \in Nat /\ IN_!Used(docs) \in Nat
      BY <2>1, UsedLess DEF QuotaInv
    <2> QED BY <1>3, <2>2
  <1> QED BY <1>4, <1>5

LEMMA QuOutgrows ==
    ASSUME IngestInv, QuotaInv, IN_!Next \/ UNCHANGED invars
    PROVE  IN_!Outgrows
  <1>1. IN_!Used(docs') = IN_!Used(docs)'
    BY DEF IN_!Used, IN_!Bytes, IN_!LiveIn
  <1> DEFINE used == IN_!Used(docs)
             used2 == IN_!Used(docs)'
  <1> SUFFICES ASSUME used2 > Quota, used2 > used
               PROVE  \/ \E d \in docs :
                            d.trashed /\ docs' = (docs \ {d}) \cup {IN_!Doc(d.name, d.content)}
                      \/ job.at = "entries" /\ job.overtaken /\ job'.at = "none"
                      \/ upload.at = "flushed" /\ upload.overtaken
    BY <1>1 DEF IN_!Outgrows
  <1>2. docs' # docs
    BY QuStays
  <1>3. used2 \in Nat /\ Quota \in Nat
    <2> DEFINE docs2 == docs'
    <2>1. IN_!LiveIn(docs2) \subseteq IN_!LiveIn(docs2)
      OBVIOUS
    <2>2. IN_!Used(docs)' = IN_!Used(docs2) /\ IN_!Bytes(docs)' = IN_!Bytes(docs2)
      BY DEF IN_!Used, IN_!Bytes, IN_!LiveIn
    <2> HIDE DEF docs2
    <2>3. IN_!Used(docs2) \in Nat
      BY <2>1, <2>2, QuNext, UsedLess DEF QuotaInv
    <2> QED BY <2>2, <2>3, IncomingAssumption DEF IN_!IngestAssumption
  <1>4. ~(used2 <= Quota)
    BY <1>3
  <1> HIDE DEF used, used2
  <1>5. CASE IN_!JobCommits
    <2>1. job.at = "entries" /\ job' = IN_!NoJob
      BY <1>5 DEF IN_!JobCommits
    <2> QED BY <1>4, <1>5, <2>1, CommitFits, NobodyThere DEF used, used2
  <1>6. CASE IN_!UploadCommits
    BY <1>4, <1>6, QuUploadCommits DEF used2, IN_!UploadCommits
  <1>7. ASSUME NEW d \in docs, IN_!Restore(d)
        PROVE  \E x \in docs :
                  x.trashed /\ docs' = (docs \ {x}) \cup {IN_!Doc(x.name, x.content)}
    BY <1>7, QuRestore
  <1>8. ASSUME NEW d \in docs, IN_!Trash(d) \/ IN_!Purge(d) PROVE FALSE
    BY <1>8, QuTrash, QuPurge DEF used, used2
  <1>9. ~IN_!DeleteDomain
    BY QuDeleteDomain DEF used, used2
  <1> QED
    BY <1>2, <1>5, <1>6, <1>7, <1>8, <1>9 DEF IN_!Next, invars, IN_!UploadArchive,
       IN_!JobExtracts, IN_!EntryReads, IN_!EntryFails, IN_!EntryFlushes, IN_!EntryPoisons,
       IN_!JobDies, IN_!UploadReads, IN_!UploadFlushes

-----------------------------------------------------------------------------
(* Archives: what the batch says of its archive.                             *)

\* What a batch became, and that a job is at its files, is by what the
\* extraction of its archive ended in.
VerdictInv ==
    /\ live /\ IN_!Working => Extracted(batch.archive).fault = "none"
    /\ batch # None =>
          /\ batch.status \in {"done", "partial"} => Extracted(batch.archive).fault = "none"
          /\ batch.status = "failed" => Extracted(batch.archive).fault = "bomb"

LEMMA VerdictKept ==
    ASSUME VerdictInv, UNCHANGED <<live, batch>>, IN_!Working' => IN_!Working
    PROVE  VerdictInv'
  BY DEF VerdictInv

LEMMA VeUploadArchive ==
    ASSUME NEW a \in Archives, NEW mode \in {"skip", "new"}, IN_!UploadArchive(a, mode)
    PROVE  VerdictInv'
  <1>1. batch'.status = "processing" /\ job'.at = "committed"
    BY DEF IN_!UploadArchive
  <1> QED BY <1>1 DEF VerdictInv, IN_!Working

LEMMA VeJobExtracts ==
    ASSUME IngestInv, VerdictInv, IN_!JobExtracts
    PROVE  VerdictInv'
  <1>1. CASE batch = None
    <2> DEFINE x == [fault |-> "gone"]
    <2>1. x.fault = "gone"
      OBVIOUS
    <2>2. batch' = batch /\ job' = IN_!NoJob
      BY <1>1, <2>1 DEF IN_!JobExtracts
    <2> QED BY <1>1, <2>2, NobodyThere DEF VerdictInv, IN_!Working
  <1>2. CASE batch # None
    <2> DEFINE x == Extracted(batch.archive)
    <2>1. batch \in BatchRow /\ batch.archive \in Archives /\ batch.status = "processing"
      BY <1>2 DEF IngestInv, IngestTyped, OneBatch, BatchRow, IN_!JobExtracts
    <2>2. x.fault \in {"none", "bomb", "broken"}
      BY <2>1, ExtractedTyped
    <2>3. /\ x.fault # "none" => job' = IN_!NoJob
          /\ batch' = IF x.fault \in {"bomb", "broken"}
                      THEN [batch EXCEPT !.status = IN_!StatusAfter(x.fault)] ELSE batch
      BY <1>2 DEF IN_!JobExtracts
    <2> HIDE DEF x
    <2>4. CASE x.fault = "none"
      <3>1. batch' = batch
        BY <2>3, <2>4
      <3>2. Extracted(batch'.archive).fault = "none"
        BY <2>4, <3>1 DEF x
      <3> QED BY <2>1, <3>1, <3>2 DEF VerdictInv
    <2>5. CASE x.fault # "none"
      <3>1. /\ batch'.status = IN_!StatusAfter(x.fault) /\ batch'.archive = batch.archive
            /\ ~IN_!Working'
        BY <2>1, <2>2, <2>3, <2>5, NobodyThere DEF BatchRow, IN_!Working
      <3>2. /\ x.fault = "bomb" => batch'.status = "failed"
            /\ x.fault = "broken" => batch'.status = "processing"
        BY <3>1 DEF IN_!StatusAfter
      <3>3. Extracted(batch'.archive).fault = x.fault
        BY <3>1 DEF x
      <3> QED BY <2>2, <2>5, <3>1, <3>2, <3>3 DEF VerdictInv
    <2> QED BY <2>4, <2>5
  <1> QED BY <1>1, <1>2

LEMMA VeJobCommits ==
    ASSUME IngestInv, VerdictInv, IN_!JobCommits
    PROVE  VerdictInv'
  <1>1. /\ job.at = "entries" /\ live /\ job' = IN_!NoJob
        /\ batch' = [batch EXCEPT !.status = IN_!FinalStatus(job), !.items = job.items,
                          !.created = IN_!Count(job.items, {"created", "new_from_conflict"}),
                          !.conflicts = IN_!Count(job.items, {"skipped"})]
    BY DEF IN_!JobCommits
  <1>2. batch \in BatchRow /\ ~IN_!Working'
    BY <1>1, NobodyThere DEF IngestInv, OneBatch, IN_!Working
  <1>3. batch'.archive = batch.archive /\ batch'.status \in {"done", "partial"}
    BY <1>1, <1>2 DEF BatchRow, IN_!FinalStatus
  <1>4. Extracted(batch.archive).fault = "none"
    BY <1>1, <1>2 DEF VerdictInv, IN_!Working
  <1>5. Extracted(batch'.archive).fault = "none"
    BY <1>3, <1>4
  <1> QED BY <1>2, <1>3, <1>5 DEF VerdictInv

LEMMA VeNext ==
    ASSUME IngestInv, VerdictInv, IN_!Next \/ UNCHANGED invars
    PROVE  VerdictInv'
  <1>1. ASSUME \/ IN_!EntryReads \/ IN_!EntryFails \/ IN_!EntryFlushes \/ IN_!EntryPoisons \/ IN_!JobDies
               \/ \E x \in Uploads : IN_!UploadReads(x)
               \/ IN_!UploadFlushes \/ IN_!UploadCommits
               \/ \E d \in docs : IN_!Trash(d) \/ IN_!Restore(d) \/ IN_!Purge(d)
               \/ UNCHANGED invars
        PROVE  UNCHANGED <<live, batch>>
    BY <1>1 DEF IN_!EntryReads, IN_!EntryFails, IN_!EntryFlushes, IN_!EntryPoisons, IN_!JobDies, IN_!UploadReads,
                IN_!UploadFlushes, IN_!UploadCommits, IN_!Trash, IN_!Restore, IN_!Purge, invars
  <1>2. ASSUME IN_!EntryReads \/ IN_!EntryFails \/ IN_!EntryFlushes
        PROVE  IN_!Working
    BY <1>2 DEF IN_!EntryReads, IN_!EntryFails, IN_!EntryFlushes, IN_!Working
  <1>3. ASSUME IN_!EntryPoisons \/ IN_!JobDies
        PROVE  ~IN_!Working'
    BY <1>3, NobodyThere DEF IN_!EntryPoisons, IN_!JobDies, IN_!Working
  <1>4. ASSUME \/ \E x \in Uploads : IN_!UploadReads(x)
               \/ IN_!UploadFlushes
               \/ \E d \in docs : IN_!Trash(d) \/ IN_!Purge(d)
               \/ UNCHANGED invars
        PROVE  IN_!Working' => IN_!Working
    BY <1>4 DEF IN_!UploadReads, IN_!UploadFlushes, IN_!Trash, IN_!Purge, invars, IN_!Working
  <1>5. ASSUME IN_!UploadCommits \/ \E d \in docs : IN_!Restore(d)
        PROVE  IN_!Working' => IN_!Working
    BY <1>5 DEF IN_!UploadCommits, IN_!Restore, IN_!Overtake, IN_!Working
  <1>6. ASSUME IN_!DeleteDomain
        PROVE  VerdictInv'
    BY <1>6 DEF IN_!DeleteDomain, VerdictInv, IN_!Working
  <1> QED
    BY <1>1, <1>2, <1>3, <1>4, <1>5, <1>6, VerdictKept, VeUploadArchive, VeJobExtracts, VeJobCommits
    DEF IN_!Next

-----------------------------------------------------------------------------
(* Backends: what each step does to the objects and to the uploads.          *)

LEMMA Putting ==
    ASSUME StorageTyped, NEW b \in ST!Backends, NEW k \in Keys, NEW body \in Bodies \cup {None},
           ST!Put(b, k, body)
    PROVE  /\ obj' \in [ST!Backends -> [Keys -> Bodies \cup {None}]]
           /\ \A c \in ST!Backends, j \in Keys :
                 obj'[c][j] = IF c = b /\ j = k THEN body ELSE obj[c][j]
  BY DEF StorageTyped, ST!Put

LEMMA Spooling ==
    ASSUME StorageTyped, NEW r \in Requests, NEW row \in Spooled \cup {ST!Idle},
           spool' = [spool EXCEPT ![r] = row]
    PROVE  /\ spool' \in [Requests -> Spooled \cup {ST!Idle}]
           /\ StoredKeys' \subseteq StoredKeys
                 \cup {k \in Keys : row.op = "stored" /\ row.key = k}
  BY DEF StorageTyped, StoredKeys

LEMMA StoringKeys ==
    /\ \A k \in Keys : /\ [op |-> "stored", key |-> k] \in Spooled
                       /\ [op |-> "looked", key |-> k] \in Spooled
                       /\ \A s \in BOOLEAN : [op |-> "copying", key |-> k, spoilt |-> s] \in Spooled
    /\ ST!Idle.op # "stored"
    /\ \A row \in Spooled \cup {ST!Idle} : row.op # "none" => row.key \in Keys
  BY DEF Spooled, ST!Idle

LEMMA SpoolingStored ==
    ASSUME StorageTyped, NEW r \in Requests, NEW k \in Keys,
           spool' = [spool EXCEPT ![r] = [op |-> "stored", key |-> k]]
    PROVE  /\ spool' \in [Requests -> Spooled \cup {ST!Idle}]
           /\ StoredKeys' \subseteq StoredKeys \cup {k}
  <1> DEFINE row == [op |-> "stored", key |-> k]
  <1>1. row \in Spooled /\ row.key = k /\ spool' = [spool EXCEPT ![r] = row]
    BY StoringKeys
  <1> HIDE DEF row
  <1> QED BY <1>1, Spooling

LEMMA SpoolingOther ==
    ASSUME StorageTyped, NEW r \in Requests, NEW row \in Spooled \cup {ST!Idle},
           row.op # "stored", spool' = [spool EXCEPT ![r] = row]
    PROVE  /\ spool' \in [Requests -> Spooled \cup {ST!Idle}]
           /\ StoredKeys' \subseteq StoredKeys
  BY Spooling

LEMMA WholeIsThere == None \notin Bodies
  BY IncomingAssumption DEF ST!StorageAssumption, Bodies

LEMMA TwoBackends ==
    \A b \in ST!Backends : /\ ST!Other(b) \in ST!Backends /\ ST!Other(b) # b
                           /\ ST!Other(ST!Other(b)) = b
                           /\ \A c \in ST!Backends : c = b \/ c = ST!Other(b)
  BY DEF ST!Backends, ST!Other

\* An upload and a deletion disturb a run and what it achieved.
LEMMA Disturbs ==
    ASSUME StorageTyped, ST!Changed
    PROVE  /\ synced' = None
           /\ mig' \in Migration \cup {None}
           /\ mig' # None => /\ mig # None /\ mig'.copied = mig.copied /\ ~mig'.quiet
  <1>1. CASE mig = None
    BY <1>1 DEF StorageTyped, ST!Changed
  <1>2. CASE mig # None
    <2>1. mig \in Migration /\ mig' = [mig EXCEPT !.quiet = FALSE]
      BY <1>2 DEF StorageTyped, ST!Changed
    <2> QED BY <1>2, <2>1 DEF Migration, ST!Changed
  <1> QED BY <1>1, <1>2

LEMMA StInit == ST!Init => StorageInv
  <1> SUFFICES ASSUME ST!Init PROVE StorageInv
    OBVIOUS
  <1>1. StorageTyped
    BY DEF StorageTyped, ST!Init, ST!Backends
  <1>2. StoredKeys = {}
    BY StoringKeys DEF StoredKeys, ST!Init
  <1> QED
    BY <1>1, <1>2 DEF StorageInv, HeldIsWhole, StoredIsThere, CutIsTorn, QuietRun, SyncedHasAll,
                      ST!Init

LEMMA StStoreKnown ==
    ASSUME StorageInv, NEW r \in Requests, NEW k \in Keys, ST!StoreKnown(r, k)
    PROVE  StorageInv'
  <1>1. spool' = [spool EXCEPT ![r] = [op |-> "stored", key |-> k]]
        /\ obj[active][k] # None /\ UNCHANGED <<obj, active, held, mig, torn, synced>>
    BY DEF ST!StoreKnown, ST!Exists
  <1>2. /\ spool' \in [Requests -> Spooled \cup {ST!Idle}]
        /\ StoredKeys' \subseteq StoredKeys \cup {k}
    BY <1>1, SpoolingStored DEF StorageInv
  <1>3. StorageTyped'
    BY <1>1, <1>2 DEF StorageTyped, StorageInv, Migration, ST!Backends
  <1>4. active \in ST!Backends /\ obj[active][k] \in Bodies /\ synced \in ST!Backends \cup {None}
        /\ (mig # None => mig.to \in ST!Backends)
    BY <1>1 DEF StorageTyped, StorageInv, Migration
  <1>5. HeldIsWhole' /\ StoredIsThere' /\ CutIsTorn'
    BY <1>1, <1>2, <1>4 DEF StorageInv, HeldIsWhole, StoredIsThere, CutIsTorn, SomeWhole,
                            ST!Exists, Bodies
  <1>6. QuietRun'
    BY <1>1, <1>2, <1>4, TwoBackends DEF StorageInv, QuietRun, Needed, ST!Stored, ST!Exists
  <1>7. SyncedHasAll'
    BY <1>1, <1>2, <1>4, TwoBackends DEF StorageInv, SyncedHasAll, Needed, ST!Stored, ST!Exists
  <1> QED BY <1>3, <1>5, <1>6, <1>7 DEF StorageInv

LEMMA StStoreAtOnce ==
    ASSUME StorageInv, NEW r \in Requests, NEW k \in Keys, ST!StoreAtOnce(r, k)
    PROVE  StorageInv'
  <1>1. /\ spool' = [spool EXCEPT ![r] = [op |-> "stored", key |-> k]]
        /\ obj[active][k] = None /\ ST!Put(active, k, "whole") /\ ST!Changed
        /\ UNCHANGED <<active, held, torn>>
    BY DEF ST!StoreAtOnce, ST!Exists
  <1>2. /\ spool' \in [Requests -> Spooled \cup {ST!Idle}]
        /\ StoredKeys' \subseteq StoredKeys \cup {k}
    BY <1>1, SpoolingStored DEF StorageInv
  <1>3. active \in ST!Backends /\ obj' \in [ST!Backends -> [Keys -> Bodies \cup {None}]]
        /\ \A c \in ST!Backends, j \in Keys :
              obj'[c][j] = IF c = active /\ j = k THEN "whole" ELSE obj[c][j]
    BY <1>1, Putting DEF StorageInv, StorageTyped, Bodies
  <1>4. /\ synced' = None /\ mig' \in Migration \cup {None}
        /\ mig' # None => /\ mig # None /\ mig'.copied = mig.copied /\ ~mig'.quiet
    BY <1>1, Disturbs DEF StorageInv
  <1>5. StorageTyped'
    BY <1>1, <1>2, <1>3, <1>4 DEF StorageTyped, StorageInv
  <1>6. HeldIsWhole' /\ StoredIsThere'
    BY <1>1, <1>2, <1>3 DEF StorageInv, StorageTyped, HeldIsWhole, StoredIsThere, SomeWhole,
                            StoredKeys
  <1>7. CutIsTorn'
    BY <1>1, <1>3, <1>4, TwoBackends DEF StorageInv, StorageTyped, CutIsTorn, ST!Exists
  <1> QED BY <1>4, <1>5, <1>6, <1>7 DEF StorageInv, QuietRun, SyncedHasAll

LEMMA StStoreLooks ==
    ASSUME StorageInv, NEW r \in Requests, NEW k \in Keys, ST!StoreLooks(r, k)
    PROVE  StorageInv'
  <1> DEFINE row == [op |-> "looked", key |-> k]
  <1>1. /\ spool' = [spool EXCEPT ![r] = row]
        /\ UNCHANGED <<obj, active, held, mig, torn, synced>>
    BY DEF ST!StoreLooks
  <1>a. row \in Spooled /\ row.op # "stored"
    BY StoringKeys
  <1> HIDE DEF row
  <1>2. /\ spool' \in [Requests -> Spooled \cup {ST!Idle}]
        /\ StoredKeys' \subseteq StoredKeys
    BY <1>1, <1>a, SpoolingOther DEF StorageInv
  <1> QED
    BY <1>1, <1>2 DEF StorageInv, StorageTyped, HeldIsWhole, StoredIsThere, CutIsTorn, QuietRun,
                      SyncedHasAll, Needed, SomeWhole, ST!Stored, ST!Exists

LEMMA StPlace ==
    ASSUME StorageInv, NEW r \in Requests, ST!Place(r)
    PROVE  StorageInv'
  <1> DEFINE k == spool[r].key
             row == [op |-> "copying", key |-> k, spoilt |-> FALSE]
  <1>1. /\ spool[r].op = "looked"
        /\ spool' = [spool EXCEPT ![r] = row]
        /\ torn' = IF obj[active][k] # None THEN torn \cup {k} ELSE torn
        /\ ST!Put(active, k, "cut") /\ ST!Changed /\ UNCHANGED <<active, held>>
    BY DEF ST!Place, ST!Exists, StorageInv, StorageTyped
  <1>a. k \in Keys /\ row \in Spooled /\ row.op # "stored"
    BY <1>1, StoringKeys DEF StorageInv, StorageTyped
  <1> HIDE DEF k, row
  <1>2. /\ spool' \in [Requests -> Spooled \cup {ST!Idle}]
        /\ StoredKeys' \subseteq StoredKeys
    BY <1>1, <1>a, SpoolingOther DEF StorageInv
  <1>3. active \in ST!Backends /\ obj' \in [ST!Backends -> [Keys -> Bodies \cup {None}]]
        /\ \A c \in ST!Backends, j \in Keys :
              obj'[c][j] = IF c = active /\ j = k THEN "cut" ELSE obj[c][j]
    BY <1>1, <1>a, Putting DEF StorageInv, StorageTyped, Bodies
  <1>4. /\ synced' = None /\ mig' \in Migration \cup {None}
        /\ mig' # None => /\ mig # None /\ mig'.copied = mig.copied /\ ~mig'.quiet
    BY <1>1, Disturbs DEF StorageInv
  <1>5. StorageTyped' /\ torn \subseteq torn'
    BY <1>1, <1>2, <1>3, <1>4, <1>a DEF StorageTyped, StorageInv
  <1>6. \A j \in Keys \ torn' : SomeWhole(j) => (SomeWhole(j))'
    <2> SUFFICES ASSUME NEW j \in Keys \ torn', NEW b \in ST!Backends, obj[b][j] = "whole"
                 PROVE  obj'[b][j] = "whole"
      BY DEF SomeWhole
    <2>1. CASE b = active /\ j = k
      <3>1. obj[active][k] = None
        BY <1>1, <2>1
      <3>2. obj[active][k] = "whole"
        BY <2>1
      <3> QED BY <3>1, <3>2, WholeIsThere DEF Bodies
    <2> QED BY <1>3, <2>1
  <1>7. HeldIsWhole'
    BY <1>1, <1>5, <1>6 DEF StorageInv, StorageTyped, HeldIsWhole
  <1>8. StoredIsThere'
    BY <1>1, <1>2, <1>3, <1>5, <1>6 DEF StorageInv, StorageTyped, StoredIsThere, StoredKeys
  <1>9. CutIsTorn'
    BY <1>1, <1>3, <1>4, <1>5, TwoBackends
    DEF StorageInv, StorageTyped, CutIsTorn, ST!Exists, Migration, Blobs
  <1> QED BY <1>4, <1>5, <1>7, <1>8, <1>9 DEF StorageInv, QuietRun, SyncedHasAll

\* What an upload places is whole, or what was there stays.
LEMMA StPlaced ==
    ASSUME StorageInv, NEW r \in Requests, ST!Placed(r)
    PROVE  StorageInv'
  <1>1. spool[r].op = "copying" /\ ST!Changed /\ UNCHANGED <<active, held, torn>>
    BY DEF ST!Placed
  <1>a. PICK k \in Keys : k = spool[r].key
    BY <1>1, StoringKeys DEF StorageInv, StorageTyped
  <1>b. active \in ST!Backends
    BY DEF StorageInv, StorageTyped
  <1>4. /\ synced' = None /\ mig' \in Migration \cup {None}
        /\ mig' # None => /\ mig # None /\ mig'.copied = mig.copied /\ ~mig'.quiet
    BY <1>1, Disturbs DEF StorageInv
  <1>5. SUFFICES StorageTyped' /\ HeldIsWhole' /\ StoredIsThere' /\ CutIsTorn'
    BY <1>4 DEF StorageInv, QuietRun, SyncedHasAll
  <1>6. CASE ST!Exists(active, k)
    <2>1. PICK body \in Bodies :
             /\ body = "whole" \/ body = obj[active][k]
             /\ ST!Put(active, k, body)
             /\ spool' = [spool EXCEPT ![r] = [op |-> "stored", key |-> k]]
      BY <1>6, <1>a, <1>b DEF ST!Placed, StorageInv, StorageTyped, Bodies, ST!Exists
    <2>2. /\ spool' \in [Requests -> Spooled \cup {ST!Idle}]
          /\ StoredKeys' \subseteq StoredKeys \cup {k}
      BY <2>1, <1>a, <1>b, SpoolingStored DEF StorageInv
    <2>3. obj' \in [ST!Backends -> [Keys -> Bodies \cup {None}]]
          /\ \A c \in ST!Backends, j \in Keys :
                obj'[c][j] = IF c = active /\ j = k THEN body ELSE obj[c][j]
      BY <2>1, <1>a, <1>b, Putting DEF StorageInv
    <2>4. StorageTyped'
      BY <1>1, <1>4, <2>2, <2>3 DEF StorageTyped, StorageInv
    <2>5. \A j \in Keys : SomeWhole(j) => (SomeWhole(j))'
      BY <2>1, <2>3 DEF SomeWhole
    <2>6. HeldIsWhole'
      BY <1>1, <2>5 DEF StorageInv, StorageTyped, HeldIsWhole
    <2>7. obj'[active][k] = "cut" \/ (SomeWhole(k))'
      BY <2>1, <2>3, <1>1, <1>a, <1>b DEF SomeWhole, Bodies
    <2>8. StoredIsThere'
      <3> SUFFICES ASSUME NEW j \in StoredKeys \ torn, j # k
                   PROVE  obj'[active][j] = "cut" \/ (SomeWhole(j))'
        BY <1>1, <2>2, <2>7 DEF StoredIsThere
      <3>1. j \in Keys
        BY DEF StoredKeys
      <3> QED BY <1>1, <1>a, <1>b, <2>3, <2>5, <3>1 DEF StorageInv, StoredIsThere
    <2>9. CutIsTorn'
      BY <1>1, <1>4, <1>a, <1>b, <2>3, TwoBackends
      DEF StorageInv, StorageTyped, CutIsTorn, ST!Exists, Migration, Blobs
    <2> QED BY <2>4, <2>6, <2>8, <2>9
  <1>7. CASE ~ST!Exists(active, k)
    <2>1. spool' = [spool EXCEPT ![r] = ST!Idle] /\ UNCHANGED obj
      BY <1>7, <1>a DEF ST!Placed
    <2>2. /\ spool' \in [Requests -> Spooled \cup {ST!Idle}]
          /\ StoredKeys' \subseteq StoredKeys
      BY <2>1, StoringKeys, SpoolingOther DEF StorageInv
    <2>3. StorageTyped'
      BY <1>1, <1>4, <2>1, <2>2 DEF StorageTyped, StorageInv
    <2>4. HeldIsWhole' /\ StoredIsThere'
      BY <1>1, <2>1, <2>2 DEF StorageInv, HeldIsWhole, StoredIsThere, SomeWhole
    <2>5. CutIsTorn'
      BY <1>1, <1>4, <2>1 DEF StorageInv, CutIsTorn, ST!Exists
    <2> QED BY <2>3, <2>4, <2>5
  <1> QED BY <1>6, <1>7

LEMMA StCommit ==
    ASSUME StorageInv, NEW r \in Requests, ST!Commit(r)
    PROVE  StorageInv'
  <1> DEFINE k == spool[r].key
  <1>1. /\ spool[r].op = "stored" /\ held' = held \cup {k}
        /\ torn' = IF obj[active][k] = "cut" THEN torn \cup {k} ELSE torn
        /\ spool' = [spool EXCEPT ![r] = ST!Idle]
        /\ UNCHANGED <<obj, active, mig, synced>>
    BY DEF ST!Commit
  <1>a. k \in Keys /\ k \in StoredKeys
    BY <1>1, StoringKeys DEF StorageInv, StorageTyped, StoredKeys
  <1> HIDE DEF k
  <1>2. /\ spool' \in [Requests -> Spooled \cup {ST!Idle}]
        /\ StoredKeys' \subseteq StoredKeys
    BY <1>1, StoringKeys, SpoolingOther DEF StorageInv
  <1>3. StorageTyped' /\ torn \subseteq torn'
    BY <1>1, <1>2, <1>a DEF StorageTyped, StorageInv, Migration, ST!Backends
  <1>4. (held' \cup StoredKeys') \ torn' \subseteq (held \cup StoredKeys) \ torn
    BY <1>1, <1>2, <1>3, <1>a
  <1>5. HeldIsWhole'
    BY <1>1, <1>3, <1>a DEF StorageInv, HeldIsWhole, StoredIsThere, SomeWhole
  <1>6. StoredIsThere' /\ CutIsTorn'
    BY <1>1, <1>2, <1>3 DEF StorageInv, StoredIsThere, CutIsTorn, SomeWhole, ST!Exists
  <1>7. QuietRun' /\ SyncedHasAll'
    BY <1>1, <1>4 DEF StorageInv, QuietRun, SyncedHasAll, Needed, ST!Stored, ST!Exists
  <1> QED BY <1>3, <1>5, <1>6, <1>7 DEF StorageInv

LEMMA StDies ==
    ASSUME StorageInv, NEW r \in Requests, ST!Dies(r)
    PROVE  StorageInv'
  <1>1. UNCHANGED <<obj, active, held, mig, torn, synced>>
    BY DEF ST!Dies
  <1>2. \A x \in Requests :
           /\ spool'[x] \in Spooled \cup {ST!Idle}
           /\ spool'[x].op = "stored" => spool'[x] = spool[x]
    <2> SUFFICES ASSUME NEW x \in Requests
                 PROVE  /\ spool'[x] \in Spooled \cup {ST!Idle}
                        /\ spool'[x].op = "stored" => spool'[x] = spool[x]
      OBVIOUS
    <2>1. spool[x] \in Spooled \cup {ST!Idle}
      BY DEF StorageInv, StorageTyped
    <2>2. CASE x = r
      BY <2>2, StoringKeys DEF ST!Dies
    <2>3. CASE x # r /\ r \in ST!Copying(spool[r].key) /\ x \in ST!Copying(spool[r].key)
      <3>1. spool'[x] = [spool[x] EXCEPT !.spoilt = TRUE] /\ spool[x].op = "copying"
        BY <2>3 DEF ST!Dies, ST!Copying
      <3>2. spool[x] \in [op : {"copying"}, key : Keys, spoilt : BOOLEAN]
        BY <2>1, <3>1 DEF Spooled, ST!Idle
      <3> QED BY <3>1, <3>2 DEF Spooled
    <2>4. CASE x # r /\ ~(r \in ST!Copying(spool[r].key) /\ x \in ST!Copying(spool[r].key))
      BY <2>1, <2>4 DEF ST!Dies
    <2> QED BY <2>2, <2>3, <2>4
  <1>3. spool' \in [Requests -> Spooled \cup {ST!Idle}] /\ StoredKeys' \subseteq StoredKeys
    <2>1. DOMAIN spool' = Requests /\ spool' = [x \in Requests |-> spool'[x]]
      BY DEF ST!Dies
    <2> QED BY <1>2, <2>1 DEF StoredKeys
  <1> QED
    BY <1>1, <1>3 DEF StorageInv, StorageTyped, HeldIsWhole, StoredIsThere, CutIsTorn, QuietRun,
                      SyncedHasAll, Needed, SomeWhole, ST!Stored, ST!Exists

\* A blob goes when nothing needs it: what is left is as it was.
LEMMA StDeleteBlob ==
    ASSUME StorageInv, NEW k \in Keys, ST!DeleteBlob(k)
    PROVE  StorageInv'
  <1>1. /\ ~ST!InUse(k) /\ held' = held \ {k} /\ ST!Put(active, k, None) /\ ST!Changed
        /\ torn' = IF ST!Exists(ST!Other(active), k) THEN torn ELSE torn \ {k}
        /\ UNCHANGED <<active, spool>>
    BY DEF ST!DeleteBlob, ST!Delete
  <1>2. StoredKeys' = StoredKeys /\ k \notin StoredKeys
    BY <1>1 DEF StoredKeys, ST!InUse, ST!Idle
  <1>3. active \in ST!Backends /\ obj' \in [ST!Backends -> [Keys -> Bodies \cup {None}]]
        /\ \A c \in ST!Backends, j \in Keys :
              obj'[c][j] = IF c = active /\ j = k THEN None ELSE obj[c][j]
    BY <1>1, Putting DEF StorageInv, StorageTyped
  <1>4. /\ synced' = None /\ mig' \in Migration \cup {None}
        /\ mig' # None => /\ mig # None /\ mig'.copied = mig.copied /\ ~mig'.quiet
    BY <1>1, Disturbs DEF StorageInv
  <1>5. StorageTyped'
    BY <1>1, <1>3, <1>4 DEF StorageTyped, StorageInv
  <1>6. \A j \in Keys \ {k} : SomeWhole(j) => (SomeWhole(j))'
    BY <1>3 DEF SomeWhole
  <1>7. \A j \in Keys \ {k} : j \in torn' <=> j \in torn
    BY <1>1
  <1>8. HeldIsWhole' /\ StoredIsThere'
    BY <1>1, <1>2, <1>3, <1>6, <1>7
    DEF StorageInv, StorageTyped, HeldIsWhole, StoredIsThere, StoredKeys
  <1>9. CutIsTorn'
    BY <1>1, <1>3, <1>4, TwoBackends
    DEF StorageInv, StorageTyped, CutIsTorn, ST!Exists, Migration, Blobs
  <1> QED BY <1>4, <1>5, <1>8, <1>9 DEF StorageInv, QuietRun, SyncedHasAll

-----------------------------------------------------------------------------
(* Backends: the steps of a migration.                                       *)

LEMMA StMigrate ==
    ASSUME StorageInv, NEW to \in ST!Backends, NEW delete_source \in BOOLEAN,
           ST!Migrate(to, delete_source)
    PROVE  StorageInv'
  <1> DEFINE run == [to |-> to, delete |-> delete_source, left |-> ST!Stored(ST!Other(to)),
                     copied |-> None, quiet |-> active # to]
  <1>1. mig' = run /\ UNCHANGED <<obj, active, held, spool, torn, synced>>
    BY DEF ST!Migrate
  <1>2. run \in Migration
    BY DEF Migration, ST!Stored
  <1>3. run.to = to /\ run.copied = None /\ run.left = ST!Stored(ST!Other(to))
        /\ (run.quiet <=> active # to)
    OBVIOUS
  <1> HIDE DEF run
  <1>4. StorageTyped'
    BY <1>1, <1>2 DEF StorageTyped, StorageInv
  <1>5. StoredKeys' = StoredKeys
    BY <1>1 DEF StoredKeys
  <1>6. HeldIsWhole' /\ StoredIsThere' /\ CutIsTorn'
    BY <1>1, <1>3, <1>5 DEF StorageInv, HeldIsWhole, StoredIsThere, CutIsTorn, SomeWhole
  <1>7. SyncedHasAll'
    BY <1>1, <1>3, <1>5 DEF StorageInv, SyncedHasAll, Needed, ST!Stored, ST!Exists
  <1>8. QuietRun'
    <2> SUFFICES ASSUME active # to, NEW j \in Needed(ST!Other(to))
                 PROVE  active = ST!Other(to) /\ (j \in run.left \/ ST!Exists(to, j))
      BY <1>1, <1>3, <1>5, TwoBackends
      DEF QuietRun, Needed, ST!Stored, ST!Exists, StorageInv, StorageTyped
    <2>1. active = ST!Other(to)
      BY TwoBackends DEF StorageInv, StorageTyped
    <2>2. j \in Keys
      BY DEF Needed, ST!Stored, StoredKeys, StorageInv, StorageTyped
    <2>3. CASE j \in ST!Stored(ST!Other(to))
      BY <1>3, <2>1, <2>3
    <2>4. CASE j \in (held \cup StoredKeys) \ torn
      <3>1. obj[active][j] = "cut" \/ SomeWhole(j)
        BY <2>4 DEF StorageInv, HeldIsWhole, StoredIsThere
      <3>2. PICK b \in ST!Backends : obj[b][j] \in Bodies
        BY <3>1 DEF SomeWhole, Bodies, StorageInv, StorageTyped
      <3>3. ST!Exists(b, j)
        BY <3>2, WholeIsThere DEF ST!Exists
      <3> QED BY <1>3, <2>1, <2>2, <3>3, TwoBackends DEF ST!Stored
    <2> QED BY <2>1, <2>3, <2>4 DEF Needed
  <1> QED BY <1>4, <1>6, <1>7, <1>8 DEF StorageInv

LEMMA StSkip ==
    ASSUME StorageInv, NEW k \in Keys, ST!Skip(k)
    PROVE  StorageInv'
  <1>1. /\ mig # None /\ mig.copied = None /\ ST!Exists(mig.to, k)
        /\ mig' = [mig EXCEPT !.left = @ \ {k}, !.copied = None]
        /\ UNCHANGED <<obj, active, held, spool, torn, synced>>
    BY DEF ST!Skip, ST!AfterSkip
  <1>2. /\ mig' \in Migration /\ mig'.copied = None /\ mig'.to = mig.to
        /\ mig'.left = mig.left \ {k} /\ mig'.quiet = mig.quiet
    BY <1>1 DEF StorageInv, StorageTyped, Migration
  <1>3. StorageTyped'
    BY <1>1, <1>2 DEF StorageTyped, StorageInv
  <1>5. StoredKeys' = StoredKeys
    BY <1>1 DEF StoredKeys
  <1>6. HeldIsWhole' /\ StoredIsThere' /\ CutIsTorn'
    BY <1>1, <1>2, <1>5 DEF StorageInv, HeldIsWhole, StoredIsThere, CutIsTorn, SomeWhole
  <1>7. SyncedHasAll'
    BY <1>1, <1>2, <1>5 DEF StorageInv, SyncedHasAll, Needed, ST!Stored, ST!Exists
  <1>8. QuietRun'
    BY <1>1, <1>2, <1>5 DEF StorageInv, QuietRun, Needed, ST!Stored, ST!Exists
  <1> QED BY <1>3, <1>6, <1>7, <1>8 DEF StorageInv

\* A copy is what its source was; of a cut one it is on record.
LEMMA StCopyKey ==
    ASSUME StorageInv, NEW k \in Keys, ST!CopyKey(k)
    PROVE  StorageInv'
  <1>1. /\ mig # None /\ mig.copied = None /\ ~ST!Exists(mig.to, k)
        /\ UNCHANGED <<active, held, spool>>
    BY DEF ST!CopyKey
  <1>2. mig \in Migration /\ mig.to \in ST!Backends /\ ST!Other(mig.to) \in ST!Backends
    BY <1>1, TwoBackends DEF StorageInv, StorageTyped, Migration
  <1>3. StoredKeys' = StoredKeys
    BY <1>1 DEF StoredKeys
  <1>4. CASE ST!Exists(ST!Other(mig.to), k)
    <2>1. PICK body \in Bodies : body = obj[ST!Other(mig.to)][k]
      BY <1>2, <1>4 DEF StorageInv, StorageTyped, ST!Exists
    <2>2. /\ ST!Put(mig.to, k, body)
          /\ mig' = [mig EXCEPT !.left = @ \ {k}, !.copied = [key |-> k, body |-> body]]
          /\ torn' = IF body = "whole" THEN torn ELSE torn \cup {k}
          /\ synced' = None
      BY <1>4, <2>1 DEF ST!CopyKey
    <2>3. [key |-> k, body |-> body] \in Blobs
      BY DEF Blobs
    <2>4. /\ mig' \in Migration /\ mig'.to = mig.to /\ mig'.left = mig.left \ {k}
          /\ mig'.copied = [key |-> k, body |-> body] /\ mig'.quiet = mig.quiet
      BY <1>2, <2>2, <2>3 DEF Migration
    <2>5. obj' \in [ST!Backends -> [Keys -> Bodies \cup {None}]]
          /\ \A c \in ST!Backends, j \in Keys :
                obj'[c][j] = IF c = mig.to /\ j = k THEN body ELSE obj[c][j]
      BY <1>2, <2>2, Putting DEF StorageInv
    <2>6. StorageTyped' /\ torn \subseteq torn'
      BY <1>1, <2>2, <2>4, <2>5 DEF StorageTyped, StorageInv
    <2>7. \A j \in Keys : SomeWhole(j) => (SomeWhole(j))'
      <3> SUFFICES ASSUME NEW j \in Keys, NEW b \in ST!Backends, obj[b][j] = "whole"
                   PROVE  obj'[b][j] = "whole"
        BY DEF SomeWhole
      <3>1. ST!Exists(b, j)
        BY WholeIsThere DEF ST!Exists, Bodies
      <3> QED BY <1>1, <2>5, <3>1
    <2>8. HeldIsWhole'
      BY <1>1, <2>6, <2>7 DEF StorageInv, StorageTyped, HeldIsWhole
    <2>9. StoredIsThere'
      <3> SUFFICES ASSUME NEW j \in StoredKeys \ torn
                   PROVE  obj'[active][j] = "cut" \/ (SomeWhole(j))'
        BY <1>1, <1>3, <2>6 DEF StoredIsThere
      <3>1. j \in Keys /\ (obj[active][j] = "cut" \/ SomeWhole(j))
        BY DEF StorageInv, StoredIsThere, StoredKeys
      <3>2. CASE obj[active][j] = "cut"
        <4>1. ST!Exists(active, j)
          BY <3>2, WholeIsThere DEF ST!Exists, Bodies
        <4> QED BY <1>1, <2>5, <3>1, <3>2, <4>1 DEF StorageInv, StorageTyped
      <3> QED BY <2>7, <3>1, <3>2
    <2>10. CutIsTorn'
      <3>1. mig'.copied.body = "cut" => k \in torn'
        BY <2>2, <2>4
      <3>2. \A c \in ST!Backends : obj'[c][k] # None
        BY <1>2, <1>4, <2>1, <2>5, WholeIsThere, TwoBackends DEF ST!Exists
      <3> QED BY <1>1, <2>4, <3>1, <3>2, TwoBackends
              DEF CutIsTorn, ST!Exists, StorageInv, StorageTyped
    <2>11. QuietRun'
      <3>1. mig.quiet => active = ST!Other(mig.to)
        BY <1>1 DEF StorageInv, QuietRun
      <3> SUFFICES ASSUME mig.quiet, NEW j \in Needed(ST!Other(mig.to))'
                   PROVE  j \in mig'.left \/ obj'[mig.to][j] # None
        BY <1>1, <2>4, <3>1 DEF QuietRun, Needed, ST!Stored, ST!Exists
      <3>2. j \in Keys
        BY <2>6 DEF Needed, ST!Stored, StoredKeys, StorageInv, StorageTyped
      <3>3. CASE j = k
        BY <1>2, <2>5, <3>1, <3>3, WholeIsThere
      <3>4. CASE j # k
        <4>1. j \in Needed(ST!Other(mig.to))
          BY <1>1, <1>2, <1>3, <2>4, <2>5, <2>6, <3>2, <3>4 DEF Needed, ST!Stored, ST!Exists
        <4> QED BY <1>1, <1>2, <2>4, <2>5, <3>1, <3>2, <3>4, <4>1
                DEF StorageInv, QuietRun, ST!Exists
      <3> QED BY <3>3, <3>4
    <2> QED BY <2>2, <2>6, <2>8, <2>9, <2>10, <2>11 DEF StorageInv, SyncedHasAll
  <1>5. CASE ~ST!Exists(ST!Other(mig.to), k)
    <2>1. mig' = None /\ UNCHANGED <<obj, torn, synced>>
      BY <1>5 DEF ST!CopyKey
    <2> QED
      BY <1>1, <1>3, <2>1 DEF StorageInv, StorageTyped, HeldIsWhole, StoredIsThere, CutIsTorn,
                QuietRun, SyncedHasAll, Needed, SomeWhole, ST!Stored, ST!Exists
  <1> QED BY <1>4, <1>5

\* A source goes when its copy stands.
LEMMA StDeleteSource ==
    ASSUME StorageInv, ST!DeleteSource
    PROVE  StorageInv'
  <1>1. /\ mig # None /\ mig.copied # None
        /\ mig' = [mig EXCEPT !.copied = None]
        /\ UNCHANGED <<active, held, spool, torn, synced>>
    BY DEF ST!DeleteSource
  <1>2. PICK to \in ST!Backends, k \in Keys, body \in Bodies :
           to = mig.to /\ k = mig.copied.key /\ body = mig.copied.body
    BY <1>1 DEF StorageInv, StorageTyped, Migration, Blobs
  <1>3. /\ mig' \in Migration /\ mig'.copied = None /\ mig'.to = to
        /\ mig'.left = mig.left /\ mig'.quiet = mig.quiet
    BY <1>1, <1>2 DEF StorageInv, StorageTyped, Migration
  <1>4. StoredKeys' = StoredKeys /\ synced = None
    BY <1>1 DEF StoredKeys, StorageInv, SyncedHasAll
  <1>5. CASE UNCHANGED obj
    BY <1>1, <1>2, <1>3, <1>4, <1>5 DEF StorageInv, StorageTyped, HeldIsWhole, StoredIsThere,
       CutIsTorn, QuietRun, SyncedHasAll, Needed, SomeWhole, ST!Stored, ST!Exists
  <1>6. CASE obj[to][k] = body /\ ST!Put(ST!Other(to), k, None)
    <2>1. ST!Other(to) \in ST!Backends /\ ST!Other(to) # to
      BY TwoBackends
    <2>2. obj' \in [ST!Backends -> [Keys -> Bodies \cup {None}]]
          /\ \A c \in ST!Backends, j \in Keys :
                obj'[c][j] = IF c = ST!Other(to) /\ j = k THEN None ELSE obj[c][j]
      BY <1>6, <2>1, Putting DEF StorageInv
    <2>3. StorageTyped'
      BY <1>1, <1>3, <2>2 DEF StorageTyped, StorageInv
    <2>4. \A j \in Keys \ {k} : SomeWhole(j) => (SomeWhole(j))'
      BY <2>2 DEF SomeWhole
    <2>5. k \in torn \/ (SomeWhole(k))'
      <3>1. CASE body = "cut"
        BY <1>1, <1>2, <3>1 DEF StorageInv, CutIsTorn
      <3>2. CASE body = "whole"
        BY <1>6, <2>1, <2>2, <3>2 DEF SomeWhole
      <3> QED BY <3>1, <3>2 DEF Bodies
    <2>6. HeldIsWhole'
      BY <1>1, <2>4, <2>5 DEF StorageInv, StorageTyped, HeldIsWhole
    <2>7. StoredIsThere'
      <3> SUFFICES ASSUME NEW j \in StoredKeys \ torn, j # k
                   PROVE  obj'[active][j] = "cut" \/ (SomeWhole(j))'
        BY <1>1, <1>4, <2>5 DEF StoredIsThere
      <3>1. j \in Keys /\ (obj[active][j] = "cut" \/ SomeWhole(j))
        BY DEF StorageInv, StoredIsThere, StoredKeys
      <3> QED BY <2>2, <2>4, <3>1 DEF StorageInv, StorageTyped
    <2>8. QuietRun'
      <3>3. mig.quiet => active = ST!Other(to)
        BY <1>1, <1>2 DEF StorageInv, QuietRun
      <3> SUFFICES ASSUME mig.quiet, NEW j \in Needed(ST!Other(to))'
                   PROVE  j \in mig.left \/ obj'[to][j] # None
        BY <1>1, <1>3, <3>3 DEF QuietRun, Needed, ST!Stored, ST!Exists
      <3>1. j \in Keys
        BY <2>3 DEF Needed, ST!Stored, StoredKeys, StorageInv, StorageTyped
      <3>2. j \in Needed(ST!Other(to))
        BY <1>1, <1>4, <2>1, <2>2, <3>1 DEF Needed, ST!Stored, ST!Exists
      <3> QED BY <1>1, <1>2, <2>1, <2>2, <3>1, <3>2 DEF StorageInv, QuietRun, ST!Exists
    <2> QED BY <1>1, <1>3, <1>4, <2>3, <2>6, <2>7, <2>8 DEF StorageInv, CutIsTorn, SyncedHasAll
  <1> QED BY <1>1, <1>2, <1>5, <1>6 DEF ST!DeleteSource, ST!Verified, ST!Delete

\* After a run that nothing disturbed, the destination has all there is.
LEMMA StFinish ==
    ASSUME StorageInv, ST!Finish
    PROVE  StorageInv'
  <1>1. /\ mig # None /\ mig.left = {} /\ mig' = None
        /\ synced' = IF mig.quiet THEN mig.to ELSE None
        /\ UNCHANGED <<obj, active, held, spool, torn>>
    BY DEF ST!Finish
  <1>2. StoredKeys' = StoredKeys
    BY <1>1 DEF StoredKeys
  <1>3. StorageTyped'
    BY <1>1 DEF StorageTyped, StorageInv, Migration
  <1>4. HeldIsWhole' /\ StoredIsThere' /\ CutIsTorn' /\ QuietRun'
    BY <1>1, <1>2 DEF StorageInv, HeldIsWhole, StoredIsThere, CutIsTorn, QuietRun, SomeWhole
  <1>5. SyncedHasAll'
    BY <1>1, <1>2 DEF StorageInv, QuietRun, SyncedHasAll, Needed, ST!Stored, ST!Exists
  <1> QED BY <1>3, <1>4, <1>5 DEF StorageInv

LEMMA StInterrupted ==
    ASSUME StorageInv, ST!Interrupted
    PROVE  StorageInv'
  BY DEF ST!Interrupted, StorageInv, StorageTyped, HeldIsWhole, StoredIsThere, CutIsTorn,
         QuietRun, SyncedHasAll, Needed, SomeWhole, StoredKeys, ST!Stored, ST!Exists

\* The uploads under way die with the program.
LEMMA StFlip ==
    ASSUME StorageInv, ST!Flip
    PROVE  StorageInv'
  <1>1. /\ mig = None /\ active' = ST!Other(active) /\ spool' = [r \in Requests |-> ST!Idle]
        /\ synced' = IF synced = ST!Other(active) THEN synced ELSE None
        /\ UNCHANGED <<obj, held, mig, torn>>
    BY DEF ST!Flip
  <1>2. StoredKeys' = {}
    BY <1>1, StoringKeys DEF StoredKeys
  <1>3. StorageTyped'
    BY <1>1, TwoBackends DEF StorageTyped, StorageInv
  <1>4. HeldIsWhole' /\ StoredIsThere' /\ CutIsTorn' /\ QuietRun'
    BY <1>1, <1>2 DEF StorageInv, HeldIsWhole, StoredIsThere, CutIsTorn, QuietRun, SomeWhole
  <1>5. SyncedHasAll'
    BY <1>1, <1>2 DEF StorageInv, SyncedHasAll, Needed, ST!Stored, ST!Exists
  <1> QED BY <1>3, <1>4, <1>5 DEF StorageInv

LEMMA StStutter == StorageInv /\ UNCHANGED stvars => StorageInv'
  BY DEF stvars, StorageInv, StorageTyped, HeldIsWhole, StoredIsThere, CutIsTorn,
         QuietRun, SyncedHasAll, Needed, SomeWhole, StoredKeys, ST!Stored, ST!Exists

LEMMA StNext == StorageInv /\ (ST!Next \/ UNCHANGED stvars) => StorageInv'
  BY StStoreKnown, StStoreAtOnce, StStoreLooks, StPlace, StPlaced, StCommit, StDies,
     StDeleteBlob, StMigrate, StSkip, StCopyKey, StDeleteSource, StFinish, StInterrupted,
     StFlip, StStutter
  DEF ST!Next

-----------------------------------------------------------------------------
(* Backends: the temporary directory on the file system of the store.        *)

\* Nothing is cut, or will be: every upload places its blob at once.
NothingCut ==
    /\ torn = {}
    /\ \A b \in ST!Backends, k \in Keys : obj[b][k] # "cut"
    /\ \A r \in Requests : spool[r].op \in {"none", "stored"}

LEMMA UncutInit == ST!Init => NothingCut
  <1> SUFFICES ASSUME ST!Init PROVE NothingCut
    OBVIOUS
  <1>1. \A b \in ST!Backends, k \in Keys : obj[b][k] # "cut"
    BY WholeIsThere DEF ST!Init, Bodies
  <1> QED BY <1>1 DEF NothingCut, ST!Init, ST!Idle

\* What is put somewhere is whole, or taken away.
LEMMA UncutPut ==
    ASSUME StorageInv, NothingCut, NEW b \in ST!Backends, NEW k \in Keys,
           NEW body \in {"whole", None}, ST!Put(b, k, body)
    PROVE  \A c \in ST!Backends, j \in Keys : obj'[c][j] # "cut"
  <1>1. \A c \in ST!Backends, j \in Keys :
           obj'[c][j] = IF c = b /\ j = k THEN body ELSE obj[c][j]
    BY Putting DEF StorageInv, Bodies
  <1>2. body # "cut"
    BY WholeIsThere DEF Bodies
  <1> QED BY <1>1, <1>2 DEF NothingCut

LEMMA UncutUploads ==
    ASSUME StorageInv, NothingCut, ~CrossDevice, NEW r \in Requests,
           \/ \E k \in Keys : ST!StoreKnown(r, k) \/ ST!StoreAtOnce(r, k) \/ ST!StoreLooks(r, k)
           \/ ST!Place(r) \/ ST!Placed(r) \/ ST!Commit(r) \/ ST!Dies(r)
    PROVE  NothingCut'
  <1>1. ASSUME NEW k \in Keys, ST!StoreKnown(r, k) PROVE NothingCut'
    <2>1. UNCHANGED <<obj, torn>> /\ spool' = [spool EXCEPT ![r] = [op |-> "stored", key |-> k]]
      BY <1>1 DEF ST!StoreKnown
    <2>2. \A x \in Requests : spool'[x].op \in {"none", "stored"}
      BY <2>1 DEF StorageInv, StorageTyped, NothingCut
    <2> QED BY <2>1, <2>2 DEF NothingCut
  <1>2. ASSUME NEW k \in Keys, ST!StoreAtOnce(r, k) PROVE NothingCut'
    <2>1. /\ UNCHANGED torn /\ ST!Put(active, k, "whole") /\ active \in ST!Backends
          /\ spool' = [spool EXCEPT ![r] = [op |-> "stored", key |-> k]]
      BY <1>2 DEF ST!StoreAtOnce, StorageInv, StorageTyped
    <2>2. \A x \in Requests : spool'[x].op \in {"none", "stored"}
      BY <2>1 DEF StorageInv, StorageTyped, NothingCut
    <2>3. \A b \in ST!Backends, j \in Keys : obj'[b][j] # "cut"
      BY <2>1, UncutPut
    <2> QED BY <2>1, <2>2, <2>3 DEF NothingCut
  <1>3. \A k \in Keys : ~ST!StoreLooks(r, k)
    BY DEF ST!StoreLooks
  <1>4. ~ST!Place(r) /\ ~ST!Placed(r)
    BY DEF NothingCut, ST!Place, ST!Placed
  <1>5. ASSUME ST!Commit(r) PROVE NothingCut'
    <2>1. UNCHANGED obj /\ spool' = [spool EXCEPT ![r] = ST!Idle] /\ spool[r].op = "stored"
      BY <1>5 DEF ST!Commit
    <2>2. \A x \in Requests : spool'[x].op \in {"none", "stored"}
      BY <2>1 DEF StorageInv, StorageTyped, NothingCut, ST!Idle
    <2>3. active \in ST!Backends /\ spool[r].key \in Keys
      BY <2>1, StoringKeys DEF StorageInv, StorageTyped
    <2>4. torn' = torn
      BY <1>5, <2>3 DEF ST!Commit, NothingCut
    <2> QED BY <2>1, <2>2, <2>4 DEF NothingCut
  <1>6. ASSUME ST!Dies(r) PROVE NothingCut'
    <2>1. UNCHANGED <<obj, torn>>
      BY <1>6 DEF ST!Dies
    <2>2. ASSUME NEW x \in Requests PROVE spool'[x].op \in {"none", "stored"}
      <3>1. spool[x].op # "copying"
        BY DEF NothingCut
      <3>2. x \notin ST!Copying(spool[r].key)
        BY <3>1 DEF ST!Copying
      <3> QED BY <1>6, <3>2 DEF ST!Dies, ST!Idle, NothingCut
    <2> QED BY <2>1, <2>2 DEF NothingCut
  <1> QED BY <1>1, <1>2, <1>3, <1>4, <1>5, <1>6

LEMMA UncutKeys ==
    ASSUME StorageInv, NothingCut, NEW k \in Keys,
           ST!DeleteBlob(k) \/ ST!Skip(k) \/ ST!CopyKey(k)
    PROVE  NothingCut'
  <1>1. UNCHANGED spool
    BY DEF ST!DeleteBlob, ST!Skip, ST!CopyKey
  <1>2. CASE ST!DeleteBlob(k)
    <2>1. active \in ST!Backends /\ ST!Put(active, k, None)
      BY <1>2 DEF ST!DeleteBlob, ST!Delete, StorageInv, StorageTyped
    <2>2. torn' = {}
      BY <1>2 DEF ST!DeleteBlob, NothingCut
    <2>3. \A b \in ST!Backends, j \in Keys : obj'[b][j] # "cut"
      BY <2>1, UncutPut
    <2> QED BY <1>1, <2>2, <2>3 DEF NothingCut
  <1>3. CASE ST!Skip(k)
    BY <1>1, <1>3 DEF ST!Skip, NothingCut
  <1>4. CASE ST!CopyKey(k)
    <2>1. mig # None
      BY <1>4 DEF ST!CopyKey
    <2>2. mig.to \in ST!Backends /\ ST!Other(mig.to) \in ST!Backends
      BY <2>1, TwoBackends DEF StorageInv, StorageTyped, Migration
    <2>3. CASE ST!Exists(ST!Other(mig.to), k)
      <3> DEFINE body == obj[ST!Other(mig.to)][k]
      <3>1. body = "whole"
        BY <2>2, <2>3 DEF StorageInv, StorageTyped, Bodies, ST!Exists, NothingCut
      <3>2. ST!Put(mig.to, k, "whole") /\ torn' = torn
        BY <1>4, <2>3, <3>1 DEF ST!CopyKey
      <3>3. \A b \in ST!Backends, j \in Keys : obj'[b][j] # "cut"
        BY <2>2, <3>2, UncutPut
      <3> QED BY <1>1, <3>2, <3>3 DEF NothingCut
    <2>4. CASE ~ST!Exists(ST!Other(mig.to), k)
      <3>1. UNCHANGED <<obj, torn>>
        BY <1>4, <2>4 DEF ST!CopyKey
      <3> QED BY <1>1, <3>1 DEF NothingCut
    <2> QED BY <2>3, <2>4
  <1> QED BY <1>2, <1>3, <1>4

LEMMA UncutNext ==
    ASSUME StorageInv, NothingCut, ~CrossDevice, ST!Next \/ UNCHANGED stvars
    PROVE  NothingCut'
  <1>1. CASE ST!DeleteSource
    <2>1. UNCHANGED <<spool, torn>>
      BY <1>1 DEF ST!DeleteSource
    <2>2. mig # None /\ mig.copied # None
      BY <1>1 DEF ST!DeleteSource
    <2>3. ST!Other(mig.to) \in ST!Backends /\ mig.copied.key \in Keys
      BY <2>2, TwoBackends DEF StorageInv, StorageTyped, Migration, Blobs
    <2>4. ST!Put(ST!Other(mig.to), mig.copied.key, None) \/ UNCHANGED obj
      BY <1>1 DEF ST!DeleteSource, ST!Delete
    <2>5. \A b \in ST!Backends, j \in Keys : obj'[b][j] # "cut"
      BY <2>3, <2>4, UncutPut DEF NothingCut
    <2> QED BY <2>1, <2>5 DEF NothingCut
  <1>2. ASSUME NEW to \in ST!Backends, NEW delete_source \in BOOLEAN,
               ST!Migrate(to, delete_source)
        PROVE  NothingCut'
    BY <1>2 DEF ST!Migrate, NothingCut
  <1>3. CASE ST!Finish \/ ST!Interrupted \/ UNCHANGED stvars
    BY <1>3 DEF ST!Finish, ST!Interrupted, stvars, NothingCut
  <1>4. CASE ST!Flip
    BY <1>4 DEF ST!Flip, NothingCut, ST!Idle
  <1> QED BY <1>1, <1>2, <1>3, <1>4, UncutUploads, UncutKeys DEF ST!Next

-----------------------------------------------------------------------------
(* What Incoming makes of the two.                                           *)

IncomingInv == IngestInv /\ StorageInv
IncomingVars == <<part, vars, invars, stvars>>

LEMMA IncomingInit == MCInit => IncomingInv
  BY InInit, StInit DEF MCInit, IncomingInv

LEMMA IncomingNext == IncomingInv /\ [MCNext]_IncomingVars => IncomingInv'
  <1> SUFFICES ASSUME IncomingInv, [MCNext]_IncomingVars PROVE IncomingInv'
    OBVIOUS
  <1>1. IN_!Next \/ UNCHANGED invars
    BY DEF MCNext, IncomingVars
  <1>2. ST!Next \/ UNCHANGED stvars
    BY DEF MCNext, IncomingVars
  <1> QED BY <1>1, <1>2, InNext, StNext DEF IncomingInv

(* The two inductive invariants hold in every behaviour of archives on their *)
(* way in, and of the backends.                                              *)
THEOREM IncomingInvariant == MCSpec => []IncomingInv
  <1>1. MCInit => IncomingInv
    BY IncomingInit
  <1>2. IncomingInv /\ [MCNext]_IncomingVars => IncomingInv'
    BY IncomingNext
  <1> QED BY <1>1, <1>2, PTL DEF MCSpec, IncomingVars

LEMMA IngestTypeOK == IngestInv => IN_!TypeOK
  <1> SUFFICES ASSUME IngestInv PROVE IN_!TypeOK
    OBVIOUS
  <1>1. \A d, e \in IN_!LiveIn(docs) : d # e => d.content # e.content
    BY DEF IngestInv, Distinct
  <1>2. ASSUME batch # None
        PROVE  /\ batch.archive \in Archives
               /\ batch.status \in {"processing", "done", "partial", "failed"}
               /\ \A i \in DOMAIN batch.items : batch.items[i].outcome \in IN_!Outcomes
    <2>1. batch \in BatchRow
      BY <1>2 DEF IngestInv, IngestTyped
    <2>2. batch.items \in Seq(Item)
      BY <2>1 DEF BatchRow
    <2>3. \A i \in DOMAIN batch.items : batch.items[i] \in Item
      BY <2>2
    <2> QED BY <2>1, <2>3 DEF BatchRow, Item
  <1> QED BY <1>1, <1>2, JobByPlace DEF IngestInv, IngestTyped, IN_!TypeOK

(* A batch that says it is in processing has a job at work, unless that job  *)
(* was killed, poisoned by an error of the database, or given an archive     *)
(* that is none (ingest.py); and a domain never has two live documents of    *)
(* one content, whatever an archive, an upload and a restore do at a time.   *)
THEOREM BatchesUnderWay == MCSpec => []ProcessingIsUnderWay
  <1>1. IncomingInv => ProcessingIsUnderWay
    BY IngestTypeOK DEF IncomingInv, IngestInv, ProcessingIsUnderWay
  <1> QED BY <1>1, IncomingInvariant, PTL

(* A batch that is finished accounts for the files taken out of its archive  *)
(* (process_archive): in their order, to the end or to the one that did not  *)
(* fit the quota, whatever other errors there were on the way; it is done    *)
(* exactly if there was none, and the counts agree.                          *)
THEOREM BatchesTellAll == MCSpec => []BatchTellsAll
  <1>1. IncomingInv => BatchTellsAll
    BY DEF IncomingInv, IngestInv, BatchTellsAll
  <1> QED BY <1>1, IncomingInvariant, PTL

(* A domain outgrows its quota only by a restore, which does not look at it, *)
(* or by the commit of a job or of an upload that another's commit overtook  *)
(* after it had looked (ingest_upload, restore_documents): whatever is in    *)
(* the archive, and however long it takes.                                   *)
THEOREM QuotaHeld == MCSpec => QuotaHeldUnlessRaced
  <1>1. MCInit => QuotaInv
    BY QuInit DEF MCInit
  <1>2. IncomingInv /\ QuotaInv /\ [MCNext]_IncomingVars => QuotaInv'
    BY QuNext DEF IncomingInv, MCNext, IncomingVars
  <1>3. IncomingInv /\ QuotaInv /\ [MCNext]_IncomingVars => [IN_!Outgrows]_(IN_!vars)
    <2>1. IncomingInv /\ QuotaInv /\ [MCNext]_IncomingVars => IN_!Outgrows
      BY QuOutgrows DEF IncomingInv, MCNext, IncomingVars
    <2> QED BY <2>1
  <1> QED
    BY <1>1, <1>2, <1>3, IncomingInvariant, PTL
    DEF MCSpec, IncomingVars, QuotaHeldUnlessRaced, IN_!QuotaHeldUnlessRaced

(* What was taken in of an archive is within the limits of count, size and   *)
(* total as a whole, whatever is nested in it, and what failed the batch was *)
(* not (_Counter.add, _iter, process_archive): for every archive, every      *)
(* depth and every limit, under anything others do meanwhile.                *)
THEOREM LimitsHold == MCSpec => []LimitsHoldAcrossNesting
  <1>1. MCInit => VerdictInv
    BY NobodyThere DEF MCInit, IN_!Init, VerdictInv, IN_!Working
  <1>2. IncomingInv /\ VerdictInv /\ [MCNext]_IncomingVars => VerdictInv'
    BY VeNext DEF IncomingInv, MCNext, IncomingVars
  <1>3. IncomingInv /\ VerdictInv => LimitsHoldAcrossNesting
    <2> SUFFICES ASSUME IngestInv, VerdictInv, batch # None, batch.status # "processing"
                 PROVE  batch.status # "failed" <=> WithinLimits(batch.archive)
      BY DEF IncomingInv, LimitsHoldAcrossNesting
    <2> DEFINE a == batch.archive
    <2>1. a \in Archives /\ batch.status \in {"done", "partial", "failed"}
      BY DEF IngestInv, IngestTyped, BatchRow
    <2>2. a \in Trees /\ Extracted(a) = Extract(a)
      BY <2>1, IncomingAssumption
    <2>3. /\ Extract(a).fault = "none" => WithinLimits(a)
          /\ Extract(a).fault = "bomb" => ~WithinLimits(a)
      BY <2>2, ExtractObeysLimits
    <2>4. /\ batch.status # "failed" => Extracted(a).fault = "none"
          /\ batch.status = "failed" => Extracted(a).fault = "bomb"
      BY <2>1 DEF VerdictInv
    <2> QED BY <2>2, <2>3, <2>4
  <1> QED BY <1>1, <1>2, <1>3, IncomingInvariant, PTL DEF MCSpec, IncomingVars

LEMMA StorageTypeOK == StorageInv => ST!TypeOK
  <1> SUFFICES ASSUME StorageInv PROVE ST!TypeOK
    OBVIOUS
  <1>1. \A r \in Requests : spool[r].op \in {"none", "looked", "copying", "stored"}
    BY DEF StorageInv, StorageTyped, Spooled, ST!Idle
  <1>2. mig # None => mig.left \subseteq Keys
    BY DEF StorageInv, StorageTyped, Migration
  <1> QED BY <1>1, <1>2 DEF StorageInv, StorageTyped, ST!TypeOK, Bodies

(* A blob that a document refers to is whole on one of the backends, through *)
(* uploads, deletions, deaths, flips of the setting and migrations           *)
(* (blobs.py, local.py, migrate.py), and what an undisturbed migration       *)
(* copied to has it; lost is only what was cut or written over on the way.   *)
THEOREM BlobsSurvive == MCSpec => []BlobsSurviveUnlessTorn
  <1>1. StorageInv => ST!BlobsSurviveUnlessTorn
    <2> SUFFICES ASSUME StorageInv, NEW k \in held \ torn
                 PROVE  /\ \E b \in ST!Backends : obj[b][k] = "whole"
                        /\ synced # None => ST!Serve(synced, k) # "gone"
      BY DEF ST!BlobsSurviveUnlessTorn
    <2>1. SomeWhole(k)
      BY DEF StorageInv, HeldIsWhole
    <2>2. ASSUME synced # None PROVE ST!Serve(synced, k) # "gone"
      <3>1. ST!Exists(synced, k)
        BY <2>2 DEF StorageInv, SyncedHasAll, Needed
      <3>2. k \in Keys /\ synced \in ST!Backends
        BY <2>2 DEF StorageInv, StorageTyped
      <3>3. obj[synced][k] \in Bodies
        BY <3>1, <3>2 DEF StorageInv, StorageTyped, ST!Exists
      <3> QED BY <3>1, <3>3 DEF ST!Serve, Bodies
    <2> QED BY <2>1, <2>2 DEF SomeWhole
  <1>2. IncomingInv => BlobsSurviveUnlessTorn
    BY <1>1, StorageTypeOK DEF IncomingInv, BlobsSurviveUnlessTorn
  <1> QED BY <1>2, IncomingInvariant, PTL

\* Nothing is torn: what is on a backend is whole, and so is every blob a
\* document refers to, on one of the two.
NothingTorn ==
    /\ torn = {}
    /\ \A b \in ST!Backends : \A k \in ST!Stored(b) : obj[b][k] = "whole"
    /\ \A k \in held : SomeWhole(k)

(* If the temporary directory is on the file system of the store, so that    *)
(* _place renames (local.py), nothing is torn at all: whatever uploads,      *)
(* deletions, deaths, flips and migrations interleave, a blob a document     *)
(* refers to is whole somewhere, which is what DocumentStore takes for       *)
(* granted of a blob's file.                                                 *)
THEOREM OneDeviceTearsNothing ==
    ASSUME ~CrossDevice
    PROVE  MCSpec => []NothingTorn
  <1>1. MCInit => NothingCut
    BY UncutInit DEF MCInit
  <1>2. IncomingInv /\ NothingCut /\ [MCNext]_IncomingVars => NothingCut'
    BY UncutNext DEF IncomingInv, MCNext, IncomingVars
  <1>3. IncomingInv /\ NothingCut => NothingTorn
    <2> SUFFICES ASSUME StorageInv, NothingCut PROVE NothingTorn
      BY DEF IncomingInv
    <2>1. ASSUME NEW b \in ST!Backends, NEW k \in ST!Stored(b) PROVE obj[b][k] = "whole"
      BY DEF StorageInv, StorageTyped, NothingCut, ST!Stored, ST!Exists, Bodies
    <2> QED BY <2>1 DEF NothingTorn, StorageInv, HeldIsWhole, NothingCut
  <1> QED BY <1>1, <1>2, <1>3, IncomingInvariant, PTL DEF MCSpec, IncomingVars

\* A whole blob is lost only by being deleted: where nothing is cut, nothing
\* else takes the last whole copy of it, DeleteSource least of all.
Loses(k) == SomeWhole(k) /\ ~(SomeWhole(k))'

LEMMA PutLosesNothing ==
    ASSUME StorageInv, NEW b \in ST!Backends, NEW j \in Keys, ST!Put(b, j, "whole"),
           NEW k \in Keys
    PROVE  ~Loses(k)
  <1>1. \A c \in ST!Backends, i \in Keys :
           obj'[c][i] = IF c = b /\ i = j THEN "whole" ELSE obj[c][i]
    BY DEF StorageInv, StorageTyped, ST!Put
  <1> QED BY <1>1 DEF Loses, SomeWhole

LEMMA KeptLosesNothing ==
    ASSUME UNCHANGED obj, NEW k \in Keys
    PROVE  ~Loses(k)
  BY DEF Loses, SomeWhole

LEMMA UploadsLoseNothing ==
    ASSUME StorageInv, NothingCut, ~CrossDevice, NEW k \in Keys, NEW r \in Requests,
           \/ \E j \in Keys : ST!StoreKnown(r, j) \/ ST!StoreAtOnce(r, j) \/ ST!StoreLooks(r, j)
           \/ ST!Place(r) \/ ST!Placed(r) \/ ST!Commit(r) \/ ST!Dies(r)
    PROVE  ~Loses(k)
  <1>1. ASSUME NEW j \in Keys, ST!StoreAtOnce(r, j) PROVE ~Loses(k)
    <2>1. active \in ST!Backends /\ ST!Put(active, j, "whole")
      BY <1>1 DEF ST!StoreAtOnce, StorageInv, StorageTyped
    <2> QED BY <2>1, PutLosesNothing
  <1>2. ASSUME NEW j \in Keys, ST!StoreKnown(r, j) \/ ST!StoreLooks(r, j) PROVE ~Loses(k)
    BY <1>2, KeptLosesNothing DEF ST!StoreKnown, ST!StoreLooks
  <1>3. ~ST!Place(r) /\ ~ST!Placed(r)
    BY DEF ST!Place, ST!Placed, NothingCut
  <1>4. ASSUME ST!Commit(r) \/ ST!Dies(r) PROVE ~Loses(k)
    BY <1>4, KeptLosesNothing DEF ST!Commit, ST!Dies
  <1> QED BY <1>1, <1>2, <1>3, <1>4

LEMMA MigrationLosesNothing ==
    ASSUME StorageInv, NothingCut, NEW k \in Keys,
           \/ \E j \in Keys : ST!Skip(j) \/ ST!CopyKey(j)
           \/ \E to \in ST!Backends, delete_source \in BOOLEAN : ST!Migrate(to, delete_source)
           \/ ST!DeleteSource \/ ST!Finish \/ ST!Interrupted \/ ST!Flip
    PROVE  ~Loses(k)
  <1>1. ASSUME NEW j \in Keys, ST!CopyKey(j) PROVE ~Loses(k)
    <2>1. mig # None
      BY <1>1 DEF ST!CopyKey
    <2>2. mig.to \in ST!Backends /\ ST!Other(mig.to) \in ST!Backends
      BY <2>1, TwoBackends DEF StorageInv, StorageTyped, Migration
    <2>3. CASE ST!Exists(ST!Other(mig.to), j)
      <3>1. obj[ST!Other(mig.to)][j] = "whole"
        BY <2>2, <2>3 DEF StorageInv, StorageTyped, Bodies, ST!Exists, NothingCut
      <3>2. ST!Put(mig.to, j, "whole")
        BY <1>1, <2>3, <3>1 DEF ST!CopyKey
      <3> QED BY <2>2, <3>2, PutLosesNothing
    <2>4. CASE ~ST!Exists(ST!Other(mig.to), j)
      BY <1>1, <2>4, KeptLosesNothing DEF ST!CopyKey
    <2> QED BY <2>3, <2>4
  <1>2. CASE ST!DeleteSource
    <2>1. mig # None /\ mig.copied # None
      BY <1>2 DEF ST!DeleteSource
    <2> DEFINE to == mig.to
               key == mig.copied.key
    <2>2. /\ to \in ST!Backends /\ ST!Other(to) \in ST!Backends /\ ST!Other(to) # to
          /\ key \in Keys /\ mig.copied.body \in Bodies
      BY <2>1, TwoBackends DEF StorageInv, StorageTyped, Migration, Blobs
    <2>3. CASE obj' = obj
      BY <2>3, KeptLosesNothing
    <2>4. CASE obj' # obj
      <3>1. obj[to][key] = mig.copied.body
        BY <1>2, <2>4 DEF ST!DeleteSource, ST!Verified
      <3>2. ST!Put(ST!Other(to), key, None)
        BY <1>2, <2>4 DEF ST!DeleteSource, ST!Delete
      <3>3. obj[to][key] \in {"whole", "cut"} /\ obj[to][key] # "cut"
        BY <2>2, <3>1 DEF Bodies, NothingCut
      <3>4. \A c \in ST!Backends, i \in Keys :
               obj'[c][i] = IF c = ST!Other(to) /\ i = key THEN None ELSE obj[c][i]
        BY <2>2, <3>2 DEF StorageInv, StorageTyped, ST!Put
      <3> QED BY <2>2, <3>3, <3>4 DEF Loses, SomeWhole
    <2> QED BY <2>3, <2>4
  <1>3. ASSUME \/ \E j \in Keys : ST!Skip(j)
               \/ \E to \in ST!Backends, delete_source \in BOOLEAN : ST!Migrate(to, delete_source)
               \/ ST!Finish \/ ST!Interrupted \/ ST!Flip
        PROVE  ~Loses(k)
    BY <1>3, KeptLosesNothing
       DEF ST!Skip, ST!Migrate, ST!Finish, ST!Interrupted, ST!Flip
  <1> QED BY <1>1, <1>2, <1>3

LEMMA LostOnlyByDeletion ==
    ASSUME StorageInv, NothingCut, ~CrossDevice, ST!Next \/ UNCHANGED stvars,
           NEW k \in Keys, Loses(k)
    PROVE  ST!DeleteBlob(k)
  <1>1. ASSUME NEW j \in Keys, ST!DeleteBlob(j) PROVE ST!DeleteBlob(k)
    <2>1. active \in ST!Backends /\ ST!Put(active, j, None)
      BY <1>1 DEF ST!DeleteBlob, ST!Delete, StorageInv, StorageTyped
    <2>2. \A c \in ST!Backends, i \in Keys :
             obj'[c][i] = IF c = active /\ i = j THEN None ELSE obj[c][i]
      BY <2>1 DEF StorageInv, StorageTyped, ST!Put
    <2>3. j = k
      BY <2>2 DEF Loses, SomeWhole
    <2> QED BY <1>1, <2>3
  <1>2. ~UNCHANGED stvars
    BY KeptLosesNothing DEF stvars
  <1> QED BY <1>1, <1>2, UploadsLoseNothing, MigrationLosesNothing DEF ST!Next

(* With the store on one device, the last whole copy of a blob goes only     *)
(* when the program deletes that blob (blobs.py): no upload, flip of the     *)
(* setting or run of the migration, --delete-source and cut short included   *)
(* (migrate.py), ever takes it.                                              *)
THEOREM OnlyDeletionLoses ==
    ASSUME ~CrossDevice
    PROVE  MCSpec => [][\A k \in Keys : Loses(k) => ST!DeleteBlob(k)]_IncomingVars
  <1>1. MCInit => NothingCut
    BY UncutInit DEF MCInit
  <1>2. IncomingInv /\ NothingCut /\ [MCNext]_IncomingVars => NothingCut'
    BY UncutNext DEF IncomingInv, MCNext, IncomingVars
  <1>3. IncomingInv /\ NothingCut /\ [MCNext]_IncomingVars
          => [\A k \in Keys : Loses(k) => ST!DeleteBlob(k)]_IncomingVars
    BY LostOnlyByDeletion DEF IncomingInv, MCNext, IncomingVars
  <1> QED BY <1>1, <1>2, <1>3, IncomingInvariant, PTL DEF MCSpec, IncomingVars
=============================================================================
