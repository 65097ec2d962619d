------------------------------ MODULE PathProofs ------------------------------
(***************************************************************************)
(* The fetch side stays on the path of the program: for any code whose     *)
(* instructions do not overlap, what stage1 hands to decode is the         *)
(* predicted stream of pcs, each instruction is whole, and execute takes   *)
(* them in the order of the program.                                       *)
(*                                                                         *)
(* The words on their way are the path from the place where stage1 stands  *)
(* to the place where stage0 asks next (Route, Cursor), what stage1 has    *)
(* handed on is the path from execute to there (Entries, GoesOn), and what *)
(* the predictor knows is true of the code (BtbTrue).                      *)
(***************************************************************************)
EXTENDS FetchProofs

-----------------------------------------------------------------------------
(* The invariants *)

\* The instructions of the program do not overlap.
NoOverlap == \E starts \in [Version -> SUBSET Half] : Separate(starts)
Starts == CHOOSE starts \in [Version -> SUBSET Half] : Separate(starts)

\* A control instruction that starts at a and goes to target.
Jumps(a, target, ci, instr16) ==
  /\ a \in Starts[ver]
  /\ Code[ver][a].op # "PLAIN"
  /\ ci = Ci(Code[ver][a].op)
  /\ instr16 = ~ Code[ver][a].long
  /\ target \in Code[ver][a].tgt

Knows(e) ==
  e.valid => Jumps(2 * e.tag + (IF e.hi THEN 1 ELSE 0), e.target, e.ci, e.instr16)
Learns(d) == Jumps(d.pc, d.target, d.ci, d.instr16)

\* Behind a fence that stage0 has sent, what the predictor knows is true.
BtbTrue ==
  /\ fence \/ bpuInit \/ \A i \in DOMAIN btb : Knows(btb[i])
  /\ fence \/ \A i \in 1..Len(td) : Learns(td[i])

\* The first n words on their way are of other epochs, and only those.
Split(n) ==
  /\ n \in 0 .. Len(pipe0)
  /\ \A i \in 1..Len(iresp) : iresp[i].ep = Epochs <=> i > n
  /\ \A k \in 1..Len(ireq) :
       Fetches(ireq[k]) => (ireq[k].ep = Epochs <=> Len(iresp) + Due(ireq, k) > n)

\* Where the i-th word is entered, or the next one.
Stop(i) ==
  IF i \in 1..Len(pipe0) THEN 2 * pipe0[i].word + (IF pipe0[i].discard THEN 1 ELSE 0) ELSE pc

\* What is in front of s is the first half of a jump to t.
TailOf(s, t) == \A a \in Half : Plus(a, 1) = s => t \in PredictedTargets(ver, a)

JumpOf(e) == 2 * e.word + (IF e.hi THEN 1 ELSE 0)
Crosses(e) == e.hi /\ Code[ver][2 * e.word + 1].long

\* How the i-th word leads to the next.  Of the words in tails the lower half is
\* all that belongs to the path.
Link(tails, i) ==
  \/ /\ i \in tails /\ i + 1 \notin tails
     /\ TailOf(Stop(i), Stop(i + 1))
  \/ /\ i \notin tails /\ i + 1 \notin tails /\ ~ pipe0[i].pred
     /\ Stop(i + 1) = Plus(2 * pipe0[i].word, 2)
  \/ /\ i \notin tails /\ i + 1 \notin tails /\ pipe0[i].pred /\ ~ Crosses(pipe0[i])
     /\ JumpOf(pipe0[i]) \in Starts[ver]
     /\ pipe0[i].discard => pipe0[i].hi
     /\ Stop(i + 1) \in PredictedTargets(ver, JumpOf(pipe0[i]))
  \/ /\ i \notin tails /\ i + 1 \in tails /\ pipe0[i].pred /\ Crosses(pipe0[i])
     /\ JumpOf(pipe0[i]) \in Starts[ver]
     /\ Stop(i + 1) = Plus(2 * pipe0[i].word, 2)

\* The words on their way are the predicted path.
Route(n, tails) ==
  /\ Split(n)
  /\ \A i \in 1..Len(pipe0) : i > n => Link(tails, i)
  /\ (Len(pipe0) + 1 \in tails) <=> (delayed # <<>>)
  /\ \A i \in 1..Len(delayed) : TailOf(pc, delayed[i])

\* Stage1 stands at a start, or in front of the rest of what it has kept.
Cursor(n, tails) ==
  IF HasPrev
  THEN /\ PrevPc \in Starts[ver]
       /\ Prev.long = Code[ver][PrevPc].long
       /\ (n + 1 \in tails) <=> (PrevPred /\ Prev.long)
       /\ IF PrevPred /\ ~ Prev.long
          THEN Stop(n + 1) \in PredictedTargets(ver, PrevPc)
          ELSE Stop(n + 1) = Plus(PrevPc, 1)
  ELSE n + 1 \notin tails /\ Stop(n + 1) \in Starts[ver]

Upcoming(n) == IF HasPrev THEN PrevPc ELSE Stop(n + 1)

\* The prediction goes from e to address p.
Leads(e, p) ==
  IF e.pred THEN p \in PredictedTargets(ver, e.pc) ELSE p = Plus(e.pc, Length(ver, e.pc))

\* p is what the instruction in front of the i-th place leads to.
Reached(i, p) ==
  IF i > 1 /\ pipe1[i - 1].ep = Epochs THEN Leads(pipe1[i - 1], p)
  ELSE IF LiveInExec THEN Leads(InExec, p)
  ELSE p = arch

\* The entry is an instruction of the program.
IsWhole(e) ==
  /\ e.pc \in Starts[ver]
  /\ e.parts[1].at = e.pc
  /\ ~ e.trap => Len(e.parts) = Length(ver, e.pc)
  /\ Len(e.parts) = 2 => e.parts[2].at = Plus(e.pc, 1)

\* What decode and execute have is the path, up to the first fault.
Entries ==
  /\ LiveInExec => IsWhole(InExec) /\ InExec.pc = arch /\ (InExec.trap <=> stall)
  /\ \A i \in 1..Len(pipe1) :
       pipe1[i].ep = Epochs /\ ~ TrapBefore(i) => IsWhole(pipe1[i]) /\ Reached(i, pipe1[i].pc)

\* And stage1 goes on from there.
GoesOn(n, tails) ==
  ~ TrapBefore(Len(pipe1) + 1) => Cursor(n, tails) /\ Reached(Len(pipe1) + 1, Upcoming(n))

\* What answers say of their word.
AnswersTrue ==
  \A i \in 1..Len(iresp) :
    ~ iresp[i].trap => /\ iresp[i].lo = Code[iresp[i].ver][2 * iresp[i].word].long
                       /\ iresp[i].hi = Code[iresp[i].ver][2 * iresp[i].word + 1].long

\* What comes next stays what it was.
Continues == \E n, m \in Nat : Split(n) /\ Split(m)' /\ Upcoming(m)' = Upcoming(n)

OnTheWay == \E n \in 0 .. Len(pipe0) : \E tails \in SUBSET Nat : Route(n, tails) /\ GoesOn(n, tails)

-----------------------------------------------------------------------------
(* Addresses and starts                                                       *)

LEMMA Steps ==
  /\ Words \in Nat /\ Words >= 1
  /\ \A a \in Half, n \in {1, 2} :
       Plus(a, n) \in Half /\ Plus(a, n) = (IF a + n < 2 * Words THEN a + n ELSE a + n - 2 * Words)
<1>1. Words \in Nat /\ Words >= 1
  BY BtbAssumption DEF BtbAssumption
<1>2. ASSUME NEW a \in Half, NEW n \in {1, 2}
      PROVE  Plus(a, n) = (IF a + n < 2 * Words THEN a + n ELSE a + n - 2 * Words)
  <2>1. PICK m \in Nat : m = 2 * Words
    BY <1>1
  <2>2. PICK x \in Nat : x = a + n
    BY <1>1 DEF Half
  <2>3. Plus(a, n) = x % m
    BY <2>1, <2>2 DEF Plus
  <2>4. m > 0 /\ x < 2 * m
    BY <1>1, <2>1, <2>2 DEF Half
  <2>5. x % m = (IF x < m THEN x ELSE x - m)
    <3>1. \A y, k \in Nat : y < k => y % k = y
      OBVIOUS
    <3>2. \A y, k \in Nat : k > 0 /\ y >= k /\ y < 2 * k => y % k = y - k
      OBVIOUS
    <3>3. x < m \/ x >= m
      OBVIOUS
    <3>4. CASE x < m
      <4>1. x % m = x
        BY <3>1, <3>4
      <4>2. QED
        BY <3>4, <4>1
    <3>5. CASE x >= m
      <4>1. x % m = x - m
        BY <2>4, <3>2, <3>5
      <4>2. ~ (x < m)
        BY <3>5
      <4>3. QED
        BY <4>1, <4>2
    <3>6. QED
      BY <3>3, <3>4, <3>5
  <2>6. a \in Nat /\ n \in Nat
    BY DEF Half
  <2>7. QED
    BY <1>1, <2>1, <2>2, <2>3, <2>5, <2>6
<1>3. QED
  BY <1>1, <1>2, Addresses

LEMMA Neighbours ==
  /\ \A a \in Half : a = 2 * WordOf(a) + (IF IsHi(a) THEN 1 ELSE 0)
  /\ \A w \in Word : /\ Plus(2 * w, 1) = 2 * w + 1 /\ Plus(2 * w + 1, 1) = Plus(2 * w, 2)
                     /\ ~ IsHi(2 * w) /\ IsHi(2 * w + 1)
                     /\ ~ IsHi(Plus(2 * w, 2)) /\ ~ IsHi(Plus(2 * w + 1, 1))
  /\ \A a \in Half : Plus(Plus(a, 1), 1) = Plus(a, 2)
  /\ \A a, b \in Half : Plus(a, 1) = Plus(b, 1) => a = b
<1>1. Words \in Nat /\ Words >= 1 /\ \A a \in Half : a \in Nat /\ a < 2 * Words
  BY Steps DEF Half
<1>2. ASSUME NEW a \in Half PROVE a = 2 * WordOf(a) + (IF IsHi(a) THEN 1 ELSE 0)
  BY <1>1 DEF WordOf, IsHi
<1>3. ASSUME NEW w \in Word
      PROVE  /\ Plus(2 * w, 1) = 2 * w + 1 /\ Plus(2 * w + 1, 1) = Plus(2 * w, 2)
             /\ ~ IsHi(2 * w) /\ IsHi(2 * w + 1)
             /\ ~ IsHi(Plus(2 * w, 2)) /\ ~ IsHi(Plus(2 * w + 1, 1))
  <2>1. w \in Nat /\ w < Words /\ 2 * w \in Half /\ 2 * w + 1 \in Half
    BY <1>1 DEF Word, Half
  <2>2. Plus(2 * w, 1) = 2 * w + 1 /\ Plus(2 * w + 1, 1) = Plus(2 * w, 2)
    BY <1>1, <2>1, Steps
  <2>3. ~ IsHi(2 * w) /\ IsHi(2 * w + 1)
    BY <2>1 DEF IsHi
  <2>4. PICK x \in Nat : Plus(2 * w, 2) = 2 * x
    <3>1. CASE 2 * w + 2 < 2 * Words
      <4>1. Plus(2 * w, 2) = 2 * (w + 1) /\ w + 1 \in Nat
        BY <1>1, <2>1, <3>1, Steps
      <4>2. QED
        BY <4>1
    <3>2. CASE ~ (2 * w + 2 < 2 * Words)
      <4>1. Plus(2 * w, 2) = 2 * (w + 1 - Words) /\ w + 1 - Words \in Nat
        BY <1>1, <2>1, <3>2, Steps
      <4>2. QED
        BY <4>1
    <3>3. QED
      BY <3>1, <3>2
  <2>5. \A n \in Nat : (2 * n) % 2 # 1
    OBVIOUS
  <2>6. QED
    BY <2>2, <2>3, <2>4, <2>5 DEF IsHi
<1>4. ASSUME NEW a \in Half PROVE Plus(Plus(a, 1), 1) = Plus(a, 2)
  <2>1. Plus(a, 1) \in Half
    BY Steps
  <2>2. Plus(a, 1) = (IF a + 1 < 2 * Words THEN a + 1 ELSE a + 1 - 2 * Words)
    BY Steps
  <2>3. Plus(a, 2) = (IF a + 2 < 2 * Words THEN a + 2 ELSE a + 2 - 2 * Words)
    BY Steps
  <2>4. Plus(Plus(a, 1), 1) = (IF Plus(a, 1) + 1 < 2 * Words THEN Plus(a, 1) + 1
                               ELSE Plus(a, 1) + 1 - 2 * Words)
    BY <2>1, Steps
  <2>5. QED
    BY <1>1, <2>2, <2>3, <2>4
<1>5. ASSUME NEW a \in Half, NEW b \in Half, Plus(a, 1) = Plus(b, 1) PROVE a = b
  <2>1. Plus(a, 1) = (IF a + 1 < 2 * Words THEN a + 1 ELSE a + 1 - 2 * Words)
    BY Steps
  <2>2. Plus(b, 1) = (IF b + 1 < 2 * Words THEN b + 1 ELSE b + 1 - 2 * Words)
    BY Steps
  <2>3. QED
    BY <1>1, <1>5, <2>1, <2>2
<1>6. QED
  BY <1>2, <1>3, <1>4, <1>5

LEMMA StartFacts ==
  ASSUME NoOverlap, NEW v \in Version
  PROVE  /\ Starts[v] \subseteq Half
         /\ TrapVec \in Starts[v] /\ WbTarget[v] \subseteq Starts[v] /\ RasTop \subseteq Starts[v]
         /\ ResetPc \in Starts[FirstVersion]
         /\ \A a \in Starts[v] :
              /\ Code[v][a].tgt \subseteq Starts[v] /\ Plus(a, Length(v, a)) \in Starts[v]
              /\ Code[v][a].long => Plus(a, 1) \notin Starts[v]
              /\ Code[v][a].op = "BRANCH" => \E t \in Half : Code[v][a].tgt = {t}
              /\ PredictedTargets(v, a) \subseteq Starts[v]
         /\ \A u \in AfterSfence[v] : Code[u] = Code[v] /\ Starts[u] = Starts[v]
<1>1. Starts \in [Version -> SUBSET Half] /\ Separate(Starts)
  BY DEF NoOverlap, Starts
<1>2. StartsOf(Starts[v], v)
  BY <1>1 DEF Separate
<1>3. ASSUME NEW a \in Starts[v] PROVE PredictedTargets(v, a) \subseteq Starts[v]
  BY <1>2 DEF StartsOf, PredictedTargets
<1>4. QED
  BY <1>1, <1>2, <1>3 DEF Separate, StartsOf

-----------------------------------------------------------------------------
(* The address stage1 delivers next                                           *)

\* Each answer that is due is that of some request.
LEMMA DueReached ==
  ASSUME NEW s, NEW m \in Nat, NEW d \in 1..Due(s, m)
  PROVE  \E k \in 1..m : Fetches(s[k]) /\ Due(s, k) = d
<1> DEFINE F == {k \in 1..m : Fetches(s[k])}
           f == [k \in F |-> Due(s, k)]
<1>1. Due(s, m) = Cardinality(F) /\ Due(s, m) \in Nat
  BY DueStep DEF Due
<1>2. f \in [F -> 1..Due(s, m)]
  <2>1. ASSUME NEW k \in F PROVE Due(s, k) \in 1..Due(s, m)
    <3>1. Due(s, k) >= 1 /\ Due(s, k) <= Due(s, m)
      BY DueBounds
    <3>2. Due(s, k) \in Nat
      BY DueStep
    <3>3. QED
      BY <1>1, <3>1, <3>2
  <2>2. QED
    BY <2>1
<1>3. ASSUME NEW k \in F, NEW l \in F, k < l PROVE Due(s, k) < Due(s, l)
  <2>1. l - 1 \in Nat /\ l = (l - 1) + 1 /\ k \in 1..(l - 1)
    BY <1>3
  <2>2. Due(s, l) = Due(s, l - 1) + 1 /\ Due(s, l - 1) \in Nat /\ Due(s, k) \in Nat
    BY <2>1, DueStep
  <2>3. Due(s, k) <= Due(s, l - 1)
    BY <2>1, DueBounds
  <2>4. QED
    BY <2>2, <2>3
<1>4. f \in Injection(F, 1..Due(s, m))
  <2>1. ASSUME NEW k \in F, NEW l \in F, f[k] = f[l] PROVE k = l
    <3>1. Due(s, k) = Due(s, l) /\ Due(s, k) \in Nat
      BY <2>1, DueStep
    <3>2. ~ (k < l) /\ ~ (l < k)
      BY <1>3, <3>1
    <3>3. QED
      BY <3>2
  <2> HIDE DEF f, F
  <2>2. QED
    BY <1>2, <2>1, Fun_IsInj
<1>5. IsFiniteSet(1..Due(s, m)) /\ Cardinality(1..Due(s, m)) = Due(s, m)
  BY <1>1, FS_Interval
<1>6. f \in Surjection(F, 1..Due(s, m))
  <2> HIDE DEF f, F
  <2>1. QED
    BY <1>1, <1>4, <1>5, FS_Injection
<1>7. PICK k \in F : f[k] = d
  <2>1. \A t \in 1..Due(s, m) : \E k \in F : f[k] = t
    <3> HIDE DEF f, F
    <3>1. QED
      BY <1>6 DEF Surjection
  <2>2. QED
    BY <2>1
<1>8. QED
  BY <1>7

LEMMA WordCounts ==
  ASSUME FetchTypeOK, PairedByOrder
  PROVE  /\ Len(pipe0) \in Nat /\ Len(iresp) \in Nat /\ Len(ireq) \in Nat
         /\ Len(pipe0) = Len(iresp) + Due(ireq, Len(ireq)) /\ Due(ireq, Len(ireq)) \in Nat
         /\ Len(pipe1) \in Nat /\ Len(td) \in Nat /\ Len(delayed) \in Nat
BY DueStep, LenProperties DEF FetchTypeOK, PairedByOrder

LEMMA RequestCounts ==
  ASSUME FetchTypeOK, PairedByOrder, NEW k \in 1..Len(ireq), Fetches(ireq[k])
  PROVE  /\ Due(ireq, k) \in Nat /\ Due(ireq, k) >= 1
         /\ Len(iresp) + Due(ireq, k) \in 1..Len(pipe0)
         /\ Len(iresp) + Due(ireq, k) <= Len(pipe0)
<1>1. /\ Len(iresp) \in Nat /\ Len(ireq) \in Nat /\ Len(pipe0) \in Nat
      /\ Len(pipe0) = Len(iresp) + Due(ireq, Len(ireq)) /\ Due(ireq, Len(ireq)) \in Nat
  BY WordCounts
<1>2. k \in Nat
  OBVIOUS
<1>3. Due(ireq, k) \in Nat
  BY <1>2, DueStep
<1>4. Due(ireq, k) >= 1 /\ Due(ireq, k) <= Due(ireq, Len(ireq))
  BY <1>1, DueBounds
<1>5. QED
  BY <1>1, <1>3, <1>4

LEMMA LiveWords ==
  ASSUME FetchTypeOK, PairedByOrder, NEW n, Split(n), NEW i \in 1..Len(pipe0)
  PROVE  AnswerOf(i).ep = Epochs <=> i > n
<1>1. /\ Len(iresp) \in Nat /\ Len(ireq) \in Nat /\ Len(pipe0) = Len(iresp) + Due(ireq, Len(ireq))
      /\ Due(ireq, Len(ireq)) \in Nat
  BY WordCounts
<1>2. CASE i <= Len(iresp)
  <2>1. i \in 1..Len(iresp) /\ AnswerOf(i) = iresp[i]
    BY <1>1, <1>2 DEF AnswerOf
  <2>2. QED
    BY <2>1 DEF Split
<1>3. CASE ~ (i <= Len(iresp))
  <2> DEFINE P(k) == Fetches(ireq[k]) /\ Due(ireq, k) = i - Len(iresp)
             c == CHOOSE k \in 1..Len(ireq) : P(k)
  <2>1. i - Len(iresp) \in 1..Due(ireq, Len(ireq))
    BY <1>1, <1>3
  <2>2. \E k \in 1..Len(ireq) : P(k)
    BY <1>1, <2>1, DueReached
  <2>3. c \in 1..Len(ireq) /\ P(c)
    BY <2>2
  <2>4. AnswerOf(i) = ireq[c]
    BY <1>3 DEF AnswerOf
  <2>5. Len(iresp) + Due(ireq, c) = i
    BY <1>1, <2>3
  <2> HIDE DEF c
  <2>6. QED
    BY <2>3, <2>4, <2>5 DEF Split
<1>4. QED
  BY <1>2, <1>3

\* Decode will wait for a fault in front of what comes next.
LEMMA LostIs ==
  ASSUME FetchTypeOK, Entries
  PROVE  Lost <=> TrapBefore(Len(pipe1) + 1)
<1>1. Len(pipe1) \in Nat
  BY LenProperties DEF FetchTypeOK
<1>2. \A j \in 1..Len(pipe1) : j < Len(pipe1) + 1
  BY <1>1
<1>3. LiveInExec /\ InExec.trap => stall
  BY DEF Entries
<1>4. QED
  BY <1>2, <1>3 DEF Lost, TrapBefore

LEMMA NextIs ==
  FetchTypeOK /\ PairedByOrder /\ Entries =>
    \A n \in Nat : Split(n) =>
      NextDelivered = IF TrapBefore(Len(pipe1) + 1) THEN <<>> ELSE <<Upcoming(n)>>
<1> SUFFICES ASSUME FetchTypeOK, PairedByOrder, Entries, NEW n \in Nat, Split(n)
             PROVE  NextDelivered = IF TrapBefore(Len(pipe1) + 1) THEN <<>> ELSE <<Upcoming(n)>>
  OBVIOUS
<1> DEFINE live == {i \in 1..Len(pipe0) : AnswerOf(i).ep = Epochs}
<1>1. Lost <=> TrapBefore(Len(pipe1) + 1)
  BY LostIs
<1>2. live = {i \in 1..Len(pipe0) : i > n}
  BY LiveWords
<1>3. Len(pipe0) \in Nat /\ n <= Len(pipe0)
  BY WordCounts DEF Split
<1>4. CASE n = Len(pipe0)
  <2>1. live = {} /\ n + 1 \notin 1..Len(pipe0)
    BY <1>2, <1>3, <1>4
  <2>2. Stop(n + 1) = pc
    BY <2>1 DEF Stop
  <2>3. QED
    BY <1>1, <2>1, <2>2 DEF NextDelivered, Upcoming
<1>5. CASE n # Len(pipe0)
  <2>1. n + 1 \in live /\ n + 1 \in 1..Len(pipe0) /\ \A l \in live : n + 1 <= l
    BY <1>2, <1>3, <1>5
  <2> DEFINE c == CHOOSE k \in live : \A l \in live : k <= l
  <2>2. c \in live /\ \A l \in live : c <= l
    BY <2>1
  <2>3. c = n + 1
    BY <1>3, <2>1, <2>2
  <2>4. live # {}
    BY <2>1
  <2> HIDE DEF c
  <2>5. Stop(n + 1) = 2 * pipe0[c].word + (IF pipe0[c].discard THEN 1 ELSE 0)
    BY <2>1, <2>3 DEF Stop
  <2>6. QED
    BY <1>1, <2>4, <2>5 DEF NextDelivered, Upcoming, c
<1>6. QED
  BY <1>4, <1>5

-----------------------------------------------------------------------------
(* How the words move on                                                      *)

LEMMA LinkAlike ==
  ASSUME NEW tails, NEW moved, NEW i, NEW j,
         pipe0'[i] = pipe0[j], Stop(i)' = Stop(j), Stop(i + 1)' = Stop(j + 1),
         i \in moved <=> j \in tails, i + 1 \in moved <=> j + 1 \in tails,
         ver' = ver, Link(tails, j)
  PROVE  Link(moved, i)'
BY DEF Link, TailOf, PredictedTargets, Crosses, JumpOf

LEMMA CursorAlike ==
  ASSUME UNCHANGED <<kept, epochVars, ver>>, NEW n, NEW m, NEW tails, NEW moved,
         Stop(m + 1)' = Stop(n + 1), m + 1 \in moved <=> n + 1 \in tails
  PROVE  /\ Cursor(n, tails) => Cursor(m, moved)'
         /\ Upcoming(m)' = Upcoming(n)
BY DEF Cursor, Upcoming, HasPrev, Prev, PrevPc, PrevPred, Epochs, epochVars, PredictedTargets

\* The rules that neither fetch nor take a word.
LEMMA RouteStays ==
  ASSUME UNCHANGED <<pc, delayed, pipe0, ver>>, NEW n, NEW tails, Route(n, tails), Split(n)'
  PROVE  Route(n, tails)' /\ \A i \in Nat : Stop(i)' = Stop(i)
<1>1. \A i \in Nat : Stop(i)' = Stop(i)
  BY DEF Stop
<1>2. ASSUME NEW i \in 1..Len(pipe0), i > n PROVE Link(tails, i)'
  <2>1. Stop(i)' = Stop(i) /\ Stop(i + 1)' = Stop(i + 1)
    BY DEF Stop
  <2>2. Link(tails, i)
    BY <1>2 DEF Route
  <2>3. QED
    BY <2>1, <2>2, LinkAlike
<1>3. (\A i \in 1..Len(delayed) : TailOf(pc, delayed[i]))'
  BY DEF Route, TailOf
<1>4. ((Len(pipe0) + 1 \in tails) <=> (delayed # <<>>))'
  BY DEF Route
<1>5. QED
  BY <1>1, <1>2, <1>3, <1>4 DEF Route

LEMMA SplitStays ==
  ASSUME UNCHANGED <<pipe0, ireq, iresp, epochVars>>, NEW n, Split(n)
  PROVE  Split(n)'
BY DEF Split, Epochs, epochVars

\* The fence behind the requests.
LEMMA SplitFence ==
  ASSUME FetchTypeOK, UNCHANGED <<pipe0, iresp, epochVars>>, NEW r \in Request, ~ Fetches(r),
         ireq' = Append(ireq, r), NEW n, Split(n)
  PROVE  Split(n)'
<1>1. /\ Len(ireq') = Len(ireq) + 1 /\ Len(ireq) \in Nat /\ ireq'[Len(ireq) + 1] = r
      /\ \A k \in 1..Len(ireq) : ireq'[k] = ireq[k]
  BY Pushed, EpochValues
<1>2. ASSUME NEW k \in 1..Len(ireq'), Fetches(ireq'[k])
      PROVE  k \in 1..Len(ireq) /\ ireq'[k] = ireq[k] /\ Due(ireq', k) = Due(ireq, k)
  <2>1. k \in 1..Len(ireq)
    BY <1>1, <1>2
  <2>2. k \in Nat /\ \A j \in 1..k : ireq'[j] = ireq[j]
    BY <1>1, <2>1
  <2>3. Due(ireq', k) = Due(ireq, k)
    BY <2>2, DueAlike
  <2>4. QED
    BY <1>1, <2>1, <2>3
<1>3. Epochs' = Epochs
  BY DEF Epochs, epochVars
<1>4. \A k \in 1..Len(ireq') :
        Fetches(ireq'[k]) => (ireq'[k].ep = Epochs <=> Len(iresp) + Due(ireq', k) > n)
  BY <1>2 DEF Split
<1>5. QED
  BY <1>3, <1>4 DEF Split

\* The instruction side takes its first request.
LEMMA SplitTaken ==
  ASSUME FetchTypeOK, UNCHANGED <<pipe0, epochVars>>, ireq # <<>>, ireq' = Tail(ireq),
         \/ ~ Fetches(Head(ireq)) /\ iresp' = iresp
         \/ /\ Fetches(Head(ireq))
            /\ \E a \in Answer : a.ep = Head(ireq).ep /\ iresp' = Append(iresp, a),
         NEW n \in Nat, Split(n)
  PROVE  Split(n)'
<1>0. iresp \in Seq(Answer) /\ ireq \in Seq(Request) /\ Len(iresp) \in Nat
  BY EpochValues, LenProperties
<1>1. /\ Len(ireq') = Len(ireq) - 1 /\ Len(ireq) \in Nat /\ Len(ireq) >= 1 /\ ireq[1] = Head(ireq)
      /\ \A k \in 1..Len(ireq') : k + 1 \in 1..Len(ireq) /\ ireq'[k] = ireq[k + 1]
  BY <1>0, Popped
<1>2. Epochs' = Epochs
  BY DEF Epochs, epochVars
<1>3. ASSUME NEW k \in 0..Len(ireq')
      PROVE  /\ Due(ireq, k + 1) = Due(ireq', k) + (IF Fetches(Head(ireq)) THEN 1 ELSE 0)
             /\ Due(ireq', k) \in Nat
  <2>1. k \in Nat /\ \A j \in 1..k : ireq'[j] = ireq[j + 1]
    BY <1>1
  <2>2. Due(ireq', k) \in Nat
    BY <2>1, DueStep
  <2>3. Due(ireq, k + 1) = Due(ireq', k) + (IF Fetches(ireq[1]) THEN 1 ELSE 0)
    BY <2>1, DueTail
  <2>4. QED
    BY <1>1, <2>2, <2>3
<1>4. CASE ~ Fetches(Head(ireq)) /\ iresp' = iresp
  <2>1. ASSUME NEW k \in 1..Len(ireq'), Fetches(ireq'[k])
        PROVE  ireq'[k].ep = Epochs <=> Len(iresp) + Due(ireq', k) > n
    <3>1. k + 1 \in 1..Len(ireq) /\ ireq'[k] = ireq[k + 1] /\ k \in 0..Len(ireq')
      BY <1>1
    <3>2. Due(ireq, k + 1) = Due(ireq', k)
      BY <1>3, <1>4, <3>1
    <3>3. QED
      BY <2>1, <3>1, <3>2 DEF Split
  <2>2. QED
    BY <1>2, <1>4, <2>1 DEF Split
<1>5. ASSUME Fetches(Head(ireq)), NEW a \in Answer, a.ep = Head(ireq).ep, iresp' = Append(iresp, a)
      PROVE  Split(n)'
  <2>1. /\ Len(iresp') = Len(iresp) + 1 /\ iresp'[Len(iresp) + 1] = a
        /\ \A i \in 1..Len(iresp) : iresp'[i] = iresp[i]
    BY <1>0, <1>5, Pushed
  <2>2. ASSUME NEW k \in 1..Len(ireq'), Fetches(ireq'[k])
        PROVE  ireq'[k].ep = Epochs <=> Len(iresp') + Due(ireq', k) > n
    <3>1. k + 1 \in 1..Len(ireq) /\ ireq'[k] = ireq[k + 1] /\ k \in 0..Len(ireq')
      BY <1>1
    <3>2. Due(ireq, k + 1) = Due(ireq', k) + 1 /\ Due(ireq', k) \in Nat
      BY <1>3, <1>5, <3>1
    <3>3. Len(iresp') + Due(ireq', k) = Len(iresp) + Due(ireq, k + 1)
      BY <1>0, <2>1, <3>2
    <3>4. QED
      BY <2>2, <3>1, <3>3 DEF Split
  <2>3. a.ep = Epochs <=> Len(iresp) + 1 > n
    <3>1. 0 \in 0..Len(ireq') /\ 0 + 1 = 1 /\ 1 \in 1..Len(ireq)
      BY <1>1
    <3>2. Due(ireq, 0 + 1) = Due(ireq', 0) + 1 /\ Due(ireq', 0) = 0
      BY <1>3, <1>5, <3>1, DueStep
    <3>3. Due(ireq, 1) = 1
      BY <3>1, <3>2
    <3>4. ireq[1].ep = Epochs <=> Len(iresp) + Due(ireq, 1) > n
      BY <1>1, <1>5, <3>1 DEF Split
    <3>5. QED
      BY <1>1, <1>5, <3>3, <3>4
  <2>4. ASSUME NEW i \in 1..Len(iresp') PROVE iresp'[i].ep = Epochs <=> i > n
    <3>1. CASE i \in 1..Len(iresp)
      BY <2>1, <3>1 DEF Split
    <3>2. CASE i = Len(iresp) + 1
      BY <2>1, <2>3, <3>2
    <3>3. QED
      BY <1>0, <2>1, <3>1, <3>2
  <2>5. QED
    BY <1>2, <2>2, <2>4 DEF Split
<1>6. QED
  BY <1>4, <1>5

\* A re-direction leaves nothing on its way.
LEMMA RouteFlushed ==
  ASSUME FetchTypeOK, PairedByOrder, UNCHANGED <<pipe0, ireq, iresp>>, NothingLive',
         delayed' = <<>>
  PROVE  Route(Len(pipe0), {})' /\ Stop(Len(pipe0) + 1)' = pc'
<1>0. /\ Len(pipe0) \in Nat /\ Len(iresp) \in Nat /\ Len(ireq) \in Nat
      /\ Len(pipe0) = Len(iresp) + Due(ireq, Len(ireq)) /\ Due(ireq, Len(ireq)) \in Nat
  BY WordCounts
<1>1. \A i \in 1..Len(iresp) : iresp[i].ep # Epochs' /\ ~ (i > Len(pipe0))
  BY <1>0 DEF NothingLive, NothingRead, NoneOf
<1>2. ASSUME NEW k \in 1..Len(ireq), Fetches(ireq[k])
      PROVE  ireq[k].ep # Epochs' /\ ~ (Len(iresp) + Due(ireq, k) > Len(pipe0))
  <2>1. Len(iresp) + Due(ireq, k) <= Len(pipe0) /\ Due(ireq, k) \in Nat
    BY <1>2, RequestCounts
  <2>2. ireq[k].ep # Epochs'
    BY DEF NothingLive, NoneOf
  <2>3. QED
    BY <1>0, <2>1, <2>2
<1>3. Split(Len(pipe0))'
  BY <1>0, <1>1, <1>2 DEF Split
<1>4. (\A i \in 1..Len(pipe0) : i > Len(pipe0) => Link({}, i))'
  BY <1>0
<1>5. (\A i \in 1..Len(delayed) : TailOf(pc, delayed[i]))'
  <2>1. Len(delayed') = 0
    OBVIOUS
  <2>2. QED
    BY <2>1
<1>6. Len(pipe0) + 1 \notin 1..Len(pipe0)
  BY <1>0
<1>7. QED
  BY <1>3, <1>4, <1>5, <1>6 DEF Route, Stop

\* Stage1 is done with the first word.
LEMMA RouteTaken ==
  ASSUME FetchTypeOK, PairedByOrder, Deq, pipe0 # <<>>, iresp # <<>>,
         UNCHANGED <<ireq, epochVars, ver, pc, delayed>>,
         NEW n \in Nat, NEW tails \in SUBSET Nat, Route(n, tails),
         NEW m \in Nat, m = (IF n = 0 THEN 0 ELSE n - 1),
         NEW moved \in SUBSET Nat, moved = {i \in Nat : i + 1 \in tails}
  PROVE  Route(m, moved)' /\ \A i \in Nat : i >= 1 => Stop(i)' = Stop(i + 1)
<1>0. /\ Len(pipe0) \in Nat /\ Len(iresp) \in Nat /\ Len(ireq) \in Nat
      /\ pipe0 \in Seq(WordEntry) /\ iresp \in Seq(Answer) /\ n <= Len(pipe0)
  BY WordCounts DEF FetchTypeOK, Route, Split
<1>1. /\ Len(pipe0') = Len(pipe0) - 1 /\ Len(pipe0) >= 1
      /\ \A i \in 1..Len(pipe0') : i + 1 \in 1..Len(pipe0) /\ pipe0'[i] = pipe0[i + 1]
  BY <1>0, Popped DEF Deq
<1>2. /\ Len(iresp') = Len(iresp) - 1 /\ Len(iresp) >= 1
      /\ \A i \in 1..Len(iresp') : i + 1 \in 1..Len(iresp) /\ iresp'[i] = iresp[i + 1]
  BY <1>0, Popped DEF Deq
<1>3. Epochs' = Epochs
  BY DEF Epochs, epochVars
<1>4. ASSUME NEW i \in Nat, i >= 1 PROVE Stop(i)' = Stop(i + 1)
  <2>1. i \in 1..Len(pipe0') <=> i + 1 \in 1..Len(pipe0)
    BY <1>0, <1>1, <1>4
  <2>2. QED
    BY <1>1, <2>1 DEF Stop
<1>5. \A i \in Nat : i >= 1 => (i + 1 > n <=> i > m)
  BY DEF Route
<1>6. Split(m)'
  <2>1. m \in 0 .. Len(pipe0')
    BY <1>0, <1>1
  <2>2. ASSUME NEW i \in 1..Len(iresp') PROVE iresp'[i].ep = Epochs <=> i > m
    <3>1. i + 1 \in 1..Len(iresp) /\ iresp'[i] = iresp[i + 1] /\ i \in Nat /\ i >= 1
      BY <1>2
    <3>2. iresp[i + 1].ep = Epochs <=> i + 1 > n
      BY <3>1 DEF Route, Split
    <3>3. QED
      BY <1>5, <3>1, <3>2
  <2>3. ASSUME NEW k \in 1..Len(ireq), Fetches(ireq[k])
        PROVE  ireq[k].ep = Epochs <=> Len(iresp') + Due(ireq, k) > m
    <3>1. Due(ireq, k) \in Nat /\ Due(ireq, k) >= 1
      BY <2>3, RequestCounts
    <3>2. ireq[k].ep = Epochs <=> Len(iresp) + Due(ireq, k) > n
      BY <2>3 DEF Route, Split
    <3>3. QED
      BY <1>0, <1>2, <3>1, <3>2
  <2>4. QED
    BY <1>3, <2>1, <2>2, <2>3 DEF Split
<1>7. ASSUME NEW i \in 1..Len(pipe0'), i > m PROVE Link(moved, i)'
  <2>1. /\ i + 1 \in 1..Len(pipe0) /\ i + 1 > n /\ pipe0'[i] = pipe0[i + 1]
        /\ i \in Nat /\ i >= 1 /\ i + 1 \in Nat /\ i + 1 >= 1
    BY <1>1, <1>5, <1>7
  <2>2. Stop(i)' = Stop(i + 1) /\ Stop(i + 1)' = Stop((i + 1) + 1)
    BY <1>4, <2>1
  <2>3. i \in moved <=> i + 1 \in tails
    BY <2>1
  <2>4. i + 1 \in moved <=> (i + 1) + 1 \in tails
    BY <2>1
  <2>5. Link(tails, i + 1)
    BY <2>1 DEF Route
  <2>6. QED
    BY <2>1, <2>2, <2>3, <2>4, <2>5, LinkAlike
<1>8. (Len(pipe0') + 1 \in moved) <=> (delayed' # <<>>)
  <2>1. Len(pipe0') + 1 \in Nat /\ (Len(pipe0') + 1) + 1 = Len(pipe0) + 1
    BY <1>0, <1>1
  <2>2. QED
    BY <2>1 DEF Route
<1>9. (\A i \in 1..Len(delayed) : TailOf(pc, delayed[i]))'
  BY DEF Route, TailOf
<1>10. QED
  BY <1>4, <1>6, <1>7, <1>8, <1>9 DEF Route

LEMMA JumpInHalf ==
  ASSUME NEW w \in Word, NEW b
  PROVE  /\ 2 * w + (IF b THEN 1 ELSE 0) \in Half
         /\ 2 * w + (IF b THEN 1 ELSE 0) = (IF b THEN 2 * w + 1 ELSE 2 * w)
<1>1. w \in Nat /\ 2 * w \in Half /\ 2 * w + 1 \in Half
  BY Addresses DEF Word
<1>2. CASE b
  BY <1>1, <1>2
<1>3. CASE ~ b
  BY <1>1, <1>3
<1>4. QED
  BY <1>2, <1>3

\* What the predictor says of a word is true of its code.
LEMMA PredictionTrue ==
  ASSUME FetchTypeOK, BtbTrue, ~ fence, ~ bpuInit, NEW r \in Predictions(pc), r.pred,
         NEW a, a = 2 * WordOf(pc) + (IF r.hi THEN 1 ELSE 0)
  PROVE  /\ a \in Starts[ver]
         /\ r.instr16 = ~ Code[ver][a].long
         /\ r.target \in PredictedTargets(ver, a)
         /\ IsHi(pc) => r.hi
<1>1. Matches(WordOf(pc)) # {}
  BY DEF Predictions, Response
<1>2. PICK i \in Matches(WordOf(pc)) : i = CHOOSE j \in Matches(WordOf(pc)) : TRUE
  BY <1>1
<1>3. PICK e : e = btb[i]
  OBVIOUS
<1>4. i \in DOMAIN btb /\ e.valid /\ e.tag = WordOf(pc) /\ e \in Entry
  BY <1>2, <1>3 DEF Matches, FetchTypeOK
<1>5. Jumps(2 * e.tag + (IF e.hi THEN 1 ELSE 0), e.target, e.ci, e.instr16)
  BY <1>3, <1>4 DEF BtbTrue, Knows
<1>6. r \in CASE IsHi(pc) /\ ~ e.hi -> {Response(FALSE, pc, e)}
              [] ~ (IsHi(pc) /\ ~ e.hi) /\ e.ci = "Ret" ->
                   {Response(TRUE, t, e) : t \in RasTop}
              [] ~ (IsHi(pc) /\ ~ e.hi) /\ e.ci = "JAL" ->
                   {Response(TRUE, e.target, e)}
              [] OTHER -> {Response(b, e.target, e) : b \in BOOLEAN}
  BY <1>1, <1>2, <1>3 DEF Predictions
<1>7. /\ r.hi = e.hi /\ r.instr16 = e.instr16
      /\ ~ (IsHi(pc) /\ ~ e.hi)
      /\ IF e.ci = "Ret" THEN r.target \in RasTop ELSE r.target = e.target
  BY <1>6 DEF Response
<1>8. IsHi(pc) \in BOOLEAN /\ e.hi \in BOOLEAN
  BY <1>4, Addresses DEF FetchTypeOK, Entry
<1>9. Jumps(a, e.target, e.ci, e.instr16)
  BY <1>4, <1>5, <1>7
<1>10. a \in Half => Code[ver][a].op \in Op
  BY Codes DEF FetchTypeOK
<1>11. a \in Half
  BY JumpInHalf, Addresses DEF FetchTypeOK
<1>12. r.target \in PredictedTargets(ver, a)
  <2>1. Code[ver][a].op \in {"BRANCH", "JAL", "RET"}
    BY <1>9, <1>10, <1>11 DEF Jumps, Op
  <2>2. e.ci = "Ret" <=> Code[ver][a].op = "RET"
    BY <1>9, <2>1 DEF Jumps, Ci
  <2>3. CASE Code[ver][a].op = "RET"
    BY <1>7, <2>2, <2>3 DEF PredictedTargets
  <2>4. CASE Code[ver][a].op # "RET"
    BY <1>7, <1>9, <2>1, <2>2, <2>4 DEF PredictedTargets, Jumps
  <2>5. QED
    BY <2>3, <2>4
<1>13. QED
  BY <1>7, <1>8, <1>9, <1>12 DEF Jumps

\* Stage0 asks for one more word and goes on to what it predicts.
LEMMA RouteNext ==
  ASSUME FetchTypeOK, PairedByOrder, BtbTrue, GenNextPc,
         NEW n \in Nat, NEW tails \in SUBSET Nat, Route(n, tails),
         NEW longer \in SUBSET Nat,
         longer = (IF delayed' # <<>> THEN tails \cup {Len(pipe0) + 2}
                   ELSE tails \ {Len(pipe0) + 2})
  PROVE  /\ Route(n, longer)'
         /\ \A i \in 1..(Len(pipe0) + 1) :
              Stop(i)' = Stop(i) /\ (i \in longer <=> i \in tails)
<1>00. PICK N \in Nat : N = Len(pipe0)
  BY WordCounts
<1>01. PICK w \in Word : w = WordOf(pc)
  BY Addresses DEF FetchTypeOK
<1>0. /\ N = Len(pipe0) /\ w = WordOf(pc) /\ Len(iresp) \in Nat /\ Len(ireq) \in Nat
      /\ pipe0 \in Seq(WordEntry) /\ ireq \in Seq(Request) /\ n <= N
      /\ pc \in Half /\ w \in Word /\ Epochs \in Epoch
  BY <1>00, <1>01, WordCounts, Addresses DEF FetchTypeOK, Route, Split
<1>1. PICK r \in Predictions(pc) :
        /\ pc' = NextPc(r)
        /\ delayed' = IF delayed = <<>> /\ EdgeCase(r) /\ r.pred THEN <<r.target>> ELSE <<>>
        /\ pipe0' = Append(pipe0, [word |-> w, discard |-> IsHi(pc),
                                   hi |-> r.hi, pred |-> r.pred])
  BY <1>0 DEF GenNextPc
<1>2. PICK e : e = [word |-> w, discard |-> IsHi(pc), hi |-> r.hi, pred |-> r.pred]
  OBVIOUS
<1>3. e \in WordEntry /\ e.word = w /\ e.discard = IsHi(pc) /\ e.hi = r.hi /\ e.pred = r.pred
  <2>1. r.pred \in BOOLEAN /\ r.hi \in BOOLEAN /\ IsHi(pc) \in BOOLEAN
    BY <1>0, PredictionTypes, Addresses
  <2>2. QED
    BY <1>0, <1>2, <2>1 DEF WordEntry
<1>4. /\ Len(pipe0') = N + 1 /\ pipe0'[N + 1] = e
      /\ \A i \in 1..N : pipe0'[i] = pipe0[i]
  BY <1>0, <1>1, <1>2, <1>3, Pushed
<1>5. /\ ~ fence /\ ~ bpuInit /\ ver' = ver /\ iresp' = iresp /\ Epochs' = Epochs
      /\ ireq' = Append(ireq, [word |-> w, ep |-> Epochs, kind |-> "fetch"])
  BY <1>0 DEF GenNextPc, Send, Epochs, epochVars, progVars
<1>6. PICK q \in Request : Fetches(q) /\ q.ep = Epochs /\ ireq' = Append(ireq, q)
  <2>1. [word |-> w, ep |-> Epochs, kind |-> "fetch"] \in Request
    BY <1>0 DEF Request
  <2>2. QED
    BY <1>5, <2>1 DEF Fetches
<1>7. ASSUME NEW i \in 1..(N + 1)
      PROVE  Stop(i)' = Stop(i) /\ (i \in longer <=> i \in tails)
  <2>1. i # N + 2
    BY <1>0, <1>7
  <2>2. i \in longer <=> i \in tails
    BY <1>0, <2>1
  <2>3. CASE i \in 1..N
    <3>1. i \in 1..Len(pipe0') /\ pipe0'[i] = pipe0[i]
      BY <1>0, <1>4, <2>3
    <3>2. QED
      BY <1>0, <2>2, <2>3, <3>1 DEF Stop
  <2>4. CASE i = N + 1
    <3>1. i \in 1..Len(pipe0') /\ i \notin 1..N /\ pipe0'[i] = e
      BY <1>0, <1>4, <2>4
    <3>2. Stop(i)' = 2 * w + (IF IsHi(pc) THEN 1 ELSE 0) /\ Stop(i) = pc
      BY <1>0, <1>3, <3>1 DEF Stop
    <3>3. QED
      BY <1>0, <2>2, <3>2, Neighbours
  <2>5. QED
    BY <1>0, <2>3, <2>4
<1>8. Split(n)'
  <2>1. /\ Len(ireq') = Len(ireq) + 1 /\ ireq'[Len(ireq) + 1] = q
        /\ \A k \in 1..Len(ireq) : ireq'[k] = ireq[k]
    BY <1>0, <1>6, Pushed
  <2>2. ASSUME NEW k \in 1..Len(ireq) PROVE Due(ireq', k) = Due(ireq, k)
    <3>1. k \in Nat /\ \A j \in 1..k : ireq'[j] = ireq[j]
      BY <2>1
    <3>2. QED
      BY <3>1, DueAlike
  <2>3. Len(iresp) + Due(ireq', Len(ireq) + 1) = N + 1
    <3>1. \A j \in 1..Len(ireq) : ireq'[j] = ireq[j]
      BY <2>1
    <3>2. Due(ireq', Len(ireq)) = Due(ireq, Len(ireq))
      BY <1>0, <3>1, DueAlike
    <3>3. Due(ireq', Len(ireq) + 1) = Due(ireq', Len(ireq)) + 1
      BY <1>0, <1>6, <2>1, DueStep
    <3>4. N = Len(iresp) + Due(ireq, Len(ireq)) /\ Due(ireq, Len(ireq)) \in Nat
      BY <1>0, WordCounts
    <3>5. QED
      BY <1>0, <3>2, <3>3, <3>4
  <2>4. ASSUME NEW k \in 1..Len(ireq'), Fetches(ireq'[k])
        PROVE  ireq'[k].ep = Epochs <=> Len(iresp) + Due(ireq', k) > n
    <3>1. CASE k \in 1..Len(ireq)
      BY <2>1, <2>2, <2>4, <3>1 DEF Route, Split
    <3>2. CASE k = Len(ireq) + 1
      <4>1. N + 1 > n
        BY <1>0
      <4>2. QED
        BY <1>6, <2>1, <2>3, <3>2, <4>1
    <3>3. QED
      BY <1>0, <2>1, <3>1, <3>2
  <2>5. n \in 0 .. Len(pipe0')
    BY <1>0, <1>4
  <2>6. QED
    BY <1>5, <2>4, <2>5 DEF Route, Split
<1>9. ASSUME NEW i \in 1..N, i > n PROVE Link(longer, i)'
  <2>1. i \in 1..(N + 1) /\ i + 1 \in 1..(N + 1) /\ pipe0'[i] = pipe0[i]
    BY <1>0, <1>4
  <2>2. Stop(i)' = Stop(i) /\ (i \in longer <=> i \in tails)
    BY <1>7, <2>1
  <2>3. Stop(i + 1)' = Stop(i + 1) /\ (i + 1 \in longer <=> i + 1 \in tails)
    BY <1>7, <2>1
  <2>4. Link(tails, i)
    BY <1>0, <1>9 DEF Route
  <2>5. QED
    BY <1>5, <2>1, <2>2, <2>3, <2>4, LinkAlike
<1>10. /\ N + 1 \in longer <=> delayed # <<>>
       /\ N + 2 \in longer <=> delayed' # <<>>
  <2>1. N + 1 \in longer <=> N + 1 \in tails
    BY <1>0, <1>7
  <2>2. N + 1 \in tails <=> delayed # <<>>
    BY <1>0 DEF Route
  <2>3. N + 2 \in Nat
    OBVIOUS
  <2>4. QED
    BY <1>0, <2>1, <2>2, <2>3
<1>11. Stop(N + 1)' = pc /\ Stop(N + 2)' = pc'
  <2>1. N + 1 \in 1..(N + 1) /\ N + 1 \notin 1..N /\ N + 2 \notin 1..Len(pipe0')
    BY <1>0, <1>4
  <2>2. Stop(N + 1)' = Stop(N + 1)
    BY <1>7, <2>1
  <2>3. QED
    BY <1>0, <2>1, <2>2 DEF Stop
<1> DEFINE a == 2 * w + (IF r.hi THEN 1 ELSE 0)
<1>12. a \in Half /\ a = (IF r.hi THEN 2 * w + 1 ELSE 2 * w)
  BY <1>0, JumpInHalf
<1>13. (N + 1) + 1 = N + 2 /\ N + 1 \in Nat
  OBVIOUS
<1>14. ASSUME delayed # <<>>
       PROVE  Link(longer, N + 1)' /\ (\A i \in 1..Len(delayed) : TailOf(pc, delayed[i]))'
  <2>1. /\ pc' = Head(delayed) /\ delayed' = <<>>
        /\ Head(delayed) = delayed[1] /\ 1 \in 1..Len(delayed)
    BY <1>1, <1>14, Popped DEF NextPc, FetchTypeOK
  <2>2. TailOf(pc, pc')
    BY <2>1 DEF Route
  <2>3. TailOf(Stop(N + 1), Stop(N + 2))'
    BY <1>5, <1>11, <2>2 DEF TailOf
  <2>4. Link(longer, N + 1)'
    BY <1>10, <1>13, <1>14, <2>1, <2>3 DEF Link
  <2>5. QED
    BY <2>1, <2>4
<1>15. ASSUME delayed = <<>>, ~ r.pred
       PROVE  Link(longer, N + 1)' /\ (\A i \in 1..Len(delayed) : TailOf(pc, delayed[i]))'
  <2>1. pc' = Plus(2 * w, 2) /\ delayed' = <<>>
    BY <1>0, <1>1, <1>15 DEF NextPc
  <2>2. Link(longer, N + 1)'
    BY <1>3, <1>4, <1>10, <1>11, <1>13, <1>15, <2>1 DEF Link
  <2>3. QED
    BY <2>1, <2>2
<1>16. ASSUME delayed = <<>>, r.pred
       PROVE  Link(longer, N + 1)' /\ (\A i \in 1..Len(delayed) : TailOf(pc, delayed[i]))'
  <2>1. /\ a \in Starts[ver]
        /\ r.instr16 = ~ Code[ver][a].long
        /\ r.target \in PredictedTargets(ver, a)
        /\ IsHi(pc) => r.hi
    BY <1>0, <1>5, <1>16, PredictionTrue
  <2>2. /\ (JumpOf(pipe0[N + 1]))' = a
        /\ (Crosses(pipe0[N + 1]) <=> r.hi /\ Code[ver][2 * w + 1].long)'
    BY <1>3, <1>4, <1>5 DEF JumpOf, Crosses
  <2>3. r.hi => a = 2 * w + 1
    BY <1>12
  <2>4. EdgeCase(r) <=> r.hi /\ Code[ver][2 * w + 1].long
    BY <2>1, <2>3 DEF EdgeCase
  <2>5. CASE EdgeCase(r)
    <3>1. pc' = Plus(2 * w, 2) /\ delayed' = <<r.target>>
      BY <1>0, <1>1, <1>16, <2>5 DEF NextPc
    <3>2. Link(longer, N + 1)'
      BY <1>3, <1>4, <1>5, <1>10, <1>11, <1>13, <1>16, <2>1, <2>2, <2>4, <2>5, <3>1 DEF Link
    <3>3. TailOf(pc, r.target)'
      <4>1. ASSUME NEW b \in Half, Plus(b, 1) = pc' PROVE b = a
        <5>1. a = 2 * w + 1 /\ a \in Half /\ Plus(2 * w + 1, 1) = Plus(2 * w, 2)
          BY <1>12, <2>3, <2>5, Neighbours DEF EdgeCase
        <5>2. QED
          BY <3>1, <4>1, <5>1, Neighbours
      <4>2. QED
        BY <1>5, <2>1, <4>1 DEF TailOf
    <3>4. QED
      BY <3>1, <3>2, <3>3
  <2>6. CASE ~ EdgeCase(r)
    <3>1. pc' = r.target /\ delayed' = <<>>
      BY <1>0, <1>1, <1>16, <2>6 DEF NextPc
    <3>2. Link(longer, N + 1)'
      BY <1>3, <1>4, <1>5, <1>10, <1>11, <1>13, <1>16, <2>1, <2>2, <2>4, <2>6, <3>1 DEF Link
    <3>3. QED
      BY <3>1, <3>2
  <2>7. QED
    BY <2>5, <2>6
<1>17. Link(longer, N + 1)' /\ (\A i \in 1..Len(delayed) : TailOf(pc, delayed[i]))'
  BY <1>14, <1>15, <1>16
<1>18. ASSUME NEW i \in 1..Len(pipe0'), i > n PROVE Link(longer, i)'
  <2>1. i \in 1..N \/ i = N + 1
    BY <1>0, <1>4
  <2>2. QED
    BY <1>9, <1>17, <1>18, <2>1
<1>19. (Len(pipe0') + 1 \in longer) <=> (delayed' # <<>>)
  BY <1>4, <1>10, <1>13
<1>20. QED
  BY <1>0, <1>7, <1>8, <1>17, <1>18, <1>19 DEF Route

-----------------------------------------------------------------------------
(* What stage1 makes of a word                                                *)

Base ==
  /\ FetchTypeOK /\ PairedByOrder
  /\ EpochInv /\ FenceInv /\ CodeInv /\ KeptInv /\ FaultInv
  /\ AnswersTrue

LEMMA FirstWord ==
  ASSUME Base, ProcessInstruction, NEW n \in Nat, NEW tails, Route(n, tails)
  PROVE  /\ pipe0[1] = FromStage0 /\ FromStage0 \in WordEntry /\ Resp \in Answer
         /\ Resp.word = FromStage0.word /\ FromStage0.word \in Word
         /\ Resp.ep = Epochs <=> n = 0
         /\ Stop(1) = (IF FromStage0.discard THEN 2 * FromStage0.word + 1 ELSE 2 * FromStage0.word)
         /\ Resp.trap => ~ Resp.lo /\ ~ Resp.hi
         /\ n = 0 =>
              /\ Link(tails, 1)
              /\ Resp.ver = ver
              /\ ~ Resp.trap => /\ Resp.lo = Code[ver][2 * FromStage0.word].long
                                /\ Resp.hi = Code[ver][2 * FromStage0.word + 1].long
<1>1. FetchTypeOK /\ PairedByOrder /\ CodeInv /\ FaultInv /\ AnswersTrue
  BY DEF Base
<1>2. /\ pipe0 # <<>> /\ iresp # <<>> /\ Resp \in Answer /\ FromStage0 \in WordEntry
      /\ pipe0 \in Seq(WordEntry) /\ iresp \in Seq(Answer)
  BY <1>1, ProcessShape, EpochValues DEF FetchTypeOK
<1>3. pipe0[1] = FromStage0 /\ 1 \in 1..Len(pipe0)
  BY <1>2, Popped DEF FromStage0
<1>4. iresp[1] = Resp /\ 1 \in 1..Len(iresp)
  BY <1>2, Popped DEF Resp
<1>5. Resp.word = FromStage0.word
  BY <1>1, HeadsPaired
<1>6. FromStage0.word \in Word /\ FromStage0.discard \in BOOLEAN
  BY <1>2 DEF WordEntry
<1>7. Resp.ep = Epochs <=> n = 0
  <2>1. Resp.ep = Epochs <=> 1 > n
    BY <1>4 DEF Route, Split
  <2>2. QED
    BY <2>1
<1>8. Stop(1) = (IF FromStage0.discard THEN 2 * FromStage0.word + 1 ELSE 2 * FromStage0.word)
  <2>1. Stop(1) = 2 * FromStage0.word + (IF FromStage0.discard THEN 1 ELSE 0)
    BY <1>3 DEF Stop
  <2>2. QED
    BY <1>6, <2>1, JumpInHalf
<1>9. Resp.trap => ~ Resp.lo /\ ~ Resp.hi
  BY <1>1, <1>4 DEF FaultInv, TellsAnswer
<1>10. ASSUME n = 0
       PROVE  /\ Link(tails, 1)
              /\ Resp.ver = ver
              /\ ~ Resp.trap => /\ Resp.lo = Code[ver][2 * FromStage0.word].long
                                /\ Resp.hi = Code[ver][2 * FromStage0.word + 1].long
  <2>1. Link(tails, 1)
    BY <1>3, <1>10 DEF Route
  <2>2. Resp.ver = ver
    BY <1>1, <1>4, <1>7, <1>10 DEF CodeInv, Current
  <2>3. QED
    BY <1>1, <1>4, <1>5, <2>1, <2>2 DEF AnswersTrue
<1>11. QED
  BY <1>2, <1>3, <1>5, <1>6, <1>7, <1>8, <1>9, <1>10

LEMMA KeptHalf ==
  ASSUME Base, HasPrev
  PROVE  /\ Prev \in HalfEntry /\ Prev.word \in Word /\ PrevPc \in Half /\ PrevPred \in BOOLEAN
         /\ Prev.ver = ver
<1>1. FetchTypeOK /\ CodeInv
  BY DEF Base
<1>2. kept \in Seq(HalfEntry) /\ kept # <<>> /\ Prev.ep = Epochs
  BY <1>1 DEF FetchTypeOK, HasPrev
<1>3. Prev \in HalfEntry /\ kept[1] = Prev /\ 1 \in 1..Len(kept)
  BY <1>2, Popped DEF Prev
<1>4. Prev.ver = ver
  BY <1>1, <1>2, <1>3 DEF CodeInv, Current
<1>5. Prev.word \in Word /\ PrevPred \in BOOLEAN
  BY <1>3 DEF HalfEntry, PrevPred
<1>6. QED
  BY <1>3, <1>4, <1>5, Addresses DEF PrevPc

\* The entry that is passed on.
LEMMA Passed ==
  ASSUME FetchTypeOK, ProcessInstruction,
         NEW at, NEW parts, NEW trap, NEW pred, Enq(at, parts, trap, pred)
  PROVE  \E e \in FetchedEntry :
           /\ pipe1' = Append(pipe1, e)
           /\ e.pc = at /\ e.parts = parts /\ e.ep = Epochs /\ e.trap = trap /\ e.pred = pred
<1> DEFINE f == [pc |-> at, parts |-> parts, ep |-> Epochs, trap |-> trap,
                 upperErr |-> receivingUpper /\ Resp.trap, pred |-> pred]
<1>1. PICK e \in FetchedEntry : pipe1' = Append(pipe1, e)
  BY NoEntryLost
<1>2. Append(pipe1, e) = Append(pipe1, f)
  BY <1>1 DEF Enq
<1>3. f = e
  <2> HIDE DEF f
  <2>1. QED
    BY <1>2, SameEntry, EpochValues
<1>4. f.pc = at /\ f.parts = parts /\ f.ep = Epochs /\ f.trap = trap /\ f.pred = pred
  OBVIOUS
<1>5. QED
  BY <1>1, <1>3, <1>4

\* The first word is taken with nothing of it left.
LEMMA CursorSettled ==
  ASSUME NEW moved, kept' = <<>>, 1 \notin moved, Stop(1)' \in Starts[ver], ver' = ver
  PROVE  Cursor(0, moved)' /\ Upcoming(0)' = Stop(1)'
BY DEF Cursor, Upcoming, HasPrev

\* The first word is taken but for its upper half, at which an instruction starts.
LEMMA CursorKept ==
  ASSUME FromStage0 \in WordEntry, FromStage0.word \in Word, pipe0[1] = FromStage0,
         KeepUpperHalf, UNCHANGED <<epochVars, ver>>,
         Resp.hi = Code[ver][2 * FromStage0.word + 1].long,
         NEW tails \in SUBSET Nat, Link(tails, 1), 1 \notin tails,
         NEW moved \in SUBSET Nat, moved = {i \in Nat : i + 1 \in tails},
         Stop(1)' = Stop(2),
         2 * FromStage0.word + 1 \in Starts[ver],
         FromStage0.pred => FromStage0.hi
  PROVE  Cursor(0, moved)' /\ Upcoming(0)' = 2 * FromStage0.word + 1
<1>1. /\ kept' = <<UpperHalf>> /\ kept'[1] = UpperHalf /\ Head(kept') = UpperHalf
      /\ kept' # <<>> /\ Epochs' = Epochs
  BY DEF KeepUpperHalf, UpperHalf, Epochs, epochVars
<1>2. /\ UpperHalf.word = FromStage0.word /\ UpperHalf.long = Resp.hi /\ UpperHalf.ep = Epochs
      /\ UpperHalf.hi = FromStage0.hi /\ UpperHalf.pred = FromStage0.pred
  BY DEF UpperHalf
<1>3. /\ HasPrev' /\ PrevPc' = 2 * FromStage0.word + 1
      /\ (PrevPred' <=> FromStage0.hi /\ FromStage0.pred)
      /\ (Prev.long)' = Resp.hi
  BY <1>1, <1>2 DEF HasPrev, Prev, PrevPc, PrevPred
<1>4. 1 \in moved <=> 2 \in tails
  OBVIOUS
<1>5. Plus(2 * FromStage0.word + 1, 1) = Plus(2 * FromStage0.word, 2)
  BY Neighbours
<1>6. /\ (2 \in tails) <=> (FromStage0.hi /\ FromStage0.pred /\ Resp.hi)
      /\ IF FromStage0.hi /\ FromStage0.pred /\ ~ Resp.hi
         THEN Stop(2) \in PredictedTargets(ver, 2 * FromStage0.word + 1)
         ELSE Stop(2) = Plus(2 * FromStage0.word + 1, 1)
  <2>1. JumpOf(FromStage0) = IF FromStage0.hi THEN 2 * FromStage0.word + 1 ELSE 2 * FromStage0.word
    BY JumpInHalf DEF JumpOf
  <2>2. Crosses(FromStage0) <=> FromStage0.hi /\ Resp.hi
    BY DEF Crosses
  <2>3. 1 + 1 = 2
    OBVIOUS
  <2>4. \/ 2 \notin tails /\ ~ FromStage0.pred /\ Stop(2) = Plus(2 * FromStage0.word, 2)
        \/ /\ 2 \notin tails /\ FromStage0.pred /\ ~ Crosses(FromStage0)
           /\ Stop(2) \in PredictedTargets(ver, JumpOf(FromStage0))
        \/ /\ 2 \in tails /\ FromStage0.pred /\ Crosses(FromStage0)
           /\ Stop(2) = Plus(2 * FromStage0.word, 2)
    BY <2>3 DEF Link
  <2>5. QED
    BY <1>5, <2>1, <2>2, <2>4
<1>7. 0 + 1 = 1
  OBVIOUS
<1>8. Cursor(0, moved)'
  BY <1>3, <1>4, <1>6, <1>7 DEF Cursor
<1>9. QED
  BY <1>3, <1>8 DEF Upcoming

\* Stage1 passes on e, and behind it all is well with the words to come.
Hands(e, to) ==
  /\ pipe1' = Append(pipe1, e)
  /\ e.ep = Epochs /\ e.pc = Upcoming(0) /\ IsWhole(e)
  /\ ~ e.trap => Cursor(0, to)' /\ Leads(e, Upcoming(0)')

\* What the cases of stage1 rest on.
LEMMA CaseFacts ==
  ASSUME NoOverlap, Base, ProcessInstruction, Resp.ep = Epochs,
         NEW tails \in SUBSET Nat, Route(0, tails), Cursor(0, tails),
         NEW moved \in SUBSET Nat, moved = {i \in Nat : i + 1 \in tails}
  PROVE  /\ ver \in Version /\ ver' = ver /\ UNCHANGED epochVars
         /\ pipe0[1] = FromStage0 /\ FromStage0 \in WordEntry /\ FromStage0.word \in Word
         /\ FromStage0.hi \in BOOLEAN /\ FromStage0.pred \in BOOLEAN /\ Resp.word = FromStage0.word
         /\ 2 * FromStage0.word \in Half /\ 2 * FromStage0.word + 1 \in Half
         /\ Plus(2 * FromStage0.word, 1) = 2 * FromStage0.word + 1
         /\ Plus(2 * FromStage0.word + 1, 1) = Plus(2 * FromStage0.word, 2)
         /\ Stop(1) = (IF FromStage0.discard THEN 2 * FromStage0.word + 1 ELSE 2 * FromStage0.word)
         /\ Resp.trap => ~ Resp.lo /\ ~ Resp.hi
         /\ ~ Resp.trap => /\ Resp.lo = Code[ver][2 * FromStage0.word].long
                           /\ Resp.hi = Code[ver][2 * FromStage0.word + 1].long
         /\ Deq => Stop(1)' = Stop(2)
         /\ 1 \in moved <=> 2 \in tails
         /\ Link(tails, 1)
         /\ \/ /\ 1 \in tails /\ 2 \notin tails /\ TailOf(Stop(1), Stop(2))
            \/ /\ 1 \notin tails /\ 2 \notin tails /\ ~ FromStage0.pred
               /\ Stop(2) = Plus(2 * FromStage0.word, 2)
            \/ /\ 1 \notin tails /\ 2 \notin tails /\ FromStage0.pred /\ ~ Crosses(FromStage0)
               /\ JumpOf(FromStage0) \in Starts[ver]
               /\ FromStage0.discard => FromStage0.hi
               /\ Stop(2) \in PredictedTargets(ver, JumpOf(FromStage0))
            \/ /\ 1 \notin tails /\ 2 \in tails /\ FromStage0.pred /\ Crosses(FromStage0)
               /\ JumpOf(FromStage0) \in Starts[ver]
         /\ JumpOf(FromStage0) = IF FromStage0.hi THEN 2 * FromStage0.word + 1
                                 ELSE 2 * FromStage0.word
<1>0. 0 \in Nat /\ 1 + 1 = 2 /\ 1 \in Nat
  OBVIOUS
<1>1. ver \in Version /\ ver' = ver /\ UNCHANGED <<epochVars, ireq, pc, delayed>>
  BY DEF Base, FetchTypeOK, ProcessInstruction, progVars, stage0Vars
<1>2. /\ pipe0[1] = FromStage0 /\ FromStage0 \in WordEntry /\ Resp.word = FromStage0.word
      /\ FromStage0.word \in Word
      /\ Stop(1) = (IF FromStage0.discard THEN 2 * FromStage0.word + 1 ELSE 2 * FromStage0.word)
      /\ Resp.trap => ~ Resp.lo /\ ~ Resp.hi
      /\ Link(tails, 1)
      /\ ~ Resp.trap => /\ Resp.lo = Code[ver][2 * FromStage0.word].long
                        /\ Resp.hi = Code[ver][2 * FromStage0.word + 1].long
  BY <1>0, FirstWord
<1>3. FromStage0.hi \in BOOLEAN /\ FromStage0.pred \in BOOLEAN
  BY <1>2 DEF WordEntry
<1>4. /\ 2 * FromStage0.word \in Half /\ 2 * FromStage0.word + 1 \in Half
      /\ Plus(2 * FromStage0.word, 1) = 2 * FromStage0.word + 1
      /\ Plus(2 * FromStage0.word + 1, 1) = Plus(2 * FromStage0.word, 2)
  BY <1>2, Addresses, Neighbours
<1>5. Deq => Stop(1)' = Stop(2)
  <2> SUFFICES ASSUME Deq PROVE Stop(1)' = Stop(2)
    OBVIOUS
  <2>1. FetchTypeOK /\ PairedByOrder /\ pipe0 # <<>> /\ iresp # <<>>
    BY DEF Base, ProcessInstruction
  <2>2. \A i \in Nat : i >= 1 => Stop(i)' = Stop(i + 1)
    BY <1>0, <1>1, <2>1, RouteTaken
  <2>3. QED
    BY <1>0, <2>2
<1>6. 1 \in moved <=> 2 \in tails
  BY <1>0
<1>7. JumpOf(FromStage0) = IF FromStage0.hi THEN 2 * FromStage0.word + 1 ELSE 2 * FromStage0.word
  BY <1>2, JumpInHalf DEF JumpOf
<1>8. \/ /\ 1 \in tails /\ 2 \notin tails /\ TailOf(Stop(1), Stop(2))
      \/ /\ 1 \notin tails /\ 2 \notin tails /\ ~ FromStage0.pred
         /\ Stop(2) = Plus(2 * FromStage0.word, 2)
      \/ /\ 1 \notin tails /\ 2 \notin tails /\ FromStage0.pred /\ ~ Crosses(FromStage0)
         /\ JumpOf(FromStage0) \in Starts[ver]
         /\ FromStage0.discard => FromStage0.hi
         /\ Stop(2) \in PredictedTargets(ver, JumpOf(FromStage0))
      \/ /\ 1 \notin tails /\ 2 \in tails /\ FromStage0.pred /\ Crosses(FromStage0)
         /\ JumpOf(FromStage0) \in Starts[ver]
  BY <1>0, <1>2 DEF Link
<1>9. QED
  BY <1>1, <1>2, <1>3, <1>4, <1>5, <1>6, <1>7, <1>8

LEMMA JoinHands ==
  ASSUME NoOverlap, Base, ProcessInstruction, Resp.ep = Epochs, HasPrev, JoinHalves,
         NEW tails \in SUBSET Nat, Route(0, tails), Cursor(0, tails),
         NEW moved \in SUBSET Nat, moved = {i \in Nat : i + 1 \in tails}
  PROVE  \E e \in FetchedEntry : Hands(e, moved)
<1>1. PICK w \in Word : w = FromStage0.word
  BY CaseFacts
<1>2. /\ PrevPc \in Half /\ PrevPc = 2 * Prev.word + 1 /\ Prev.word \in Word
      /\ PrevPc \in Starts[ver] /\ Code[ver][PrevPc].long
      /\ 1 \in tails <=> PrevPred
      /\ Stop(1) = Plus(PrevPc, 1)
  <2>1. 0 + 1 = 1
    OBVIOUS
  <2>2. Prev.long
    BY DEF JoinHalves
  <2>3. QED
    BY <2>1, <2>2, KeptHalf DEF Cursor, PrevPc
<1>3. Stop(1) = 2 * w
  <2>1. ~ IsHi(Plus(PrevPc, 1)) /\ IsHi(2 * w + 1)
    BY <1>2, Neighbours
  <2>2. QED
    BY <1>1, <1>2, <2>1, CaseFacts
<1>4. PICK e \in FetchedEntry :
        /\ pipe1' = Append(pipe1, e)
        /\ e.pc = PrevPc /\ e.parts = <<PrevPart, Part(Resp.word, 0, Resp.ver)>> /\ e.ep = Epochs
        /\ e.trap = Resp.trap /\ e.pred = PrevPred
  BY Passed DEF JoinHalves, Base
<1>5. IsWhole(e)
  <2>1. /\ e.parts[1].at = 2 * Prev.word + 1 /\ e.parts[2].at = 2 * w + 0
        /\ Len(e.parts) = 2
    BY <1>1, <1>4, CaseFacts DEF PrevPart, Part
  <2>2. 2 * w + 0 = 2 * w
    BY DEF Word
  <2>3. Length(ver, PrevPc) = 2
    BY <1>2 DEF Length
  <2>4. QED
    BY <1>2, <1>3, <1>4, <2>1, <2>2, <2>3 DEF IsWhole
<1>6. ASSUME PrevPred PROVE Cursor(0, moved)' /\ Leads(e, Upcoming(0)')
  <2>1. 2 \notin tails /\ TailOf(Stop(1), Stop(2))
    BY <1>2, <1>6, CaseFacts
  <2>2. Stop(2) \in PredictedTargets(ver, PrevPc)
    BY <1>2, <2>1 DEF TailOf
  <2>3. Stop(2) \in Starts[ver]
    BY <1>2, <2>2, CaseFacts, StartFacts
  <2>4. Deq /\ kept' = <<>>
    BY <1>6 DEF JoinHalves, Settle
  <2>5. Stop(1)' = Stop(2) /\ 1 \notin moved /\ ver' = ver
    BY <2>1, <2>4, CaseFacts
  <2>6. Cursor(0, moved)' /\ Upcoming(0)' = Stop(1)'
    BY <2>3, <2>4, <2>5, CursorSettled
  <2>7. QED
    BY <1>4, <1>6, <2>2, <2>5, <2>6 DEF Leads
<1>7. ASSUME ~ PrevPred, ~ Resp.trap PROVE Cursor(0, moved)' /\ Leads(e, Upcoming(0)')
  <2>1. Plus(PrevPc, 2) = 2 * w + 1
    BY <1>1, <1>2, <1>3, Neighbours, CaseFacts
  <2>2. Length(ver, PrevPc) = 2
    BY <1>2 DEF Length
  <2>3. 2 * w + 1 \in Starts[ver] /\ 2 * w \notin Starts[ver]
    BY <1>2, <1>3, <2>1, <2>2, CaseFacts, StartFacts
  <2>4. FromStage0.pred => FromStage0.hi
    BY <1>1, <1>2, <1>7, <2>3, CaseFacts
  <2>5. KeepUpperHalf /\ Deq
    BY <1>7 DEF JoinHalves
  <2>6. /\ FromStage0 \in WordEntry /\ FromStage0.word \in Word /\ pipe0[1] = FromStage0
        /\ UNCHANGED <<epochVars, ver>>
        /\ Resp.hi = Code[ver][2 * FromStage0.word + 1].long
        /\ Link(tails, 1) /\ 1 \notin tails /\ Stop(1)' = Stop(2)
    BY <1>2, <1>7, <2>5, CaseFacts
  <2>7. 2 * FromStage0.word + 1 \in Starts[ver]
    BY <1>1, <2>3
  <2>8. Cursor(0, moved)' /\ Upcoming(0)' = 2 * FromStage0.word + 1
    BY <2>4, <2>5, <2>6, <2>7, CursorKept
  <2>9. QED
    BY <1>1, <1>4, <1>7, <2>1, <2>2, <2>8 DEF Leads
<1>8. e.pc = Upcoming(0)
  BY <1>4 DEF Upcoming
<1>9. QED
  BY <1>4, <1>5, <1>6, <1>7, <1>8 DEF Hands

LEMMA PrevHands ==
  ASSUME NoOverlap, Base, ProcessInstruction, Resp.ep = Epochs, HasPrev, TakePrev,
         NEW tails \in SUBSET Nat, Route(0, tails), Cursor(0, tails)
  PROVE  \E e \in FetchedEntry : Hands(e, tails)
<1>1. ver \in Version /\ ver' = ver /\ pipe0' = pipe0 /\ pc' = pc /\ kept' = <<>>
  BY DEF Base, FetchTypeOK, ProcessInstruction, progVars, stage0Vars, TakePrev, Settle
<1>2. /\ PrevPc \in Half /\ PrevPc = 2 * Prev.word + 1 /\ Prev.word \in Word
      /\ PrevPc \in Starts[ver] /\ ~ Code[ver][PrevPc].long
      /\ 1 \notin tails
      /\ IF PrevPred THEN Stop(1) \in PredictedTargets(ver, PrevPc) ELSE Stop(1) = Plus(PrevPc, 1)
  <2>1. 0 + 1 = 1
    OBVIOUS
  <2>2. ~ Prev.long
    BY DEF TakePrev
  <2>3. QED
    BY <2>1, <2>2, KeptHalf DEF Cursor, PrevPc
<1>3. PICK e \in FetchedEntry :
        /\ pipe1' = Append(pipe1, e)
        /\ e.pc = PrevPc /\ e.parts = <<PrevPart>> /\ e.ep = Epochs
        /\ e.trap = FALSE /\ e.pred = PrevPred
  <2>1. PICK none : none = FALSE
    OBVIOUS
  <2>2. FetchTypeOK /\ Enq(PrevPc, <<PrevPart>>, none, PrevPred)
    BY <2>1 DEF TakePrev, Base
  <2>3. \E e \in FetchedEntry :
          /\ pipe1' = Append(pipe1, e)
          /\ e.pc = PrevPc /\ e.parts = <<PrevPart>> /\ e.ep = Epochs
          /\ e.trap = none /\ e.pred = PrevPred
    BY <2>2, Passed
  <2>4. QED
    BY <2>1, <2>3
<1>4. Length(ver, PrevPc) = 1
  BY <1>2 DEF Length
<1>5. IsWhole(e)
  <2>1. e.parts[1].at = 2 * Prev.word + 1 /\ Len(e.parts) = 1
    BY <1>3 DEF PrevPart, Part
  <2>2. QED
    BY <1>2, <1>3, <1>4, <2>1 DEF IsWhole
<1>6. Stop(1) \in Starts[ver] /\ Leads(e, Stop(1))
  <2>1. CASE PrevPred
    BY <1>1, <1>2, <1>3, <2>1, StartFacts DEF Leads
  <2>2. CASE ~ PrevPred
    BY <1>1, <1>2, <1>3, <1>4, <2>2, StartFacts DEF Leads
  <2>3. QED
    BY <2>1, <2>2
<1>7. Stop(1)' = Stop(1)
  BY <1>1 DEF Stop
<1>8. Cursor(0, tails)' /\ Upcoming(0)' = Stop(1)'
  BY <1>1, <1>2, <1>6, <1>7, CursorSettled
<1>9. e.pc = Upcoming(0)
  BY <1>3 DEF Upcoming
<1>10. QED
  BY <1>3, <1>5, <1>6, <1>7, <1>8, <1>9 DEF Hands

\* The words of a step without a kept half.
LEMMA FreshFacts ==
  ASSUME NoOverlap, Base, ProcessInstruction, Resp.ep = Epochs, ~ HasPrev,
         NEW tails \in SUBSET Nat, Route(0, tails), Cursor(0, tails)
  PROVE  /\ 1 \notin tails /\ Stop(1) \in Starts[ver] /\ Upcoming(0) = Stop(1)
         /\ \A p : Code[ver][p].long = FALSE => Length(ver, p) = 1
         /\ \A p : Code[ver][p].long = TRUE => Length(ver, p) = 2
         /\ \A p \in Starts[ver] : p \in Half /\ PredictedTargets(ver, p) \subseteq Starts[ver]
         /\ \A p \in Starts[ver] : Plus(p, Length(ver, p)) \in Starts[ver]
         /\ \A p \in Starts[ver] : Code[ver][p].long => Plus(p, 1) \notin Starts[ver]
<1>1. 0 + 1 = 1
  OBVIOUS
<1>2. 1 \notin tails /\ Stop(1) \in Starts[ver] /\ Upcoming(0) = Stop(1)
  BY <1>1 DEF Cursor, Upcoming
<1>3. ver \in Version
  BY DEF Base, FetchTypeOK
<1>4. QED
  BY <1>2, <1>3, StartFacts DEF Length

\* Only half of an instruction is there: it is kept.
LEMMA UpperKept ==
  ASSUME NoOverlap, Base, ProcessInstruction, Resp.ep = Epochs, ~ HasPrev,
         FromStage0.discard, KeepUpper,
         NEW tails \in SUBSET Nat, Route(0, tails), Cursor(0, tails),
         NEW moved \in SUBSET Nat, moved = {i \in Nat : i + 1 \in tails}
  PROVE  pipe1' = pipe1 /\ Cursor(0, moved)' /\ Upcoming(0)' = Upcoming(0)
<1>1. pipe1' = pipe1 /\ KeepUpperHalf /\ Deq /\ Resp.hi
  BY DEF KeepUpper
<1>2. ~ Resp.trap
  BY <1>1, CaseFacts
<1>3. 1 \notin tails /\ Stop(1) \in Starts[ver] /\ Upcoming(0) = Stop(1)
  BY FreshFacts
<1>4. Stop(1) = 2 * FromStage0.word + 1
  BY CaseFacts
<1>5. FromStage0.pred => FromStage0.hi
  BY <1>3, CaseFacts DEF Crosses
<1>6. /\ FromStage0 \in WordEntry /\ FromStage0.word \in Word /\ pipe0[1] = FromStage0
      /\ UNCHANGED <<epochVars, ver>>
      /\ Resp.hi = Code[ver][2 * FromStage0.word + 1].long
      /\ Link(tails, 1) /\ Stop(1)' = Stop(2)
  BY <1>1, <1>2, CaseFacts
<1>7. 2 * FromStage0.word + 1 \in Starts[ver]
  BY <1>3, <1>4
<1>8. Cursor(0, moved)' /\ Upcoming(0)' = 2 * FromStage0.word + 1
  BY <1>1, <1>3, <1>5, <1>6, <1>7, CursorKept
<1>9. QED
  BY <1>1, <1>3, <1>4, <1>8

LEMMA UpperHands ==
  ASSUME NoOverlap, Base, ProcessInstruction, Resp.ep = Epochs, ~ HasPrev,
         FromStage0.discard, TakeUpper,
         NEW tails \in SUBSET Nat, Route(0, tails), Cursor(0, tails),
         NEW moved \in SUBSET Nat, moved = {i \in Nat : i + 1 \in tails}
  PROVE  \E e \in FetchedEntry : Hands(e, moved)
<1>1. PICK w \in Word : w = FromStage0.word
  BY CaseFacts
<1>2. /\ 1 \notin tails /\ Stop(1) \in Starts[ver] /\ Upcoming(0) = Stop(1)
      /\ Stop(1) = 2 * w + 1
  BY <1>1, FreshFacts, CaseFacts
<1>3. PICK e \in FetchedEntry :
        /\ pipe1' = Append(pipe1, e)
        /\ e.pc = 2 * FromStage0.word + 1 /\ e.parts = <<Part(Resp.word, 1, Resp.ver)>>
        /\ e.ep = Epochs /\ e.trap = Resp.trap /\ e.pred = (FromStage0.hi /\ FromStage0.pred)
  BY Passed DEF TakeUpper, Base
<1>4. ~ Resp.trap => ~ Code[ver][2 * w + 1].long /\ Length(ver, 2 * w + 1) = 1
  <2> SUFFICES ASSUME ~ Resp.trap PROVE ~ Code[ver][2 * w + 1].long
    BY DEF Length
  <2>1. ~ Resp.hi
    BY DEF TakeUpper
  <2>2. QED
    BY <1>1, <2>1, CaseFacts
<1>5. IsWhole(e)
  <2>1. e.parts[1].at = 2 * w + 1 /\ Len(e.parts) = 1
    BY <1>1, <1>3, CaseFacts DEF Part
  <2>2. QED
    BY <1>1, <1>2, <1>3, <1>4, <2>1 DEF IsWhole
<1>6. ASSUME ~ Resp.trap PROVE Cursor(0, moved)' /\ Leads(e, Upcoming(0)')
  <2>1. kept' = <<>> /\ Deq
    BY DEF TakeUpper
  <2>2. 2 \notin tails /\ Stop(2) \in Starts[ver] /\ Leads(e, Stop(2))
    <3>1. CASE FromStage0.pred
      <4>1. ~ Crosses(FromStage0)
        BY <1>1, <1>4, <1>6 DEF Crosses
      <4>2. 2 \notin tails /\ FromStage0.hi /\ Stop(2) \in PredictedTargets(ver, JumpOf(FromStage0))
        BY <1>2, <3>1, <4>1, CaseFacts
      <4>3. JumpOf(FromStage0) = 2 * w + 1
        BY <1>1, <4>2, CaseFacts
      <4>4. QED
        <5>1. e.pc = 2 * w + 1 /\ e.pred
          BY <1>1, <1>3, <3>1, <4>2
        <5>2. PredictedTargets(ver, 2 * w + 1) \subseteq Starts[ver]
          BY <1>2, FreshFacts
        <5>3. QED
          BY <4>2, <4>3, <5>1, <5>2 DEF Leads
    <3>2. CASE ~ FromStage0.pred
      <4>1. 2 \notin tails /\ Stop(2) = Plus(2 * w + 1, 1)
        BY <1>1, <1>2, <3>2, CaseFacts
      <4>2. Plus(2 * w + 1, Length(ver, 2 * w + 1)) \in Starts[ver]
        BY <1>2, FreshFacts
      <4>3. QED
        BY <1>1, <1>3, <1>4, <1>6, <3>2, <4>1, <4>2 DEF Leads
    <3>3. QED
      BY <3>1, <3>2
  <2>3. Stop(1)' = Stop(2) /\ 1 \notin moved /\ ver' = ver
    BY <2>1, <2>2, CaseFacts
  <2>4. Cursor(0, moved)' /\ Upcoming(0)' = Stop(1)'
    BY <2>1, <2>2, <2>3, CursorSettled
  <2>5. QED
    BY <2>2, <2>3, <2>4
<1>7. QED
  BY <1>1, <1>2, <1>3, <1>5, <1>6 DEF Hands

LEMMA WordHands ==
  ASSUME NoOverlap, Base, ProcessInstruction, Resp.ep = Epochs, ~ HasPrev,
         ~ FromStage0.discard, TakeWord,
         NEW tails \in SUBSET Nat, Route(0, tails), Cursor(0, tails),
         NEW moved \in SUBSET Nat, moved = {i \in Nat : i + 1 \in tails}
  PROVE  \E e \in FetchedEntry : Hands(e, moved)
<1>1. PICK w \in Word : w = FromStage0.word
  BY CaseFacts
<1>2. /\ 1 \notin tails /\ Stop(1) \in Starts[ver] /\ Upcoming(0) = Stop(1)
      /\ Stop(1) = 2 * w
  BY <1>1, FreshFacts, CaseFacts
<1>3. PICK e \in FetchedEntry :
        /\ pipe1' = Append(pipe1, e)
        /\ e.pc = 2 * FromStage0.word
        /\ e.parts = <<Part(Resp.word, 0, Resp.ver), Part(Resp.word, 1, Resp.ver)>>
        /\ e.ep = Epochs /\ e.trap = Resp.trap /\ e.pred = FromStage0.pred
  BY Passed DEF TakeWord, Base
<1>4. Code[ver][2 * w].long /\ Length(ver, 2 * w) = 2 /\ 2 * w + 1 \notin Starts[ver]
  <2>1. Code[ver][2 * w].long
    BY <1>1, CaseFacts DEF TakeWord
  <2>2. QED
    <3>1. Plus(2 * w, 1) = 2 * w + 1
      BY Neighbours
    <3>2. 2 * w + 1 \notin Starts[ver]
      <4>1. \A p \in Starts[ver] : Code[ver][p].long => Plus(p, 1) \notin Starts[ver]
        BY FreshFacts
      <4>2. QED
        BY <1>2, <2>1, <3>1, <4>1
    <3>3. QED
      BY <2>1, <3>2 DEF Length
<1>5. IsWhole(e)
  <2>0. Resp.word = w
    BY <1>1, CaseFacts
  <2>1. e.parts[1].at = 2 * w + 0 /\ e.parts[2].at = 2 * w + 1 /\ Len(e.parts) = 2
    BY <1>3, <2>0 DEF Part
  <2>2. 2 * w + 0 = 2 * w /\ Plus(2 * w, 1) = 2 * w + 1
    BY Neighbours DEF Word
  <2>3. QED
    BY <1>1, <1>2, <1>3, <1>4, <2>1, <2>2 DEF IsWhole
<1>6. Cursor(0, moved)' /\ Leads(e, Upcoming(0)')
  <2>1. kept' = <<>> /\ Deq
    BY DEF TakeWord
  <2>2. 2 \notin tails /\ Stop(2) \in Starts[ver] /\ Leads(e, Stop(2))
    <3>1. CASE FromStage0.pred
      <4>1. JumpOf(FromStage0) \in Starts[ver]
        BY <1>2, <3>1, CaseFacts
      <4>2. ~ FromStage0.hi /\ JumpOf(FromStage0) = 2 * w
        BY <1>1, <1>4, <4>1, CaseFacts
      <4>3. ~ Crosses(FromStage0)
        BY <4>2 DEF Crosses
      <4>4. 2 \notin tails /\ Stop(2) \in PredictedTargets(ver, JumpOf(FromStage0))
        BY <1>2, <3>1, <4>3, CaseFacts
      <4>5. QED
        BY <1>1, <1>2, <1>3, <3>1, <4>2, <4>4, FreshFacts DEF Leads
    <3>2. CASE ~ FromStage0.pred
      <4>1. 2 \notin tails /\ Stop(2) = Plus(2 * w, 2)
        BY <1>1, <1>2, <3>2, CaseFacts
      <4>2. Plus(2 * w, Length(ver, 2 * w)) \in Starts[ver]
        BY <1>2, FreshFacts
      <4>3. QED
        BY <1>1, <1>3, <1>4, <3>2, <4>1, <4>2 DEF Leads
    <3>3. QED
      BY <3>1, <3>2
  <2>3. Stop(1)' = Stop(2) /\ 1 \notin moved /\ ver' = ver
    BY <2>1, <2>2, CaseFacts
  <2>4. Cursor(0, moved)' /\ Upcoming(0)' = Stop(1)'
    BY <2>1, <2>2, <2>3, CursorSettled
  <2>5. QED
    BY <2>2, <2>3, <2>4
<1>7. QED
  BY <1>1, <1>2, <1>3, <1>5, <1>6 DEF Hands

LEMMA LowerHands ==
  ASSUME NoOverlap, Base, ProcessInstruction, Resp.ep = Epochs, ~ HasPrev,
         ~ FromStage0.discard, TakeLower,
         NEW tails \in SUBSET Nat, Route(0, tails), Cursor(0, tails),
         NEW moved \in SUBSET Nat, moved = {i \in Nat : i + 1 \in tails}
  PROVE  \E e \in FetchedEntry : Hands(e, moved)
<1>1. PICK w \in Word : w = FromStage0.word
  BY CaseFacts
<1>2. /\ 1 \notin tails /\ Stop(1) \in Starts[ver] /\ Upcoming(0) = Stop(1)
      /\ Stop(1) = 2 * w
  BY <1>1, FreshFacts, CaseFacts
<1>3. PICK e \in FetchedEntry :
        /\ pipe1' = Append(pipe1, e)
        /\ e.pc = 2 * FromStage0.word /\ e.parts = <<Part(Resp.word, 0, Resp.ver)>>
        /\ e.ep = Epochs /\ e.trap = Resp.trap /\ e.pred = LowerPred
  BY Passed DEF TakeLower, Base
<1>4. ~ Resp.trap => ~ Code[ver][2 * w].long /\ Length(ver, 2 * w) = 1
  <2> SUFFICES ASSUME ~ Resp.trap PROVE ~ Code[ver][2 * w].long
    BY DEF Length
  <2>1. ~ Resp.lo
    BY DEF TakeLower
  <2>2. QED
    BY <1>1, <2>1, CaseFacts
<1>5. IsWhole(e)
  <2>0. Resp.word = w
    BY <1>1, CaseFacts
  <2>1. e.parts[1].at = 2 * w + 0 /\ Len(e.parts) = 1
    BY <1>3, <2>0 DEF Part
  <2>2. 2 * w + 0 = 2 * w
    BY DEF Word
  <2>3. QED
    BY <1>1, <1>2, <1>3, <1>4, <2>1, <2>2 DEF IsWhole
<1>6. ASSUME ~ Resp.trap PROVE Cursor(0, moved)' /\ Leads(e, Upcoming(0)')
  <2>1. CASE LowerPred
    <3>1. kept' = <<>> /\ Deq
      BY <2>1 DEF TakeLower, Settle
    <3>2. ~ FromStage0.hi /\ FromStage0.pred /\ ~ Crosses(FromStage0)
      BY <2>1 DEF LowerPred, Crosses
    <3>3. JumpOf(FromStage0) = 2 * w
      BY <1>1, <3>2, CaseFacts
    <3>4. 2 \notin tails /\ Stop(2) \in PredictedTargets(ver, 2 * w)
      BY <1>2, <3>2, <3>3, CaseFacts
    <3>5. Stop(2) \in Starts[ver] /\ Leads(e, Stop(2))
      BY <1>1, <1>2, <1>3, <2>1, <3>4, FreshFacts DEF Leads
    <3>6. Stop(1)' = Stop(2) /\ 1 \notin moved /\ ver' = ver
      BY <3>1, <3>4, CaseFacts
    <3>7. Cursor(0, moved)' /\ Upcoming(0)' = Stop(1)'
      BY <3>1, <3>5, <3>6, CursorSettled
    <3>8. QED
      BY <3>5, <3>6, <3>7
  <2>2. CASE ~ LowerPred
    <3>1. KeepUpperHalf /\ Deq
      BY <2>2 DEF TakeLower
    <3>2. FromStage0.pred => FromStage0.hi
      BY <2>2 DEF LowerPred
    <3>3. 2 * w + 1 \in Starts[ver] /\ Plus(2 * w, Length(ver, 2 * w)) = 2 * w + 1
      <4>1. Plus(2 * w, Length(ver, 2 * w)) \in Starts[ver]
        BY <1>2, FreshFacts
      <4>2. Plus(2 * w, 1) = 2 * w + 1
        BY Neighbours
      <4>3. QED
        BY <1>4, <1>6, <4>1, <4>2
    <3>4. /\ FromStage0 \in WordEntry /\ FromStage0.word \in Word /\ pipe0[1] = FromStage0
          /\ UNCHANGED <<epochVars, ver>>
          /\ Resp.hi = Code[ver][2 * FromStage0.word + 1].long
          /\ Link(tails, 1) /\ Stop(1)' = Stop(2)
      BY <1>6, <3>1, CaseFacts
    <3>5. 2 * FromStage0.word + 1 \in Starts[ver]
      BY <1>1, <3>3
    <3>6. Cursor(0, moved)' /\ Upcoming(0)' = 2 * FromStage0.word + 1
      BY <1>2, <3>1, <3>2, <3>4, <3>5, CursorKept
    <3>7. QED
      BY <1>1, <1>3, <2>2, <3>3, <3>6 DEF Leads
  <2>3. QED
    BY <2>1, <2>2
<1>7. QED
  BY <1>1, <1>2, <1>3, <1>5, <1>6 DEF Hands

\* An answer of another epoch is dropped with its word.
LEMMA DropGoesOn ==
  ASSUME Base, ProcessInstruction, DropResponse,
         NEW n \in Nat, n >= 1, NEW tails \in SUBSET Nat, Cursor(n, tails), Resp.ep # Epochs,
         NEW m \in Nat, m = n - 1,
         NEW moved \in SUBSET Nat, moved = {i \in Nat : i + 1 \in tails},
         Stop(n)' = Stop(n + 1)
  PROVE  Cursor(m, moved)' /\ Upcoming(m)' = Upcoming(n)
<1>1. kept' = <<>> /\ NoneOf(kept, Epochs) /\ ver' = ver
  BY ProcessEpochs DEF Base, progVars
<1>2. ~ HasPrev
  <2>1. kept # <<>> => kept[1] = Prev /\ 1 \in 1..Len(kept)
    BY Popped DEF Base, FetchTypeOK, Prev
  <2>2. QED
    BY <1>1, <2>1 DEF HasPrev, NoneOf
<1>3. ~ HasPrev'
  BY <1>1 DEF HasPrev
<1>4. m + 1 = n /\ (m + 1 \in moved <=> n + 1 \in tails)
  OBVIOUS
<1>5. Stop(m + 1)' = Stop(n + 1)
  BY <1>4
<1>6. QED
  BY <1>1, <1>2, <1>3, <1>4, <1>5 DEF Cursor, Upcoming

\* A step of stage1 passes on the next instruction of the path, or nothing.
LEMMA PassesOn ==
  ASSUME NoOverlap, Base, ProcessInstruction,
         NEW n \in Nat, NEW tails \in SUBSET Nat, Route(n, tails), GoesOn(n, tails)
  PROVE  \E m \in Nat : \E to \in SUBSET Nat :
           /\ Route(m, to)'
           /\ \/ /\ pipe1' = pipe1
                 /\ ~ TrapBefore(Len(pipe1) + 1) => Cursor(m, to)' /\ Upcoming(m)' = Upcoming(n)
              \/ \E e \in FetchedEntry :
                   /\ pipe1' = Append(pipe1, e) /\ e.ep = Epochs
                   /\ ~ TrapBefore(Len(pipe1) + 1) =>
                        /\ e.pc = Upcoming(n) /\ IsWhole(e)
                        /\ ~ e.trap => Cursor(m, to)' /\ Leads(e, Upcoming(m)')
<1>0. FetchTypeOK /\ PairedByOrder /\ EpochInv
  BY DEF Base
<1>1. /\ UNCHANGED <<ireq, epochVars, ver, pc, delayed>> /\ pipe0 # <<>> /\ iresp # <<>>
  BY DEF ProcessInstruction, progVars, stage0Vars
<1>2. PICK moved \in SUBSET Nat : moved = {i \in Nat : i + 1 \in tails}
  OBVIOUS
<1>3. Resp.ep = Epochs <=> n = 0
  BY FirstWord
<1>4. CASE Resp.ep # Epochs
  <2>1. DropResponse /\ Deq /\ pipe1' = pipe1 /\ n >= 1
    BY <1>3, <1>4 DEF ProcessInstruction, DropResponse
  <2>2. PICK m \in Nat : m = n - 1 /\ m = (IF n = 0 THEN 0 ELSE n - 1)
    BY <2>1
  <2>3. Route(m, moved)' /\ \A i \in Nat : i >= 1 => Stop(i)' = Stop(i + 1)
    BY <1>0, <1>1, <1>2, <2>1, <2>2, RouteTaken
  <2>4. Stop(n)' = Stop(n + 1)
    BY <2>1, <2>3
  <2>5. ~ TrapBefore(Len(pipe1) + 1) => Cursor(m, moved)' /\ Upcoming(m)' = Upcoming(n)
    BY <1>2, <1>4, <2>1, <2>2, <2>4, DropGoesOn DEF GoesOn
  <2>6. QED
    BY <2>1, <2>3, <2>5
<1>5. CASE Resp.ep = Epochs
  <2>1. n = 0 /\ Route(0, tails)
    BY <1>3, <1>5
  <2>2. ASSUME Deq PROVE Route(0, moved)'
    <3>1. PICK m \in Nat : m = 0 /\ m = (IF n = 0 THEN 0 ELSE n - 1)
      BY <2>1
    <3>2. Route(m, moved)'
      BY <1>0, <1>1, <1>2, <2>2, <3>1, RouteTaken
    <3>3. QED
      BY <3>1, <3>2
  <2>3. ASSUME UNCHANGED <<iresp, pipe0>> PROVE Route(0, tails)'
    <3>1. Split(0)'
      BY <1>1, <2>1, <2>3, SplitStays DEF Route
    <3>2. QED
      BY <1>1, <2>1, <2>3, <3>1, RouteStays
  <2>4. CASE TrapBefore(Len(pipe1) + 1)
    <3>1. PICK to \in SUBSET Nat : Route(0, to)'
      BY <2>2, <2>3, ProcessShape, <1>0
    <3>2. pipe1' = pipe1 \/ \E e \in FetchedEntry : e.ep = Epochs /\ pipe1' = Append(pipe1, e)
      BY <1>0, ProcessShape
    <3>3. QED
      BY <2>1, <2>4, <3>1, <3>2
  <2>5. CASE ~ TrapBefore(Len(pipe1) + 1)
    <3>1. Cursor(0, tails)
      BY <2>1, <2>5 DEF GoesOn
    <3>2. ASSUME NEW to \in SUBSET Nat, Route(0, to)', NEW e \in FetchedEntry, Hands(e, to)
          PROVE  \E q \in SUBSET Nat :
                   /\ Route(0, q)'
                   /\ \E f \in FetchedEntry :
                        /\ pipe1' = Append(pipe1, f) /\ f.ep = Epochs
                        /\ f.pc = Upcoming(0) /\ IsWhole(f)
                        /\ ~ f.trap => Cursor(0, q)' /\ Leads(f, Upcoming(0)')
      <4>1. /\ pipe1' = Append(pipe1, e) /\ e.ep = Epochs
            /\ e.pc = Upcoming(0) /\ IsWhole(e)
            /\ ~ e.trap => Cursor(0, to)' /\ Leads(e, Upcoming(0)')
        BY <3>2 DEF Hands
      <4>2. QED
        BY <3>2, <4>1
    <3>3. ASSUME HasPrev /\ TakePrev
          PROVE  \E to \in SUBSET Nat : Route(0, to)' /\ \E e \in FetchedEntry : Hands(e, to)
      <4>1. UNCHANGED <<iresp, pipe0>>
        BY <3>3 DEF TakePrev
      <4>2. \E e \in FetchedEntry : Hands(e, tails)
        BY <1>5, <2>1, <3>1, <3>3, PrevHands
      <4>3. QED
        BY <2>3, <4>1, <4>2
    <3>4. ASSUME \/ HasPrev /\ JoinHalves
                 \/ ~ HasPrev /\ FromStage0.discard /\ TakeUpper
                 \/ ~ HasPrev /\ ~ FromStage0.discard /\ TakeWord
                 \/ ~ HasPrev /\ ~ FromStage0.discard /\ TakeLower
          PROVE  \E to \in SUBSET Nat : Route(0, to)' /\ \E e \in FetchedEntry : Hands(e, to)
      <4>1. Deq
        BY <3>4 DEF JoinHalves, TakeUpper, TakeWord, TakeLower
      <4>2. \E e \in FetchedEntry : Hands(e, moved)
        <5>1. CASE HasPrev /\ JoinHalves
          BY <1>2, <1>5, <2>1, <3>1, <5>1, JoinHands
        <5>2. CASE ~ HasPrev /\ FromStage0.discard /\ TakeUpper
          BY <1>2, <1>5, <2>1, <3>1, <5>2, UpperHands
        <5>3. CASE ~ HasPrev /\ ~ FromStage0.discard /\ TakeWord
          BY <1>2, <1>5, <2>1, <3>1, <5>3, WordHands
        <5>4. CASE ~ HasPrev /\ ~ FromStage0.discard /\ TakeLower
          BY <1>2, <1>5, <2>1, <3>1, <5>4, LowerHands
        <5>5. QED
          BY <3>4, <5>1, <5>2, <5>3, <5>4
      <4>3. QED
        BY <2>2, <4>1, <4>2
    <3>5. CASE ~ HasPrev /\ FromStage0.discard /\ KeepUpper
      <4>1. Deq
        BY <3>5 DEF KeepUpper
      <4>2. pipe1' = pipe1 /\ Cursor(0, moved)' /\ Upcoming(0)' = Upcoming(0)
        BY <1>2, <1>5, <2>1, <3>1, <3>5, UpperKept
      <4>3. QED
        BY <2>1, <2>2, <4>1, <4>2
    <3>6. CASE ~ (~ HasPrev /\ FromStage0.discard /\ KeepUpper)
      <4>1. PICK to \in SUBSET Nat : Route(0, to)' /\ \E e \in FetchedEntry : Hands(e, to)
        BY <1>5, <3>3, <3>4, <3>6 DEF ProcessInstruction
      <4>2. \E q \in SUBSET Nat :
              /\ Route(0, q)'
              /\ \E f \in FetchedEntry :
                   /\ pipe1' = Append(pipe1, f) /\ f.ep = Epochs
                   /\ f.pc = Upcoming(0) /\ IsWhole(f)
                   /\ ~ f.trap => Cursor(0, q)' /\ Leads(f, Upcoming(0)')
        BY <3>2, <4>1
      <4>3. QED
        BY <2>1, <4>2
    <3>7. QED
      BY <3>5, <3>6
  <2>6. QED
    BY <2>4, <2>5
<1>6. QED
  BY <1>4, <1>5

-----------------------------------------------------------------------------
(* Each step keeps to the path                                                *)

\* A way to go on that has been found.
LEMMA WayFound ==
  ASSUME NEW n \in Nat, NEW tails \in SUBSET Nat, Route(n, tails)', GoesOn(n, tails)'
  PROVE  OnTheWay'
<1>1. n \in 0 .. Len(pipe0')
  BY DEF Route, Split
<1>2. QED
  BY <1>1 DEF OnTheWay

\* With nothing to be kept in front of stage0 the path starts again there.
LEMMA PathFlushed ==
  ASSUME FetchTypeOK, FetchTypeOK', PairedByOrder, UNCHANGED <<pipe0, ireq, iresp>>, NothingLive',
         delayed' = <<>>, pc' = arch', (pc \in Starts[ver])'
  PROVE  Entries' /\ OnTheWay'
<1>1. PICK N \in Nat : N = Len(pipe0)
  BY WordCounts
<1>2. PICK none \in SUBSET Nat : none = {}
  OBVIOUS
<1>3. Route(N, none)' /\ Stop(N + 1)' = pc'
  BY <1>1, <1>2, RouteFlushed
<1>4. /\ \A i \in 1..Len(pipe1') : pipe1'[i].ep # Epochs'
      /\ \A i \in 1..Len(pipe2') : pipe2'[i].ep # Epochs'
      /\ \A i \in 1..Len(kept') : kept'[i].ep # Epochs'
  BY DEF NothingLive, NothingRead, NoneOf
<1>5. pipe2' \in Seq(FetchedEntry) /\ kept' \in Seq(HalfEntry) /\ Len(pipe1') \in Nat
  BY LenProperties DEF FetchTypeOK
<1>6. ~ LiveInExec'
  <2>1. pipe2' # <<>> => Head(pipe2') = pipe2'[1] /\ 1 \in 1..Len(pipe2')
    BY <1>5, Popped
  <2>2. QED
    BY <1>4, <2>1 DEF LiveInExec, InExec
<1>7. ~ HasPrev'
  <2>1. kept' # <<>> => Head(kept') = kept'[1] /\ 1 \in 1..Len(kept')
    BY <1>5, Popped
  <2>2. QED
    BY <1>4, <2>1 DEF HasPrev, Prev
<1>8. Entries'
  BY <1>4, <1>6 DEF Entries
<1>9. Cursor(N, none)' /\ Upcoming(N)' = arch'
  BY <1>2, <1>3, <1>7 DEF Cursor, Upcoming
<1>10. PICK p : p = arch'
  OBVIOUS
<1>11. Reached(Len(pipe1) + 1, p)'
  <2>1. Len(pipe1') + 1 > 1 => (Len(pipe1') + 1) - 1 \in 1..Len(pipe1')
    BY <1>5
  <2>2. QED
    BY <1>4, <1>6, <1>10, <2>1 DEF Reached
<1>12. GoesOn(N, none)'
  BY <1>9, <1>10, <1>11 DEF GoesOn
<1>13. QED
  BY <1>3, <1>8, <1>12, WayFound

\* Stage1 passes on the next instruction.
LEMMA PathProcessed ==
  ASSUME NoOverlap, Base, ProcessInstruction, Entries, OnTheWay
  PROVE  Entries' /\ OnTheWay'
<1>1. PICK n \in 0 .. Len(pipe0), tails \in SUBSET Nat : Route(n, tails) /\ GoesOn(n, tails)
  BY DEF OnTheWay
<1>2. n \in Nat
  OBVIOUS
<1>3. PICK m \in Nat, to \in SUBSET Nat :
        /\ Route(m, to)'
        /\ \/ /\ pipe1' = pipe1
              /\ ~ TrapBefore(Len(pipe1) + 1) => Cursor(m, to)' /\ Upcoming(m)' = Upcoming(n)
           \/ \E e \in FetchedEntry :
                /\ pipe1' = Append(pipe1, e) /\ e.ep = Epochs
                /\ ~ TrapBefore(Len(pipe1) + 1) =>
                     /\ e.pc = Upcoming(n) /\ IsWhole(e)
                     /\ ~ e.trap => Cursor(m, to)' /\ Leads(e, Upcoming(m)')
  BY <1>1, <1>2, PassesOn
<1>4. UNCHANGED <<pipe2, stall, arch, ver, Epochs>>
  BY DEF ProcessInstruction, backVars, progVars, epochVars, Epochs
<1>5. PICK p : p = Upcoming(m)'
  OBVIOUS
<1>6. CASE /\ pipe1' = pipe1
           /\ ~ TrapBefore(Len(pipe1) + 1) => Cursor(m, to)' /\ Upcoming(m)' = Upcoming(n)
  <2>1. Entries'
    BY <1>4, <1>6 DEF Entries, TrapBefore, IsWhole, Reached, Leads, LiveInExec, InExec
  <2>2. ASSUME ~ TrapBefore(Len(pipe1) + 1)' PROVE Cursor(m, to)' /\ Reached(Len(pipe1) + 1, p)'
    <3>1. ~ TrapBefore(Len(pipe1) + 1)
      BY <1>4, <1>6, <2>2 DEF TrapBefore
    <3>2. Cursor(m, to)' /\ Reached(Len(pipe1) + 1, p)
      BY <1>1, <1>5, <1>6, <3>1 DEF GoesOn
    <3>3. QED
      BY <1>4, <1>6, <3>2 DEF Reached, Leads, LiveInExec, InExec
  <2>3. GoesOn(m, to)'
    BY <1>5, <2>2 DEF GoesOn
  <2>4. QED
    BY <1>3, <2>1, <2>3, WayFound
<1>7. ASSUME NEW e \in FetchedEntry, pipe1' = Append(pipe1, e), e.ep = Epochs,
             ~ TrapBefore(Len(pipe1) + 1) =>
               /\ e.pc = Upcoming(n) /\ IsWhole(e)
               /\ ~ e.trap => Cursor(m, to)' /\ Leads(e, Upcoming(m)')
      PROVE  Entries' /\ OnTheWay'
  <2>1. PICK N \in Nat : N = Len(pipe1)
    BY WordCounts DEF Base
  <2>2. /\ Len(pipe1') = N + 1 /\ pipe1'[N + 1] = e
        /\ \A i \in 1..N : pipe1'[i] = pipe1[i]
    BY <1>7, <2>1, Pushed, EpochValues DEF Base
  <2>3. ASSUME NEW i \in 1..(N + 1) PROVE TrapBefore(i)' <=> TrapBefore(i)
    <3>1. \A j \in 1..(N + 1) : j < i => j \in 1..N
      BY <2>1
    <3>2. \A j \in 1..N : j \in 1..(N + 1)
      BY <2>1
    <3>3. QED
      BY <1>4, <2>1, <2>2, <3>1, <3>2 DEF TrapBefore
  <2>4. ASSUME NEW i \in 1..(N + 1), NEW q PROVE Reached(i, q)' <=> Reached(i, q)
    <3>1. i > 1 => i - 1 \in 1..N
      BY <2>1
    <3>2. i > 1 => pipe1'[i - 1] = pipe1[i - 1]
      BY <2>2, <3>1
    <3>3. QED
      BY <1>4, <3>2 DEF Reached, Leads, LiveInExec, InExec
  <2>5. \A f : IsWhole(f)' <=> IsWhole(f)
    BY <1>4 DEF IsWhole
  <2>6. PICK a : a = e.pc
    OBVIOUS
  <2>7. ASSUME ~ TrapBefore(N + 1) PROVE IsWhole(e) /\ Reached(N + 1, a)
    BY <1>1, <1>7, <2>1, <2>6, <2>7 DEF GoesOn
  <2>8. ASSUME NEW i \in 1..(N + 1), pipe1'[i].ep = Epochs, ~ TrapBefore(i)'
        PROVE  (IsWhole(pipe1[i]) /\ Reached(i, pipe1[i].pc))'
    <3>1. ~ TrapBefore(i)
      BY <2>3, <2>8
    <3>2. PICK q : q = pipe1'[i].pc
      OBVIOUS
    <3>3. CASE i \in 1..N
      <4>1. PICK f : f = pipe1[i]
        OBVIOUS
      <4>2. pipe1'[i] = f /\ q = f.pc
        BY <2>2, <3>2, <3>3, <4>1
      <4>3. IsWhole(f) /\ Reached(i, q)
        BY <2>1, <2>8, <1>4, <3>1, <3>3, <4>1, <4>2 DEF Entries
      <4>4. IsWhole(f)' /\ Reached(i, q)'
        BY <2>4, <2>5, <4>3
      <4>5. QED
        BY <3>2, <4>2, <4>4
    <3>4. CASE i = N + 1
      <4>1. pipe1'[i] = e /\ q = a
        BY <2>2, <2>6, <3>2, <3>4
      <4>2. IsWhole(e)' /\ Reached(i, q)'
        BY <2>4, <2>5, <2>7, <3>1, <3>4, <4>1
      <4>3. QED
        BY <3>2, <4>1, <4>2
    <3>5. QED
      BY <3>3, <3>4
  <2>9. (LiveInExec => IsWhole(InExec) /\ InExec.pc = arch /\ (InExec.trap <=> stall))'
    BY <1>4 DEF Entries, IsWhole, LiveInExec, InExec
  <2>10. Entries'
    BY <1>4, <2>2, <2>8, <2>9 DEF Entries
  <2>11. ASSUME ~ TrapBefore(N + 2)' PROVE Cursor(m, to)' /\ Reached(N + 2, p)'
    <3>1. N + 1 \in 1..(N + 1) /\ N + 1 < N + 2 /\ N + 2 > 1 /\ (N + 2) - 1 = N + 1
      BY <2>1
    <3>2. ~ e.trap
      BY <1>4, <1>7, <2>2, <2>11, <3>1 DEF TrapBefore
    <3>3. ~ TrapBefore(N + 1)'
      <4>1. \A j \in 1..(N + 1) : j < N + 1 => j < N + 2
        BY <2>1
      <4>2. QED
        BY <2>2, <2>11, <4>1 DEF TrapBefore
    <3>4. ~ TrapBefore(N + 1)
      BY <2>3, <3>1, <3>3
    <3>5. Cursor(m, to)' /\ Leads(e, p)
      BY <1>5, <1>7, <2>1, <3>2, <3>4
    <3>6. Leads(e, p)'
      BY <1>4, <3>5 DEF Leads
    <3>7. QED
      BY <1>4, <1>7, <2>2, <3>1, <3>5, <3>6 DEF Reached
  <2>12. GoesOn(m, to)'
    <3>1. Len(pipe1') + 1 = N + 2
      BY <2>2
    <3>2. QED
      BY <1>5, <2>11, <3>1 DEF GoesOn
  <2>13. QED
    BY <1>3, <2>10, <2>12, WayFound
<1>8. QED
  BY <1>3, <1>6, <1>7

\* The words on their way have not moved.
LEMMA PathStays ==
  ASSUME UNCHANGED <<pc, delayed, pipe0, ver, kept, epochVars, pipe1, stall>>,
         \A n \in Nat : Split(n) => Split(n)',
         \A p : ~ TrapBefore(Len(pipe1) + 1) /\ Reached(Len(pipe1) + 1, p)
                  => Reached(Len(pipe1) + 1, p)',
         Entries', OnTheWay
  PROVE  Entries' /\ OnTheWay' /\ Continues
<1>1. PICK n \in 0 .. Len(pipe0), tails \in SUBSET Nat : Route(n, tails) /\ GoesOn(n, tails)
  BY DEF OnTheWay
<1>2. n \in Nat /\ n + 1 \in Nat /\ Split(n)'
  BY <1>1 DEF Route
<1>3. Route(n, tails)' /\ Stop(n + 1)' = Stop(n + 1)
  BY <1>1, <1>2, RouteStays
<1>4. (Cursor(n, tails) => Cursor(n, tails)') /\ Upcoming(n)' = Upcoming(n)
  BY <1>3, CursorAlike
<1>5. PICK p : p = Upcoming(n)
  OBVIOUS
<1>6. TrapBefore(Len(pipe1) + 1)' <=> TrapBefore(Len(pipe1) + 1)
  BY DEF TrapBefore, Epochs, epochVars
<1>7. GoesOn(n, tails)'
  <2>1. ~ TrapBefore(Len(pipe1) + 1) => Reached(Len(pipe1) + 1, p)'
    BY <1>1, <1>5 DEF GoesOn
  <2>2. QED
    BY <1>1, <1>4, <1>5, <1>6, <2>1 DEF GoesOn
<1>8. Continues
  BY <1>1, <1>2, <1>4 DEF Continues, Route
<1>9. QED
  BY <1>2, <1>3, <1>7, <1>8, WayFound

\* And neither has what decode and execute have.
LEMMA EntriesStay ==
  ASSUME UNCHANGED <<ver, epochVars, pipe1, pipe2, stall, arch>>
  PROVE  /\ Entries => Entries'
         /\ \A i \in Nat : \A p : Reached(i, p) => Reached(i, p)'
<1>1. \A i \in Nat : \A p : Reached(i, p) => Reached(i, p)'
  BY DEF Reached, Leads, LiveInExec, InExec, Epochs, epochVars
<1>2. Entries => Entries'
  BY DEF Entries, IsWhole, TrapBefore, Reached, Leads, LiveInExec, InExec, Epochs, epochVars
<1>3. QED
  BY <1>1, <1>2

LEMMA PathQuiet ==
  ASSUME FetchTypeOK, PairedByOrder, Entries, OnTheWay,
         GenFence \/ IcacheRespond \/ IcacheFence \/ ClearBtb \/ TrainBtb \/ UNCHANGED vars
  PROVE  Entries' /\ OnTheWay' /\ Continues
<1>0. Len(pipe1) + 1 \in Nat
  BY WordCounts
<1>1. UNCHANGED <<pc, delayed, pipe0, ver, kept, epochVars, pipe1, stall, pipe2, arch>>
  BY RespondShape
     DEF GenFence, IcacheFence, ClearBtb, TrainBtb, vars, stage0Vars, stage1Vars, backVars, progVars
<1>2. ASSUME NEW n \in Nat, Split(n) PROVE Split(n)'
  <2>1. CASE GenFence
    <3>1. PICK r \in Request : ireq' = Append(ireq, r) /\ (Fetches(r) <=> GenNextPc)
      BY <2>1, SendShape
    <3>2. ~ GenNextPc
      BY <2>1 DEF GenNextPc, GenFence
    <3>3. iresp' = iresp
      BY <2>1 DEF GenFence
    <3>4. QED
      BY <1>1, <1>2, <3>1, <3>2, <3>3, SplitFence
  <2>2. CASE IcacheRespond
    <3>1. ireq # <<>> /\ Fetches(Head(ireq)) /\ ireq' = Tail(ireq)
      BY <2>2, RespondShape
    <3>2. \E a \in Answer : a.ep = Head(ireq).ep /\ iresp' = Append(iresp, a)
      BY <2>2, RespondShape
    <3>3. QED
      BY <1>1, <1>2, <3>1, <3>2, SplitTaken
  <2>3. CASE IcacheFence
    <3>1. ireq # <<>> /\ ~ Fetches(Head(ireq)) /\ ireq' = Tail(ireq) /\ iresp' = iresp
      BY <2>3, FenceShape
    <3>2. QED
      BY <1>1, <1>2, <3>1, SplitTaken
  <2>4. CASE ClearBtb \/ TrainBtb \/ UNCHANGED vars
    <3>1. UNCHANGED <<ireq, iresp>>
      BY <2>4, Quiet
    <3>2. QED
      BY <1>1, <1>2, <3>1, SplitStays
  <2>5. QED
    BY <2>1, <2>2, <2>3, <2>4
<1>3. Entries' /\ \A p : Reached(Len(pipe1) + 1, p) => Reached(Len(pipe1) + 1, p)'
  <2>1. /\ Entries => Entries'
        /\ \A i \in Nat : \A p : Reached(i, p) => Reached(i, p)'
    BY <1>1, EntriesStay
  <2>2. PICK k \in Nat : k = Len(pipe1) + 1
    BY <1>0
  <2>3. \A p : Reached(k, p) => Reached(k, p)'
    BY <2>1
  <2>4. k = Len(pipe1') + 1
    BY <1>1, <2>2
  <2>5. QED
    BY <2>1, <2>2, <2>3, <2>4
<1>4. QED
  BY <1>1, <1>2, <1>3, PathStays

\* Stage0 goes on.
LEMMA PathFetched ==
  ASSUME FetchTypeOK, PairedByOrder, BtbTrue, Entries, OnTheWay, GenNextPc
  PROVE  Entries' /\ OnTheWay' /\ Continues
<1>1. PICK n \in 0 .. Len(pipe0), tails \in SUBSET Nat : Route(n, tails) /\ GoesOn(n, tails)
  BY DEF OnTheWay
<1>2. PICK longer \in SUBSET Nat :
        longer = (IF delayed' # <<>> THEN tails \cup {Len(pipe0) + 2} ELSE tails \ {Len(pipe0) + 2})
  <2>1. PICK k \in Nat : k = Len(pipe0) + 2
    BY WordCounts
  <2>2. tails \cup {k} \in SUBSET Nat /\ tails \ {k} \in SUBSET Nat
    OBVIOUS
  <2>3. QED
    BY <2>1, <2>2
<1>3. n \in Nat /\ n + 1 \in 1..(Len(pipe0) + 1)
  BY WordCounts
<1>4. Route(n, longer)' /\ Stop(n + 1)' = Stop(n + 1) /\ (n + 1 \in longer <=> n + 1 \in tails)
  <2>1. /\ Route(n, longer)'
        /\ \A i \in 1..(Len(pipe0) + 1) :
             Stop(i)' = Stop(i) /\ (i \in longer <=> i \in tails)
    <3>1. Route(n, tails)
      BY <1>1
    <3>2. QED
      BY <1>2, <1>3, <3>1, RouteNext
  <2>2. QED
    BY <1>3, <2>1
<1>5. UNCHANGED <<kept, epochVars, ver, pipe1, pipe2, stall, arch>>
  BY DEF GenNextPc, stage1Vars, backVars, progVars
<1>6. (Cursor(n, tails) => Cursor(n, longer)') /\ Upcoming(n)' = Upcoming(n)
  BY <1>4, <1>5, CursorAlike
<1>7. PICK p : p = Upcoming(n)
  OBVIOUS
<1>8. PICK k \in Nat : k = Len(pipe1) + 1 /\ k = Len(pipe1') + 1
  BY <1>5, WordCounts
<1>9. Entries' /\ (Reached(k, p) => Reached(k, p)')
  BY <1>5, EntriesStay
<1>10. TrapBefore(k)' <=> TrapBefore(k)
  BY <1>5 DEF TrapBefore, Epochs, epochVars
<1>11. GoesOn(n, longer)'
  BY <1>1, <1>6, <1>7, <1>8, <1>9, <1>10 DEF GoesOn
<1>12. Split(n) /\ Split(n)'
  BY <1>1, <1>4 DEF Route
<1>13. Continues
  BY <1>3, <1>6, <1>12 DEF Continues
<1>14. QED
  BY <1>3, <1>4, <1>9, <1>11, <1>13, WayFound

\* Decode takes the first entry.
LEMMA PathDecoded ==
  ASSUME FetchTypeOK, EpochInv, Entries, OnTheWay, Decode
  PROVE  Entries' /\ OnTheWay' /\ Continues
<1>0. PICK h \in FetchedEntry : h = Head(pipe1)
  BY DecodeEpochs
<1>1. /\ pipe1 # <<>> /\ pipe2 = <<>> /\ ~ stall /\ pipe1' = Tail(pipe1)
      /\ h.ep = Epochs => pipe2' = <<h>> /\ stall' = h.trap /\ AllOf(pipe1, Epochs)
      /\ h.ep # Epochs => UNCHANGED <<pipe2, stall>>
      /\ UNCHANGED <<pc, delayed, epochVars, kept, ver, arch, ireq, iresp, Epochs>>
  BY <1>0, DecodeEpochs DEF stage0Vars, icacheVars, stage1Vars, progVars, Epochs, epochVars
<1>2. pipe0' = pipe0
  BY DEF Decode
<1>3. PICK N \in Nat : N = Len(pipe1) /\ N >= 1
  BY <1>1, Popped, EpochValues
<1>4. /\ Len(pipe1') = N - 1 /\ pipe1[1] = h /\ 1 \in 1..N
      /\ \A i \in 1..(N - 1) : i + 1 \in 1..N /\ pipe1'[i] = pipe1[i + 1]
      /\ \A i \in 2..N : i - 1 \in 1..(N - 1) /\ pipe1'[i - 1] = pipe1[i]
  BY <1>0, <1>1, <1>3, Popped, EpochValues
<1>5. ~ LiveInExec /\ (LiveInExec' <=> h.ep = Epochs) /\ (h.ep = Epochs => InExec' = h)
  BY <1>1 DEF LiveInExec, InExec
<1>6. ASSUME NEW i \in 1..N, TrapBefore(i + 1) PROVE TrapBefore(i)'
  <2>1. PICK j \in 1..N : j < i + 1 /\ pipe1[j].ep = Epochs /\ pipe1[j].trap
    BY <1>1, <1>3, <1>6 DEF TrapBefore
  <2>2. CASE j = 1
    BY <1>1, <1>4, <2>1, <2>2 DEF TrapBefore
  <2>3. CASE j # 1
    <3>1. j \in 2..N /\ j - 1 < i
      BY <1>3, <2>1, <2>3
    <3>2. QED
      BY <1>1, <1>4, <2>1, <3>1 DEF TrapBefore
  <2>4. QED
    BY <2>2, <2>3
<1>7. ASSUME NEW i \in 1..N, NEW p, Reached(i + 1, p) PROVE Reached(i, p)'
  <2>1. i + 1 > 1 /\ (i + 1) - 1 = i
    BY <1>3
  <2>2. IF pipe1[i].ep = Epochs THEN Leads(pipe1[i], p) ELSE p = arch
    BY <1>5, <1>7, <2>1 DEF Reached
  <2>3. CASE i = 1
    BY <1>1, <1>4, <1>5, <2>2, <2>3 DEF Reached, Leads
  <2>4. CASE i # 1
    <3>1. i > 1 /\ i \in 2..N /\ pipe1'[i - 1] = pipe1[i]
      BY <1>3, <1>4, <2>4
    <3>2. h.ep = Epochs => pipe1[i].ep = Epochs
      BY <1>1, <1>3 DEF AllOf
    <3>3. QED
      BY <1>1, <1>5, <2>2, <3>1, <3>2 DEF Reached, Leads
  <2>5. QED
    BY <2>3, <2>4
<1>8. (LiveInExec => IsWhole(InExec) /\ InExec.pc = arch /\ (InExec.trap <=> stall))'
  <2> SUFFICES ASSUME h.ep = Epochs PROVE IsWhole(h)' /\ h.pc = arch /\ (h.trap <=> stall')
    BY <1>1, <1>5
  <2>1. ~ TrapBefore(1)
    BY <1>1, <1>3 DEF TrapBefore
  <2>2. IsWhole(h) /\ Reached(1, h.pc)
    BY <1>3, <1>4, <2>1 DEF Entries
  <2>3. h.pc = arch
    BY <1>5, <2>2 DEF Reached
  <2>4. IsWhole(h)'
    BY <1>1, <2>2 DEF IsWhole
  <2>5. QED
    BY <1>1, <2>3, <2>4
<1>9. ASSUME NEW i \in 1..Len(pipe1'), pipe1'[i].ep = Epochs', ~ TrapBefore(i)'
      PROVE  (IsWhole(pipe1[i]) /\ Reached(i, pipe1[i].pc))'
  <2>1. PICK f : f = pipe1[i + 1]
    OBVIOUS
  <2>2. PICK q : q = f.pc
    OBVIOUS
  <2>3. pipe1'[i] = f /\ i \in 1..N /\ i + 1 \in 1..N /\ f.ep = Epochs
    BY <1>1, <1>3, <1>4, <1>9, <2>1
  <2>4. IsWhole(f) /\ Reached(i + 1, q)
    BY <1>1, <1>3, <1>6, <1>9, <2>1, <2>2, <2>3 DEF Entries
  <2>5. IsWhole(f)'
    BY <1>1, <2>4 DEF IsWhole
  <2>6. Reached(i, q)'
    BY <1>7, <2>3, <2>4
  <2>7. QED
    BY <2>2, <2>3, <2>5, <2>6
<1>10. Entries'
  BY <1>4, <1>8, <1>9 DEF Entries
<1>11. PICK n \in 0 .. Len(pipe0), tails \in SUBSET Nat : Route(n, tails) /\ GoesOn(n, tails)
  BY DEF OnTheWay
<1>12. n \in Nat /\ n + 1 \in Nat /\ Split(n)'
  BY <1>1, <1>2, <1>11, SplitStays DEF Route
<1>13. Route(n, tails)' /\ Stop(n + 1)' = Stop(n + 1)
  BY <1>1, <1>2, <1>11, <1>12, RouteStays
<1>14. (Cursor(n, tails) => Cursor(n, tails)') /\ Upcoming(n)' = Upcoming(n)
  BY <1>1, <1>13, CursorAlike
<1>15. PICK p : p = Upcoming(n)
  OBVIOUS
<1>16. N \in 1..N /\ Len(pipe1') + 1 = N
  BY <1>3, <1>4
<1>17. GoesOn(n, tails)'
  <2>1. TrapBefore(N + 1) => TrapBefore(N)'
    BY <1>6, <1>16
  <2>2. Reached(N + 1, p) => Reached(N, p)'
    BY <1>7, <1>16
  <2>3. QED
    BY <1>3, <1>11, <1>14, <1>15, <1>16, <2>1, <2>2 DEF GoesOn
<1>18. Continues
  BY <1>11, <1>12, <1>14 DEF Continues, Route
<1>19. QED
  BY <1>10, <1>12, <1>13, <1>17, <1>18, WayFound

\* What is about to execute is an instruction of the program.
LEMMA InsnTrue ==
  ASSUME NoOverlap, Base, Entries, LiveInExec
  PROVE  /\ InExec \in FetchedEntry /\ InExec.pc \in Starts[ver] /\ InExec.pc \in Half
         /\ InExec.pc = arch /\ (InExec.trap <=> stall)
         /\ Insn(InExec) = Code[ver][InExec.pc]
         /\ ~ InExec.trap => Len(InExec.parts) = Length(ver, InExec.pc)
         /\ AllOf(pipe1, Epochs)
<1>1. InExec \in FetchedEntry /\ pipe2[1] = InExec /\ 1 \in 1..Len(pipe2) /\ InExec.ep = Epochs
  BY Popped, EpochValues DEF LiveInExec, InExec, Base
<1>2. IsWhole(InExec) /\ InExec.pc = arch /\ (InExec.trap <=> stall)
  BY DEF Entries
<1>3. OfCode(InExec)
  BY <1>1 DEF Base, CodeInv, MadeCurrent
<1>4. Len(InExec.parts) \in {1, 2}
  BY <1>1, PartsTypes DEF FetchedEntry
<1>5. InExec.parts[1].ver = ver /\ InExec.parts[1].at = InExec.pc
  BY <1>2, <1>3, <1>4 DEF OfCode, IsWhole
<1>6. InExec.pc \in Half
  BY <1>1 DEF FetchedEntry
<1>7. AllOf(pipe1, Epochs)
  BY LiveBehind DEF Base
<1>8. QED
  BY <1>1, <1>2, <1>5, <1>6, <1>7 DEF Insn, IsWhole

\* The instruction is gone and what was behind it is now the next one.
LEMMA PathAdvanced ==
  ASSUME Base, Entries, OnTheWay, LiveInExec, pipe2' = <<>>,
         UNCHANGED <<pc, delayed, pipe0, ver, kept, epochVars, pipe1, stall, ireq, iresp>>,
         AllOf(pipe1, Epochs),
         ~ stall => \/ \A p : Leads(InExec, p) => p = arch'
                    \/ pipe1 # <<>> /\ pipe1[1].pc = arch'
  PROVE  Entries' /\ OnTheWay' /\ Continues
<1>1. PICK N \in Nat : N = Len(pipe1)
  BY WordCounts DEF Base
<1>2. ~ LiveInExec' /\ Epochs' = Epochs
  BY DEF LiveInExec, Epochs, epochVars
<1>3. ASSUME NEW i \in 2..(N + 1), NEW p, Reached(i, p) PROVE Reached(i, p)'
  <2>1. i > 1 /\ i - 1 \in 1..N
    BY <1>1
  <2>2. pipe1[i - 1].ep = Epochs
    BY <1>1, <2>1 DEF AllOf
  <2>3. QED
    BY <1>2, <1>3, <2>1, <2>2 DEF Reached, Leads
<1>4. \A p : Reached(1, p) <=> Leads(InExec, p)
  BY DEF Reached
<1>5. \A p : Reached(1, p)' <=> p = arch'
  BY <1>2 DEF Reached
<1>6. \A i : TrapBefore(i)' <=> TrapBefore(i)
  BY <1>2 DEF TrapBefore
<1>7. ASSUME NEW i \in 1..N, pipe1[i].ep = Epochs, ~ TrapBefore(i)
      PROVE  (IsWhole(pipe1[i]) /\ Reached(i, pipe1[i].pc))'
  <2>1. PICK f : f = pipe1[i]
    OBVIOUS
  <2>2. PICK q : q = f.pc
    OBVIOUS
  <2>3. IsWhole(f) /\ Reached(i, q)
    BY <1>1, <1>7, <2>1, <2>2 DEF Entries
  <2>4. IsWhole(f)'
    BY <2>3 DEF IsWhole
  <2>5. Reached(i, q)'
    <3>1. CASE i = 1
      <4>1. ~ stall
        BY <1>7 DEF TrapBefore
      <4>2. CASE \A p : Leads(InExec, p) => p = arch'
        BY <1>4, <1>5, <2>3, <3>1, <4>2
      <4>3. CASE pipe1 # <<>> /\ pipe1[1].pc = arch'
        BY <1>5, <2>1, <2>2, <3>1, <4>3
      <4>4. QED
        BY <4>1, <4>2, <4>3
    <3>2. CASE i # 1
      <4>1. i \in 2..(N + 1)
        BY <1>1, <3>2
      <4>2. QED
        BY <1>3, <2>3, <4>1
    <3>3. QED
      BY <3>1, <3>2
  <2>6. QED
    BY <2>1, <2>2, <2>4, <2>5
<1>8. Entries'
  BY <1>1, <1>2, <1>6, <1>7 DEF Entries
<1>9. ASSUME NEW p, ~ TrapBefore(N + 1), Reached(N + 1, p) PROVE Reached(N + 1, p)'
  <2>1. CASE N = 0
    <3>1. ~ stall /\ N + 1 = 1
      BY <1>9, <2>1 DEF TrapBefore
    <3>2. pipe1 = <<>>
      BY <1>1, <2>1, EpochValues, EmptySeq DEF Base
    <3>3. QED
      BY <1>4, <1>5, <1>9, <3>1, <3>2
  <2>2. CASE N # 0
    <3>1. N + 1 \in 2..(N + 1)
      BY <2>2
    <3>2. QED
      BY <1>3, <1>9, <3>1
  <2>3. QED
    BY <2>1, <2>2
<1>10. \A p : ~ TrapBefore(Len(pipe1) + 1) /\ Reached(Len(pipe1) + 1, p)
                => Reached(Len(pipe1) + 1, p)'
  BY <1>1, <1>9
<1>11. \A n \in Nat : Split(n) => Split(n)'
  BY SplitStays
<1>12. QED
  BY <1>8, <1>10, <1>11, PathStays

LEMMA PathExecuted ==
  ASSUME NoOverlap, Base, FetchTypeOK', Entries, OnTheWay, Exec
  PROVE  /\ Entries' /\ OnTheWay'
         /\ \/ Continues /\ UNCHANGED <<stall, epochVars>>
            \/ NothingLive' /\ stall' = FALSE /\ Epochs' # Epochs /\ pc' \in Half
<1>0. ver \in Version /\ FetchTypeOK /\ PairedByOrder /\ EpochInv
  BY DEF Base, FetchTypeOK
<1>1. CASE ExecDrop
  <2>1. /\ UNCHANGED <<pc, delayed, pipe0, ver, kept, epochVars, pipe1, stall, ireq, iresp, arch>>
        /\ ~ LiveInExec /\ pipe2' = <<>>
    BY <1>1 DEF ExecDrop, ExecFrame, NoRedirect, stage0Vars, stage1Vars, icacheVars, epochVars,
                LiveInExec
  <2>2. ~ LiveInExec' /\ Epochs' = Epochs
    BY <2>1 DEF LiveInExec, Epochs, epochVars
  <2>3. Entries'
    BY <2>1, <2>2 DEF Entries, IsWhole, TrapBefore, Reached, Leads
  <2>4. \A p : Reached(Len(pipe1) + 1, p) => Reached(Len(pipe1) + 1, p)'
    BY <2>1, <2>2 DEF Reached, Leads
  <2>5. \A n \in Nat : Split(n) => Split(n)'
    BY <2>1, SplitStays
  <2>6. QED
    BY <2>1, <2>3, <2>4, <2>5, PathStays
<1>2. CASE ExecPlain
  <2>1. /\ UNCHANGED <<pc, delayed, pipe0, ver, kept, epochVars, pipe1, stall, ireq, iresp>>
        /\ LiveInExec /\ pipe2' = <<>>
        /\ InExec.trap \/ Insn(InExec).op = "PLAIN"
        /\ arch' = IF InExec.trap THEN arch ELSE Plus(InExec.pc, Len(InExec.parts))
    BY <1>2 DEF ExecPlain, ExecFrame, NoRedirect, stage0Vars, stage1Vars, icacheVars, epochVars
  <2>2. ASSUME ~ stall, NEW p, Leads(InExec, p) PROVE p = arch'
    <3>1. Code[ver][InExec.pc].op = "PLAIN" /\ ~ InExec.trap
      BY <2>1, <2>2, InsnTrue
    <3>2. PredictedTargets(ver, InExec.pc) = {}
      BY <3>1 DEF PredictedTargets
    <3>3. p = Plus(InExec.pc, Length(ver, InExec.pc))
      BY <2>2, <3>2 DEF Leads
    <3>4. QED
      BY <2>1, <3>1, <3>3, InsnTrue
  <2>3. AllOf(pipe1, Epochs)
    BY <2>1, InsnTrue
  <2>4. QED
    BY <2>1, <2>2, <2>3, PathAdvanced
<1>3. CASE ExecControl
  <2>0. /\ LiveInExec /\ ~ InExec.trap /\ Insn(InExec).op # "PLAIN" /\ pipe1 # <<>> /\ pipe2' = <<>>
        /\ UNCHANGED <<pipe0, ver, kept, wEpoch, pipe1, ireq, iresp>>
    BY <1>3 DEF ExecControl, ExecFrame, stage1Vars, icacheVars
  <2>1. PICK taken \in IF Insn(InExec).op = "BRANCH" THEN BOOLEAN ELSE {TRUE},
             target \in Insn(InExec).tgt :
          /\ arch' = IF taken THEN target ELSE Plus(InExec.pc, Len(InExec.parts))
          /\ IF Mispredicted(Insn(InExec).op, taken, target)
             THEN /\ Flush(arch', FALSE, FALSE) /\ eEpoch' = 1 - eEpoch /\ stall' = FALSE
             ELSE NoRedirect
    <3>1. PICK taken \in IF Insn(InExec).op = "BRANCH" THEN BOOLEAN ELSE {TRUE},
               target \in Insn(InExec).tgt :
            LET next == IF taken THEN target ELSE Plus(InExec.pc, Len(InExec.parts))
            IN  /\ arch' = next
                /\ IF Mispredicted(Insn(InExec).op, taken, target)
                   THEN /\ Flush(next, FALSE, FALSE) /\ eEpoch' = 1 - eEpoch /\ stall' = FALSE
                   ELSE NoRedirect
      BY <1>3 DEF ExecControl
    <3>2. QED
      BY <3>1
  <2>2. taken \in BOOLEAN
    BY <2>1
  <2>3. PICK a \in Half : a = InExec.pc
    BY <2>0, InsnTrue
  <2>4. /\ a \in Starts[ver] /\ Insn(InExec) = Code[ver][a]
        /\ Len(InExec.parts) = Length(ver, a) /\ AllOf(pipe1, Epochs) /\ ~ stall
    BY <2>0, <2>3, InsnTrue
  <2>5. target \in Code[ver][a].tgt /\ arch' = IF taken THEN target ELSE Plus(a, Length(ver, a))
    BY <2>1, <2>3, <2>4
  <2>6. CASE Mispredicted(Insn(InExec).op, taken, target)
    <3>1. /\ pc' = arch' /\ delayed' = <<>> /\ eEpoch' = 1 - eEpoch
      BY <2>1, <2>6 DEF Flush
    <3>2. NothingLive'
      BY <1>0, <2>0, <3>1, RedirectEpochs
    <3>3. arch' \in Starts[ver]
      <4>1. target \in Starts[ver] /\ Plus(a, Length(ver, a)) \in Starts[ver]
        BY <1>0, <2>4, <2>5, StartFacts
      <4>2. QED
        BY <2>5, <4>1
    <3>4. (pc \in Starts[ver])'
      BY <2>0, <3>1, <3>3
    <3>5. Entries' /\ OnTheWay'
      BY <1>0, <2>0, <3>1, <3>2, <3>4, PathFlushed
    <3>6. stall' = FALSE
      BY <2>1, <2>6
    <3>7. Epochs' # Epochs
      BY <1>0, <3>1, EpochValues DEF Epochs
    <3>8. pc' \in Half
      BY DEF FetchTypeOK
    <3>9. QED
      BY <3>2, <3>5, <3>6, <3>7, <3>8
  <2>7. CASE ~ Mispredicted(Insn(InExec).op, taken, target)
    <3>1. UNCHANGED <<pc, delayed, epochVars, stall>>
      BY <2>0, <2>1, <2>7 DEF NoRedirect, stage0Vars, epochVars
    <3>2. CASE Code[ver][a].op = "BRANCH"
      <4>1. taken = InExec.pred
        BY <2>4, <2>7, <3>2 DEF Mispredicted
      <4>2. PredictedTargets(ver, a) = {target}
        <5>1. \E t \in Half : Code[ver][a].tgt = {t}
          BY <1>0, <2>4, <3>2, StartFacts
        <5>2. PredictedTargets(ver, a) = Code[ver][a].tgt
          BY <3>2 DEF PredictedTargets
        <5>3. QED
          BY <2>5, <5>1, <5>2
      <4>3. ASSUME NEW p, Leads(InExec, p) PROVE p = arch'
        BY <2>3, <2>5, <4>1, <4>2, <4>3 DEF Leads
      <4>4. QED
        BY <2>0, <2>4, <3>1, <4>3, PathAdvanced
    <3>3. CASE Code[ver][a].op # "BRANCH"
      <4>1. taken
        BY <2>1, <2>4, <3>3
      <4>2. Head(pipe1).pc = target /\ pipe1[1] = Head(pipe1)
        BY <2>0, <2>4, <2>7, <3>3, Popped, EpochValues, <1>0 DEF Mispredicted
      <4>3. pipe1[1].pc = arch'
        BY <2>5, <4>1, <4>2
      <4>4. QED
        BY <2>0, <2>4, <3>1, <4>3, PathAdvanced
    <3>4. QED
      BY <3>2, <3>3
  <2>8. QED
    BY <2>6, <2>7
<1>4. QED
  BY <1>1, <1>2, <1>3 DEF Exec

\* Write back goes to a start of the version it makes current.
LEMMA CommitTarget ==
  ASSUME NoOverlap, FetchTypeOK,
         CommitFetchFault \/ CommitOther \/ CommitFenceI \/ CommitSfence
  PROVE  \E f, s \in BOOLEAN, v \in Version :
           /\ \E t \in Starts[v] : WbFlush(t, f, s, v)
           /\ v = ver \/ f \/ v \in AfterSfence[ver]
<1>1. ver \in Version
  BY DEF FetchTypeOK
<1>2. AfterFence[ver] \subseteq Version /\ AfterSfence[ver] \subseteq Version
  BY <1>1, FetchAssumption DEF FetchAssumption
<1>3. \A v \in Version : TrapVec \in Starts[v] /\ WbTarget[v] \subseteq Starts[v]
  BY StartFacts
<1>4. CASE CommitFetchFault \/ CommitOther
  <2>1. \E t \in Starts[ver] : WbFlush(t, FALSE, FALSE, ver)
    BY <1>1, <1>3, <1>4 DEF CommitFetchFault, CommitOther
  <2>2. QED
    BY <1>1, <2>1
<1>5. CASE CommitFenceI
  <2>1. PICK v \in AfterFence[ver] : \E t \in WbTarget[v] : WbFlush(t, TRUE, FALSE, v)
    BY <1>5 DEF CommitFenceI
  <2>2. v \in Version /\ \E t \in Starts[v] : WbFlush(t, TRUE, FALSE, v)
    BY <1>2, <1>3, <2>1
  <2>3. QED
    BY <2>2
<1>6. CASE CommitSfence
  <2>1. PICK v \in AfterSfence[ver] : \E t \in WbTarget[v] : WbFlush(t, FALSE, TRUE, v)
    BY <1>6 DEF CommitSfence
  <2>2. v \in Version /\ \E t \in Starts[v] : WbFlush(t, FALSE, TRUE, v)
    BY <1>2, <1>3, <2>1
  <2>3. QED
    BY <2>1, <2>2
<1>7. QED
  BY <1>4, <1>5, <1>6

LEMMA PathCommitted ==
  ASSUME NoOverlap, Base, FetchTypeOK',
         CommitFetchFault \/ CommitOther \/ CommitFenceI \/ CommitSfence
  PROVE  Entries' /\ OnTheWay'
<1>0. FetchTypeOK /\ PairedByOrder /\ EpochInv
  BY DEF Base
<1>1. PICK f \in BOOLEAN, s \in BOOLEAN, v \in Version : \E t \in Starts[v] : WbFlush(t, f, s, v)
  BY <1>0, CommitTarget
<1>2. PICK t \in Starts[v] : WbFlush(t, f, s, v)
  BY <1>1
<1>3. /\ pc' = t /\ arch' = t /\ delayed' = <<>> /\ ver' = v
      /\ UNCHANGED <<pipe0, ireq, iresp>>
  BY <1>2 DEF WbFlush, Flush
<1>4. NothingLive'
  BY <1>0, CommitEpochs
<1>5. (pc \in Starts[ver])'
  BY <1>3, <1>2
<1>6. QED
  BY <1>0, <1>3, <1>4, <1>5, PathFlushed

-----------------------------------------------------------------------------
(* The predictor and the answers tell the truth                               *)

LEMMA KnowsAlike ==
  ASSUME Code[ver'] = Code[ver], Starts[ver'] = Starts[ver]
  PROVE  \A e : (Knows(e)' <=> Knows(e)) /\ (Learns(e)' <=> Learns(e))
BY DEF Knows, Learns, Jumps

LEMMA BtbStays ==
  ASSUME BtbTrue, UNCHANGED <<btb, td, bpuInit>>, fence' = fence \/ (~ fence /\ ~ fence'),
         Code[ver'] = Code[ver], Starts[ver'] = Starts[ver]
  PROVE  BtbTrue'
<1>1. \A e : (Knows(e)' <=> Knows(e)) /\ (Learns(e)' <=> Learns(e))
  BY KnowsAlike
<1>2. ASSUME ~ fence, ~ bpuInit, NEW i \in DOMAIN btb PROVE Knows(btb[i])'
  <2>1. PICK e : e = btb[i]
    OBVIOUS
  <2>2. Knows(e)' /\ btb'[i] = e
    BY <1>1, <1>2, <2>1 DEF BtbTrue
  <2>3. QED
    BY <2>2
<1>3. ASSUME ~ fence, NEW i \in 1..Len(td) PROVE Learns(td[i])'
  <2>1. PICK d : d = td[i]
    OBVIOUS
  <2>2. Learns(d)' /\ td'[i] = d
    BY <1>1, <1>3, <2>1 DEF BtbTrue
  <2>3. QED
    BY <2>2
<1>4. QED
  BY <1>2, <1>3 DEF BtbTrue

LEMMA BtbTrained ==
  ASSUME FetchTypeOK, BtbTrue, TrainBtb
  PROVE  BtbTrue'
<1>1. /\ td # <<>> /\ td' = <<>> /\ Train(Head(td)) /\ UNCHANGED <<fence, ver>> /\ ~ bpuInit
  BY DEF TrainBtb, Train, stage0Vars, progVars
<1>2. PICK d \in TrainingData : d = Head(td) /\ d = td[1] /\ 1 \in 1..Len(td)
  BY <1>1, Popped DEF FetchTypeOK
<1>3. PICK k \in DOMAIN btb : btb' = [btb EXCEPT ![k] = Trained(d)]
  <2>1. allocate \in DOMAIN btb
    BY DEF FetchTypeOK
  <2>2. QED
    BY <1>1, <1>2, <2>1 DEF Train, Matches
<1>4. d.pc \in Half /\ d.pc = 2 * WordOf(d.pc) + (IF IsHi(d.pc) THEN 1 ELSE 0)
  BY Neighbours DEF TrainingData
<1>5. \A e : (Knows(e)' <=> Knows(e)) /\ (Learns(e)' <=> Learns(e))
  BY <1>1, KnowsAlike
<1>6. DOMAIN btb' = DOMAIN btb
  BY <1>3
<1>7. ASSUME ~ fence, NEW i \in DOMAIN btb PROVE Knows(btb[i])'
  <2>1. PICK e : e = btb'[i]
    OBVIOUS
  <2>2. CASE i = k
    <3>1. e = Trained(d)
      BY <1>3, <2>1, <2>2
    <3>2. /\ e.tag = WordOf(d.pc) /\ e.target = d.target /\ e.ci = d.ci
          /\ e.instr16 = d.instr16 /\ e.hi = IsHi(d.pc)
      BY <3>1 DEF Trained
    <3>3. Jumps(d.pc, d.target, d.ci, d.instr16)
      BY <1>2, <1>7 DEF BtbTrue, Learns
    <3>4. Knows(e)
      BY <1>4, <3>2, <3>3 DEF Knows
    <3>5. QED
      BY <1>5, <2>1, <3>4
  <2>3. CASE i # k
    <3>1. e = btb[i]
      BY <1>3, <2>1, <2>3
    <3>2. Knows(e)
      BY <1>1, <1>7, <3>1 DEF BtbTrue
    <3>3. QED
      BY <1>5, <2>1, <3>2
  <2>4. QED
    BY <2>2, <2>3
<1>8. Len(td') = 0
  BY <1>1
<1>9. QED
  BY <1>1, <1>6, <1>7, <1>8 DEF BtbTrue

LEMMA BtbExecuted ==
  ASSUME NoOverlap, Base, Entries, BtbTrue, ExecControl
  PROVE  BtbTrue'
<1>1. /\ LiveInExec /\ ~ InExec.trap /\ Insn(InExec).op # "PLAIN"
      /\ UNCHANGED <<btb, bpuInit, ver>>
  BY DEF ExecControl, ExecFrame, btbVars
<1>2. ~ fence
  <2>1. pipe2[1] = InExec /\ 1 \in 1..Len(pipe2) /\ InExec.ep = Epochs
    BY <1>1, Popped, EpochValues DEF LiveInExec, InExec, Base
  <2>2. ~ NothingLive
    BY <2>1 DEF NothingLive, NothingRead, NoneOf
  <2>3. QED
    BY <2>2 DEF Base, FenceInv
<1>3. fence' = FALSE
  BY <1>2 DEF ExecControl, Flush, NoRedirect, stage0Vars
<1>4. PICK target \in Insn(InExec).tgt :
        td' = <<[pc |-> InExec.pc, target |-> target, ci |-> Ci(Insn(InExec).op),
                 instr16 |-> Len(InExec.parts) = 1]>>
  BY DEF ExecControl
<1>5. PICK a : a = InExec.pc
  OBVIOUS
<1>6. /\ a \in Starts[ver] /\ Insn(InExec) = Code[ver][a]
      /\ Len(InExec.parts) = Length(ver, a) /\ a \in Half /\ ver \in Version
  BY <1>1, <1>5, InsnTrue DEF Base, FetchTypeOK
<1>7. (Len(InExec.parts) = 1) = ~ Code[ver][a].long
  BY <1>6, Codes DEF Length
<1>8. Jumps(a, target, Ci(Insn(InExec).op), Len(InExec.parts) = 1)
  BY <1>1, <1>4, <1>6, <1>7 DEF Jumps
<1>9. PICK d : d = [pc |-> a, target |-> target, ci |-> Ci(Insn(InExec).op),
                    instr16 |-> Len(InExec.parts) = 1]
  OBVIOUS
<1>10. Learns(d) /\ td' = <<d>>
  BY <1>4, <1>5, <1>8, <1>9 DEF Learns
<1>11. \A e : (Knows(e)' <=> Knows(e)) /\ (Learns(e)' <=> Learns(e))
  BY <1>1, KnowsAlike
<1>12. (\A i \in 1..Len(td) : Learns(td[i]))'
  <2>1. Learns(d)'
    BY <1>10, <1>11
  <2>2. \A i \in 1..Len(td') : td'[i] = d
    BY <1>10
  <2>3. QED
    BY <2>1, <2>2
<1>13. ASSUME ~ bpuInit, NEW i \in DOMAIN btb PROVE Knows(btb[i])'
  <2>1. PICK e : e = btb[i]
    OBVIOUS
  <2>2. Knows(e)' /\ btb'[i] = e
    BY <1>1, <1>2, <1>11, <1>13, <2>1 DEF BtbTrue
  <2>3. QED
    BY <2>2
<1>14. QED
  BY <1>1, <1>2, <1>3, <1>12, <1>13 DEF BtbTrue

LEMMA BtbStep ==
  ASSUME NoOverlap, Base, Entries, BtbTrue, [Next]_vars
  PROVE  BtbTrue'
<1>1. CASE \/ GenNextPc \/ IcacheRespond \/ IcacheFence \/ ProcessInstruction \/ Decode
           \/ ExecDrop \/ ExecPlain \/ UNCHANGED vars
  <2>1. UNCHANGED <<btb, td, fence, bpuInit, ver>>
    BY <1>1 DEF GenNextPc, IcacheRespond, IcacheFence, ProcessInstruction, Decode, ExecDrop,
                ExecPlain, ExecFrame, NoRedirect, vars, btbVars, stage0Vars, backVars, progVars
  <2>2. QED
    BY <2>1, BtbStays
<1>2. CASE GenFence
  <2>1. /\ td = <<>> /\ bpuInit' = (bpuInit \/ fence) /\ UNCHANGED <<btb, td, ver>>
        /\ fence' = FALSE
    BY <1>2 DEF GenFence, backVars, progVars
  <2>2. Len(td') = 0
    BY <2>1
  <2>3. \A e : Knows(e)' <=> Knows(e)
    BY <2>1, KnowsAlike
  <2>4. ASSUME ~ fence, ~ bpuInit, NEW i \in DOMAIN btb PROVE Knows(btb[i])'
    <3>1. PICK e : e = btb[i]
      OBVIOUS
    <3>2. Knows(e)' /\ btb'[i] = e
      BY <2>1, <2>3, <2>4, <3>1 DEF BtbTrue
    <3>3. QED
      BY <3>2
  <2>5. (fence \/ \A i \in 1..Len(td) : Learns(td[i]))'
    <3>1. \A i \in 1..Len(td') : FALSE
      BY <2>2
    <3>2. QED
      BY <3>1
  <2>6. (fence \/ bpuInit \/ \A i \in DOMAIN btb : Knows(btb[i]))'
    <3>1. CASE fence \/ bpuInit
      <4>1. bpuInit'
        BY <2>1, <3>1
      <4>2. QED
        BY <4>1
    <3>2. CASE ~ fence /\ ~ bpuInit
      <4>1. DOMAIN btb' = DOMAIN btb
        BY <2>1
      <4>2. \A i \in DOMAIN btb' : Knows(btb[i])'
        BY <2>4, <3>2, <4>1
      <4>3. QED
        BY <4>2
    <3>3. QED
      BY <3>1, <3>2
  <2>7. QED
    BY <2>5, <2>6 DEF BtbTrue
<1>3. CASE ClearBtb
  <2>1. btb' = [i \in DOMAIN btb |-> NoEntry] /\ UNCHANGED <<td, fence, ver>>
    BY <1>3 DEF ClearBtb, Clear, stage0Vars, backVars, progVars
  <2>2. \A i \in DOMAIN btb' : ~ btb'[i].valid
    BY <2>1 DEF NoEntry
  <2>3. \A i \in DOMAIN btb' : Knows(btb[i])'
    BY <2>2 DEF Knows
  <2>4. ASSUME ~ fence, NEW i \in 1..Len(td) PROVE Learns(td[i])'
    <3>1. PICK d : d = td[i]
      OBVIOUS
    <3>2. Learns(d)' /\ td'[i] = d
      BY <2>1, <2>4, <3>1, KnowsAlike DEF BtbTrue
    <3>3. QED
      BY <3>2
  <2>5. QED
    BY <2>1, <2>3, <2>4 DEF BtbTrue
<1>4. CASE TrainBtb
  BY <1>4, BtbTrained DEF Base
<1>5. CASE ExecControl
  BY <1>5, BtbExecuted
<1>6. CASE CommitFetchFault \/ CommitOther \/ CommitFenceI \/ CommitSfence
  <2>1. PICK f \in BOOLEAN, s \in BOOLEAN, v \in Version :
          /\ \E t \in Starts[v] : WbFlush(t, f, s, v)
          /\ v = ver \/ f \/ v \in AfterSfence[ver]
    BY <1>6, CommitTarget DEF Base
  <2>2. inFlight /\ fence' = f /\ ver' = v /\ UNCHANGED <<btb, bpuInit, td>>
    BY <2>1 DEF WbFlush, Flush, btbVars
  <2>3. ~ fence
    BY <2>2 DEF Base, FenceInv
  <2>4. CASE f
    BY <2>2, <2>4 DEF BtbTrue
  <2>5. CASE ~ f
    <3>1. Code[v] = Code[ver] /\ Starts[v] = Starts[ver]
      BY <2>1, <2>5, StartFacts DEF Base, FetchTypeOK
    <3>2. QED
      BY <2>2, <2>3, <2>5, <3>1, BtbStays
  <2>6. QED
    BY <2>4, <2>5
<1>7. QED
  BY <1>1, <1>2, <1>3, <1>4, <1>5, <1>6 DEF Next, Exec

LEMMA AnswerStep ==
  FetchTypeOK /\ AnswersTrue /\ [Next]_vars => AnswersTrue'
<1> SUFFICES ASSUME FetchTypeOK, AnswersTrue, [Next]_vars PROVE AnswersTrue'
  OBVIOUS
<1>0. iresp \in Seq(Answer) /\ Len(iresp) \in Nat
  BY EpochValues, LenProperties
<1>1. CASE iresp' = iresp
  BY <1>1 DEF AnswersTrue
<1>2. CASE IcacheRespond
  <2>1. PICK a \in Answer :
          /\ iresp' = Append(iresp, a)
          /\ ~ a.trap => /\ a.lo = Code[a.ver][2 * a.word].long
                         /\ a.hi = Code[a.ver][2 * a.word + 1].long
    BY <1>2, RespondShape
  <2>2. /\ Len(iresp') = Len(iresp) + 1 /\ iresp'[Len(iresp) + 1] = a
        /\ \A i \in 1..Len(iresp) : iresp'[i] = iresp[i]
    BY <1>0, <2>1, Pushed
  <2>3. \A i \in 1..Len(iresp') : i \in 1..Len(iresp) \/ i = Len(iresp) + 1
    BY <1>0, <2>2
  <2>4. QED
    BY <2>1, <2>2, <2>3 DEF AnswersTrue
<1>3. CASE ProcessInstruction
  <2>1. iresp # <<>> /\ (iresp' = iresp \/ iresp' = Tail(iresp))
    BY <1>3, ProcessShape DEF Deq
  <2>2. \A i \in 1..Len(Tail(iresp)) : i + 1 \in 1..Len(iresp) /\ Tail(iresp)[i] = iresp[i + 1]
    BY <1>0, <2>1, Popped
  <2>3. QED
    BY <2>1, <2>2 DEF AnswersTrue
<1>4. CASE \/ GenNextPc \/ GenFence \/ ClearBtb \/ TrainBtb \/ IcacheFence \/ Decode \/ Exec
           \/ CommitFetchFault \/ CommitOther \/ CommitFenceI \/ CommitSfence \/ UNCHANGED vars
  <2>1. iresp' = iresp
    BY <1>4 DEF GenNextPc, GenFence, ClearBtb, TrainBtb, IcacheFence, Decode, Exec, ExecDrop,
                ExecPlain, ExecControl, ExecFrame, CommitFetchFault, CommitOther, CommitFenceI,
                CommitSfence, WbFlush, vars, icacheVars
  <2>2. QED
    BY <1>1, <2>1
<1>5. QED
  BY <1>2, <1>3, <1>4 DEF Next

-----------------------------------------------------------------------------
(* The theorems                                                               *)

RouteInv == Base /\ BtbTrue /\ Entries /\ OnTheWay

LEMMA PathStep ==
  ASSUME NoOverlap, FaultData = {FALSE}, RouteInv, [Next]_vars
  PROVE  RouteInv'
<1>0. Base /\ BtbTrue /\ Entries /\ OnTheWay /\ FetchTypeOK /\ PairedByOrder /\ EpochInv
  BY DEF RouteInv, Base
<1>1. FetchTypeOK'
  BY <1>0, FetchTypeStep
<1>2. Base'
  BY <1>1, PairedStep, EpochStep, FenceStep, CodeStep, KeptStep, FaultStep, AnswerStep
     DEF RouteInv, Base
<1>3. BtbTrue'
  BY <1>0, BtbStep
<1>4. Entries' /\ OnTheWay'
  <2>1. CASE GenNextPc
    BY <1>0, <2>1, PathFetched
  <2>2. CASE GenFence \/ IcacheRespond \/ IcacheFence \/ ClearBtb \/ TrainBtb \/ UNCHANGED vars
    BY <1>0, <2>2, PathQuiet
  <2>3. CASE ProcessInstruction
    BY <1>0, <2>3, PathProcessed
  <2>4. CASE Decode
    BY <1>0, <2>4, PathDecoded
  <2>5. CASE Exec
    BY <1>0, <1>1, <2>5, PathExecuted
  <2>6. CASE CommitFetchFault \/ CommitOther \/ CommitFenceI \/ CommitSfence
    BY <1>0, <1>1, <2>6, PathCommitted
  <2>7. QED
    BY <2>1, <2>2, <2>3, <2>4, <2>5, <2>6 DEF Next
<1>5. QED
  BY <1>2, <1>3, <1>4 DEF RouteInv

LEMMA PathInit ==
  ASSUME NoOverlap, Init
  PROVE  RouteInv
<1>1. Base
  <2>1. FetchTypeOK /\ EpochInv /\ FenceInv /\ CodeInv
    BY FetchTypeInit, StreamInit
  <2>2. KeptInv /\ FaultInv
    BY DEF Init, KeptInv, FaultInv, NoneOf
  <2>3. AnswersTrue
    BY DEF Init, AnswersTrue
  <2>4. PairedByOrder
    <3>1. Due(<<>>, 0) = 0 /\ Len(<<>>) = 0
      BY DueStep
    <3>2. QED
      BY <3>1 DEF Init, PairedByOrder
  <2>5. QED
    BY <2>1, <2>2, <2>3, <2>4 DEF Base
<1>2. BtbTrue
  BY DEF Init, BtbInit, BtbTrue, Knows, NoEntry
<1>3. Entries
  BY DEF Init, Entries, LiveInExec
<1>4. PICK none \in SUBSET Nat : none = {}
  OBVIOUS
<1>5. Split(0) /\ Route(0, none)
  BY <1>4 DEF Init, Split, Route
<1>6. GoesOn(0, none)
  <2>1. Stop(0 + 1) = ResetPc
    BY DEF Init, Stop
  <2>2. ResetPc \in Starts[ver]
    BY StartFacts, FetchAssumption DEF Init, FetchAssumption
  <2>3. ~ HasPrev /\ ~ LiveInExec /\ arch = ResetPc /\ Len(pipe1) = 0
    BY DEF Init, HasPrev, LiveInExec
  <2>4. QED
    BY <1>4, <2>1, <2>2, <2>3 DEF GoesOn, Cursor, Reached, Upcoming
<1>7. QED
  BY <1>1, <1>2, <1>3, <1>5, <1>6 DEF Init, RouteInv, OnTheWay

LEMMA RouteInvariance == NoOverlap /\ FaultData = {FALSE} => (Spec => []RouteInv)
<1> SUFFICES ASSUME NoOverlap, FaultData = {FALSE} PROVE Spec => []RouteInv
  OBVIOUS
<1>1. Init => RouteInv
  BY PathInit
<1>2. RouteInv /\ [Next]_vars => RouteInv'
  BY PathStep
<1>3. QED
  BY <1>1, <1>2, PTL DEF Spec

\* Decode accepts instructions as they stand in memory: both halves of a 32-bit
\* one and in order, across words, flushes, fences and faults.
THEOREM InstructionsWhole == NoOverlap /\ FaultData = {FALSE} => (Spec => []WholeInstruction)
<1> SUFFICES ASSUME NoOverlap, FaultData = {FALSE} PROVE Spec => []WholeInstruction
  OBVIOUS
<1>1. RouteInv => WholeInstruction
  <2> SUFFICES ASSUME RouteInv, LiveInExec, ~ InExec.trap PROVE WholeInstruction
    BY DEF WholeInstruction
  <2>1. Len(InExec.parts) = Length(ver, InExec.pc) /\ InExec \in FetchedEntry
    BY InsnTrue DEF RouteInv
  <2>2. IsWhole(InExec)
    BY DEF RouteInv, Entries
  <2>3. OfCode(InExec)
    BY Popped, EpochValues DEF RouteInv, Base, CodeInv, MadeCurrent, LiveInExec, InExec, FetchTypeOK
  <2>4. 1 \in 1..Len(InExec.parts)
    BY <2>1, PartsTypes DEF FetchedEntry
  <2>5. InExec.parts[1].ver = ver
    BY <2>3, <2>4 DEF OfCode
  <2>6. QED
    BY <2>1, <2>2, <2>5 DEF WholeInstruction, IsWhole
<1>2. QED
  BY <1>1, RouteInvariance, PTL

\* What execute takes is the next instruction of the program, whatever the
\* predictor has suggested and however many flushes are on the way.
THEOREM ProgramPath == NoOverlap /\ FaultData = {FALSE} => (Spec => []OnProgramPath)
<1> SUFFICES ASSUME NoOverlap, FaultData = {FALSE} PROVE Spec => []OnProgramPath
  OBVIOUS
<1>1. RouteInv => OnProgramPath
  BY DEF RouteInv, Entries, OnProgramPath
<1>2. QED
  BY <1>1, RouteInvariance, PTL

-----------------------------------------------------------------------------
(* What decode is given is the stream it assumes                              *)

Shown(e) == [pc |-> e.pc, ep |-> e.ep, trap |-> e.trap, pred |-> e.pred]
ShownEntry == {Shown(e) : e \in FetchedEntry}
OutOf(s) == [i \in 1..Len(s) |->
               [pc |-> s[i].pc, ep |-> s[i].ep, trap |-> s[i].trap, pred |-> s[i].pred]]

LEMMA OutShape ==
  ASSUME NEW s \in Seq(FetchedEntry)
  PROVE  /\ Len(s) \in Nat /\ DOMAIN OutOf(s) = 1..Len(s)
         /\ Len(OutOf(s)) = Len(s) /\ OutOf(s) \in Seq(ShownEntry)
         /\ \A i \in 1..Len(s) : OutOf(s)[i] = Shown(s[i])
<1>1. Len(s) \in Nat /\ DOMAIN OutOf(s) = 1..Len(s)
  BY LenProperties DEF OutOf
<1>2. \A i \in 1..Len(s) : OutOf(s)[i] = Shown(s[i])
  BY DEF OutOf, Shown
<1>3. \A i \in 1..Len(s) : s[i] \in FetchedEntry
  BY ElementOfSeq
<1>4. OutOf(s) \in [1..Len(s) -> ShownEntry]
  BY <1>3 DEF OutOf, Shown, ShownEntry
<1>5. OutOf(s) \in Seq(ShownEntry)
  BY <1>1, <1>4
<1>6. Len(OutOf(s)) = Len(s)
  BY <1>1, <1>5, LenProperties
<1>7. QED
  BY <1>1, <1>2, <1>5, <1>6

LEMMA OutTail ==
  ASSUME NEW s \in Seq(FetchedEntry), s # <<>>
  PROVE  OutOf(Tail(s)) = Tail(OutOf(s)) /\ OutOf(s) # <<>>
<1>1. /\ Tail(s) \in Seq(FetchedEntry) /\ Len(Tail(s)) = Len(s) - 1 /\ Len(s) >= 1 /\ Len(s) \in Nat
      /\ \A i \in 1..Len(Tail(s)) : i + 1 \in 1..Len(s) /\ Tail(s)[i] = s[i + 1]
  BY Popped
<1>2. OutOf(s) \in Seq(ShownEntry) /\ Len(OutOf(s)) = Len(s)
  BY OutShape
<1>3. OutOf(s) # <<>>
  BY <1>1, <1>2, EmptySeq
<1>4. PICK t \in Seq(ShownEntry) : t = OutOf(s) /\ t # <<>>
  BY <1>2, <1>3
<1>5. /\ Tail(t) \in Seq(ShownEntry) /\ Len(Tail(t)) = Len(s) - 1
      /\ \A i \in 1..Len(Tail(t)) : i + 1 \in 1..Len(t) /\ Tail(t)[i] = t[i + 1]
  BY <1>2, <1>4, Popped
<1>6. PICK r : r = Tail(s)
  OBVIOUS
<1>7. r \in Seq(FetchedEntry) /\ Len(r) = Len(s) - 1
  BY <1>1, <1>6
<1>8. PICK u : u = OutOf(r)
  OBVIOUS
<1>9. /\ u \in Seq(ShownEntry) /\ Len(u) = Len(s) - 1
      /\ \A i \in 1..Len(r) : u[i] = Shown(r[i])
  BY <1>7, <1>8, OutShape
<1>10. ASSUME NEW i \in 1..Len(u) PROVE u[i] = Tail(t)[i]
  <2>1. i \in 1..Len(r) /\ i \in 1..Len(Tail(t)) /\ i + 1 \in 1..Len(s)
    BY <1>1, <1>5, <1>6, <1>7, <1>9
  <2>2. u[i] = Shown(s[i + 1])
    BY <1>1, <1>6, <1>9, <2>1
  <2>3. Tail(t)[i] = Shown(s[i + 1])
    BY <1>4, <1>5, <2>1, OutShape
  <2>4. QED
    BY <2>2, <2>3
<1>11. u = Tail(t)
  BY <1>5, <1>9, <1>10, SeqEqual
<1>12. QED
  BY <1>3, <1>4, <1>6, <1>8, <1>11

LEMMA OutAppend ==
  ASSUME NEW s \in Seq(FetchedEntry), NEW e \in FetchedEntry
  PROVE  OutOf(Append(s, e)) = Append(OutOf(s), Shown(e))
<1>1. /\ Append(s, e) \in Seq(FetchedEntry) /\ Len(Append(s, e)) = Len(s) + 1 /\ Len(s) \in Nat
      /\ Append(s, e)[Len(s) + 1] = e /\ \A i \in 1..Len(s) : Append(s, e)[i] = s[i]
  BY Pushed
<1>2. PICK t \in Seq(ShownEntry) : /\ t = OutOf(s) /\ Len(t) = Len(s)
                          /\ \A i \in 1..Len(s) : t[i] = Shown(s[i])
  BY OutShape
<1>3. PICK u \in Seq(ShownEntry) : /\ u = OutOf(Append(s, e)) /\ Len(u) = Len(s) + 1
                          /\ \A i \in 1..(Len(s) + 1) : u[i] = Shown(Append(s, e)[i])
  BY <1>1, OutShape
<1>4. PICK x \in ShownEntry : x = Shown(e)
  BY DEF ShownEntry
<1>5. /\ Append(t, x) \in Seq(ShownEntry) /\ Len(Append(t, x)) = Len(s) + 1
      /\ Append(t, x)[Len(s) + 1] = x /\ \A i \in 1..Len(s) : Append(t, x)[i] = t[i]
  BY <1>2, Pushed
<1>6. ASSUME NEW i \in 1..Len(u) PROVE u[i] = Append(t, x)[i]
  <2>1. i \in 1..Len(s) \/ i = Len(s) + 1
    BY <1>1, <1>3
  <2>2. QED
    BY <1>1, <1>2, <1>3, <1>4, <1>5, <2>1
<1>7. u = Append(t, x)
  BY <1>3, <1>5, <1>6, SeqEqual
<1>8. QED
  BY <1>2, <1>3, <1>4, <1>7

LEMMA UpcomingType ==
  (FetchTypeOK => \A n \in Nat : Upcoming(n) \in Half)'
<1>1. FetchTypeOK => \A n \in Nat : Upcoming(n) \in Half
  <2> SUFFICES ASSUME FetchTypeOK, NEW n \in Nat PROVE Upcoming(n) \in Half
    OBVIOUS
  <2>1. \A w \in Word : 2 * w \in Half /\ 2 * w + 1 \in Half
    BY Steps DEF Word, Half
  <2>2. ASSUME HasPrev PROVE PrevPc \in Half
    <3>1. Prev \in HalfEntry
      BY <2>2, Popped DEF FetchTypeOK, HasPrev, Prev
    <3>2. QED
      BY <2>1, <3>1 DEF PrevPc, HalfEntry
  <2>3. Stop(n + 1) \in Half
    <3>1. CASE n + 1 \in 1..Len(pipe0)
      <4>1. pipe0[n + 1] \in WordEntry
        BY <3>1, ElementOfSeq DEF FetchTypeOK
      <4>2. PICK x : x = pipe0[n + 1]
        OBVIOUS
      <4>3. x.word \in Word
        BY <4>1, <4>2 DEF WordEntry
      <4>4. PICK h : h = 2 * x.word
        OBVIOUS
      <4>5. h \in Half /\ h + 1 \in Half /\ h \in Nat
        BY <2>1, <4>3, <4>4 DEF Half
      <4>6. Stop(n + 1) = IF x.discard THEN h + 1 ELSE h + 0
        BY <3>1, <4>2, <4>4 DEF Stop
      <4>7. QED
        BY <4>5, <4>6
    <3>2. CASE n + 1 \notin 1..Len(pipe0)
      BY <3>2 DEF Stop, FetchTypeOK
    <3>3. QED
      BY <3>1, <3>2
  <2>4. QED
    BY <2>2, <2>3 DEF Upcoming
<1>2. QED
  BY <1>1, PTL

LEMMA NextLater ==
  (FetchTypeOK /\ PairedByOrder /\ Entries =>
    \A n \in Nat : Split(n) =>
      NextDelivered = IF TrapBefore(Len(pipe1) + 1) THEN <<>> ELSE <<Upcoming(n)>>)'
BY NextIs, PTL

\* While nothing is re-directed, what comes next stays what it was.
LEMMA StreamKeeps ==
  ASSUME RouteInv, RouteInv', Continues, TrapBefore(Len(pipe1) + 1)' <=> TrapBefore(Len(pipe1) + 1)
  PROVE  NextDelivered' = NextDelivered
<1>1. PICK n \in Nat, m \in Nat : Split(n) /\ Split(m)' /\ Upcoming(m)' = Upcoming(n)
  BY DEF Continues
<1>2. NextDelivered = IF TrapBefore(Len(pipe1) + 1) THEN <<>> ELSE <<Upcoming(n)>>
  BY <1>1, NextIs DEF RouteInv, Base
<1>3. NextDelivered' = IF TrapBefore(Len(pipe1) + 1)' THEN <<>> ELSE <<Upcoming(m)'>>
  BY <1>1, NextLater DEF RouteInv, Base
<1>4. QED
  BY <1>1, <1>2, <1>3

LEMMA StreamStays ==
  ASSUME RouteInv, RouteInv', Continues, UNCHANGED <<pipe1, stall, epochVars, ver>>
  PROVE  UNCHANGED Stream!vars
<1>1. TrapBefore(Len(pipe1) + 1)' <=> TrapBefore(Len(pipe1) + 1)
  BY DEF TrapBefore, Epochs, epochVars
<1>2. NextDelivered' = NextDelivered
  BY <1>1, StreamKeeps
<1>3. QED
  BY <1>2 DEF Stream!vars, Epochs, epochVars

LEMMA StreamRedirected ==
  ASSUME RouteInv, RouteInv', NothingLive', stall' = FALSE, Epochs' # Epochs, UNCHANGED pipe1
  PROVE  Stream!Redirect
<1>0. FetchTypeOK' /\ PairedByOrder' /\ Entries' /\ OnTheWay'
  BY DEF RouteInv, Base
<1>1. PICK n \in Nat : Split(n)'
  <2>1. PICK m \in 0 .. Len(pipe0') : Split(m)'
    BY <1>0 DEF OnTheWay, Route
  <2>2. QED
    BY <2>1
<1>2. ~ TrapBefore(Len(pipe1) + 1)'
  BY DEF TrapBefore, NothingLive, NothingRead, NoneOf
<1>3. NextDelivered' = <<Upcoming(n)'>>
  BY <1>0, <1>1, <1>2, NextLater
<1>4. Upcoming(n)' \in Half
  BY <1>0, UpcomingType
<1>5. Epochs' \in {0, 1} \X {0, 1} /\ ver' \in Version
  BY <1>0 DEF FetchTypeOK, Epoch
<1>6. QED
  BY <1>3, <1>4, <1>5 DEF Stream!Redirect

\* Stage1 hands on what comes next, or nothing.
LEMMA StreamHanded ==
  ASSUME NoOverlap, RouteInv, RouteInv', ProcessInstruction
  PROVE  Stream!Deliver \/ UNCHANGED Stream!vars
<1>0. Base /\ OnTheWay /\ FetchTypeOK /\ PairedByOrder /\ Entries /\ ver \in Version
  BY DEF RouteInv, Base, FetchTypeOK
<1>1. PICK n \in Nat, tails \in SUBSET Nat : Route(n, tails) /\ GoesOn(n, tails)
  <2>1. PICK k \in 0 .. Len(pipe0), t \in SUBSET Nat : Route(k, t) /\ GoesOn(k, t)
    BY <1>0 DEF OnTheWay
  <2>2. QED
    BY <2>1
<1>2. PICK m \in Nat, to \in SUBSET Nat :
        /\ Route(m, to)'
        /\ \/ /\ pipe1' = pipe1
              /\ ~ TrapBefore(Len(pipe1) + 1) => Cursor(m, to)' /\ Upcoming(m)' = Upcoming(n)
           \/ \E e \in FetchedEntry :
                /\ pipe1' = Append(pipe1, e) /\ e.ep = Epochs
                /\ ~ TrapBefore(Len(pipe1) + 1) =>
                     /\ e.pc = Upcoming(n) /\ IsWhole(e)
                     /\ ~ e.trap => Cursor(m, to)' /\ Leads(e, Upcoming(m)')
  BY <1>0, <1>1, PassesOn
<1>3. UNCHANGED <<stall, ver, Epochs>> /\ Len(pipe1) < Pipe1Size
  BY DEF ProcessInstruction, backVars, progVars, epochVars, Epochs
<1>4. NextDelivered = IF TrapBefore(Len(pipe1) + 1) THEN <<>> ELSE <<Upcoming(n)>>
  BY <1>0, <1>1, NextIs DEF Route
<1>5. NextDelivered' = IF TrapBefore(Len(pipe1) + 1)' THEN <<>> ELSE <<Upcoming(m)'>>
  BY <1>2, NextLater DEF RouteInv, Base, Route
<1>6. CASE /\ pipe1' = pipe1
           /\ ~ TrapBefore(Len(pipe1) + 1) => Cursor(m, to)' /\ Upcoming(m)' = Upcoming(n)
  <2>1. TrapBefore(Len(pipe1) + 1)' <=> TrapBefore(Len(pipe1) + 1)
    BY <1>3, <1>6 DEF TrapBefore
  <2>2. NextDelivered' = NextDelivered
    BY <1>4, <1>5, <1>6, <2>1
  <2>3. QED
    BY <1>3, <1>6, <2>2 DEF Stream!vars
<1>7. ASSUME NEW e \in FetchedEntry, pipe1' = Append(pipe1, e), e.ep = Epochs,
             ~ TrapBefore(Len(pipe1) + 1) =>
               /\ e.pc = Upcoming(n) /\ IsWhole(e)
               /\ ~ e.trap => Cursor(m, to)' /\ Leads(e, Upcoming(m)')
      PROVE  Stream!Deliver
  <2>1. PICK N \in Nat : N = Len(pipe1)
    BY <1>0, WordCounts
  <2>2. /\ Len(pipe1') = N + 1 /\ pipe1'[N + 1] = e
        /\ \A i \in 1..N : pipe1'[i] = pipe1[i]
    BY <1>0, <1>7, <2>1, Pushed, EpochValues
  <2>3. TrapBefore(Len(pipe1) + 1)' <=> TrapBefore(Len(pipe1) + 1) \/ e.trap
    <3>1. \A j : j \in 1..(N + 1) <=> j \in 1..N \/ j = N + 1
      BY <2>1
    <3>2. /\ \A j \in 1..N : j < N + 1
          /\ \A j \in 1..(N + 1) : j < N + 1 + 1
      BY <2>1
    <3>3. QED
      BY <1>3, <1>7, <2>1, <2>2, <3>1, <3>2 DEF TrapBefore
  <2>4. PICK p : p = Upcoming(m)'
    OBVIOUS
  <2>5. e.pc \in Half /\ e.trap \in BOOLEAN /\ e.pred \in BOOLEAN
    BY DEF FetchedEntry
  <2>6. OutOf(pipe1') = Append(OutOf(pipe1), Shown(e)) /\ Len(OutOf(pipe1)) = Len(pipe1)
    BY <1>0, <1>7, OutAppend, OutShape, EpochValues
  <2>7. Len(OutOf(pipe1)) < Pipe1Size
    BY <1>3, <2>6
  <2>8. NextDelivered \in {<<e.pc>>, <<>>}
    BY <1>4, <1>7
  <2>9. IF NextDelivered = <<>> THEN NextDelivered' = <<>>
        ELSE NextDelivered' \in Stream!Following(e.pc, e.trap, e.pred)
    <3>1. CASE TrapBefore(Len(pipe1) + 1)
      BY <1>4, <1>5, <2>3, <3>1
    <3>2. CASE ~ TrapBefore(Len(pipe1) + 1) /\ e.trap
      <4>1. NextDelivered' = <<>>
        BY <1>5, <2>3, <3>2
      <4>2. Stream!Following(e.pc, e.trap, e.pred) = {<<>>}
        BY <3>2 DEF Stream!Following
      <4>3. QED
        BY <4>1, <4>2
    <3>3. CASE ~ TrapBefore(Len(pipe1) + 1) /\ ~ e.trap
      <4>1. NextDelivered' = <<p>> /\ Leads(e, p) /\ NextDelivered # <<>>
        BY <1>4, <1>5, <1>7, <2>3, <2>4, <3>3
      <4>2. CASE e.pred
        <5>1. p \in PredictedTargets(ver, e.pc)
          BY <4>1, <4>2 DEF Leads
        <5>2. Stream!Following(e.pc, e.trap, e.pred) = {<<t>> : t \in PredictedTargets(ver, e.pc)}
          BY <1>0, <2>5, <3>3, <4>2 DEF Stream!Following
        <5>3. QED
          BY <4>1, <5>1, <5>2
      <4>3. CASE ~ e.pred
        <5>1. p = Plus(e.pc, Length(ver, e.pc))
          BY <4>1, <4>3 DEF Leads
        <5>2. Stream!Following(e.pc, e.trap, e.pred) = {<<Plus(e.pc, Length(ver, e.pc))>>}
          BY <1>0, <2>5, <3>3, <4>3 DEF Stream!Following
        <5>3. QED
          BY <4>1, <5>1, <5>2
      <4>4. QED
        BY <4>2, <4>3
    <3>4. QED
      BY <3>1, <3>2, <3>3
  <2>10. UNCHANGED <<Epochs, ver>>
    BY <1>3
  <2>11. Shown(e) = [pc |-> e.pc, ep |-> Epochs, trap |-> e.trap, pred |-> e.pred]
    BY <1>7 DEF Shown
  <2>12. QED
    BY <2>5, <2>6, <2>7, <2>8, <2>9, <2>10, <2>11 DEF Stream!Deliver, OutOf
<1>8. QED
  BY <1>2, <1>6, <1>7

LEMMA StreamTaken ==
  ASSUME RouteInv, RouteInv', Decode
  PROVE  Stream!Take
<1>0. FetchTypeOK /\ PairedByOrder /\ Entries /\ OnTheWay /\ EpochInv
  BY DEF RouteInv, Base
<1>1. Continues
  BY <1>0, PathDecoded
<1>2. PICK h \in FetchedEntry : h = Head(pipe1)
  BY <1>0, DecodeEpochs
<1>3. /\ pipe1 # <<>> /\ ~ stall /\ pipe1' = Tail(pipe1)
      /\ h.ep = Epochs => stall' = h.trap
      /\ h.ep # Epochs => ~ stall'
      /\ UNCHANGED <<Epochs, ver>>
  BY <1>2 DEF Decode, progVars, Epochs, epochVars
<1>4. PICK N \in Nat : N = Len(pipe1) /\ N >= 1
  BY <1>0, <1>3, Popped, EpochValues
<1>5. /\ Len(pipe1') = N - 1 /\ pipe1[1] = h /\ 1 \in 1..N
      /\ \A i \in 1..(N - 1) : i + 1 \in 1..N /\ pipe1'[i] = pipe1[i + 1]
      /\ \A i \in 2..N : i - 1 \in 1..(N - 1) /\ pipe1'[i - 1] = pipe1[i]
  BY <1>0, <1>2, <1>3, <1>4, Popped, EpochValues
<1>6. TrapBefore(Len(pipe1) + 1) <=> \E j \in 1..N : pipe1[j].ep = Epochs /\ pipe1[j].trap
  <2>1. \A j \in 1..N : j < N + 1
    BY <1>4
  <2>2. QED
    BY <1>3, <1>4, <2>1 DEF TrapBefore
<1>7. TrapBefore(Len(pipe1) + 1)'
        <=> stall' \/ \E j \in 1..(N - 1) : pipe1'[j].ep = Epochs /\ pipe1'[j].trap
  <2>1. Len(pipe1') + 1 = N /\ \A j \in 1..(N - 1) : j < N
    BY <1>4, <1>5
  <2>2. QED
    BY <1>3, <1>5, <2>1 DEF TrapBefore
<1>8. stall' <=> h.ep = Epochs /\ h.trap
  BY <1>3
<1>9. \A j \in 1..N : j = 1 \/ j \in 2..N
  BY <1>4
<1>10. TrapBefore(Len(pipe1) + 1)' <=> TrapBefore(Len(pipe1) + 1)
  BY <1>5, <1>6, <1>7, <1>8, <1>9
<1>11. NextDelivered' = NextDelivered
  BY <1>1, <1>10, StreamKeeps
<1>12. OutOf(pipe1) # <<>> /\ OutOf(pipe1') = Tail(OutOf(pipe1))
  BY <1>0, <1>3, OutTail, EpochValues
<1>13. QED
  BY <1>3, <1>11, <1>12 DEF Stream!Take, OutOf

LEMMA StreamStep ==
  ASSUME NoOverlap, FaultData = {FALSE}, RouteInv, RouteInv', [Next]_vars
  PROVE  [Stream!Next]_Stream!vars
<1>0. /\ Base /\ BtbTrue /\ Entries /\ OnTheWay /\ FetchTypeOK /\ PairedByOrder /\ EpochInv
      /\ FetchTypeOK'
  BY DEF RouteInv, Base
<1>1. CASE GenNextPc
  <2>1. Continues
    BY <1>0, <1>1, PathFetched
  <2>2. UNCHANGED <<pipe1, stall, epochVars, ver>>
    BY <1>1 DEF GenNextPc, backVars, progVars
  <2>3. QED
    BY <2>1, <2>2, StreamStays
<1>2. CASE GenFence \/ IcacheRespond \/ IcacheFence \/ ClearBtb \/ TrainBtb \/ UNCHANGED vars
  <2>1. Continues
    BY <1>0, <1>2, PathQuiet
  <2>2. UNCHANGED <<pipe1, stall, epochVars, ver>>
    BY <1>0, <1>2, RespondShape
       DEF GenFence, IcacheFence, ClearBtb, TrainBtb, vars, backVars, progVars
  <2>3. QED
    BY <2>1, <2>2, StreamStays
<1>3. CASE ProcessInstruction
  <2>1. Stream!Deliver \/ UNCHANGED Stream!vars
    BY <1>3, StreamHanded
  <2>2. QED
    BY <2>1 DEF Stream!Next
<1>4. CASE Decode
  <2>1. Stream!Take
    BY <1>4, StreamTaken
  <2>2. QED
    BY <2>1 DEF Stream!Next
<1>5. CASE Exec
  <2>1. UNCHANGED <<pipe1, ver>>
    BY <1>5 DEF Exec, ExecDrop, ExecPlain, ExecControl, ExecFrame
  <2>2. \/ Continues /\ UNCHANGED <<stall, epochVars>>
        \/ NothingLive' /\ stall' = FALSE /\ Epochs' # Epochs
    BY <1>0, <1>5, PathExecuted
  <2>3. CASE Continues /\ UNCHANGED <<stall, epochVars>>
    BY <2>1, <2>3, StreamStays
  <2>4. CASE NothingLive' /\ stall' = FALSE /\ Epochs' # Epochs
    <3>1. Stream!Redirect
      BY <2>1, <2>4, StreamRedirected
    <3>2. QED
      BY <3>1 DEF Stream!Next
  <2>5. QED
    BY <2>2, <2>3, <2>4
<1>6. CASE CommitFetchFault \/ CommitOther \/ CommitFenceI \/ CommitSfence
  <2>1. NothingLive'
    BY <1>0, <1>6, CommitEpochs
  <2>2. stall' = FALSE /\ wEpoch' = 1 - wEpoch /\ UNCHANGED pipe1
    BY <1>6 DEF CommitFetchFault, CommitOther, CommitFenceI, CommitSfence, WbFlush
  <2>3. Epochs' # Epochs
    BY <1>0, <2>2, EpochValues DEF Epochs
  <2>4. Stream!Redirect
    BY <2>1, <2>2, <2>3, StreamRedirected
  <2>5. QED
    BY <2>4 DEF Stream!Next
<1>7. QED
  BY <1>1, <1>2, <1>3, <1>4, <1>5, <1>6 DEF Next

LEMMA StreamStart ==
  ASSUME NoOverlap, Init
  PROVE  Stream!Init
<1>1. PICK n \in Nat : n = 0
  OBVIOUS
<1>2. Split(n) /\ ~ HasPrev /\ Stop(n + 1) = ResetPc
  BY <1>1 DEF Init, Split, HasPrev, Stop
<1>3. ~ TrapBefore(Len(pipe1) + 1)
  BY DEF Init, TrapBefore
<1>4. NextDelivered = <<ResetPc>>
  BY <1>2, <1>3, PathInit, NextIs DEF RouteInv, Base, Upcoming
<1>5. ResetPc \in Half /\ ver \in Version
  BY FetchAssumption DEF Init, FetchAssumption
<1>6. Epochs = <<0, 0>>
  BY DEF Init, Epochs
<1>7. [i \in 1..Len(pipe1) |-> [pc |-> pipe1[i].pc, ep |-> pipe1[i].ep,
                                trap |-> pipe1[i].trap, pred |-> pipe1[i].pred]] = <<>>
  <2>1. OutOf(pipe1) \in Seq(ShownEntry) /\ Len(OutOf(pipe1)) = 0
    BY PathInit, OutShape DEF Init, RouteInv, Base, FetchTypeOK
  <2>2. OutOf(pipe1) = <<>>
    BY <2>1, EmptySeq
  <2>3. QED
    BY <2>2 DEF OutOf
<1>8. QED
  BY <1>4, <1>5, <1>6, <1>7 DEF Stream!Init

\* The fetch side gives decode what Pipeline assumes of it: between two
\* re-directions one stream of pcs, each behind the one before as predicted.
THEOREM StreamImplemented == NoOverlap /\ FaultData = {FALSE} => (Spec => ImplementsPcStream)
<1> SUFFICES ASSUME NoOverlap, FaultData = {FALSE} PROVE Spec => Stream!Spec
  BY DEF ImplementsPcStream
<1>1. Init => Stream!Init
  BY StreamStart
<1>2. RouteInv /\ RouteInv' /\ [Next]_vars => [Stream!Next]_Stream!vars
  BY StreamStep
<1>3. QED
  BY <1>1, <1>2, RouteInvariance, PTL DEF Spec, Stream!Spec

=============================================================================
