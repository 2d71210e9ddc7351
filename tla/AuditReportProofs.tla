------------------------- MODULE AuditReportProofs -------------------------
(***************************************************************************)
(* What the audit log and the agent that reports it promise, proved for    *)
(* every size of the log, of the queue and of a batch.                     *)
(***************************************************************************)
EXTENDS AuditReport, TLAPS, WellFoundedInduction

-----------------------------------------------------------------------------
(* Induction on numbers, from the well-foundedness of < on Nat: over a set   *)
(* of numbers, since no prover takes a predicate.                            *)

\* A set of numbers has a least one.
LEMMA LeastNat ==
  ASSUME NEW S \in SUBSET Nat, S # {}
  PROVE  \E n \in S : \A m \in S : n <= m
<1>1. PICK x \in S : \A y \in S : ~(<<y, x>> \in OpToRel(<, Nat))
  BY WFMin, NatLessThanWellFounded
<1>2. \A y \in S : ~(y < x)
  BY <1>1 DEF OpToRel
<1> QED
  BY <1>2

\* What holds of 0, and of i when it holds of i - 1, holds up to n.
LEMMA Induction ==
  ASSUME NEW S \in SUBSET Nat, NEW n \in Nat, 0 \in S, \A i \in 1..n : i - 1 \in S => i \in S
  PROVE  0..n \subseteq S
<1> DEFINE B == (0..n) \ S
<1> SUFFICES ASSUME B # {} PROVE FALSE
  OBVIOUS
<1>1. PICK m \in B : \A k \in B : m <= k
  <2> HIDE DEF B
  <2>1. B \in SUBSET Nat
    BY DEF B
  <2> QED
    BY LeastNat, <2>1
<1> QED
  BY <1>1

\* A set of generations has an oldest one, the one DrainPlan chooses.
LEMMA Oldest ==
  ASSUME NEW S \in SUBSET Generations, S # {}
  PROVE  LET n == CHOOSE g \in S : \A h \in S : h <= g IN n \in S /\ \A h \in S : h <= n
<1> DEFINE B == {Keep - g : g \in S}
<1>0. \A g \in S : Keep - g \in Nat
  BY ReportAssumption DEF Generations
<1>1. B \in SUBSET Nat /\ B # {}
  <2>1. PICK g \in S : TRUE
    OBVIOUS
  <2>2. Keep - g \in B
    BY <2>1
  <2> QED
    BY <1>0, <2>2
<1>2. PICK m \in B : \A k \in B : m <= k
  <2> HIDE DEF B
  <2> QED
    BY <1>1, LeastNat
<1>3. PICK g \in S : m = Keep - g
  BY <1>2
<1>4. \A h \in S : h <= g
  <2> SUFFICES ASSUME NEW h \in S PROVE h <= g
    OBVIOUS
  <2>1. m <= Keep - h
    BY <1>2
  <2> QED
    BY <1>3, <2>1, ReportAssumption DEF Generations
<1> QED
  BY <1>4

-----------------------------------------------------------------------------
(* prepare_event, over all the lines of a read.                              *)

\* Prepared is defined by its recursion: there is such a function.
LEMMA PreparedUnfolds ==
  ASSUME NEW T, NEW lines \in Seq(T)
  PROVE  Prepared(lines) = [i \in 0..Len(lines) |->
           IF i = 0 THEN <<>>
           ELSE IF lines[i][2] \in Unusable THEN Prepared(lines)[i - 1]
           ELSE Append(Prepared(lines)[i - 1], lines[i])]
<1> DEFINE Is(f, n) == f = [i \in 0..n |->
             IF i = 0 THEN <<>>
             ELSE IF lines[i][2] \in Unusable THEN f[i - 1]
             ELSE Append(f[i - 1], lines[i])]
<1> DEFINE S == {n \in Nat : \E f : Is(f, n)}
<1>1. Len(lines) \in Nat
  OBVIOUS
<1>2. 0 \in S
  <2>1. Is([i \in 0..0 |-> <<>>], 0)
    OBVIOUS
  <2> QED
    BY <2>1
<1>3. ASSUME NEW i \in 1..Len(lines), i - 1 \in S PROVE i \in S
  <2>1. PICK f : Is(f, i - 1)
    BY <1>3
  <2> DEFINE next == IF lines[i][2] \in Unusable THEN f[i - 1] ELSE Append(f[i - 1], lines[i])
             g == [k \in 0..i |-> IF k = i THEN next ELSE f[k]]
  <2>2. Is(g, i)
    <3>1. \A k \in 0..i : k # i => g[k] = f[k] /\ (k > 0 => g[k - 1] = f[k - 1])
      OBVIOUS
    <3>2. g[i] = next /\ g[i - 1] = f[i - 1] /\ i > 0
      OBVIOUS
    <3>3. \A k \in 0..i - 1 : f[k] = IF k = 0 THEN <<>>
            ELSE IF lines[k][2] \in Unusable THEN f[k - 1] ELSE Append(f[k - 1], lines[k])
      BY <2>1
    <3>4. \A k \in 0..i : g[k] = IF k = 0 THEN <<>>
            ELSE IF lines[k][2] \in Unusable THEN g[k - 1] ELSE Append(g[k - 1], lines[k])
      <4> HIDE DEF g, Is
      <4> QED
        BY <3>1, <3>2, <3>3
    <3>5. g = [k \in 0..i |-> g[k]]
      OBVIOUS
    <3> HIDE DEF g
    <3> QED
      BY <3>4, <3>5
  <2> HIDE DEF Is, g
  <2> QED
    BY <2>2
<1>4. Len(lines) \in S
  <2> HIDE DEF S
  <2>1. S \in SUBSET Nat
    BY DEF S
  <2>2. 0..Len(lines) \subseteq S
    BY <1>1, <1>2, <1>3, <2>1, Induction
  <2> QED
    BY <1>1, <2>2
<1>5. \E f : Is(f, Len(lines))
  BY <1>4
<1>6. Prepared(lines) = CHOOSE f : Is(f, Len(lines))
  BY DEF Prepared
<1>7. Is(Prepared(lines), Len(lines))
  <2> HIDE DEF Is
  <2> QED
    BY <1>5, <1>6
<1> QED
  BY <1>7

\* u is what remains of the first n lines: at[k] is the line that is its k-th.
Selects(at, u, lines, n) ==
  /\ at \in [1..Len(u) -> 1..n]
  /\ \A j, k \in 1..Len(u) : j < k => at[j] < at[k]
  /\ \A k \in 1..Len(u) : u[k] = lines[at[k]]
  /\ \A i \in 1..n : lines[i][2] \in Unusable \/ \E k \in 1..Len(u) : at[k] = i

\* Usable keeps the usable lines, each once, in their order.
LEMMA UsableSelects ==
  ASSUME NEW T, NEW lines \in Seq(T)
  PROVE  /\ Usable(lines) \in Seq(T)
         /\ \E at : Selects(at, Usable(lines), lines, Len(lines))
<1> DEFINE p == Prepared(lines)
           S == {i \in 0..Len(lines) : p[i] \in Seq(T) /\ \E at : Selects(at, p[i], lines, i)}
<1> HIDE DEF p
<1>1. /\ p[0] = <<>>
      /\ \A i \in 1..Len(lines) :
           p[i] = IF lines[i][2] \in Unusable THEN p[i - 1] ELSE Append(p[i - 1], lines[i])
  <2>1. p = [i \in 0..Len(lines) |->
          IF i = 0 THEN <<>>
          ELSE IF lines[i][2] \in Unusable THEN p[i - 1]
          ELSE Append(p[i - 1], lines[i])]
    BY PreparedUnfolds DEF p
  <2>2. Len(lines) \in Nat
    OBVIOUS
  <2>3. \A i \in 0..Len(lines) : p[i] = IF i = 0 THEN <<>>
          ELSE IF lines[i][2] \in Unusable THEN p[i - 1]
          ELSE Append(p[i - 1], lines[i])
    BY <2>1, Zenon
  <2>4. 0 \in 0..Len(lines) /\ \A i \in 1..Len(lines) : i \in 0..Len(lines) /\ i # 0
    BY <2>2
  <2> QED
    BY <2>3, <2>4, Zenon
<1>2. 0 \in S
  <2>1. p[0] = <<>> /\ Len(<<>>) = 0 /\ <<>> \in Seq(T)
    BY <1>1
  <2>2. [k \in 1..0 |-> 0] \in [1..0 -> 1..0]
    OBVIOUS
  <2>3. Selects([k \in 1..0 |-> 0], p[0], lines, 0)
    BY <2>1, <2>2 DEF Selects
  <2>4. 0 \in 0..Len(lines) /\ p[0] \in Seq(T)
    BY <2>1
  <2> QED
    BY <2>3, <2>4
<1>3. ASSUME NEW i \in 1..Len(lines), i - 1 \in S PROVE i \in S
  <2>1. p[i - 1] \in Seq(T)
    BY <1>3
  <2>2. PICK at : Selects(at, p[i - 1], lines, i - 1)
    BY <1>3
  <2>3. CASE lines[i][2] \in Unusable
    <3>1. p[i] = p[i - 1]
      BY <1>1, <2>3
    <3>2. Selects(at, p[i], lines, i)
      BY <2>1, <2>2, <2>3, <3>1 DEF Selects
    <3> QED
      BY <2>1, <3>1, <3>2
  <2>4. CASE lines[i][2] \notin Unusable
    <3> DEFINE u == p[i - 1]
               n == Len(u)
               to == [k \in 1..n + 1 |-> IF k = n + 1 THEN i ELSE at[k]]
    <3>0. lines[i] \in T
      OBVIOUS
    <3>1. p[i] = Append(u, lines[i])
      BY <1>1, <2>4, Zenon
    <3>2. Len(p[i]) = n + 1 /\ p[i] \in Seq(T) /\ n \in Nat
      BY <2>1, <3>0, <3>1
    <3>3. \A k \in 1..n : p[i][k] = u[k]
      BY <2>1, <3>0, <3>1
    <3>4. p[i][n + 1] = lines[i]
      BY <2>1, <3>0, <3>1
    <3> HIDE DEF u, n
    <3>5. at \in [1..n -> 1..i - 1] /\ \A j, k \in 1..n : j < k => at[j] < at[k]
      BY <2>2 DEF Selects, u, n
    <3>6. \A k \in 1..n : u[k] = lines[at[k]]
      BY <2>2 DEF Selects, u, n
    <3>7. \A j \in 1..i - 1 : lines[j][2] \in Unusable \/ \E k \in 1..n : at[k] = j
      BY <2>2 DEF Selects, u, n
    <3>8. to \in [1..n + 1 -> 1..i]
      BY <3>2, <3>5
    <3>9. \A j, k \in 1..n + 1 : j < k => to[j] < to[k]
      BY <3>2, <3>5
    <3>10. \A k \in 1..n + 1 : p[i][k] = lines[to[k]]
      BY <3>2, <3>3, <3>4, <3>6
    <3>11. \A j \in 1..i : lines[j][2] \in Unusable \/ \E k \in 1..n + 1 : to[k] = j
      <4> SUFFICES ASSUME NEW j \in 1..i, lines[j][2] \notin Unusable PROVE \E k \in 1..n + 1 : to[k] = j
        OBVIOUS
      <4>1. CASE j = i
        <5>1. n + 1 \in 1..n + 1 /\ to[n + 1] = i
          BY <3>2
        <5> QED
          BY <4>1, <5>1
      <4>2. CASE j # i
        <5>1. PICK k \in 1..n : at[k] = j
          BY <3>7, <4>2
        <5>2. k \in 1..n + 1 /\ to[k] = j
          BY <3>2, <5>1
        <5> QED
          BY <5>2
      <4> QED
        BY <4>1, <4>2
    <3>12. Selects(to, p[i], lines, i)
      BY <3>2, <3>8, <3>9, <3>10, <3>11 DEF Selects
    <3> QED
      BY <3>2, <3>12
  <2> QED
    BY <2>3, <2>4
<1>4. Len(lines) \in S
  <2> HIDE DEF S
  <2>1. S \in SUBSET Nat /\ Len(lines) \in Nat
    BY DEF S
  <2>2. 0..Len(lines) \subseteq S
    BY <1>2, <1>3, <2>1, Induction
  <2> QED
    BY <2>1, <2>2
<1> QED
  BY <1>4 DEF Usable, p

-----------------------------------------------------------------------------
Plans == Seq([gen : Generations, start : Nat, inode : Nat])

\* A plan of the agent, of generations there are, is not the absence of a plan.
LEMMA PlanIsAPlan ==
  ASSUME NEW p \in Plans
  PROVE  p # NoPlan
<1> SUFFICES ASSUME p = NoPlan PROVE FALSE
  OBVIOUS
<1> DEFINE R == [gen : Generations, start : Nat, inode : Nat]
<1>1. Len(p) = 1 /\ p[1].gen = -1
  BY DEF NoPlan
<1>2. p[1] \in R
  <2> HIDE DEF R
  <2>1. p \in Seq(R)
    BY DEF Plans, R
  <2> QED
    BY <1>1, <2>1
<1> QED
  BY <1>1, <1>2, ReportAssumption DEF Generations

LEMMA LogTypes ==
  ASSUME TypeOK, NEW g \in Generations
  PROVE  /\ log[g] \in [inode : Nat, recs : Seq(Records)]
         /\ log[g].inode \in Nat /\ log[g].recs \in Seq(Records) /\ Size(g) \in Nat
         /\ ~Exists(g) => Size(g) = 0 /\ log[g].inode = 0 /\ log[g].recs = <<>>
<1>1. log[g] \in [inode : Nat, recs : Seq(Records)]
  BY DEF TypeOK
<1> QED
  BY <1>1 DEF Size, Exists, NoFile, NoInode

LEMMA NoFileIsAFile == NoFile \in [inode : Nat, recs : Seq(Records)]
  BY DEF NoFile, NoInode

LEMMA PlanType ==
  ASSUME TypeOK
  PROVE  DrainPlan \in Plans
<1> DEFINE at == {g \in Rotated : offset > 0 /\ inode # NoInode /\ log[g].inode = inode}
           first == IF at = {} THEN Rotated ELSE {g \in Rotated : \A c \in at : g <= c}
           oldest == CHOOSE g \in first : \A h \in first : h <= g
           n == IF first = {} THEN 0 ELSE oldest
           entry(g) == [gen |-> g, start |-> IF g \in at THEN offset ELSE 0, inode |-> log[g].inode]
<1>1. first \in SUBSET Generations /\ \A g \in first : g > 0
  BY ReportAssumption DEF Rotated, Generations
<1>2. first # {} => oldest \in first
  <2> HIDE DEF first
  <2> QED
    BY <1>1, Oldest
<1>3. n \in Nat /\ n <= Keep
  <2> HIDE DEF first, oldest
  <2>1. \A g \in Generations : g \in Nat /\ g <= Keep
    BY ReportAssumption DEF Generations
  <2>2. first # {} => oldest \in Generations
    BY <1>1, <1>2, Zenon
  <2> QED
    BY <2>1, <2>2, ReportAssumption
<1>4. \A g \in 1..Keep : entry(g) \in [gen : Generations, start : Nat, inode : Nat]
  <2> SUFFICES ASSUME NEW g \in 1..Keep PROVE entry(g) \in [gen : Generations, start : Nat, inode : Nat]
    OBVIOUS
  <2>1. g \in Generations
    BY ReportAssumption DEF Generations
  <2>2. log[g].inode \in Nat /\ offset \in Nat
    BY <2>1, LogTypes DEF TypeOK
  <2> HIDE DEF at
  <2> QED
    BY <2>1, <2>2
<1>5. [i \in 1..n |-> entry(n + 1 - i)] \in Plans
  <2> HIDE DEF n, entry
  <2>1. \A i \in 1..n : n + 1 - i \in 1..Keep
    BY <1>3, ReportAssumption
  <2> QED
    BY <1>3, <1>4, <2>1 DEF Plans
<1>6. DrainPlan = [i \in 1..n |-> entry(n + 1 - i)]
  BY DEF DrainPlan
<1> QED
  BY <1>5, <1>6

\* What the actions of the agent rely on besides the types.
StepInv ==
  /\ rot # Idle => written < MaxRecords
  /\ Draining => plan # NoPlan
  /\ step = "down" => pending = <<>>

TypeInv == TypeOK /\ StepInv

LEMMA WriterTypes ==
  ASSUME TypeInv, WriterNext
  PROVE  TypeInv'
<1> USE DEF TypeInv
<1>1. 0 \in Generations /\ Keep \in Generations
  BY ReportAssumption DEF Generations
<1>2. DOMAIN log = Generations /\ \A g \in Generations : log[g] \in [inode : Nat, recs : Seq(Records)]
  BY DEF TypeOK
<1>3. ASSUME Append1, written < MaxRecords
      PROVE  /\ log' \in [Generations -> [inode : Nat, recs : Seq(Records)]]
             /\ inodes' \in Nat /\ written' \in 0..MaxRecords
  <2>1. log[0].recs \in Seq(Records) /\ log[0].inode \in Nat
    BY <1>1, <1>2
  <2>2. written + 1 \in Records
    BY <1>3, ReportAssumption DEF TypeOK, Records
  <2>3. Append(log[0].recs, written + 1) \in Seq(Records)
    BY <2>1, <2>2
  <2>4. inodes \in Nat /\ written \in Nat
    BY DEF TypeOK
  <2> QED
    BY <1>1, <1>2, <1>3, <2>1, <2>2, <2>3, <2>4 DEF Append1, TypeOK, Records
<1>4. CASE Record
  BY <1>3, <1>4 DEF Record, TypeOK, StepInv, tailVars, hubVars, Draining
<1>5. CASE RotateBegins
  <2>1. Keep + 1 \in Idle..Keep + 1
    BY ReportAssumption DEF Idle
  <2> QED
    BY <1>5, <2>1 DEF RotateBegins, TypeOK, StepInv, tailVars, hubVars, Draining
<1>6. CASE Prune
  <2>1. log' \in [Generations -> [inode : Nat, recs : Seq(Records)]]
    BY <1>1, <1>6, NoFileIsAFile DEF Prune, TypeOK
  <2>2. Keep \in Idle..Keep + 1 /\ rot # Idle
    BY <1>6, ReportAssumption DEF Idle, Prune
  <2> QED
    BY <1>6, <2>1, <2>2 DEF Prune, TypeOK, StepInv, tailVars, hubVars, Draining
<1>7. CASE Shift
  <2>1. rot \in Generations /\ rot - 1 \in Generations
    BY <1>7, ReportAssumption DEF Shift, Generations
  <2>2. log' \in [Generations -> [inode : Nat, recs : Seq(Records)]]
    BY <1>2, <1>7, <2>1, NoFileIsAFile DEF Shift, TypeOK
  <2>3. rot - 1 \in Idle..Keep + 1 /\ rot # Idle
    BY <1>7, ReportAssumption DEF Idle, Shift
  <2> QED
    BY <1>7, <2>2, <2>3 DEF Shift, TypeOK, StepInv, tailVars, hubVars, Draining
<1>8. CASE Reopen
  <2>1. Idle \in Idle..Keep + 1 /\ rot # Idle
    BY <1>8, ReportAssumption DEF Idle, Reopen
  <2> QED
    BY <1>3, <1>8, <2>1 DEF Reopen, TypeOK, StepInv, tailVars, hubVars, Draining
<1>9. CASE RotateBreaks
  <2>1. rot # Idle /\ rot' \in Idle..Keep + 1
    BY <1>9, ReportAssumption DEF Idle, RotateBreaks
  <2> QED
    BY <1>9, <2>1 DEF RotateBreaks, TypeOK, StepInv, tailVars, hubVars, Draining
<1> QED
  BY <1>4, <1>5, <1>6, <1>7, <1>8, <1>9 DEF WriterNext

\* A read appends the usable ones of its lines, and no more than there is room for.
LEMMA ReadTypes ==
  ASSUME TypeOK, NEW lines \in Seq(Nat \X Records), Takes(lines), pending' = pending \o Usable(lines)
  PROVE  pending' \in Seq(Nat \X Records) /\ Len(pending') <= MaxPending
<1>1. Usable(lines) \in Seq(Nat \X Records)
  BY UsableSelects
<1>2. pending \in Seq(Nat \X Records)
  BY DEF TypeOK
<1>3. Len(Usable(lines)) <= MaxPending - Len(pending)
  BY DEF Takes, Room
<1> HIDE DEF Usable
<1> QED
  BY <1>1, <1>2, <1>3, ReportAssumption

\* The lines of a file after a position, as the agent reads them.
Lines(g, base, n)   == [i \in 1..n |-> <<base + i, log[g].recs[base + i]>>]
Replays(g, base, n) == [i \in 1..n |-> <<0, log[g].recs[base + i]>>]

LEMMA LinesType ==
  ASSUME TypeOK, NEW g \in Generations, NEW base \in Nat, NEW n \in Nat, n <= Size(g) - base
  PROVE  /\ Lines(g, base, n) \in Seq(Nat \X Records) /\ Len(Lines(g, base, n)) = n
         /\ Replays(g, base, n) \in Seq(Nat \X Records) /\ Len(Replays(g, base, n)) = n
<1>1. log[g].recs \in Seq(Records) /\ Size(g) \in Nat
  BY LogTypes
<1>2. \A i \in 1..n : base + i \in 1..Size(g)
  BY <1>1
<1>3. \A i \in 1..n : base + i \in Nat /\ log[g].recs[base + i] \in Records
  BY <1>1, <1>2 DEF Size
<1> QED
  BY <1>3 DEF Lines, Replays

\* The agent works off a plan of generations there are.
LEMMA DrainEntry ==
  ASSUME TypeInv, Draining, plan # <<>>
  PROVE  /\ plan \in Plans /\ Len(plan) > 0 /\ Head(plan) = plan[1] /\ Tail(plan) \in Plans
         /\ Head(plan) \in [gen : Generations, start : Nat, inode : Nat]
         /\ Head(plan).gen \in Generations /\ Head(plan).start \in Nat /\ Head(plan).inode \in Nat
<1> DEFINE R == [gen : Generations, start : Nat, inode : Nat]
<1>1. plan \in Plans
  BY DEF TypeInv, TypeOK, StepInv, Plans
<1>2. Len(plan) > 0 /\ Head(plan) = plan[1] /\ Head(plan) \in R /\ Tail(plan) \in Seq(R)
  <2> HIDE DEF R
  <2>1. plan \in Seq(R)
    BY <1>1 DEF Plans, R
  <2> QED
    BY <2>1
<1> QED
  BY <1>1, <1>2 DEF Plans

\* What a read of a planned generation does.
LEMMA DrainReadsWhat ==
  ASSUME TypeInv, NEW n \in 1..MaxPending, DrainReads(n)
  PROVE  LET e == Head(plan)
             lines == Replays(e.gen, e.start, n) IN
         /\ Draining /\ plan # <<>>
         /\ Exists(e.gen) /\ log[e.gen].inode = e.inode /\ n <= Size(e.gen) - e.start
         /\ lines \in Seq(Nat \X Records) /\ Len(lines) = n
         /\ Takes(lines) /\ pending' = pending \o Usable(lines)
         /\ plan' = IF e.start + n = Size(e.gen) THEN Tail(plan)
                    ELSE [plan EXCEPT ![1].start = e.start + n]
         /\ step' \in {"idle", step}
<1> DEFINE e == Head(plan)
           lines == Replays(e.gen, e.start, n)
<1>1. /\ Draining /\ plan # <<>>
      /\ Exists(e.gen) /\ log[e.gen].inode = e.inode /\ n <= Size(e.gen) - e.start
      /\ Takes(lines) /\ pending' = pending \o Usable(lines)
      /\ plan' = IF e.start + n = Size(e.gen) THEN Tail(plan)
                 ELSE [plan EXCEPT ![1].start = e.start + n]
      /\ step' \in {"idle", step}
  <2> HIDE DEF Takes, Usable
  <2> QED
    BY DEF DrainReads, Replays, Size
<1>2. lines \in Seq(Nat \X Records) /\ Len(lines) = n
  <2>1. e.gen \in Generations /\ e.start \in Nat /\ n \in Nat /\ TypeOK
    BY <1>1, DrainEntry, ReportAssumption DEF TypeInv
  <2>2. n <= Size(e.gen) - e.start
    BY <1>1
  <2> HIDE DEF e
  <2> QED
    BY <2>1, <2>2, LinesType
<1> QED
  BY <1>1, <1>2

\* What a read of the main file does.
LEMMA ReadMainWhat ==
  ASSUME TypeInv, NEW n \in 1..MaxPending, ReadMain(n)
  PROVE  LET lines == Lines(0, readOffset, n) IN
         /\ n <= Size(0) - readOffset
         /\ lines \in Seq(Nat \X Records) /\ Len(lines) = n
         /\ Takes(lines) /\ pending' = pending \o Usable(lines)
         /\ readOffset' = readOffset + n
<1> DEFINE lines == Lines(0, readOffset, n)
<1>1. /\ n <= Size(0) - readOffset
      /\ Takes(lines) /\ pending' = pending \o Usable(lines)
      /\ readOffset' = readOffset + n
  BY DEF ReadMain, Lines
<1>2. 0 \in Generations /\ readOffset \in Nat
  BY ReportAssumption DEF Generations, TypeInv, TypeOK
<1>3. lines \in Seq(Nat \X Records) /\ Len(lines) = n
  BY <1>1, <1>2, LinesType, ReportAssumption DEF TypeInv
<1> QED
  BY <1>1, <1>3

LEMMA ReaderTypes ==
  ASSUME TypeInv, ReaderNext
  PROVE  TypeInv'
<1>1. ASSUME StartDrain PROVE plan' \in Plans /\ plan' # NoPlan /\ offset' \in Nat /\ readOffset' \in Nat /\ inode' \in Nat
  BY <1>1, PlanType, PlanIsAPlan, LogTypes, ReportAssumption DEF StartDrain, Generations, TypeInv
<1>2. log[0].inode \in Nat
  BY LogTypes, ReportAssumption DEF Generations, TypeInv
<1>3. CASE ReadBegins
  BY <1>3 DEF ReadBegins, TypeInv, TypeOK, StepInv, logVars, tailVars, hubVars, Draining
<1>4. CASE StatMain
  BY <1>2, <1>4 DEF StatMain, TypeInv, TypeOK, StepInv, logVars, tailVars, hubVars, Draining
<1>5. CASE MakePlan
  BY <1>1, <1>5 DEF MakePlan, TypeInv, TypeOK, StepInv, Plans, logVars, tailVars, hubVars, Draining
<1>6. CASE DrainEnds
  BY <1>6 DEF DrainEnds, TypeInv, TypeOK, StepInv, logVars, tailVars, hubVars, Draining
<1>7. CASE DrainSkips
  <2>1. plan' \in Plans /\ plan' # NoPlan
    BY <1>7, DrainEntry, PlanIsAPlan DEF DrainSkips
  <2> QED
    BY <1>7, <2>1 DEF DrainSkips, TypeInv, TypeOK, StepInv, Plans, logVars, tailVars, hubVars, Draining
<1>8. CASE DrainShifted
  BY <1>1, <1>8 DEF DrainShifted, TypeInv, TypeOK, StepInv, Plans, logVars, tailVars, hubVars, Draining
<1>9. CASE StatAgain
  BY <1>2, <1>9 DEF StatAgain, TypeInv, TypeOK, StepInv, logVars, tailVars, hubVars, Draining
<1>10. CASE ReadNothing
  BY <1>10 DEF ReadNothing, TypeInv, TypeOK, StepInv, logVars, tailVars, hubVars, Draining
<1>11. CASE AgentStarts
  BY <1>11 DEF AgentStarts, TypeInv, TypeOK, StepInv, logVars, tailVars, hubVars, Draining
<1>12. ASSUME NEW n \in 1..MaxPending, DrainReads(n) PROVE TypeInv'
  <2>1. Draining /\ plan # <<>>
    BY <1>12, DrainReadsWhat
  <2>2. pending' \in Seq(Nat \X Records) /\ Len(pending') <= MaxPending
    BY <1>12, DrainReadsWhat, ReadTypes DEF TypeInv
  <2> DEFINE e == Head(plan)
  <2>3. e.start + n \in Nat
    BY <2>1, DrainEntry
  <2>4. [plan EXCEPT ![1].start = e.start + n] \in Plans
    <3> DEFINE R == [gen : Generations, start : Nat, inode : Nat]
               to == [plan[1] EXCEPT !.start = e.start + n]
    <3>1. to \in R
      BY <2>1, <2>3, DrainEntry
    <3>2. plan \in Seq(R) /\ Len(plan) > 0
      BY <2>1, DrainEntry DEF Plans
    <3>3. [plan EXCEPT ![1] = to] \in Seq(R)
      <4> HIDE DEF R, to
      <4> QED
        BY <3>1, <3>2
    <3> QED
      BY <3>3 DEF Plans
  <2>5. plan' \in Plans
    BY <1>12, <2>1, <2>4, DrainReadsWhat, DrainEntry
  <2>6. plan' # NoPlan /\ step' \in {"idle", step} /\ step \in {"drain", "catchup"}
    BY <1>12, <2>1, <2>5, PlanIsAPlan, DrainReadsWhat DEF Draining
  <2> QED
    BY <1>12, <2>2, <2>5, <2>6 DEF DrainReads, TypeInv, TypeOK, StepInv, Plans, logVars, hubVars, Draining
<1>13. ASSUME NEW n \in 1..MaxPending, ReadMain(n) PROVE TypeInv'
  <2>1. pending' \in Seq(Nat \X Records) /\ Len(pending') <= MaxPending
    BY <1>13, ReadMainWhat, ReadTypes DEF TypeInv
  <2> QED
    BY <1>13, <2>1, ReportAssumption DEF ReadMain, TypeInv, TypeOK, StepInv, logVars, hubVars, Draining
<1> QED
  BY <1>3, <1>4, <1>5, <1>6, <1>7, <1>8, <1>9, <1>10, <1>11, <1>12, <1>13 DEF ReaderNext

\* A batch is a beginning of the queue.
LEMMA BatchType ==
  ASSUME TypeOK, pending # <<>>
  PROVE  /\ BatchLen \in 1..Len(pending)
         /\ Batch \subseteq Records
         /\ pending[BatchLen][1] \in Nat
         /\ SubSeq(pending, BatchLen + 1, Len(pending)) \in Seq(Nat \X Records)
         /\ Len(SubSeq(pending, BatchLen + 1, Len(pending))) = Len(pending) - BatchLen
         /\ \A k \in 1..Len(pending) - BatchLen :
              SubSeq(pending, BatchLen + 1, Len(pending))[k] = pending[BatchLen + k]
<1>1. pending \in Seq(Nat \X Records) /\ Len(pending) \in Nat /\ Len(pending) > 0
  BY DEF TypeOK
<1>2. BatchLen \in 1..Len(pending)
  BY <1>1, ReportAssumption DEF BatchLen
<1>3. \A k \in 1..Len(pending) : pending[k][1] \in Nat /\ pending[k][2] \in Records
  BY <1>1
<1> HIDE DEF BatchLen
<1> QED
  BY <1>1, <1>2, <1>3 DEF Batch

LEMMA FlushTypes ==
  ASSUME TypeInv, FlushAcked \/ FlushRejected \/ FlushUnanswered \/ AgentCrashes
  PROVE  TypeInv'
<1>1. ASSUME pending # <<>>, Commit
      PROVE  /\ pending' \in Seq(Nat \X Records) /\ Len(pending') <= MaxPending
             /\ offset' \in Nat /\ cursor' \in [offset : Nat, inode : Nat]
  <2>1. pending' \in Seq(Nat \X Records) /\ Len(pending') <= MaxPending /\ offset' \in Nat
    BY <1>1, BatchType, ReportAssumption DEF Commit, Dequeue, TypeInv, TypeOK
  <2> QED
    BY <1>1, <2>1 DEF Commit, Checkpoint, TypeInv, TypeOK
<1>2. CASE FlushAcked
  BY <1>1, <1>2, BatchType DEF FlushAcked, MayFlush, TypeInv, TypeOK, StepInv, logVars, Draining
<1>3. CASE FlushRejected
  BY <1>1, <1>3, BatchType DEF FlushRejected, MayFlush, TypeInv, TypeOK, StepInv, logVars, Draining
<1>4. CASE FlushUnanswered
  BY <1>4, BatchType DEF FlushUnanswered, MayFlush, TypeInv, TypeOK, StepInv, logVars, tailVars, Draining
<1>5. CASE AgentCrashes
  BY <1>5, ReportAssumption DEF AgentCrashes, TypeInv, TypeOK, StepInv, logVars, tailVars, hubVars, Draining
<1> QED
  BY <1>2, <1>3, <1>4, <1>5

LEMMA TypesNext ==
  ASSUME TypeInv, [Next]_vars
  PROVE  TypeInv'
<1>1. CASE UNCHANGED vars
  BY <1>1 DEF vars, logVars, tailVars, hubVars, TypeInv, TypeOK, StepInv, Draining
<1> QED
  BY <1>1, WriterTypes, ReaderTypes, FlushTypes DEF Next

LEMMA TypesInit == Init => TypeInv
<1> SUFFICES ASSUME Init PROVE TypeInv
  OBVIOUS
<1>1. log \in [Generations -> [inode : Nat, recs : Seq(Records)]]
  BY NoFileIsAFile DEF Init
<1>2. rot \in Idle..Keep + 1 /\ written \in 0..MaxRecords
  BY ReportAssumption DEF Init, Idle
<1>3. pending \in Seq(Nat \X Records) /\ Len(pending) <= MaxPending
  BY ReportAssumption DEF Init
<1> QED
  BY <1>1, <1>2, <1>3 DEF Init, TypeInv, TypeOK, StepInv, NoInode, Draining

\* The log, the agent's positions, its plan and its queue keep to their types,
\* whatever fails: an offset is never negative and a queue never overfull.
THEOREM TypeCorrect == Spec => []TypeOK
<1>1. TypeInv => TypeOK
  BY DEF TypeInv
<1> QED
  BY <1>1, TypesInit, TypesNext, PTL DEF Spec

-----------------------------------------------------------------------------
(* The first file, until the log is rotated for the first time.              *)

\* A rotation keeps what it moves.
Kept == Keep >= 1

\* The log is still its first file, under its own name.
Early == inodes <= 1 /\ ~Exists(1)

LogInv ==
  /\ rot \in 1..Keep + 1 => Exists(0)
  /\ ~Early /\ inodes <= 1 => inodes = 1 /\ rot = 0 /\ ~Exists(0)
  /\ Early => /\ Unrotated
              /\ Size(0) = written
              /\ \A i \in 1..Size(0) : log[0].recs[i] = i
              /\ Exists(0) => inodes = 1 /\ log[0].inode = 1
              /\ ~Exists(0) => inodes = 0

Done          == Settled \cup Unusable
Covered(q)    == q \in Done \/ \E k \in 1..Len(pending) : pending[k][2] = q
AllCovered(n) == \A q \in 1..n : Covered(q)

\* The queue, as long as it holds records of the first file only.
Pairs ==
  /\ \A k \in 1..Len(pending) : pending[k][1] = pending[k][2] /\ pending[k][2] <= readOffset
  /\ \A j, k \in 1..Len(pending) : j < k => pending[j][2] < pending[k][2]

\* The agent's positions are positions in the first file.
Tracks ==
  /\ 1..offset \subseteq Done /\ 1..cursor.offset \subseteq Done
  /\ step # "down" => AllCovered(readOffset)
  /\ Pairs
  /\ inode \in {0, 1} /\ cursor.inode \in {0, 1}
  /\ plan = NoPlan

EarlyInv ==
  Early =>
    /\ Tracks
    /\ step \in {"down", "idle", "stat", "read"}
    /\ offset <= written /\ readOffset <= written /\ cursor.offset <= written

LEMMA GenerationsOf ==
  ASSUME Keep >= 1
  PROVE  /\ 0 \in Generations /\ 1 \in Generations /\ Keep \in Generations
         /\ Generations \ {0} = 1..Keep /\ Keep \in Nat
  BY ReportAssumption DEF Generations

\* An appended record is the next one, in the file that had the name or in a new one.
LEMMA AppendWhat ==
  ASSUME TypeOK, Append1
  PROVE  /\ Exists(0)' /\ Size(0)' = Size(0) + 1 /\ written' = written + 1
         /\ log'[0].recs[Size(0) + 1] = written + 1
         /\ \A i \in 1..Size(0) : log'[0].recs[i] = log[0].recs[i]
         /\ Exists(0) => log'[0].inode = log[0].inode /\ inodes' = inodes
         /\ ~Exists(0) => log'[0].inode = inodes + 1 /\ inodes' = inodes + 1 /\ Size(0) = 0
         /\ \A g \in Generations \ {0} : log'[g] = log[g]
<1>1. 0 \in Generations
  BY ReportAssumption DEF Generations
<1>2. log[0].recs \in Seq(Records) /\ Size(0) \in Nat /\ (~Exists(0) => Size(0) = 0)
  BY <1>1, LogTypes
<1>3. log' = [log EXCEPT ![0] = [inode |-> IF ~Exists(0) THEN inodes + 1 ELSE log[0].inode,
                                 recs  |-> Append(log[0].recs, written + 1)]]
  BY DEF Append1
<1>4. /\ log'[0].inode = IF ~Exists(0) THEN inodes + 1 ELSE log[0].inode
      /\ log'[0].recs = Append(log[0].recs, written + 1)
      /\ \A g \in Generations \ {0} : log'[g] = log[g]
  BY <1>1, <1>3 DEF TypeOK
<1>5. /\ Len(log'[0].recs) = Size(0) + 1 /\ log'[0].recs[Size(0) + 1] = written + 1
      /\ \A i \in 1..Size(0) : log'[0].recs[i] = log[0].recs[i]
  BY <1>2, <1>4 DEF Size
<1>6. log'[0] # NoFile
  <2> SUFFICES ASSUME log'[0] = NoFile PROVE FALSE
    OBVIOUS
  <2>1. Len(log'[0].recs) = 0
    BY DEF NoFile
  <2> QED
    BY <1>2, <1>5, <2>1
<1>7. inodes' = IF ~Exists(0) THEN inodes + 1 ELSE inodes
  BY DEF Append1
<1>8. written' = written + 1
  BY DEF Append1
<1>9. Size(0)' = Size(0) + 1 /\ Exists(0)'
  BY <1>5, <1>6 DEF Size, Exists
<1> QED
  BY <1>2, <1>4, <1>5, <1>7, <1>8, <1>9

LEMMA ShiftWhat ==
  ASSUME TypeOK, Keep >= 1, Shift
  PROVE  /\ rot \in 1..Keep /\ rot \in Generations /\ rot - 1 \in Generations
         /\ rot' = rot - 1 /\ UNCHANGED <<written, inodes>>
         /\ \A g \in Generations \ {rot, rot - 1} : log'[g] = log[g]
         /\ Exists(rot - 1) => log'[rot] = log[rot - 1] /\ log'[rot - 1] = NoFile
         /\ ~Exists(rot - 1) => log' = log
<1>1. rot \in Generations /\ rot - 1 \in Generations /\ rot \in 1..Keep /\ rot # rot - 1
  BY ReportAssumption DEF Generations, Shift
<1>2. DOMAIN log = Generations
  BY DEF TypeOK
<1>3. CASE Exists(rot - 1)
  <2>1. log' = [log EXCEPT ![rot] = log[rot - 1], ![rot - 1] = NoFile]
    BY <1>3 DEF Shift
  <2> QED
    BY <1>1, <1>2, <1>3, <2>1 DEF Shift
<1>4. CASE ~Exists(rot - 1)
  BY <1>1, <1>4 DEF Shift
<1> QED
  BY <1>3, <1>4

LEMMA LogNext ==
  ASSUME Kept, TypeInv, LogInv, WriterNext
  PROVE  LogInv' /\ (Early' => Early) /\ (Early' => written' >= written)
<1>0. TypeOK /\ inodes \in Nat /\ written \in Nat /\ Keep \in Nat /\ Keep >= 1
  BY ReportAssumption DEF TypeInv, TypeOK, Kept
<1>1. \A g \in Generations : Size(g) \in Nat
  BY <1>0, LogTypes
<1>2. CASE Record \/ Reopen
  <2>1. rot \in {0, Idle} /\ rot' = Idle /\ Append1
    BY <1>2 DEF Record, Reopen
  <2>2. rot' # 0 /\ rot' \notin 1..Keep + 1
    BY <1>0, <2>1 DEF Idle
  <2>3. Exists(1)' = Exists(1) /\ inodes' >= inodes /\ written' >= written /\ inodes' \in Nat
    BY <1>0, <2>1, AppendWhat, GenerationsOf DEF Exists
  <2>4. Early' => Early
    BY <1>0, <2>3 DEF Early
  <2>5. ~Early => inodes' > 1
    <3>1. CASE inodes > 1
      BY <1>0, <2>3, <3>1
    <3>2. CASE ~Early /\ inodes <= 1
      <4>1. inodes = 1 /\ ~Exists(0)
        BY <3>2 DEF LogInv
      <4> QED
        BY <1>0, <2>1, <4>1, AppendWhat
    <3> QED
      BY <1>0, <3>1, <3>2
  <2>6. ASSUME Early
        PROVE  /\ Unrotated' /\ Size(0)' = written'
               /\ \A i \in 1..Size(0)' : log'[0].recs[i] = i
               /\ inodes' = 1 /\ log'[0].inode = 1 /\ Exists(0)'
    <3>1. /\ Unrotated /\ Size(0) = written /\ \A i \in 1..Size(0) : log[0].recs[i] = i
          /\ Exists(0) => inodes = 1 /\ log[0].inode = 1
          /\ ~Exists(0) => inodes = 0
      BY <2>6 DEF LogInv
    <3>2. Unrotated'
      BY <1>0, <2>1, <3>1, AppendWhat DEF Unrotated, Exists
    <3>3. \A i \in 1..Size(0) + 1 : log'[0].recs[i] = i
      <4> SUFFICES ASSUME NEW i \in 1..Size(0) + 1 PROVE log'[0].recs[i] = i
        OBVIOUS
      <4>1. i \in 1..Size(0) \/ i = Size(0) + 1
        BY <1>0, <3>1
      <4> QED
        BY <1>0, <2>1, <3>1, <4>1, AppendWhat
    <3> QED
      BY <1>0, <2>1, <3>1, <3>2, <3>3, AppendWhat
  <2>7. ~Early' => inodes' > 1
    BY <1>0, <2>3, <2>5, <2>6 DEF Early
  <2>8. ~(inodes' > 1 /\ inodes' <= 1)
    BY <2>3
  <2> QED
    BY <2>2, <2>3, <2>4, <2>6, <2>7, <2>8 DEF LogInv
<1>3. rot # 0 /\ ~Early => inodes > 1
  BY <1>0 DEF LogInv
<1>4. CASE RotateBegins
  <2>1. UNCHANGED <<log, written, inodes>> /\ rot = Idle /\ rot' = Keep + 1 /\ Size(0) > 0
    BY <1>4 DEF RotateBegins, ShouldRotate
  <2>2. rot # 0 /\ rot' # Idle
    BY <1>0, <2>1 DEF Idle
  <2>3. Exists(0)
    BY <1>0, <2>1, LogTypes, GenerationsOf
  <2> QED
    BY <1>0, <1>3, <2>1, <2>2, <2>3 DEF LogInv, Early, Exists, Size, Unrotated
<1>5. CASE Prune
  <2>1. /\ log' = [log EXCEPT ![Keep] = NoFile] /\ rot = Keep + 1 /\ rot' = Keep
        /\ UNCHANGED <<written, inodes>>
    BY <1>5 DEF Prune
  <2>2. log'[0] = log[0] /\ \A g \in Generations : log'[g] = log[g] \/ log'[g] = NoFile
    BY <1>0, <2>1, GenerationsOf DEF TypeOK
  <2>3. rot # 0 /\ rot # Idle /\ rot \in 1..Keep + 1
    BY <1>0, <2>1 DEF Idle
  <2>4. Unrotated => Unrotated'
    BY <2>2 DEF Unrotated, Exists
  <2>5. Early' <=> Early
    BY <1>0, <1>3, <2>1, <2>2, <2>3, GenerationsOf DEF Early, Exists
  <2>6. Exists(0)' = Exists(0) /\ Size(0)' = Size(0)
    BY <2>2 DEF Exists, Size
  <2> QED
    BY <1>0, <1>3, <2>1, <2>2, <2>3, <2>4, <2>5, <2>6 DEF LogInv
<1>6. CASE Shift
  <2>1. /\ rot \in 1..Keep /\ rot \in Generations /\ rot - 1 \in Generations
        /\ rot' = rot - 1 /\ UNCHANGED <<written, inodes>>
        /\ \A g \in Generations \ {rot, rot - 1} : log'[g] = log[g]
        /\ Exists(rot - 1) => log'[rot] = log[rot - 1] /\ log'[rot - 1] = NoFile
        /\ ~Exists(rot - 1) => log' = log
    BY <1>0, <1>6, ShiftWhat
  <2>2. Exists(0) /\ rot # 0 /\ rot # Idle
    BY <1>0, <2>1 DEF LogInv, Idle
  <2>3. CASE rot = 1
    <3>1. log'[1] = log[0] /\ log'[0] = NoFile /\ rot' = 0
      BY <2>1, <2>2, <2>3
    <3>2. Exists(1)' /\ ~Exists(0)'
      BY <2>2, <3>1 DEF Exists
    <3>3. inodes >= 1
      BY <1>0, <1>3, <2>2 DEF LogInv
    <3>4. ~Early' /\ rot' \notin 1..Keep + 1
      BY <1>0, <3>1, <3>2 DEF Early
    <3> QED
      BY <1>0, <2>1, <3>1, <3>2, <3>3, <3>4 DEF LogInv
  <2>4. CASE rot # 1
    <3>1. log'[0] = log[0] /\ rot' \in 1..Keep + 1
      BY <1>0, <2>1, <2>4, GenerationsOf
    <3>2. Exists(0)' = Exists(0) /\ Size(0)' = Size(0)
      BY <3>1 DEF Exists, Size
    <3>3. Early => log' = log
      <4>1. rot - 1 \in Generations \ {0}
        BY <1>0, <2>1, <2>4
      <4> QED
        BY <2>1, <4>1 DEF LogInv, Unrotated
    <3>4. CASE Early
      BY <1>0, <2>1, <3>1, <3>2, <3>3, <3>4 DEF LogInv, Early, Exists, Unrotated
    <3>5. CASE ~Early
      <4>1. inodes' > 1 /\ ~Early'
        BY <1>0, <1>3, <2>1, <2>2, <3>5 DEF Early
      <4> QED
        BY <1>0, <2>1, <2>2, <3>1, <3>2, <4>1 DEF LogInv
    <3> QED
      BY <3>4, <3>5
  <2> QED
    BY <2>3, <2>4
<1>7. CASE RotateBreaks
  <2>1. UNCHANGED <<log, written, inodes>> /\ rot \in 1..Keep + 1 /\ rot' \in {0, Idle}
    BY <1>7 DEF RotateBreaks
  <2>2. rot # 0 /\ rot # Idle /\ rot' \notin 1..Keep + 1
    BY <1>0, <2>1 DEF Idle
  <2> QED
    BY <1>0, <1>3, <2>1, <2>2 DEF LogInv, Early, Exists, Size, Unrotated
<1> QED
  BY <1>2, <1>4, <1>5, <1>6, <1>7 DEF WriterNext

-----------------------------------------------------------------------------
(* What a read puts into the queue and a flush takes from it.                *)

\* A read covers its lines and forgets nothing.
LEMMA ReadCovers ==
  ASSUME TypeInv, NEW lines \in Seq(Nat \X Records),
         pending' = pending \o Usable(lines), UNCHANGED hubVars
  PROVE  /\ \A q : Covered(q) => Covered(q)'
         /\ \A i \in 1..Len(lines) : Covered(lines[i][2])'
<1>1. pending \in Seq(Nat \X Records) /\ Usable(lines) \in Seq(Nat \X Records)
  BY UsableSelects DEF TypeInv, TypeOK
<1>2. PICK at : Selects(at, Usable(lines), lines, Len(lines))
  BY UsableSelects
<1> DEFINE u == Usable(lines)
<1> HIDE DEF u
<1>3. /\ pending' = pending \o u /\ u \in Seq(Nat \X Records)
      /\ at \in [1..Len(u) -> 1..Len(lines)]
      /\ \A k \in 1..Len(u) : u[k] = lines[at[k]]
      /\ \A i \in 1..Len(lines) : lines[i][2] \in Unusable \/ \E k \in 1..Len(u) : at[k] = i
  BY <1>1, <1>2 DEF Selects, u
<1>4. /\ Len(pending') = Len(pending) + Len(u) /\ Len(pending) \in Nat /\ Len(u) \in Nat
      /\ \A k \in 1..Len(pending) : pending'[k] = pending[k]
      /\ \A k \in 1..Len(u) : pending'[Len(pending) + k] = u[k]
  BY <1>1, <1>3
<1>5. Done' = Done
  BY DEF Done, Settled, hubVars
<1>6. ASSUME NEW q, Covered(q) PROVE Covered(q)'
  <2>1. CASE q \in Done
    BY <1>5, <2>1 DEF Covered
  <2>2. CASE q \notin Done
    <3>1. PICK k \in 1..Len(pending) : pending[k][2] = q
      BY <1>6, <2>2 DEF Covered
    <3>2. k \in 1..Len(pending') /\ pending'[k][2] = q
      BY <1>4, <3>1
    <3> QED
      BY <3>2 DEF Covered
  <2> QED
    BY <2>1, <2>2
<1>7. ASSUME NEW i \in 1..Len(lines) PROVE Covered(lines[i][2])'
  <2>1. CASE lines[i][2] \in Unusable
    BY <2>1 DEF Covered, Done
  <2>2. CASE lines[i][2] \notin Unusable
    <3>1. PICK k \in 1..Len(u) : at[k] = i
      BY <1>3, <2>2
    <3>2. Len(pending) + k \in 1..Len(pending')
      BY <1>4
    <3>3. pending'[Len(pending) + k] = lines[i]
      <4>1. pending'[Len(pending) + k] = u[k]
        BY <1>4
      <4>2. u[k] = lines[at[k]]
        BY <1>3
      <4> QED
        BY <3>1, <4>1, <4>2
    <3> QED
      BY <3>2, <3>3 DEF Covered
  <2> QED
    BY <2>1, <2>2
<1> QED
  BY <1>6, <1>7

\* Records that are numbered on from base are covered from there on.
LEMMA ReadAllCovers ==
  ASSUME TypeInv, NEW lines \in Seq(Nat \X Records), NEW base \in Nat,
         pending' = pending \o Usable(lines), UNCHANGED hubVars,
         \A i \in 1..Len(lines) : lines[i][2] = base + i,
         AllCovered(base)
  PROVE  \A q \in 1..base + Len(lines) : Covered(q)'
<1>1. Len(lines) \in Nat
  OBVIOUS
<1>2. ASSUME NEW q \in 1..base + Len(lines) PROVE Covered(q)'
  <2>1. CASE q \in 1..base
    BY <2>1, ReadCovers DEF AllCovered
  <2>2. CASE q \notin 1..base
    <3>1. q - base \in 1..Len(lines) /\ lines[q - base][2] = q
      BY <1>1, <2>2
    <3> QED
      BY <3>1, ReadCovers
  <2> QED
    BY <2>1, <2>2
<1> QED
  BY <1>2

\* A read of the first file keeps the queue in its order.
LEMMA ReadPairs ==
  ASSUME TypeInv, NEW lines \in Seq(Nat \X Records), Pairs,
         pending' = pending \o Usable(lines), readOffset' = readOffset + Len(lines),
         \A i \in 1..Len(lines) : lines[i][1] = readOffset + i /\ lines[i][2] = readOffset + i
  PROVE  Pairs'
<1>1. pending \in Seq(Nat \X Records) /\ Usable(lines) \in Seq(Nat \X Records) /\ readOffset \in Nat
  BY UsableSelects DEF TypeInv, TypeOK
<1>2. PICK at : Selects(at, Usable(lines), lines, Len(lines))
  BY UsableSelects
<1> DEFINE u == Usable(lines)
           m == Len(pending)
<1> HIDE DEF u, m
<1>3. /\ pending' = pending \o u /\ u \in Seq(Nat \X Records)
      /\ at \in [1..Len(u) -> 1..Len(lines)]
      /\ \A j, k \in 1..Len(u) : j < k => at[j] < at[k]
      /\ \A k \in 1..Len(u) : u[k] = lines[at[k]]
  BY <1>1, <1>2 DEF Selects, u
<1>4. /\ Len(pending') = m + Len(u) /\ m \in Nat /\ Len(u) \in Nat /\ Len(lines) \in Nat
      /\ \A k \in 1..m : pending'[k] = pending[k]
      /\ \A k \in 1..Len(u) : pending'[m + k] = u[k]
  BY <1>1, <1>3 DEF m
<1>5. /\ \A k \in 1..m : pending[k] \in Nat \X Records /\ pending[k][2] \in Nat
      /\ \A k \in 1..m : pending[k][1] = pending[k][2] /\ pending[k][2] <= readOffset
      /\ \A j, k \in 1..m : j < k => pending[j][2] < pending[k][2]
  BY <1>1, ReportAssumption DEF Pairs, m, Records
<1>6. \A k \in 1..Len(u) : at[k] \in 1..Len(lines) /\ at[k] \in Nat /\ at[k] <= Len(lines)
  BY <1>3, <1>4
<1>7. \A k \in 1..Len(u) : pending'[m + k] = lines[at[k]]
  BY <1>3, <1>4
<1>8. \A k \in 1..Len(u) : /\ pending'[m + k][1] = readOffset + at[k]
                           /\ pending'[m + k][2] = readOffset + at[k]
  BY <1>6, <1>7
<1>9. \A k \in 1..m : pending'[k][1] = pending[k][1] /\ pending'[k][2] = pending[k][2]
  BY <1>4
<1> DEFINE n == Len(pending')
           o(k) == pending'[k][1]
           r(k) == pending'[k][2]
<1>10. /\ \A k \in 1..m : o(k) = r(k) /\ r(k) \in Nat /\ r(k) <= readOffset
       /\ \A j, k \in 1..m : j < k => r(j) < r(k)
       /\ \A k \in 1..Len(u) : o(m + k) = readOffset + at[k] /\ r(m + k) = readOffset + at[k]
  BY <1>5, <1>8, <1>9, Zenon
<1>11. n = m + Len(u) /\ readOffset' = readOffset + Len(lines)
  BY <1>4
<1> HIDE DEF n, o, r
<1>12. \A k \in 1..n : k \in 1..m \/ \E i \in 1..Len(u) : k = m + i
  <2> SUFFICES ASSUME NEW k \in 1..n, k \notin 1..m PROVE \E i \in 1..Len(u) : k = m + i
    OBVIOUS
  <2>1. k - m \in 1..Len(u) /\ k = m + (k - m)
    BY <1>4, <1>11
  <2> QED
    BY <2>1
<1>13. ASSUME NEW k \in 1..n PROVE o(k) = r(k) /\ r(k) <= readOffset'
  <2>1. CASE k \in 1..m
    BY <1>1, <1>4, <1>10, <1>11, <2>1
  <2>2. CASE \E i \in 1..Len(u) : k = m + i
    <3>1. PICK i \in 1..Len(u) : k = m + i
      BY <2>2
    <3>2. o(k) = readOffset + at[i] /\ r(k) = readOffset + at[i]
      BY <1>10, <3>1
    <3>3. readOffset + at[i] <= readOffset'
      BY <1>1, <1>4, <1>6, <1>11
    <3> QED
      BY <3>2, <3>3
  <2> QED
    BY <1>12, <2>1, <2>2
<1>14. ASSUME NEW j \in 1..n, NEW k \in 1..n, j < k PROVE r(j) < r(k)
  <2>1. CASE k \in 1..m
    <3>1. j \in 1..m
      BY <1>4, <1>11, <1>14, <2>1
    <3> QED
      BY <1>10, <1>14, <2>1, <3>1
  <2>2. CASE j \in 1..m /\ k \notin 1..m
    <3>1. PICK i \in 1..Len(u) : k = m + i
      BY <1>12, <2>2
    <3>2. r(k) = readOffset + at[i] /\ at[i] >= 1
      BY <1>6, <1>10, <3>1
    <3>3. r(j) <= readOffset /\ r(j) \in Nat
      BY <1>10, <2>2
    <3> QED
      BY <1>1, <1>6, <3>1, <3>2, <3>3
  <2>3. CASE j \notin 1..m /\ k \notin 1..m
    <3>1. PICK i \in 1..Len(u) : k = m + i
      BY <1>12, <2>3
    <3>2. PICK h \in 1..Len(u) : j = m + h
      BY <1>12, <2>3
    <3>3. h < i
      BY <1>4, <1>14, <3>1, <3>2
    <3>4. at[h] < at[i]
      BY <1>3, <3>3
    <3>5. r(j) = readOffset + at[h] /\ r(k) = readOffset + at[i]
      BY <1>10, <3>1, <3>2
    <3>6. at[h] \in Nat /\ at[i] \in Nat /\ readOffset \in Nat
      BY <1>1, <1>6
    <3> QED
      BY <3>4, <3>5, <3>6
  <2> QED
    BY <2>1, <2>2, <2>3
<1> QED
  BY <1>13, <1>14 DEF Pairs, n, o, r

\* An answer of the Hub, taken or refused, settles what it takes out of the queue.
LEMMA FlushCovers ==
  ASSUME TypeInv, pending # <<>>, Commit, Settled' = Settled \cup Batch
  PROVE  \A q : Covered(q) => Covered(q)'
<1> SUFFICES ASSUME NEW q, Covered(q) PROVE Covered(q)'
  OBVIOUS
<1>1. TypeOK /\ pending' = SubSeq(pending, BatchLen + 1, Len(pending)) /\ Len(pending) \in Nat
  BY DEF TypeInv, TypeOK, Commit, Dequeue
<1>2. CASE q \in Done
  BY <1>2 DEF Covered, Done
<1>3. CASE q \notin Done
  <2>1. PICK k \in 1..Len(pending) : pending[k][2] = q
    BY <1>3 DEF Covered
  <2>2. CASE k <= BatchLen
    <3>1. q \in Batch
      BY <1>1, <2>1, <2>2, BatchType DEF Batch
    <3> QED
      BY <3>1 DEF Covered, Done
  <2>3. CASE k > BatchLen
    <3>1. k - BatchLen \in 1..Len(pending') /\ pending'[k - BatchLen] = pending[k]
      <4>1. BatchLen \in 1..Len(pending)
        BY <1>1, BatchType
      <4>2. k - BatchLen \in 1..Len(pending) - BatchLen /\ BatchLen + (k - BatchLen) = k
        BY <1>1, <2>3, <4>1
      <4> HIDE DEF BatchLen
      <4> QED
        BY <1>1, <4>2, BatchType
    <3> QED
      BY <2>1, <3>1 DEF Covered
  <2>4. BatchLen \in Int
    BY <1>1, BatchType
  <2> QED
    BY <2>2, <2>3, <2>4
<1> QED
  BY <1>2, <1>3

\* Everything before the new offset is settled, and the queue stays in order.
LEMMA FlushPairs ==
  ASSUME TypeInv, pending # <<>>, Commit, Settled' = Settled \cup Batch, UNCHANGED readOffset,
         Pairs, AllCovered(readOffset)
  PROVE  Pairs' /\ 1..offset' \subseteq Done' /\ offset' <= readOffset
<1> DEFINE b == BatchLen
           m == Len(pending)
<1>t. TypeOK /\ pending \in Seq(Nat \X Records) /\ readOffset \in Nat
  BY DEF TypeInv, TypeOK
<1>1. /\ TypeOK /\ pending' = SubSeq(pending, b + 1, m) /\ m \in Nat
      /\ offset' = pending[b][1] /\ readOffset \in Nat
  BY <1>t DEF Commit, Dequeue
<1>2. b \in 1..m /\ Len(pending') = m - b /\ \A k \in 1..m - b : pending'[k] = pending[b + k]
  BY <1>1, BatchType
<1>3. \A k \in 1..m : pending[k][2] \in Nat
  <2>1. \A k \in 1..m : pending[k] \in Nat \X Records
    BY <1>t
  <2>2. Records \subseteq Nat
    BY ReportAssumption DEF Records
  <2> QED
    BY <2>1, <2>2
<1>4. \A k \in 1..m : pending[k][1] = pending[k][2] /\ pending[k][2] <= readOffset
  BY DEF Pairs
<1>5. \A j, k \in 1..m : j < k => pending[j][2] < pending[k][2]
  BY DEF Pairs
<1>6. ASSUME NEW q \in 1..offset' PROVE q \in Done'
  <2>1. offset' = pending[b][2] /\ q \in 1..readOffset /\ q <= pending[b][2]
    BY <1>1, <1>2, <1>3, <1>4
  <2>2. CASE q \in Done
    BY <2>2 DEF Done
  <2>3. CASE q \notin Done
    <3>1. PICK k \in 1..m : pending[k][2] = q
      BY <2>1, <2>3 DEF AllCovered, Covered
    <3>2. ~(b < k)
      BY <1>2, <1>3, <1>5, <2>1, <3>1
    <3>3. k \in 1..b
      BY <1>2, <3>2
    <3>4. q \in Batch
      BY <3>1, <3>3 DEF Batch
    <3> QED
      BY <3>4 DEF Done
  <2> QED
    BY <2>2, <2>3
<1>7. \A k \in 1..m - b : b + k \in 1..m
  BY <1>1, <1>2
<1> HIDE DEF b, m
<1>8. \A k \in 1..Len(pending') : pending'[k][1] = pending'[k][2] /\ pending'[k][2] <= readOffset'
  BY <1>2, <1>4, <1>7
<1>9. \A j, k \in 1..Len(pending') : j < k => pending'[j][2] < pending'[k][2]
  BY <1>2, <1>5, <1>7
<1> QED
  BY <1>1, <1>2, <1>4, <1>6, <1>8, <1>9 DEF Pairs

-----------------------------------------------------------------------------
(* Following the first file.                                                 *)

LEMMA SettledGrows ==
  ASSUME TypeInv, FlushAcked \/ FlushRejected \/ FlushUnanswered
  PROVE  /\ Settled' = Settled \cup Batch /\ pending # <<>> /\ step = "idle"
         /\ UNCHANGED <<logVars, step, readOffset, inode, plan>>
         /\ \/ Commit
            \/ UNCHANGED <<offset, pending, cursor>>
  BY DEF FlushAcked, FlushRejected, FlushUnanswered, MayFlush, Settled, tailVars

LEMMA TracksFlush ==
  ASSUME TypeInv, Tracks, FlushAcked \/ FlushRejected \/ FlushUnanswered
  PROVE  /\ Tracks'
         /\ offset' = offset \/ offset' <= readOffset
         /\ cursor'.offset = cursor.offset \/ cursor'.offset = offset'
<1>1. /\ Settled' = Settled \cup Batch /\ pending # <<>> /\ step = "idle"
      /\ UNCHANGED <<logVars, step, readOffset, inode, plan>>
  BY SettledGrows
<1>2. Done \subseteq Done'
  BY <1>1 DEF Done
<1>3. /\ 1..offset \subseteq Done /\ 1..cursor.offset \subseteq Done /\ AllCovered(readOffset) /\ Pairs
      /\ inode \in {0, 1} /\ cursor.inode \in {0, 1} /\ plan = NoPlan
  BY <1>1 DEF Tracks
<1>4. CASE Commit
  <2>1. Pairs' /\ 1..offset' \subseteq Done' /\ offset' <= readOffset
    BY <1>1, <1>3, <1>4, FlushPairs
  <2>2. cursor' = [offset |-> offset', inode |-> inode] \/ cursor' = cursor
    BY <1>4 DEF Commit, Checkpoint
  <2>3. /\ 1..cursor'.offset \subseteq Done' /\ cursor'.inode \in {0, 1}
        /\ cursor'.offset = cursor.offset \/ cursor'.offset = offset'
    BY <1>2, <1>3, <2>1, <2>2
  <2>4. AllCovered(readOffset)'
    BY <1>1, <1>3, <1>4, FlushCovers DEF AllCovered
  <2> QED
    BY <1>1, <1>3, <2>1, <2>3, <2>4 DEF Tracks
<1>5. CASE UNCHANGED <<offset, pending, cursor>>
  <2>1. \A q : Covered(q) => Covered(q)'
    BY <1>2, <1>5 DEF Covered
  <2>2. AllCovered(readOffset)' /\ Pairs'
    BY <1>1, <1>3, <1>5, <2>1 DEF AllCovered, Pairs
  <2>3. 1..offset' \subseteq Done' /\ 1..cursor'.offset \subseteq Done'
    BY <1>2, <1>3, <1>5
  <2> QED
    BY <1>1, <1>3, <1>5, <2>2, <2>3 DEF Tracks
<1> QED
  BY <1>4, <1>5, SettledGrows

LEMMA TracksMoves ==
  ASSUME TypeInv, Tracks, ReadBegins \/ ReadNothing \/ AgentCrashes \/ AgentStarts
  PROVE  /\ Tracks'
         /\ UNCHANGED <<offset, readOffset>> \/ (offset' = cursor.offset /\ readOffset' = cursor.offset)
         /\ cursor' = cursor
<1>1. CASE ReadBegins \/ ReadNothing
  BY <1>1 DEF ReadBegins, ReadNothing, Tracks, tailVars, hubVars, Done, Settled, AllCovered, Covered, Pairs
<1>2. CASE AgentCrashes
  <2>1. Pairs'
    BY <1>2 DEF AgentCrashes, Pairs
  <2> QED
    BY <1>2, <2>1 DEF AgentCrashes, Tracks, tailVars, hubVars, Done, Settled
<1>3. CASE AgentStarts
  <2>1. pending' = <<>> /\ Done' = Done /\ step = "down"
    BY <1>3 DEF AgentStarts, TypeInv, StepInv, hubVars, Done, Settled
  <2>2. Pairs'
    BY <2>1 DEF Pairs
  <2>3. AllCovered(readOffset)'
    BY <1>3, <2>1 DEF AgentStarts, Tracks, AllCovered, Covered
  <2> QED
    BY <1>3, <2>1, <2>2, <2>3 DEF AgentStarts, Tracks
<1> QED
  BY <1>1, <1>2, <1>3

\* Writing to the log moves nothing of the agent's.
LEMMA TracksWriter ==
  ASSUME WriterNext
  PROVE  /\ UNCHANGED <<step, offset, readOffset, inode, plan, pending, cursor, delivered, refused>>
         /\ Tracks => Tracks'
         /\ \A q : Covered(q)' = Covered(q)
         /\ Done' = Done
<1>1. UNCHANGED <<step, offset, readOffset, inode, plan, pending, cursor, delivered, refused>>
  BY DEF WriterNext, Record, RotateBegins, Prune, Shift, Reopen, RotateBreaks, tailVars, hubVars
<1>2. Done' = Done /\ \A q : Covered(q)' = Covered(q)
  BY <1>1 DEF Covered, Done, Settled
<1> QED
  BY <1>1, <1>2 DEF Tracks, AllCovered, Pairs

LEMMA EarlyNext ==
  ASSUME Kept, TypeInv, LogInv, EarlyInv, [Next]_vars
  PROVE  EarlyInv'
<1>1. CASE UNCHANGED vars
  BY <1>1 DEF vars, logVars, tailVars, hubVars, EarlyInv, Early, Exists, Tracks, AllCovered, Covered, Done, Settled, Pairs
<1>2. CASE WriterNext
  <2>1. Early' => Early /\ written' >= written
    BY <1>2, LogNext
  <2>2. written \in Nat /\ written' \in Nat /\ offset \in Nat /\ readOffset \in Nat /\ cursor.offset \in Nat
    BY <1>2, TypesNext DEF Next, TypeInv, TypeOK
  <2> QED
    BY <1>2, <2>1, <2>2, TracksWriter DEF EarlyInv
<1>3. ASSUME ~WriterNext, Next PROVE EarlyInv'
  <2>1. UNCHANGED logVars
    BY <1>3 DEF Next, ReaderNext, ReadBegins, StatMain, MakePlan, DrainEnds, DrainSkips, DrainShifted, StatAgain,
         ReadNothing, AgentStarts, DrainReads, ReadMain, FlushAcked, FlushRejected, FlushUnanswered, AgentCrashes
  <2> SUFFICES ASSUME Early
               PROVE  /\ Tracks'
                      /\ step' \in {"down", "idle", "stat", "read"}
                      /\ offset' <= written /\ readOffset' <= written /\ cursor'.offset <= written
    BY <2>1 DEF EarlyInv, Early, Exists, logVars
  <2>2. /\ Tracks /\ step \in {"down", "idle", "stat", "read"}
        /\ offset <= written /\ readOffset <= written /\ cursor.offset <= written
        /\ plan = NoPlan /\ inode \in {0, 1}
    BY DEF EarlyInv, Tracks
  <2>3. /\ Unrotated /\ Size(0) = written /\ \A i \in 1..Size(0) : log[0].recs[i] = i
        /\ Exists(0) => log[0].inode = 1
    BY DEF LogInv
  <2>4. /\ written \in Nat /\ offset \in Nat /\ readOffset \in Nat /\ cursor.offset \in Nat
        /\ TypeOK /\ 0 \in Generations /\ 1 \in Generations
    BY ReportAssumption DEF TypeInv, TypeOK, Generations, Kept
  <2>5. ~Draining /\ step \notin {"plan", "restat"}
    BY <2>2 DEF Draining
  <2>6. CASE FlushAcked \/ FlushRejected \/ FlushUnanswered
    <3>1. step' = step /\ readOffset' = readOffset
      BY <2>6, SettledGrows
    <3>2. Tracks' /\ (offset' = offset \/ offset' <= readOffset)
          /\ (cursor'.offset = cursor.offset \/ cursor'.offset = offset')
      BY <2>2, <2>6, TracksFlush
    <3>3. offset' \in Nat /\ cursor'.offset \in Nat
      BY <1>3, TypesNext DEF TypeInv, TypeOK
    <3>4. offset' <= written
      BY <2>2, <2>4, <3>2, <3>3
    <3> QED
      BY <2>2, <3>1, <3>2, <3>4
  <2>7. CASE AgentCrashes \/ ReadBegins \/ ReadNothing \/ AgentStarts
    <3>1. step' \in {"down", "idle", "stat", "read"}
      BY <2>2, <2>7 DEF AgentCrashes, ReadBegins, ReadNothing, AgentStarts
    <3> QED
      BY <2>2, <2>7, <3>1, TracksMoves
  <2>8. CASE StatMain
    <3>1. Exists(0) => ~WasRotated
      <4> SUFFICES ASSUME Exists(0), WasRotated PROVE FALSE
        OBVIOUS
      <4>1. ~(Size(0) < readOffset) /\ log[0].inode = 1
        BY <2>2, <2>3, <2>4
      <4>2. ~Exists(1)
        BY <2>3, <2>4 DEF Unrotated
      <4>3. Rotated = {}
        BY <4>2, ReportAssumption DEF Rotated
      <4> QED
        BY <2>2, <4>1, <4>3 DEF WasRotated, NoInode
    <3>2. /\ step' \in {"idle", "read"}
          /\ inode' \in {0, 1}
          /\ UNCHANGED <<offset, readOffset, plan, pending, cursor, delivered, refused>>
      BY <2>2, <2>3, <2>8, <3>1 DEF StatMain, tailVars, hubVars
    <3>3. Tracks'
      BY <2>2, <2>8, <3>2 DEF StatMain, Tracks, Done, Settled, AllCovered, Covered, Pairs
    <3> QED
      BY <2>2, <3>2, <3>3
  <2>9. ASSUME NEW n \in 1..MaxPending, ReadMain(n)
        PROVE  /\ Tracks' /\ step' = "idle"
               /\ UNCHANGED <<offset, cursor>> /\ readOffset' <= written
    <3> DEFINE lines == Lines(0, readOffset, n)
    <3>1. /\ n <= Size(0) - readOffset
          /\ lines \in Seq(Nat \X Records) /\ Len(lines) = n
          /\ pending' = pending \o Usable(lines) /\ readOffset' = readOffset + n
      BY <2>9, ReadMainWhat
    <3>2. step = "read" /\ step' = "idle" /\ UNCHANGED <<offset, inode, plan, cursor, delivered, refused>>
      BY <2>9 DEF ReadMain, hubVars
    <3>3. n \in Nat /\ \A i \in 1..n : readOffset + i \in 1..Size(0)
      BY <2>3, <2>4, <3>1, ReportAssumption
    <3>4. \A i \in 1..n : lines[i][1] = readOffset + i /\ lines[i][2] = readOffset + i
      BY <2>3, <3>3 DEF Lines
    <3> HIDE DEF lines
    <3>5. AllCovered(readOffset) /\ Pairs
      BY <2>2, <3>2 DEF Tracks
    <3>6. Pairs'
      BY <3>1, <3>4, <3>5, ReadPairs
    <3>7. \A q \in 1..readOffset + n : Covered(q)'
      <4>1. \A i \in 1..Len(lines) : lines[i][2] = readOffset + i
        BY <3>1, <3>4
      <4>2. UNCHANGED hubVars
        BY <3>2 DEF hubVars
      <4>3. \A q \in 1..readOffset + Len(lines) : Covered(q)'
        BY <2>4, <3>1, <3>5, <4>1, <4>2, ReadAllCovers
      <4> QED
        BY <3>1, <4>3
    <3>8. AllCovered(readOffset)'
      BY <3>1, <3>7 DEF AllCovered
    <3>9. readOffset' <= written
      BY <2>3, <2>4, <3>1, <3>3
    <3> QED
      BY <2>2, <3>2, <3>6, <3>8, <3>9 DEF Tracks, Done, Settled
  <2> QED
    BY <1>3, <2>2, <2>5, <2>6, <2>7, <2>8, <2>9 DEF Next, ReaderNext, MakePlan, DrainEnds, DrainSkips, DrainShifted,
       StatAgain, DrainReads
<1> QED
  BY <1>1, <1>2, <1>3

-----------------------------------------------------------------------------
(* A log that has rotated once never looks unrotated again.                  *)

Steady == Keep >= 2 /\ "rename_error" \notin Faults

RotatedInv ==
  /\ inodes >= 2 => IF rot = 1 THEN Exists(2) ELSE Exists(1)
  /\ rot = 0 => Exists(1)

LEMMA RotatedNext ==
  ASSUME Steady, TypeInv, LogInv, RotatedInv, [Next]_vars
  PROVE  RotatedInv'
<1>0. /\ TypeOK /\ inodes \in Nat /\ Keep \in Nat /\ Keep >= 2 /\ Kept
      /\ 0 \in Generations /\ 1 \in Generations /\ 2 \in Generations /\ Keep \in Generations
  BY ReportAssumption DEF TypeInv, TypeOK, Steady, Kept, Generations
<1>1. CASE UNCHANGED logVars
  BY <1>1 DEF logVars, RotatedInv, Exists
<1>2. CASE Record
  <2>1. rot = Idle /\ rot' = Idle /\ Append1 /\ rot # 0 /\ rot # 1 /\ rot' # 0
    BY <1>2 DEF Record, Idle
  <2>2. log'[1] = log[1]
    BY <1>0, <2>1, AppendWhat
  <2>3. inodes' >= 2 => inodes >= 2 \/ ~Exists(0)
    BY <1>0, <2>1, AppendWhat
  <2>4. inodes' >= 2 => inodes >= 2
    <3> SUFFICES ASSUME inodes' >= 2, ~Exists(0), inodes < 2 PROVE FALSE
      BY <1>0, <2>3
    <3>1. Early
      BY <1>0, <2>1 DEF LogInv
    <3>2. inodes' = 1
      BY <1>0, <2>1, <3>1, AppendWhat DEF LogInv
    <3> QED
      BY <3>2
  <2> QED
    BY <2>1, <2>2, <2>4 DEF RotatedInv, Exists
<1>3. CASE RotateBegins
  <2>1. UNCHANGED <<log, inodes>> /\ rot # 1 /\ rot' # 1 /\ rot' # 0
    BY <1>0, <1>3 DEF RotateBegins, Idle
  <2> QED
    BY <2>1 DEF RotatedInv, Exists
<1>4. CASE Prune
  <2>1. /\ log' = [log EXCEPT ![Keep] = NoFile] /\ rot = Keep + 1 /\ rot' = Keep /\ inodes' = inodes
    BY <1>4 DEF Prune
  <2>2. log'[1] = log[1] /\ rot # 1 /\ rot' # 1 /\ rot' # 0
    BY <1>0, <2>1 DEF TypeOK
  <2> QED
    BY <2>1, <2>2 DEF RotatedInv, Exists
<1>5. CASE Shift
  <2>1. /\ rot \in 1..Keep /\ rot \in Generations /\ rot - 1 \in Generations
        /\ rot' = rot - 1 /\ inodes' = inodes
        /\ \A g \in Generations \ {rot, rot - 1} : log'[g] = log[g]
        /\ Exists(rot - 1) => log'[rot] = log[rot - 1]
    BY <1>0, <1>5, ShiftWhat
  <2>2. CASE rot = 1
    <3>1. Exists(0)
      BY <1>0, <2>2 DEF LogInv
    <3>2. log'[1] = log[0] /\ rot' = 0
      BY <2>1, <2>2, <3>1
    <3> QED
      BY <3>1, <3>2 DEF RotatedInv, Exists
  <2>3. CASE rot = 2
    <3>1. inodes >= 2 => Exists(1)
      BY <2>3 DEF RotatedInv
    <3>2. Exists(1) => log'[2] = log[1] /\ rot' = 1
      BY <2>1, <2>3
    <3> QED
      BY <2>1, <2>3, <3>1, <3>2 DEF RotatedInv, Exists
  <2>4. CASE rot # 1 /\ rot # 2
    <3>1. log'[1] = log[1] /\ rot' # 1 /\ rot' # 0
      BY <1>0, <2>1, <2>4
    <3> QED
      BY <2>1, <2>4, <3>1 DEF RotatedInv, Exists
  <2> QED
    BY <2>2, <2>3, <2>4
<1>6. CASE Reopen
  <2>1. rot = 0 /\ rot' = Idle /\ Append1 /\ rot' # 0 /\ rot' # 1
    BY <1>6 DEF Reopen, Idle
  <2>2. Exists(1) /\ log'[1] = log[1]
    BY <1>0, <2>1, AppendWhat DEF RotatedInv
  <2> QED
    BY <2>1, <2>2 DEF RotatedInv, Exists
<1>7. CASE RotateBreaks
  BY <1>7 DEF RotateBreaks, Steady
<1>8. ~WriterNext => UNCHANGED logVars
  BY DEF Next, ReaderNext, ReadBegins, StatMain, MakePlan, DrainEnds, DrainSkips, DrainShifted, StatAgain,
     ReadNothing, AgentStarts, DrainReads, ReadMain, FlushAcked, FlushRejected, FlushUnanswered, AgentCrashes,
     vars, logVars
<1> QED
  BY <1>1, <1>2, <1>3, <1>4, <1>5, <1>6, <1>7, <1>8 DEF WriterNext

LEMMA LogNextAll ==
  ASSUME Kept, TypeInv, LogInv, [Next]_vars
  PROVE  LogInv'
<1>1. CASE UNCHANGED logVars
  BY <1>1 DEF logVars, LogInv, Early, Unrotated, Exists, Size
<1>2. ~WriterNext => UNCHANGED logVars
  BY DEF Next, ReaderNext, ReadBegins, StatMain, MakePlan, DrainEnds, DrainSkips, DrainShifted, StatAgain,
     ReadNothing, AgentStarts, DrainReads, ReadMain, FlushAcked, FlushRejected, FlushUnanswered, AgentCrashes,
     vars, logVars
<1> QED
  BY <1>1, <1>2, LogNext

LEMMA EarlyInit == ASSUME Kept, Init PROVE LogInv /\ EarlyInv
<1>1. \A g \in Generations : log[g] = NoFile
  BY DEF Init
<1>2. 0 \in Generations /\ Keep \in Nat /\ Keep >= 1
  BY ReportAssumption DEF Generations, Kept
<1>3. Size(0) = 0 /\ ~Exists(0) /\ Unrotated
  BY <1>1, <1>2 DEF Size, Exists, Unrotated, NoFile
<1>4. LogInv
  BY <1>1, <1>2, <1>3, GenerationsOf DEF LogInv, Init, Idle, Early, Exists
<1>5. EarlyInv
  BY DEF EarlyInv, Init, Tracks, AllCovered, Pairs, NoInode
<1> QED
  BY <1>4, <1>5

\* What the code promises of a checkpoint, of a log that keeps two generations
\* and more and whose renames succeed, whatever else fails and however the
\* server's writes fall between the agent's steps.
THEOREM CheckpointStands ==
  ASSUME Keep >= 2, "rename_error" \notin Faults
  PROVE  Spec => []CheckpointAcknowledged
<1> DEFINE I == TypeInv /\ LogInv /\ EarlyInv /\ RotatedInv
<1>0. Steady /\ Kept
  BY ReportAssumption DEF Steady, Kept
<1>1. Init => I
  BY <1>0, TypesInit, EarlyInit DEF RotatedInv, Init, Idle
<1>2. I /\ [Next]_vars => I'
  BY <1>0, TypesNext, LogNextAll, EarlyNext, RotatedNext
<1>3. I => CheckpointAcknowledged
  <2> SUFFICES ASSUME I, Unrotated, NEW i \in 1..Size(0), i <= cursor.offset
               PROVE  log[0].recs[i] \in Settled \cup Unusable
    BY DEF CheckpointAcknowledged
  <2>1. ~Exists(1) /\ ~Exists(2) /\ 0 \in Generations
    BY <1>0, ReportAssumption DEF Unrotated, Steady, Generations
  <2>2. Early
    BY <2>1 DEF RotatedInv, Early, TypeInv, TypeOK
  <2>3. log[0].recs[i] = i /\ i \in 1..cursor.offset
    BY <2>1, <2>2, LogTypes DEF LogInv, TypeInv, TypeOK
  <2> QED
    BY <2>2, <2>3 DEF EarlyInv, Tracks, Done
<1> HIDE DEF I
<1> QED
  BY <1>1, <1>2, <1>3, PTL DEF Spec

-----------------------------------------------------------------------------
(* A log that rotates once: nothing is lost and nothing overtakes.           *)

\* The log rotates once, in as many attempts as it takes, and the agent is not
\* killed after that.
Once ==
  /\ Keep >= 1 /\ MaxRecords <= 2 * Cap
  /\ Faults \subseteq {"hub_down", "hub_reject", "early_crash", "cursor_error", "rename_error"}

\* The first file is rotated whole, whatever attempts have broken off before.
OnceInv ==
  /\ \A g \in 2..Keep : ~Exists(g)
  /\ Early /\ rot \in 1..Keep + 1 => written >= Cap
  /\ ~Early => /\ log[1].inode = 1 /\ Size(1) >= Cap /\ \A i \in 1..Size(1) : log[1].recs[i] = i
               /\ inodes <= 1 => written = Size(1)
               /\ inodes > 1 => /\ rot = Idle /\ inodes = 2
                                /\ Exists(0) /\ log[0].inode = 2
                                /\ written = Size(1) + Size(0)
                                /\ \A i \in 1..Size(0) : log[0].recs[i] = Size(1) + i

LEMMA OnceFacts ==
  ASSUME Once
  PROVE  /\ Kept /\ Keep \in Nat /\ Keep >= 1 /\ Cap \in Nat /\ Cap >= 1
         /\ MaxRecords \in Nat /\ MaxRecords <= 2 * Cap
         /\ "overlap" \notin Faults /\ "agent_crash" \notin Faults
         /\ "read_error" \notin Faults
         /\ 0 \in Generations /\ 1 \in Generations /\ Keep \in Generations
         /\ \A g \in 2..Keep : g \in Generations /\ g # 0 /\ g # 1
  BY ReportAssumption DEF Once, Kept, Generations

LEMMA OnceNext ==
  ASSUME Once, TypeInv, LogInv, OnceInv, [Next]_vars
  PROVE  OnceInv'
<1>0. /\ TypeOK /\ inodes \in Nat /\ written \in Nat /\ Keep \in Nat /\ Keep >= 1 /\ Cap \in Nat /\ Cap >= 1
      /\ MaxRecords \in Nat /\ MaxRecords <= 2 * Cap
      /\ 0 \in Generations /\ 1 \in Generations
      /\ \A g \in 2..Keep : g \in Generations /\ g # 0 /\ g # 1
      /\ Size(0) \in Nat /\ Size(1) \in Nat
  <2>1. TypeOK /\ inodes \in Nat /\ written \in Nat
    BY ReportAssumption DEF TypeInv, TypeOK
  <2> QED
    BY <2>1, OnceFacts, LogTypes
<1>1. CASE UNCHANGED logVars
  BY <1>1 DEF logVars, OnceInv, Early, Exists, Size
<1>2. CASE Record \/ Reopen
  <2>1. rot \in {0, Idle} /\ rot' = Idle /\ Append1 /\ rot' \notin 1..Keep + 1
    BY <1>0, <1>2 DEF Record, Reopen, Idle
  <2>2. /\ written' = written + 1 /\ log'[1] = log[1] /\ \A g \in 2..Keep : log'[g] = log[g]
        /\ Exists(0)' /\ Size(0)' = Size(0) + 1
    BY <1>0, <2>1, AppendWhat
  <2>3. Exists(1)' = Exists(1) /\ Size(1)' = Size(1) /\ \A g \in 2..Keep : ~Exists(g)'
    BY <2>2 DEF OnceInv, Exists, Size
  <2>4. CASE Early
    <3>1. inodes' = 1
      BY <1>0, <2>1, <2>4, AppendWhat DEF LogInv
    <3>2. Early'
      BY <2>3, <2>4, <3>1 DEF Early
    <3> QED
      BY <2>1, <2>3, <3>2 DEF OnceInv
  <2>5. CASE ~Early
    <3>1. log[1].inode = 1 /\ Size(1) >= Cap /\ \A i \in 1..Size(1) : log[1].recs[i] = i
      BY <2>5 DEF OnceInv
    <3>2. /\ inodes' = 2 /\ log'[0].inode = 2 /\ written' = Size(1) + Size(0)'
          /\ \A i \in 1..Size(0) : log'[0].recs[i] = Size(1) + i
          /\ log'[0].recs[Size(0) + 1] = Size(1) + (Size(0) + 1)
      <4>1. CASE inodes > 1
        <5>1. /\ inodes = 2 /\ Exists(0) /\ log[0].inode = 2 /\ written = Size(1) + Size(0)
              /\ \A i \in 1..Size(0) : log[0].recs[i] = Size(1) + i
          BY <2>5, <4>1 DEF OnceInv
        <5>2. written + 1 = Size(1) + (Size(0) + 1)
          BY <1>0, <5>1
        <5> QED
          BY <1>0, <2>1, <2>2, <5>1, <5>2, AppendWhat
      <4>2. CASE inodes <= 1
        <5>1. inodes = 1 /\ ~Exists(0) /\ written = Size(1)
          BY <2>5, <4>2 DEF LogInv, OnceInv
        <5>2. Size(0) = 0
          BY <1>0, <2>1, <5>1, AppendWhat
        <5> QED
          BY <1>0, <2>1, <2>2, <5>1, <5>2, AppendWhat
      <4> QED
        BY <1>0, <4>1, <4>2
    <3>3. \A i \in 1..Size(0)' : log'[0].recs[i] = Size(1)' + i
      <4> SUFFICES ASSUME NEW i \in 1..Size(0)' PROVE log'[0].recs[i] = Size(1)' + i
        OBVIOUS
      <4>1. i \in 1..Size(0) \/ i = Size(0) + 1
        BY <1>0, <2>2
      <4> QED
        BY <2>3, <3>2, <4>1
    <3>4. log'[1].inode = 1 /\ Size(1)' >= Cap /\ \A i \in 1..Size(1)' : log'[1].recs[i] = i
      BY <2>2, <2>3, <3>1
    <3>5. ~Early'
      BY <3>2 DEF Early
    <3> QED
      BY <2>1, <2>2, <2>3, <3>2, <3>3, <3>4, <3>5 DEF OnceInv
  <2> QED
    BY <2>4, <2>5
<1>3. CASE RotateBegins
  <2>1. /\ UNCHANGED <<log, written, inodes>> /\ rot = Idle /\ rot # 0
        /\ written < MaxRecords /\ Size(0) + 1 > Cap
    BY <1>0, <1>3 DEF RotateBegins, ShouldRotate, Idle
  <2>2. Early
    <3>1. CASE ~Early /\ inodes <= 1
      BY <2>1, <3>1 DEF LogInv
    <3>2. CASE ~Early /\ inodes > 1
      <4>1. written = Size(1) + Size(0) /\ Size(1) >= Cap
        BY <3>2 DEF OnceInv
      <4> QED
        BY <1>0, <2>1, <4>1
    <3> QED
      BY <1>0, <3>1, <3>2
  <2>3. written >= Cap
    BY <1>0, <2>1, <2>2 DEF LogInv
  <2>4. Early' /\ \A g \in 2..Keep : ~Exists(g)'
    BY <2>1, <2>2 DEF OnceInv, Early, Exists
  <2> QED
    BY <2>1, <2>3, <2>4 DEF OnceInv
<1>4. ASSUME rot \in 1..Keep + 1
      PROVE  /\ Early /\ Exists(0) /\ inodes = 1 /\ log[0].inode = 1
             /\ written >= Cap /\ Size(0) = written /\ \A i \in 1..Size(0) : log[0].recs[i] = i
             /\ \A g \in Generations \ {0} : ~Exists(g)
  <2>1. rot # Idle /\ rot # 0
    BY <1>0, <1>4 DEF Idle
  <2>2. Early
    BY <1>0, <2>1 DEF LogInv, OnceInv
  <2>3. Exists(0) /\ written >= Cap
    BY <1>4, <2>2 DEF LogInv, OnceInv
  <2> QED
    BY <2>2, <2>3 DEF LogInv, Unrotated
<1>5. CASE Prune
  <2>1. /\ log' = [log EXCEPT ![Keep] = NoFile] /\ rot \in 1..Keep + 1
        /\ UNCHANGED <<written, inodes>>
    BY <1>0, <1>5 DEF Prune
  <2>2. \A g \in Generations : log'[g] = log[g] \/ log'[g] = NoFile
    BY <1>0, <2>1 DEF TypeOK
  <2>3. \A g \in Generations \ {0} : ~Exists(g)'
    BY <1>4, <2>1, <2>2 DEF Exists
  <2>4. Early' /\ written' >= Cap /\ \A g \in 2..Keep : ~Exists(g)'
    BY <1>0, <1>4, <2>1, <2>3 DEF Early
  <2> QED
    BY <2>4 DEF OnceInv
<1>6. CASE Shift
  <2>1. /\ rot \in 1..Keep /\ rot \in Generations /\ rot - 1 \in Generations
        /\ rot' = rot - 1 /\ UNCHANGED <<written, inodes>>
        /\ \A g \in Generations \ {rot, rot - 1} : log'[g] = log[g]
        /\ Exists(rot - 1) => log'[rot] = log[rot - 1] /\ log'[rot - 1] = NoFile
        /\ ~Exists(rot - 1) => log' = log
    BY <1>0, <1>6, ShiftWhat
  <2>2. rot \in 1..Keep + 1
    BY <1>0, <2>1
  <2>3. CASE rot = 1
    <3>1. log'[1] = log[0]
      BY <1>4, <2>1, <2>2, <2>3
    <3>2. \A g \in 2..Keep : log'[g] = log[g]
      BY <1>0, <2>1, <2>3
    <3>3. \A g \in 2..Keep : ~Exists(g)'
      BY <3>2 DEF OnceInv, Exists
    <3>4. /\ log'[1].inode = 1 /\ Size(1)' = written /\ \A i \in 1..Size(1)' : log'[1].recs[i] = i
          /\ Exists(1)'
      BY <1>4, <2>2, <3>1 DEF Size, Exists
    <3>5. ~Early' /\ inodes' = 1 /\ Size(1)' >= Cap
      BY <1>4, <2>1, <2>2, <3>4 DEF Early
    <3> QED
      BY <2>1, <3>3, <3>4, <3>5 DEF OnceInv
  <2>4. CASE rot # 1
    <3>1. rot - 1 \in Generations \ {0}
      BY <1>0, <2>1, <2>4
    <3>2. log' = log
      BY <1>4, <2>1, <2>2, <3>1
    <3> QED
      BY <1>4, <2>1, <2>2, <3>2 DEF OnceInv, Early, Exists
  <2> QED
    BY <2>3, <2>4
<1>7. CASE RotateBreaks
  <2>1. UNCHANGED <<log, written, inodes>> /\ rot \in 1..Keep + 1
    BY <1>7 DEF RotateBreaks
  <2> QED
    BY <1>4, <2>1 DEF OnceInv, Early, Exists
<1>8. ~WriterNext => UNCHANGED logVars
  BY DEF Next, ReaderNext, ReadBegins, StatMain, MakePlan, DrainEnds, DrainSkips, DrainShifted, StatAgain,
     ReadNothing, AgentStarts, DrainReads, ReadMain, FlushAcked, FlushRejected, FlushUnanswered, AgentCrashes,
     vars, logVars
<1> QED
  BY <1>1, <1>2, <1>3, <1>5, <1>6, <1>7, <1>8 DEF WriterNext

\* What is on disk is what has been written, in its order.
LEMMA RetainedIsWritten ==
  ASSUME Once, TypeInv, LogInv, OnceInv
  PROVE  Retained \subseteq (1..written) \ Unusable
<1>0. /\ TypeOK /\ Cap \in Nat /\ Keep \in Nat /\ written \in Nat /\ inodes \in Nat /\ Size(0) \in Nat /\ Size(1) \in Nat
      /\ \A g \in Generations : g = 0 \/ g = 1 \/ g \in 2..Keep
  BY OnceFacts, LogTypes, ReportAssumption DEF TypeInv, TypeOK, Generations
<1> SUFFICES ASSUME NEW r \in Retained PROVE r \in 1..written /\ r \notin Unusable
  OBVIOUS
<1>a. r \notin Unusable
  BY DEF Retained
<1>b. PICK g \in Generations : r \in {log[g].recs[i] : i \in 1..Size(g)}
  BY DEF Retained
<1>c. PICK i \in 1..Size(g) : r = log[g].recs[i]
  BY <1>b
<1>1. Exists(g)
  BY <1>0, <1>c, LogTypes
<1>2. CASE Early
  <2>1. g = 0
    BY <1>1, <1>2 DEF LogInv, Unrotated
  <2> QED
    BY <1>0, <1>a, <1>c, <1>2, <2>1 DEF LogInv
<1>3. CASE ~Early
  <2>1. g = 0 \/ g = 1
    BY <1>0, <1>1 DEF OnceInv
  <2>2. CASE g = 0
    <3>1. inodes > 1
      BY <1>0, <1>1, <1>3, <2>2 DEF LogInv
    <3> QED
      BY <1>0, <1>a, <1>c, <1>3, <2>2, <3>1 DEF OnceInv
  <2>3. CASE g = 1
    BY <1>0, <1>a, <1>c, <1>3, <2>3 DEF OnceInv
  <2> QED
    BY <2>1, <2>2, <2>3
<1> QED
  BY <1>2, <1>3

\* The queue holds a record only behind every older one that is not settled.
OrderInv ==
  \A k \in 1..Len(pending) :
    /\ pending[k][2] <= written
    /\ \A q \in 1..pending[k][2] - 1 : q \in Done \/ \E j \in 1..k - 1 : pending[j][2] = q

\* The first m of r have before them whatever precedes them and is not in D.
Ordered(r, m, top, D) ==
  \A k \in 1..m : r[k] <= top /\ \A q \in 1..r[k] - 1 : q \in D \/ \E j \in 1..k - 1 : r[j] = q

\* r is a queue of m records, followed by those of the next l that are not in D.
LEMMA OrderExtends ==
  ASSUME NEW m \in Nat, NEW c \in Nat, NEW l \in Nat, NEW base \in Nat, NEW top \in Nat, NEW D,
         NEW r \in [1..m + c -> Nat], NEW at \in [1..c -> 1..l],
         \A j, k \in 1..c : j < k => at[j] < at[k],
         \A i \in 1..l : base + i \in D \/ \E k \in 1..c : at[k] = i,
         \A k \in 1..c : r[m + k] = base + at[k],
         \A q \in 1..base : q \in D \/ \E k \in 1..m : r[k] = q,
         base + l <= top,
         Ordered(r, m, top, D)
  PROVE  Ordered(r, m + c, top, D)
<1> SUFFICES ASSUME NEW k \in 1..m + c, k \notin 1..m
             PROVE  r[k] <= top /\ \A q \in 1..r[k] - 1 : q \in D \/ \E j \in 1..k - 1 : r[j] = q
  BY DEF Ordered
<1>1. PICK i \in 1..c : k = m + i
  <2>1. k - m \in 1..c /\ k = m + (k - m)
    OBVIOUS
  <2> QED
    BY <2>1
<1>2. r[k] = base + at[i] /\ at[i] \in 1..l
  BY <1>1
<1>3. ASSUME NEW q \in 1..r[k] - 1, q \notin D PROVE \E j \in 1..k - 1 : r[j] = q
  <2>1. CASE q \in 1..base
    <3>1. PICK j \in 1..m : r[j] = q
      BY <1>3, <2>1
    <3>2. j \in 1..k - 1
      BY <1>1
    <3> QED
      BY <3>1, <3>2
  <2>2. CASE q \notin 1..base
    <3>1. q - base \in 1..l /\ base + (q - base) = q /\ q - base < at[i]
      BY <1>2, <2>2
    <3>2. PICK h \in 1..c : at[h] = q - base
      BY <1>3, <3>1
    <3>3. at[h] \in Nat /\ at[i] \in Nat /\ at[h] < at[i]
      BY <1>2, <3>1, <3>2
    <3>4. ~(at[i] < at[h]) /\ at[h] # at[i]
      BY <3>3
    <3>6. ~(i < h) /\ h # i
      BY <3>4
    <3>7. h < i
      BY <3>6
    <3>5. m + h \in 1..k - 1 /\ r[m + h] = q
      BY <1>1, <3>1, <3>2, <3>7
    <3> QED
      BY <3>5
  <2> QED
    BY <2>1, <2>2
<1> QED
  BY <1>2, <1>3

\* A read of lines that go on where everything before is covered keeps the order.
LEMMA ReadOrder ==
  ASSUME TypeInv, OrderInv, NEW lines \in Seq(Nat \X Records), NEW base \in Nat,
         pending' = pending \o Usable(lines), UNCHANGED <<hubVars, written>>,
         \A i \in 1..Len(lines) : lines[i][2] = base + i,
         AllCovered(base), base + Len(lines) <= written
  PROVE  OrderInv'
<1>1. pending \in Seq(Nat \X Records) /\ Usable(lines) \in Seq(Nat \X Records) /\ written \in Nat
  BY UsableSelects DEF TypeInv, TypeOK
<1>2. PICK at : Selects(at, Usable(lines), lines, Len(lines))
  BY UsableSelects
<1> DEFINE u == Usable(lines)
           m == Len(pending)
           c == Len(u)
           l == Len(lines)
           r == [k \in 1..m + c |-> pending'[k][2]]
<1> HIDE DEF u
<1>3. /\ pending' = pending \o u /\ u \in Seq(Nat \X Records)
      /\ at \in [1..c -> 1..l]
      /\ \A j, k \in 1..c : j < k => at[j] < at[k]
      /\ \A k \in 1..c : u[k] = lines[at[k]]
      /\ \A i \in 1..l : lines[i][2] \in Unusable \/ \E k \in 1..c : at[k] = i
  BY <1>1, <1>2 DEF Selects, u
<1>4. /\ Len(pending') = m + c /\ m \in Nat /\ c \in Nat /\ l \in Nat
      /\ \A k \in 1..m : pending'[k] = pending[k]
      /\ \A k \in 1..c : pending'[m + k] = u[k]
  BY <1>1, <1>3
<1>5. /\ \A i \in 1..l : lines[i][2] = base + i
      /\ \A k \in 1..m : /\ pending[k][2] <= written
                         /\ \A q \in 1..pending[k][2] - 1 : q \in Done \/ \E j \in 1..k - 1 : pending[j][2] = q
      /\ \A q \in 1..base : q \in Done \/ \E k \in 1..m : pending[k][2] = q
      /\ base + l <= written
  BY DEF OrderInv, AllCovered, Covered
<1>r. \A k \in 1..m + c : pending'[k][2] \in Nat
  <2>1. pending' \in Seq(Nat \X Records)
    BY <1>1, <1>3
  <2>2. \A k \in 1..m + c : pending'[k] \in Nat \X Records
    BY <1>4, <2>1
  <2>3. Records \subseteq Nat
    BY ReportAssumption DEF Records
  <2> QED
    BY <2>2, <2>3
<1>6. Done' = Done /\ written' = written
  BY DEF Done, Settled, hubVars
<1> HIDE DEF m, c, l
<1>7. \A k \in 1..m : k \in 1..m + c /\ r[k] = pending[k][2]
  BY <1>4
<1>8. \A k \in 1..c : r[m + k] = base + at[k]
  <2> SUFFICES ASSUME NEW k \in 1..c PROVE r[m + k] = base + at[k]
    OBVIOUS
  <2>1. m + k \in 1..m + c /\ at[k] \in 1..l
    BY <1>3, <1>4
  <2>2. r[m + k] = lines[at[k]][2]
    BY <1>3, <1>4, <2>1
  <2> QED
    BY <1>5, <2>1, <2>2
<1>9. \A i \in 1..l : base + i \in Done \/ \E k \in 1..c : at[k] = i
  BY <1>3, <1>5 DEF Done
<1>10. r \in [1..m + c -> Nat] /\ \A k \in 1..m + c : r[k] = pending'[k][2]
  BY <1>r
<1> HIDE DEF r
<1>11. \A k \in 1..m : r[k] <= written /\ \A q \in 1..r[k] - 1 : q \in Done \/ \E j \in 1..k - 1 : r[j] = q
  <2> SUFFICES ASSUME NEW k \in 1..m
               PROVE  r[k] <= written /\ \A q \in 1..r[k] - 1 : q \in Done \/ \E j \in 1..k - 1 : r[j] = q
    OBVIOUS
  <2>1. \A j \in 1..k - 1 : j \in 1..m
    BY <1>4
  <2>2. r[k] = pending[k][2] /\ \A j \in 1..k - 1 : r[j] = pending[j][2]
    BY <1>7, <2>1
  <2>3. pending[k][2] <= written /\ \A q \in 1..pending[k][2] - 1 : q \in Done \/ \E j \in 1..k - 1 : pending[j][2] = q
    BY <1>5
  <2>4. r[k] <= written
    BY <2>2, <2>3
  <2>5. ASSUME NEW q \in 1..r[k] - 1, q \notin Done PROVE \E j \in 1..k - 1 : r[j] = q
    <3>1. q \in 1..pending[k][2] - 1
      BY <2>2, <2>5
    <3>2. PICK j \in 1..k - 1 : pending[j][2] = q
      BY <2>3, <2>5, <3>1
    <3> QED
      BY <2>2, <3>2
  <2> QED
    BY <2>4, <2>5
<1>12. \A q \in 1..base : q \in Done \/ \E k \in 1..m : r[k] = q
  <2> SUFFICES ASSUME NEW q \in 1..base, q \notin Done PROVE \E k \in 1..m : r[k] = q
    OBVIOUS
  <2>1. PICK k \in 1..m : pending[k][2] = q
    BY <1>5
  <2> QED
    BY <1>7, <2>1
<1>13. Ordered(r, m + c, written, Done)
  <2>1. Ordered(r, m, written, Done)
    BY <1>11 DEF Ordered
  <2>2. at \in [1..c -> 1..l] /\ \A j, k \in 1..c : j < k => at[j] < at[k]
    BY <1>3
  <2>3. base + l <= written
    BY <1>5
  <2>4. r \in [1..m + c -> Nat]
    BY <1>10
  <2>5. written \in Nat
    BY <1>1
  <2> QED
    BY <1>4, <1>8, <1>9, <1>12, <2>1, <2>2, <2>3, <2>4, <2>5, OrderExtends
<1>14. ASSUME NEW k \in 1..Len(pending')
       PROVE  /\ pending'[k][2] <= written'
              /\ \A q \in 1..pending'[k][2] - 1 : q \in Done' \/ \E j \in 1..k - 1 : pending'[j][2] = q
  <2>1. k \in 1..m + c /\ \A j \in 1..k - 1 : j \in 1..m + c
    BY <1>4
  <2>2. r[k] = pending'[k][2] /\ \A j \in 1..k - 1 : r[j] = pending'[j][2]
    BY <1>10, <2>1
  <2>3. r[k] <= written /\ \A q \in 1..r[k] - 1 : q \in Done \/ \E j \in 1..k - 1 : r[j] = q
    BY <1>13, <2>1 DEF Ordered
  <2>4. pending'[k][2] <= written'
    BY <1>6, <2>2, <2>3
  <2>5. ASSUME NEW q \in 1..pending'[k][2] - 1, q \notin Done' PROVE \E j \in 1..k - 1 : pending'[j][2] = q
    <3>1. q \in 1..r[k] - 1
      BY <2>2, <2>5
    <3>2. PICK j \in 1..k - 1 : r[j] = q
      BY <1>6, <2>3, <2>5, <3>1
    <3> QED
      BY <2>2, <3>2
  <2> QED
    BY <2>4, <2>5
<1> QED
  BY <1>14 DEF OrderInv

LEMMA FlushOrder ==
  ASSUME TypeInv, OrderInv, pending # <<>>, Commit, Settled' = Settled \cup Batch, UNCHANGED written
  PROVE  OrderInv'
<1> DEFINE b == BatchLen
           m == Len(pending)
<1>1. TypeOK /\ pending' = SubSeq(pending, b + 1, m) /\ m \in Nat
  BY DEF TypeInv, TypeOK, Commit, Dequeue
<1>2. b \in 1..m /\ Len(pending') = m - b /\ \A k \in 1..m - b : pending'[k] = pending[b + k]
  BY <1>1, BatchType
<1>3. Done \subseteq Done' /\ \A k \in 1..b : pending[k][2] \in Done'
  BY DEF Done, Batch
<1>4. \A k \in 1..m : /\ pending[k][2] <= written
                      /\ \A q \in 1..pending[k][2] - 1 : q \in Done \/ \E j \in 1..k - 1 : pending[j][2] = q
  BY DEF OrderInv
<1> HIDE DEF b, m
<1>5. ASSUME NEW k \in 1..Len(pending')
      PROVE  /\ pending'[k][2] <= written'
             /\ \A q \in 1..pending'[k][2] - 1 : q \in Done' \/ \E j \in 1..k - 1 : pending'[j][2] = q
  <2>1. b + k \in 1..m /\ pending'[k] = pending[b + k]
    BY <1>1, <1>2
  <2>2. ASSUME NEW q \in 1..pending'[k][2] - 1, q \notin Done'
        PROVE  \E j \in 1..k - 1 : pending'[j][2] = q
    <3>0. q \notin Done /\ q \in 1..pending[b + k][2] - 1
      BY <1>3, <2>1, <2>2
    <3>1. \E j \in 1..(b + k) - 1 : pending[j][2] = q
      <4> DEFINE i == b + k
      <4>1. i \in 1..m /\ q \in 1..pending[i][2] - 1
        BY <2>1, <3>0
      <4> HIDE DEF i
      <4>2. \E j \in 1..i - 1 : pending[j][2] = q
        BY <1>4, <3>0, <4>1
      <4> QED
        BY <4>2 DEF i
    <3> PICK j \in 1..(b + k) - 1 : pending[j][2] = q
      BY <3>1
    <3>2. j \notin 1..b
      BY <1>3, <2>2
    <3>3. j - b \in 1..k - 1 /\ j - b \in 1..m - b /\ b + (j - b) = j
      BY <1>1, <1>2, <2>1, <3>2
    <3> QED
      BY <1>2, <3>3
  <2> QED
    BY <1>4, <2>1, <2>2
<1> QED
  BY <1>5 DEF OrderInv

-----------------------------------------------------------------------------
(* The agent after the rotation.                                             *)

\* The agent's plan for the rotated file, read as far as s.
Reread(s) == <<[gen |-> 1, start |-> s, inode |-> 1]>>

\* It has noticed the rotation: it re-reads the first file and then the second.
Rereads ==
  /\ inode = 2 /\ rot = Idle
  /\ \/ /\ \E s \in Nat : plan = Reread(s) /\ AllCovered(s)
        /\ readOffset = 0 /\ step \in {"idle", "drain", "catchup"}
     \/ /\ plan = <<>> /\ AllCovered(Size(1))
        /\ readOffset = 0 /\ step \in {"idle", "drain", "catchup"}
     \/ /\ plan = NoPlan /\ AllCovered(Size(1) + readOffset) /\ readOffset <= Size(0)
        /\ step \in {"idle", "stat", "restat", "read"}

LaterInv ==
  /\ step \notin {"idle", "down"} => rot = Idle
  /\ ~Early => \/ Tracks /\ step \in {"down", "idle", "stat", "plan"}
               \/ Rereads

OneInv == TypeInv /\ LogInv /\ EarlyInv /\ OnceInv /\ LaterInv

LEMMA RereadIs ==
  ASSUME NEW s \in Nat
  PROVE  /\ Reread(s) \in Seq([gen : {1}, start : Nat, inode : {1}]) /\ Len(Reread(s)) = 1 /\ Reread(s) # <<>>
         /\ Head(Reread(s)) = Reread(s)[1] /\ Tail(Reread(s)) = <<>>
         /\ Reread(s)[1].gen = 1 /\ Reread(s)[1].start = s /\ Reread(s)[1].inode = 1
         /\ Reread(s) # NoPlan
<1>1. Reread(s)[1].gen = 1 /\ NoPlan[1].gen = -1
  BY DEF Reread, NoPlan
<1>2. Reread(s) # NoPlan
  BY <1>1
<1> QED
  BY <1>2 DEF Reread

LEMMA NoPlanIs == Len(NoPlan) = 1 /\ NoPlan # <<>>
<1>1. Len(NoPlan) = 1
  BY DEF NoPlan
<1> QED
  BY <1>1

\* After the rotation the first file is generation 1, and there is no other.
LEMMA LaterLog ==
  ASSUME Once, OneInv, ~Early
  PROVE  /\ Exists(1) /\ log[1].inode = 1 /\ Size(1) >= Cap /\ \A i \in 1..Size(1) : log[1].recs[i] = i
         /\ Rotated = {1} /\ ~Unrotated
         /\ Size(1) \in Nat
         /\ rot = Idle => /\ Exists(0) /\ log[0].inode = 2 /\ Size(0) \in Nat /\ written = Size(1) + Size(0)
                          /\ \A i \in 1..Size(0) : log[0].recs[i] = Size(1) + i
<1>0. /\ TypeOK /\ 0 \in Generations /\ 1 \in Generations /\ 0 # 1 /\ Keep \in Nat /\ Keep >= 1
      /\ Cap \in Nat /\ Cap >= 1
  BY OnceFacts DEF OneInv, TypeInv
<1>1. /\ log[1].inode = 1 /\ Size(1) >= Cap /\ \A i \in 1..Size(1) : log[1].recs[i] = i
      /\ Size(1) \in Nat
  BY <1>0, LogTypes DEF OneInv, OnceInv
<1>2. Exists(1)
  BY <1>0, <1>1, LogTypes
<1>3. Rotated = {1}
  <2>1. \A g \in 2..Keep : ~Exists(g)
    BY DEF OneInv, OnceInv
  <2>2. 1 \in Rotated
    BY <1>0, <1>2 DEF Rotated
  <2>3. \A g \in Rotated : g = 1
    <3> SUFFICES ASSUME NEW g \in Rotated PROVE g = 1
      OBVIOUS
    <3>1. g \in 1..Keep /\ Exists(g)
      BY <1>0 DEF Rotated
    <3> QED
      BY <1>0, <2>1, <3>1
  <2> QED
    BY <2>2, <2>3
<1>4. ~Unrotated
  BY <1>0, <1>2 DEF Unrotated
<1>5. ASSUME rot = Idle
      PROVE  /\ Exists(0) /\ log[0].inode = 2 /\ Size(0) \in Nat /\ written = Size(1) + Size(0)
             /\ \A i \in 1..Size(0) : log[0].recs[i] = Size(1) + i
  <2>1. inodes > 1
    BY <1>5 DEF OneInv, LogInv, TypeInv, TypeOK, Idle
  <2> QED
    BY <1>0, <2>1, LogTypes DEF OneInv, OnceInv
<1> QED
  BY <1>1, <1>2, <1>3, <1>4, <1>5

\* What the agent plans when it notices: the first file, from the acknowledged offset.
LEMMA LaterPlan ==
  ASSUME Once, OneInv, ~Early, Tracks
  PROVE  \E s \in Nat : DrainPlan = Reread(s) /\ AllCovered(s)
<1>0. Rotated = {1} /\ log[1].inode = 1 /\ offset \in Nat
  BY LaterLog DEF OneInv, TypeInv, TypeOK
<1> DEFINE at == {g \in Rotated : offset > 0 /\ inode # NoInode /\ log[g].inode = inode}
           first == IF at = {} THEN Rotated ELSE {g \in Rotated : \A c \in at : g <= c}
           oldest == CHOOSE g \in first : \A h \in first : h <= g
           n == IF first = {} THEN 0 ELSE oldest
           entry(g) == [gen |-> g, start |-> IF g \in at THEN offset ELSE 0, inode |-> log[g].inode]
           s == IF 1 \in at THEN offset ELSE 0
<1>1. DrainPlan = [i \in 1..n |-> entry(n + 1 - i)]
  BY DEF DrainPlan
<1>2. at \subseteq {1}
  BY <1>0
<1>3. first = {1}
  BY <1>0, <1>2
<1>4. n = 1
  <2>1. oldest \in first
    <3>1. \E g \in first : \A h \in first : h <= g
      BY <1>3
    <3> HIDE DEF first
    <3> QED
      BY <3>1
  <2> QED
    BY <1>3, <2>1
<1>5. [i \in 1..1 |-> entry(1 + 1 - i)] = <<entry(1)>>
  <2> HIDE DEF entry
  <2>1. \A i \in 1..1 : entry(1 + 1 - i) = entry(1)
    <3>1. \A i \in 1..1 : 1 + 1 - i = 1
      OBVIOUS
    <3> QED
      BY <3>1
  <2> QED
    BY <2>1
<1>6. entry(1) = [gen |-> 1, start |-> s, inode |-> 1]
  BY <1>0
<1>7. DrainPlan = Reread(s)
  <2> HIDE DEF entry, n, s
  <2> QED
    BY <1>1, <1>4, <1>5, <1>6 DEF Reread
<1>8. s \in Nat /\ 1..s \subseteq Done
  <2>1. 1..offset \subseteq Done
    BY DEF Tracks
  <2> QED
    BY <1>0, <2>1
<1> HIDE DEF s
<1> QED
  BY <1>7, <1>8 DEF AllCovered, Covered

\* Every read goes on where everything before is covered.
LEMMA MainReadsOn ==
  ASSUME Once, OneInv, NEW n \in 1..MaxPending, ReadMain(n)
  PROVE  LET lines == Lines(0, readOffset, n)
             base  == IF Early THEN readOffset ELSE Size(1) + readOffset IN
         /\ lines \in Seq(Nat \X Records) /\ Len(lines) = n /\ pending' = pending \o Usable(lines)
         /\ base \in Nat /\ AllCovered(base) /\ base + n <= written
         /\ \A i \in 1..n : lines[i][2] = base + i
         /\ readOffset' = readOffset + n /\ readOffset' <= Size(0)
         /\ ~Early => Rereads /\ plan = NoPlan
<1> DEFINE lines == Lines(0, readOffset, n)
           base  == IF Early THEN readOffset ELSE Size(1) + readOffset
<1>0. /\ readOffset \in Nat /\ n \in Nat /\ n >= 1 /\ written \in Nat
      /\ Size(0) \in Nat /\ Size(1) \in Nat
  BY OnceFacts, LogTypes, GenerationsOf, ReportAssumption DEF OneInv, TypeInv, TypeOK, Kept
<1>1. /\ n <= Size(0) - readOffset
      /\ lines \in Seq(Nat \X Records) /\ Len(lines) = n
      /\ pending' = pending \o Usable(lines) /\ readOffset' = readOffset + n
  BY ReadMainWhat DEF OneInv
<1>2. \A i \in 1..n : readOffset + i \in 1..Size(0)
  BY <1>0, <1>1
<1>3. \A i \in 1..n : lines[i][2] = log[0].recs[readOffset + i]
  BY DEF Lines
<1>4. step = "read"
  BY DEF ReadMain
<1> HIDE DEF lines
<1>5. ASSUME Early
      PROVE  /\ AllCovered(readOffset) /\ readOffset + n <= written
             /\ \A i \in 1..n : lines[i][2] = readOffset + i
  <2>1. Tracks /\ Size(0) = written /\ \A i \in 1..Size(0) : log[0].recs[i] = i
    BY <1>5 DEF OneInv, LogInv, EarlyInv
  <2>2. AllCovered(readOffset)
    BY <1>4, <2>1 DEF Tracks
  <2>3. \A i \in 1..n : lines[i][2] = readOffset + i
    BY <1>2, <1>3, <2>1
  <2> QED
    BY <1>0, <1>1, <2>1, <2>2, <2>3
<1>6. ASSUME ~Early
      PROVE  /\ Rereads /\ plan = NoPlan
             /\ AllCovered(Size(1) + readOffset) /\ (Size(1) + readOffset) + n <= written
             /\ \A i \in 1..n : lines[i][2] = (Size(1) + readOffset) + i
  <2>1. Rereads /\ rot = Idle
    BY <1>4, <1>6 DEF OneInv, LaterInv
  <2>2. plan = NoPlan /\ AllCovered(Size(1) + readOffset)
    BY <1>4, <2>1 DEF Rereads
  <2>3. written = Size(1) + Size(0) /\ \A i \in 1..Size(0) : log[0].recs[i] = Size(1) + i
    BY <1>6, <2>1, LaterLog
  <2>4. \A i \in 1..n : lines[i][2] = (Size(1) + readOffset) + i
    BY <1>0, <1>2, <1>3, <2>3
  <2> QED
    BY <1>0, <1>1, <2>1, <2>2, <2>3, <2>4
<1>7. readOffset' <= Size(0)
  BY <1>0, <1>1
<1>8. base \in Nat /\ AllCovered(base) /\ base + n <= written /\ \A i \in 1..n : lines[i][2] = base + i
  BY <1>0, <1>5, <1>6
<1> HIDE DEF base
<1> QED
  BY <1>1, <1>6, <1>7, <1>8 DEF lines, base

LEMMA DrainReadsOn ==
  ASSUME Once, OneInv, NEW n \in 1..MaxPending, DrainReads(n)
  PROVE  \E s \in Nat :
           LET lines == Replays(1, s, n) IN
           /\ plan = Reread(s) /\ Rereads /\ ~Early
           /\ lines \in Seq(Nat \X Records) /\ Len(lines) = n /\ pending' = pending \o Usable(lines)
           /\ AllCovered(s) /\ s + n <= Size(1) /\ s + n <= written
           /\ \A i \in 1..n : lines[i][2] = s + i
           /\ plan' = IF s + n = Size(1) THEN <<>> ELSE Reread(s + n)
           /\ step' \in {"idle", step}
<1>1. Draining /\ plan # <<>> /\ plan # NoPlan
  BY DrainReadsWhat DEF OneInv, TypeInv, StepInv
<1>2. ~Early
  BY <1>1 DEF OneInv, EarlyInv, Tracks
<1>3. Rereads /\ rot = Idle
  BY <1>1, <1>2 DEF OneInv, LaterInv, Draining, Rereads
<1>4. PICK s \in Nat : plan = Reread(s) /\ AllCovered(s)
  BY <1>1, <1>3 DEF Rereads
<1>5. Head(plan).gen = 1 /\ Head(plan).start = s /\ Tail(plan) = <<>>
  BY <1>4, RereadIs
<1>6. /\ Size(1) \in Nat /\ \A i \in 1..Size(1) : log[1].recs[i] = i
      /\ written = Size(1) + Size(0) /\ Size(0) \in Nat /\ Cap \in Nat /\ n \in Nat /\ n >= 1
  BY <1>2, <1>3, LaterLog, OnceFacts, ReportAssumption
<1> DEFINE lines == Replays(1, s, n)
<1>7. /\ n <= Size(1) - s
      /\ lines \in Seq(Nat \X Records) /\ Len(lines) = n
      /\ pending' = pending \o Usable(lines)
      /\ plan' = IF s + n = Size(1) THEN <<>> ELSE [plan EXCEPT ![1].start = s + n]
      /\ step' \in {"idle", step}
  BY <1>5, <1>6, DrainReadsWhat DEF OneInv
<1>8. [plan EXCEPT ![1].start = s + n] = Reread(s + n)
  <2>1. plan = Reread(s)
    BY <1>4
  <2>2. [Reread(s) EXCEPT ![1].start = s + n] = Reread(s + n)
    BY DEF Reread
  <2> QED
    BY <2>1, <2>2
<1>9. \A i \in 1..n : s + i \in 1..Size(1)
  BY <1>6, <1>7
<1>10. \A i \in 1..n : lines[i][2] = s + i
  BY <1>6, <1>9 DEF Replays
<1>11. s + n <= Size(1) /\ s + n <= written
  BY <1>6, <1>7
<1> HIDE DEF lines
<1> QED
  BY <1>2, <1>3, <1>4, <1>7, <1>8, <1>10, <1>11 DEF lines

\* The server's renames fall between two reads.
LEMMA LaterWriter ==
  ASSUME Once, OneInv, WriterNext, OnceInv'
  PROVE  LaterInv'
<1>0. /\ UNCHANGED <<step, offset, readOffset, inode, plan, pending, cursor, delivered, refused>>
      /\ Tracks => Tracks'
      /\ \A q : Covered(q)' = Covered(q)
  BY TracksWriter
<1>1. step \in {"idle", "down"}
  BY OnceFacts DEF WriterNext, Record, RotateBegins, Prune, Shift, Reopen, RotateBreaks, WriterMayMove
<1>2. Early' => Early
  BY OnceFacts, LogNext DEF OneInv
<1> SUFFICES ASSUME ~Early'
             PROVE  \/ Tracks' /\ step' \in {"down", "idle", "stat", "plan"}
                    \/ Rereads'
  BY <1>0, <1>1 DEF LaterInv
<1>3. CASE Early \/ Tracks
  BY <1>0, <1>1, <1>3 DEF OneInv, EarlyInv
<1>4. CASE ~Early /\ ~Tracks
  <2>1. Rereads /\ rot = Idle
    BY <1>4 DEF OneInv, LaterInv, Rereads
  <2>2. CASE Record
    <3>1. rot' = Idle /\ Append1
      BY <2>1, <2>2 DEF Record
    <3>2. Size(0)' = Size(0) + 1 /\ Size(0) \in Nat /\ readOffset \in Nat
      BY <3>1, AppendWhat, LogTypes, OnceFacts DEF OneInv, TypeInv, TypeOK
    <3>5. Size(1)' = Size(1)
      <4>1. log'[1] = log[1]
        BY <3>1, AppendWhat, OnceFacts DEF OneInv, TypeInv
      <4> QED
        BY <4>1 DEF Size
    <3>3. readOffset <= Size(0) => readOffset' <= Size(0)'
      BY <1>0, <3>2
    <3> QED
      BY <1>0, <2>1, <3>1, <3>3, <3>5 DEF Rereads, AllCovered
  <2>3. CASE RotateBegins
    <3>1. rot' = Keep + 1
      BY <2>3 DEF RotateBegins
    <3>2. rot' # 0 /\ rot' # Idle
      BY <3>1, OnceFacts DEF Idle
    <3>3. inodes' = inodes /\ ~(inodes <= 1)
      BY <1>4, <2>1, <2>3, OnceFacts DEF RotateBegins, OneInv, LogInv, Idle
    <3>4. inodes \in Nat
      BY DEF OneInv, TypeInv, TypeOK
    <3> QED
      BY <3>2, <3>3, <3>4 DEF OnceInv
  <2>4. ~Prune /\ ~Shift /\ ~Reopen /\ ~RotateBreaks
    BY <2>1, OnceFacts DEF Prune, Shift, Reopen, RotateBreaks, Idle
  <2> QED
    BY <2>2, <2>3, <2>4 DEF WriterNext
<1> QED
  BY <1>3, <1>4

LEMMA LaterFlush ==
  ASSUME Once, OneInv, FlushAcked \/ FlushRejected \/ FlushUnanswered
  PROVE  /\ LaterInv'
         /\ \A q : Covered(q) => Covered(q)'
<1>1. /\ Settled' = Settled \cup Batch /\ pending # <<>> /\ step = "idle"
      /\ UNCHANGED <<log, written, rot, inodes, step, readOffset, inode, plan>>
      /\ Commit \/ UNCHANGED <<offset, pending, cursor>>
  BY SettledGrows DEF OneInv, logVars
<1>2. \A q : Covered(q) => Covered(q)'
  <2>1. CASE Commit
    BY <1>1, <2>1, FlushCovers DEF OneInv
  <2>2. CASE UNCHANGED pending
    BY <1>1, <2>2 DEF Covered, Done
  <2> QED
    BY <1>1, <2>1, <2>2
<1>3. Tracks => Tracks'
  BY TracksFlush DEF OneInv
<1>4. Rereads => Rereads'
  <2> SUFFICES ASSUME Rereads PROVE Rereads'
    OBVIOUS
  <2>1. \A x : AllCovered(x) => \A q \in 1..x : Covered(q)'
    BY <1>2 DEF AllCovered
  <2> QED
    BY <1>1, <2>1 DEF Rereads, AllCovered, Size
<1> QED
  BY <1>1, <1>2, <1>3, <1>4 DEF OneInv, LaterInv, Early, Exists

LEMMA LaterAgent ==
  ASSUME Once, OneInv, ReaderNext \/ AgentCrashes
  PROVE  LaterInv'
<1>0. UNCHANGED <<log, written, rot, inodes, delivered, refused>>
  BY DEF ReaderNext, ReadBegins, StatMain, MakePlan, DrainEnds, DrainSkips, DrainShifted, StatAgain,
         ReadNothing, AgentStarts, DrainReads, ReadMain, AgentCrashes, logVars, hubVars
<1>1. step' \notin {"idle", "down"} => rot' = Idle
  BY <1>0, OnceFacts DEF ReaderNext, ReadBegins, StatMain, MakePlan, DrainEnds, DrainSkips, DrainShifted, StatAgain,
         ReadNothing, AgentStarts, DrainReads, ReadMain, AgentCrashes, AgentMayMove, OneInv, LaterInv, Draining
<1> SUFFICES ASSUME ~Early
             PROVE  \/ Tracks' /\ step' \in {"down", "idle", "stat", "plan"}
                    \/ Rereads'
  BY <1>0, <1>1 DEF LaterInv, Early, Exists
<1>2. /\ Exists(1) /\ log[1].inode = 1 /\ Size(1) \in Nat
      /\ Rotated = {1} /\ ~Unrotated
      /\ rot = Idle => Exists(0) /\ log[0].inode = 2 /\ Size(0) \in Nat
      /\ readOffset \in Nat /\ Cap \in Nat
  BY LaterLog, OnceFacts DEF OneInv, TypeInv, TypeOK
<1>3. ~AgentCrashes
  BY <1>2, OnceFacts DEF AgentCrashes
<1>4. step \notin {"idle", "down"} => rot = Idle
  BY DEF OneInv, LaterInv
<1>5. ASSUME Tracks, step \in {"down", "idle", "stat", "plan"}
      PROVE  \/ Tracks' /\ step' \in {"down", "idle", "stat", "plan"}
             \/ Rereads'
  <2>1. plan = NoPlan /\ inode \in {0, 1}
    BY <1>5 DEF Tracks
  <2>2. CASE ReadBegins \/ ReadNothing \/ AgentStarts
    <3>1. step' \in {"down", "idle", "stat", "plan"}
      BY <1>5, <2>1, <2>2 DEF ReadBegins, ReadNothing, AgentStarts
    <3> QED
      BY <1>5, <2>2, <3>1, TracksMoves DEF OneInv
  <2>3. CASE StatMain
    <3>1. Exists(0) /\ WasRotated
      BY <1>2, <1>4, <2>1, <2>3 DEF StatMain, WasRotated, NoInode
    <3>2. step' = "plan" /\ UNCHANGED <<tailVars, pending, cursor, hubVars>> /\ step # "down"
      BY <2>3, <3>1 DEF StatMain
    <3>3. Tracks'
      BY <1>5, <3>2 DEF Tracks, tailVars, hubVars, Done, Settled, AllCovered, Covered, Pairs
    <3> QED
      BY <3>2, <3>3
  <2>4. CASE MakePlan
    <3>1. PICK s \in Nat : DrainPlan = Reread(s) /\ AllCovered(s)
      BY <1>5, LaterPlan
    <3>2. plan' = Reread(s) /\ readOffset' = 0 /\ inode' = 2 /\ step' = "catchup" /\ pending' = pending
      BY <1>2, <1>4, <2>4, <3>1 DEF MakePlan, StartDrain
    <3>3. \A q \in 1..s : Covered(q)'
      BY <1>0, <3>1, <3>2 DEF AllCovered, Covered, Done, Settled
    <3>4. rot' = Idle
      BY <1>0, <1>4, <2>4 DEF MakePlan
    <3> QED
      BY <3>2, <3>3, <3>4 DEF Rereads, AllCovered
  <2>5. ~DrainEnds /\ ~DrainSkips /\ ~DrainShifted /\ ~StatAgain
        /\ \A n \in 1..MaxPending : ~DrainReads(n) /\ ~ReadMain(n)
    BY <1>5 DEF DrainEnds, DrainSkips, DrainShifted, StatAgain, DrainReads, ReadMain, Draining
  <2> QED
    BY <1>3, <2>2, <2>3, <2>4, <2>5 DEF ReaderNext
<1>6. ASSUME Rereads PROVE Rereads'
  <2>0. inode = 2 /\ rot = Idle /\ rot' = Idle /\ Size(0)' = Size(0) /\ Size(1)' = Size(1)
        /\ Exists(0) /\ log[0].inode = 2 /\ Size(0) \in Nat
    BY <1>0, <1>2, <1>6 DEF Rereads, Size
  <2>1. ASSUME pending' = pending PROVE \A x : AllCovered(x) => \A q \in 1..x : Covered(q)'
    BY <1>0, <2>1 DEF AllCovered, Covered, Done, Settled
  <2>2. CASE ReadBegins \/ ReadNothing
    <3>1. /\ UNCHANGED <<readOffset, inode, plan, pending>>
          /\ ReadBegins => step' = IF plan # NoPlan THEN "drain" ELSE "stat"
          /\ ReadNothing => step = "read" /\ step' = "idle"
      BY <2>2 DEF ReadBegins, ReadNothing, tailVars
    <3>2. \A s \in Nat : Reread(s) # NoPlan
      BY RereadIs
    <3>3. CASE \E s \in Nat : plan = Reread(s) /\ AllCovered(s) /\ readOffset = 0 /\ step \in {"idle", "drain", "catchup"}
      <4>1. step' \in {"idle", "drain", "catchup"}
        BY <2>2, <3>1, <3>2, <3>3
      <4> QED
        BY <2>0, <2>1, <3>1, <3>3, <4>1 DEF Rereads, AllCovered
    <3>4. CASE plan = <<>> /\ AllCovered(Size(1)) /\ readOffset = 0 /\ step \in {"idle", "drain", "catchup"}
      <4>1. step' \in {"idle", "drain", "catchup"}
        BY <2>2, <3>1, <3>4, NoPlanIs
      <4> QED
        BY <2>0, <2>1, <3>1, <3>4, <4>1 DEF Rereads, AllCovered
    <3>5. CASE plan = NoPlan /\ AllCovered(Size(1) + readOffset) /\ readOffset <= Size(0)
      <4>1. step' \in {"idle", "stat"}
        BY <2>2, <3>1, <3>5
      <4> QED
        BY <2>0, <2>1, <3>1, <3>5, <4>1 DEF Rereads, AllCovered
    <3> QED
      BY <1>6, <3>3, <3>4, <3>5 DEF Rereads
  <2>3. CASE StatMain
    <3>1. step = "stat"
      BY <2>3 DEF StatMain
    <3>2. plan = NoPlan /\ AllCovered(Size(1) + readOffset) /\ readOffset <= Size(0)
      BY <1>6, <3>1 DEF Rereads
    <3>3. ~WasRotated
      BY <1>2, <2>0, <3>2 DEF WasRotated, NoInode
    <3>4. inode' = 2 /\ step' \in {"idle", "read"} /\ UNCHANGED <<readOffset, plan, pending>>
      BY <2>0, <2>3, <3>3 DEF StatMain
    <3> QED
      BY <2>0, <2>1, <3>2, <3>4 DEF Rereads, AllCovered
  <2>4. CASE DrainEnds
    <3>1. plan = <<>> /\ step' \in {"stat", "restat"} /\ plan' = NoPlan /\ UNCHANGED <<readOffset, inode, pending>>
      BY <2>4 DEF DrainEnds
    <3>2. \A s \in Nat : Reread(s) # <<>>
      BY RereadIs
    <3>3. AllCovered(Size(1)) /\ readOffset = 0
      BY <1>6, <3>1, <3>2, NoPlanIs DEF Rereads
    <3>4. Size(1) + readOffset' = Size(1) /\ readOffset' <= Size(0)'
      BY <1>2, <2>0, <3>1, <3>3
    <3> QED
      BY <2>0, <2>1, <3>1, <3>3, <3>4 DEF Rereads, AllCovered
  <2>5. ASSUME Draining, plan # <<>>
        PROVE  \E s \in Nat : plan = Reread(s) /\ AllCovered(s) /\ readOffset = 0 /\ step \in {"idle", "drain", "catchup"}
    BY <1>6, <2>5 DEF Rereads, Draining
  <2>6. CASE DrainSkips
    <3>1. PICK s \in Nat : plan = Reread(s) /\ AllCovered(s) /\ readOffset = 0 /\ step \in {"idle", "drain", "catchup"}
      BY <2>5, <2>6 DEF DrainSkips
    <3>2. Head(plan).gen = 1 /\ Head(plan).start = s /\ Tail(plan) = <<>>
      BY <3>1, RereadIs
    <3>3. Size(1) <= s
      BY <1>2, <2>6, <3>2, OnceFacts DEF DrainSkips, ReadFails
    <3>4. plan' = <<>> /\ UNCHANGED <<step, readOffset, inode, pending>>
      BY <2>6, <3>2 DEF DrainSkips
    <3>5. AllCovered(Size(1))
      BY <1>2, <3>1, <3>3 DEF AllCovered
    <3> QED
      BY <2>0, <2>1, <3>1, <3>4, <3>5 DEF Rereads, AllCovered
  <2>7. ~DrainShifted
    <3> SUFFICES ASSUME DrainShifted PROVE FALSE
      OBVIOUS
    <3>1. PICK s \in Nat : plan = Reread(s)
      BY <2>5 DEF DrainShifted
    <3>2. Head(plan).gen = 1 /\ Head(plan).inode = 1
      BY <3>1, RereadIs
    <3> QED
      BY <1>2, <3>2 DEF DrainShifted
  <2>8. CASE StatAgain
    <3>1. step = "restat"
      BY <2>8 DEF StatAgain
    <3>2. plan = NoPlan /\ AllCovered(Size(1) + readOffset) /\ readOffset <= Size(0)
      BY <1>6, <3>1 DEF Rereads
    <3>3. inode' = 2 /\ step' \in {"idle", "read"} /\ UNCHANGED <<readOffset, plan, pending>>
      BY <2>0, <2>8 DEF StatAgain
    <3> QED
      BY <2>0, <2>1, <3>2, <3>3 DEF Rereads, AllCovered
  <2>9. ~MakePlan /\ ~AgentStarts
    BY <1>6 DEF Rereads, MakePlan, AgentStarts
  <2>10. ASSUME NEW n \in 1..MaxPending, DrainReads(n) PROVE Rereads'
    <3>1. PICK s \in Nat :
            LET lines == Replays(1, s, n) IN
            /\ plan = Reread(s)
            /\ lines \in Seq(Nat \X Records) /\ Len(lines) = n /\ pending' = pending \o Usable(lines)
            /\ AllCovered(s) /\ s + n <= Size(1)
            /\ \A i \in 1..n : lines[i][2] = s + i
            /\ plan' = IF s + n = Size(1) THEN <<>> ELSE Reread(s + n)
            /\ step' \in {"idle", step}
      BY <2>10, DrainReadsOn
    <3>2. \A q \in 1..s + n : Covered(q)'
      <4> DEFINE lines == Replays(1, s, n)
      <4> HIDE DEF lines
      <4>1. /\ lines \in Seq(Nat \X Records) /\ Len(lines) = n /\ pending' = pending \o Usable(lines)
            /\ \A i \in 1..Len(lines) : lines[i][2] = s + i
        BY <3>1 DEF lines
      <4>2. \A q \in 1..s + Len(lines) : Covered(q)'
        BY <1>0, <3>1, <4>1, ReadAllCovers DEF OneInv, hubVars
      <4> QED
        BY <4>1, <4>2
    <3>3. Draining /\ plan # <<>> /\ UNCHANGED <<readOffset, inode>>
      BY <2>10 DEF DrainReads
    <3>4. readOffset = 0 /\ step \in {"idle", "drain", "catchup"}
      BY <2>5, <3>3
    <3>5. s + n \in Nat
      BY ReportAssumption
    <3> QED
      BY <2>0, <3>1, <3>2, <3>3, <3>4, <3>5 DEF Rereads, AllCovered
  <2>11. ASSUME NEW n \in 1..MaxPending, ReadMain(n) PROVE Rereads'
    <3> DEFINE lines == Lines(0, readOffset, n)
               base == Size(1) + readOffset
    <3> HIDE DEF lines, base
    <3>1. /\ lines \in Seq(Nat \X Records) /\ Len(lines) = n /\ pending' = pending \o Usable(lines)
          /\ base \in Nat /\ AllCovered(base)
          /\ \A i \in 1..n : lines[i][2] = base + i
          /\ readOffset' = readOffset + n /\ readOffset' <= Size(0)
          /\ plan = NoPlan
      BY <2>11, MainReadsOn DEF lines, base
    <3>2. \A q \in 1..base + Len(lines) : Covered(q)'
      BY <1>0, <3>1, ReadAllCovers DEF OneInv, hubVars
    <3>3. Size(1) + readOffset' = base + n
      BY <1>2, <3>1, ReportAssumption DEF base
    <3>4. step' = "idle" /\ plan' = NoPlan /\ inode' = 2
      BY <2>0, <2>11, <3>1 DEF ReadMain
    <3> QED
      BY <2>0, <3>1, <3>2, <3>3, <3>4 DEF Rereads, AllCovered
  <2> QED
    BY <1>3, <2>2, <2>3, <2>4, <2>6, <2>7, <2>8, <2>9, <2>10, <2>11 DEF ReaderNext
<1> QED
  BY <1>5, <1>6 DEF OneInv, LaterInv

LEMMA OneNext ==
  ASSUME Once, OneInv, [Next]_vars
  PROVE  OneInv'
<1>1. TypeInv' /\ LogInv' /\ EarlyInv' /\ OnceInv'
  BY OnceFacts, TypesNext, LogNextAll, EarlyNext, OnceNext DEF OneInv
<1>2. CASE UNCHANGED vars
  <2>1. LaterInv'
    BY <1>2 DEF vars, logVars, tailVars, hubVars, OneInv, LaterInv, Early, Exists, Tracks, Rereads,
       AllCovered, Covered, Done, Settled, Pairs, Size
  <2> QED
    BY <1>1, <2>1 DEF OneInv
<1>3. CASE Next
  BY <1>1, <1>3, LaterWriter, LaterFlush, LaterAgent DEF OneInv, Next
<1> QED
  BY <1>2, <1>3

LEMMA OneInit == ASSUME Once, Init PROVE OneInv /\ OrderInv
<1>1. TypeInv /\ LogInv /\ EarlyInv
  BY OnceFacts, TypesInit, EarlyInit
<1>2. \A g \in Generations : ~Exists(g)
  BY DEF Init, Exists
<1>3. Early /\ written <= Cap /\ rot = Idle
  BY <1>2, OnceFacts, GenerationsOf DEF Init, Early, Kept
<1>4. OnceInv /\ LaterInv /\ OrderInv
  BY <1>2, <1>3, OnceFacts DEF OnceInv, LaterInv, OrderInv, Init, Generations, Idle
<1> QED
  BY <1>1, <1>4 DEF OneInv

LEMMA OrderNext ==
  ASSUME Once, OneInv, OrderInv, [Next]_vars
  PROVE  OrderInv'
<1>0. written \in Nat /\ TypeInv
  BY DEF OneInv, TypeInv, TypeOK
<1>1. CASE UNCHANGED <<pending, delivered, refused, written>>
  BY <1>1 DEF OrderInv, Done, Settled
<1>2. CASE WriterNext
  <2>1. UNCHANGED <<pending, delivered, refused>>
    BY <1>2, TracksWriter
  <2>2. written' = written \/ written' = written + 1
    BY <1>2 DEF WriterNext, Record, RotateBegins, Prune, Shift, Reopen, RotateBreaks, Append1
  <2>3. \A k \in 1..Len(pending) : pending[k][2] \in Nat /\ pending[k][2] <= written'
    <3>1. \A k \in 1..Len(pending) : pending[k][2] \in Records
      BY <1>0 DEF TypeInv, TypeOK
    <3>2. Records \subseteq Nat
      BY ReportAssumption DEF Records
    <3>3. \A k \in 1..Len(pending) : pending[k][2] <= written
      BY DEF OrderInv
    <3>4. written \in Nat
      BY <1>0
    <3>5. \A k \in 1..Len(pending) : pending[k][2] \in Nat
      BY <3>1, <3>2
    <3> QED
      BY <2>2, <3>3, <3>4, <3>5
  <2> QED
    BY <2>1, <2>3 DEF OrderInv, Done, Settled
<1>3. CASE FlushAcked \/ FlushRejected \/ FlushUnanswered
  <2>1. /\ Settled' = Settled \cup Batch /\ pending # <<>> /\ UNCHANGED written
        /\ Commit \/ UNCHANGED pending
    BY <1>0, <1>3, SettledGrows DEF logVars
  <2>2. CASE Commit
    BY <1>0, <2>1, <2>2, FlushOrder
  <2>3. CASE UNCHANGED pending
    BY <2>1, <2>3 DEF OrderInv, Done
  <2> QED
    BY <2>1, <2>2, <2>3
<1>4. CASE AgentCrashes
  BY <1>4 DEF AgentCrashes, OrderInv
<1>5. ASSUME NEW n \in 1..MaxPending, DrainReads(n) PROVE OrderInv'
  <2>1. PICK s \in Nat :
          LET lines == Replays(1, s, n) IN
          /\ lines \in Seq(Nat \X Records) /\ Len(lines) = n /\ pending' = pending \o Usable(lines)
          /\ AllCovered(s) /\ s + n <= written
          /\ \A i \in 1..n : lines[i][2] = s + i
    BY <1>5, DrainReadsOn
  <2>2. UNCHANGED <<hubVars, written>>
    BY <1>5 DEF DrainReads, logVars
  <2> DEFINE lines == Replays(1, s, n)
  <2> HIDE DEF lines
  <2>3. /\ lines \in Seq(Nat \X Records) /\ Len(lines) = n /\ pending' = pending \o Usable(lines)
        /\ \A i \in 1..Len(lines) : lines[i][2] = s + i
    BY <2>1 DEF lines
  <2> QED
    BY <1>0, <2>1, <2>2, <2>3, ReadOrder
<1>6. ASSUME NEW n \in 1..MaxPending, ReadMain(n) PROVE OrderInv'
  <2> DEFINE lines == Lines(0, readOffset, n)
             base == IF Early THEN readOffset ELSE Size(1) + readOffset
  <2> HIDE DEF lines, base
  <2>1. /\ lines \in Seq(Nat \X Records) /\ Len(lines) = n /\ pending' = pending \o Usable(lines)
        /\ base \in Nat /\ AllCovered(base) /\ base + n <= written
        /\ \A i \in 1..Len(lines) : lines[i][2] = base + i
    BY <1>6, MainReadsOn DEF lines, base
  <2>2. UNCHANGED <<hubVars, written>>
    BY <1>6 DEF ReadMain, logVars
  <2> QED
    BY <1>0, <2>1, <2>2, ReadOrder
<1>7. CASE UNCHANGED vars
  BY <1>1, <1>7 DEF vars, logVars, hubVars
<1>8. CASE ReaderNext
  BY <1>1, <1>5, <1>6, <1>8 DEF ReaderNext, ReadBegins, StatMain, MakePlan, DrainEnds, DrainSkips, DrainShifted,
     StatAgain, ReadNothing, AgentStarts, logVars, hubVars
<1> QED
  BY <1>2, <1>3, <1>4, <1>7, <1>8 DEF Next

\* "A crash or a failed POST replays rather than loses": of a log that rotates
\* once, an agent that has nothing left to read or to send has reported every
\* usable record on disk, whatever the Hub and the checkpoint did to it and
\* wherever an attempt to rotate broke off.
THEOREM NothingIsLost ==
  ASSUME Keep >= 1, MaxRecords <= 2 * Cap,
         Faults \subseteq {"hub_down", "hub_reject", "early_crash", "cursor_error", "rename_error"}
  PROVE  Spec => []NothingLost
<1>0. Once
  BY DEF Once
<1>1. Init => OneInv
  BY <1>0, OneInit
<1>2. OneInv /\ [Next]_vars => OneInv'
  BY <1>0, OneNext
<1>3. OneInv => NothingLost
  <2> SUFFICES ASSUME OneInv, CaughtUp, NEW r \in Retained PROVE r \in Settled
    BY DEF NothingLost
  <2>1. r \in 1..written /\ r \notin Unusable
    BY <1>0, RetainedIsWritten DEF OneInv
  <2>2. AllCovered(written)
    <3>1. CASE Early
      BY <3>1 DEF CaughtUp, OneInv, LogInv, EarlyInv, Tracks
    <3>2. CASE ~Early
      <4>1. rot = Idle /\ inode = 2 /\ written = Size(1) + Size(0)
        BY <1>0, <3>2, LaterLog DEF CaughtUp
      <4>2. Rereads
        BY <3>2, <4>1 DEF OneInv, LaterInv, Tracks
      <4>3. plan = NoPlan /\ readOffset = Size(0)
        BY DEF CaughtUp
      <4>4. \A s \in Nat : Reread(s) # NoPlan
        BY RereadIs
      <4>5. AllCovered(Size(1) + readOffset)
        BY <4>2, <4>3, <4>4, NoPlanIs DEF Rereads
      <4> QED
        BY <4>1, <4>3, <4>5
    <3> QED
      BY <3>1, <3>2
  <2>3. Covered(r)
    BY <2>1, <2>2 DEF AllCovered
  <2>4. pending = <<>>
    BY DEF CaughtUp
  <2> QED
    BY <2>1, <2>3, <2>4 DEF Covered, Done
<1> QED
  BY <1>1, <1>2, <1>3, PTL DEF Spec

\* The Hub learns of the records in the order they were written, of a log that
\* rotates once: also what is sent again after a failed POST, a crash or the
\* rotation comes only after every older record that is still on disk.
THEOREM OrderIsKept ==
  ASSUME Keep >= 1, MaxRecords <= 2 * Cap,
         Faults \subseteq {"hub_down", "hub_reject", "early_crash", "cursor_error", "rename_error"}
  PROVE  Spec => ReportedInOrder
<1> DEFINE I == OneInv /\ OrderInv
           Ordering == \A r \in delivered' \ delivered : \A q \in Retained : q < r => q \in Settled \cup delivered'
<1>0. Once
  BY DEF Once
<1>1. Init => I
  BY <1>0, OneInit
<1>2. I /\ [Next]_vars => I'
  BY <1>0, OneNext, OrderNext
<1>3. I /\ [Next]_vars => [Ordering]_vars
  <2> SUFFICES ASSUME I, [Next]_vars, NEW r \in delivered' \ delivered, NEW q \in Retained, q < r
               PROVE  q \in Settled \cup delivered'
    OBVIOUS
  <2>1. FlushAcked \/ FlushUnanswered
    BY DEF Next, WriterNext, ReaderNext, Record, RotateBegins, Prune, Shift, Reopen, RotateBreaks, ReadBegins,
       StatMain, MakePlan, DrainEnds, DrainSkips, DrainShifted, StatAgain, ReadNothing, AgentStarts, DrainReads,
       ReadMain, FlushRejected, AgentCrashes, vars, hubVars
  <2>2. delivered' = delivered \cup Batch /\ pending # <<>>
    BY <2>1 DEF FlushAcked, FlushUnanswered, MayFlush
  <2>3. PICK k \in 1..BatchLen : r = pending[k][2]
    BY <2>2 DEF Batch
  <2>4. BatchLen \in 1..Len(pending) /\ Len(pending) \in Nat
    BY <2>2, BatchType DEF OneInv, TypeInv, TypeOK
  <2>5. q \in 1..written /\ q \notin Unusable /\ r \in Nat
    <3>1. r \in Records
      BY <2>2, BatchType DEF OneInv, TypeInv
    <3> QED
      BY <1>0, <3>1, RetainedIsWritten, ReportAssumption DEF OneInv, Records
  <2>6. k \in 1..Len(pending) /\ q \in 1..pending[k][2] - 1
    <3>1. q \in 1..r - 1
      BY <2>5 DEF OneInv, TypeInv, TypeOK
    <3> QED
      BY <2>3, <2>4, <3>1
  <2>7. q \in Done \/ \E j \in 1..k - 1 : pending[j][2] = q
    BY <2>6 DEF OrderInv
  <2>8. ASSUME NEW j \in 1..k - 1, pending[j][2] = q PROVE q \in Batch
    <3>1. j \in 1..BatchLen
      BY <2>4
    <3> QED
      BY <2>8, <3>1 DEF Batch
  <2> QED
    BY <2>2, <2>5, <2>7, <2>8 DEF Done
<1> HIDE DEF I
<1>4. Spec => [][Ordering]_vars
  <2> HIDE DEF Ordering
  <2> QED
    BY <1>1, <1>2, <1>3, PTL DEF Spec
<1> QED
  BY <1>4 DEF ReportedInOrder

=============================================================================
