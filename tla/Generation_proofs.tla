-------------------------- MODULE Generation_proofs --------------------------
(***************************************************************************)
(* Proofs about one generation: the loop of run_autoresearch that makes    *)
(* its candidate (ResearchLoop), for any number of repairs, of generations *)
(* and any set of intents, and the evaluation that chooses the strategy    *)
(* the next one starts from (Evaluation), for any data, limits, candidates *)
(* and length of a year.                                                   *)
(*                                                                         *)
(* The properties of the loop are not inductive: that a second repair call *)
(* never happens rests on what the first one leaves in `attempted', and    *)
(* that a record is honest rests on how status and operations go together  *)
(* before the evaluation.  Phases says both, for each place of the loop.   *)
(*                                                                         *)
(* What an evaluation hands on was judged in an earlier step: PipelineInv  *)
(* keeps what the gates said of it.  The rest is about the operators:      *)
(* Arranged lists a set in order, the first and the last day of the yearly *)
(* report are those of the data, and the positions of windows over bars of *)
(* one symbol are those of their days.                                     *)
(***************************************************************************)
EXTENDS ResearchLoop, Evaluation, FiniteSetTheorems, TLAPS

-----------------------------------------------------------------------------
(* The loop. *)

\* Status and operations agree whenever an evaluation may begin.
Agreed ==
    \/ status = "FALLBACK" /\ operations = Parent
    \/ status \in {"PROPOSED", "REPAIRED"} /\ operations = intent /\ intent \in valid

\* What the first repair call leaves behind.
Marked == calls # 0 => intent \in attempted

Phases ==
    /\ pc = "propose" =>
           /\ attempted = {} /\ calls = 0 /\ evals = 0
           /\ status = "PROPOSED" /\ evaluation = Nothing
    /\ pc = "repair" =>
           /\ evals = 0 /\ evaluation = Nothing
           /\ calls = 0 => status = "PROPOSED" /\ repaired = Nothing /\ invalid = intent
           /\ calls # 0 => invalid \in attempted
           /\ Marked
           /\ status = "REPAIRED" => Agreed
    /\ pc = "evaluate" => evals = 0 /\ evaluation = Nothing /\ Marked /\ Agreed
    /\ pc = "evaluationRepair" => evals <= calls + 1 /\ evaluation = Nothing /\ Marked
    /\ pc = "fallback" => evals <= calls + 1 /\ evaluation = Nothing

\* How far the records are.
Progress ==
    /\ pc \in {"generation", "propose", "repair", "evaluate", "evaluationRepair",
               "fallback", "record"} => Len(records) = generation - 1
    /\ pc = "closing" => Len(records) = Generations
    /\ pc \notin {"done", "failed"} => final = "RUNNING"

IInv == TypeOK /\ Phases /\ Progress /\ BoundedWork /\ RecordIsHonest /\ FinalIsHonest

-----------------------------------------------------------------------------
\* The invariant holds when a run starts.
LEMMA InitIInv == Init => IInv
<1> SUFFICES ASSUME Init PROVE IInv
  OBVIOUS
<1>1. TypeOK
  <2>1. 1 \in 1..Generations /\ allowed \in RepairLimits /\ 0 \in 0..allowed
    BY LoopAssumption DEF Init
  <2>2. records \in Seq({"COMPLETED", "REPAIRED", "FALLBACK", "DEGRADED"})
    BY DEF Init
  <2>3. QED
    BY <2>1, <2>2 DEF Init, TypeOK, Intent
<1>2. Phases /\ Progress /\ BoundedWork /\ RecordIsHonest /\ FinalIsHonest
  BY DEF Init, Phases, Progress, BoundedWork, RecordIsHonest, FinalIsHonest
<1>3. QED
  BY <1>1, <1>2 DEF IInv

\* Every step keeps the types.
LEMMA StepTypeOK == IInv /\ [Next]_vars => TypeOK'
<1> SUFFICES ASSUME IInv, [Next]_vars PROVE TypeOK'
  OBVIOUS
<1> USE LoopAssumption DEF IInv, TypeOK, Intent, repairVars, candidateVars,
                           evaluationVars, runVars
<1>1. CASE StartGeneration
  BY <1>1 DEF StartGeneration
<1>2. CASE Propose
  BY <1>2 DEF Propose
<1>3. CASE ProposalFails
  BY <1>3 DEF ProposalFails
<1>4. CASE RepairsExhausted
  BY <1>4 DEF RepairsExhausted, Settle
<1>5. CASE SkipDuplicate
  BY <1>5 DEF SkipDuplicate, Settle
<1>6. CASE RepairUnavailable
  BY <1>6 DEF RepairUnavailable, CallRepair, Settle
<1>7. CASE RepairRaises
  BY <1>7 DEF RepairRaises, CallRepair, Phases
<1>8. CASE RepairFails
  BY <1>8 DEF RepairFails, CallRepair
<1>9. CASE RepairSucceeds
  BY <1>9 DEF RepairSucceeds, CallRepair
<1>10. CASE Evaluate
  BY <1>10 DEF Evaluate
<1>11. CASE EvaluationRepairsEnd
  BY <1>11 DEF EvaluationRepairsEnd
<1>12. CASE EvaluationRepairUnavailable
  BY <1>12 DEF EvaluationRepairUnavailable, CallRepair
<1>13. CASE EvaluationRepairRaises
  BY <1>13 DEF EvaluationRepairRaises, CallRepair
<1>14. CASE EvaluationRepairReturns
  BY <1>14 DEF EvaluationRepairReturns, CallRepair
<1>15. CASE Fallback
  BY <1>15 DEF Fallback
<1>16. CASE RecordGeneration
  BY <1>16 DEF RecordGeneration, RecordStatus
<1>17. CASE FinishRun
  BY <1>17 DEF FinishRun, FinalStatus
<1>18. CASE AbortRun \/ Faults \/ EndFails
  BY <1>18 DEF AbortRun, Faults, EndFails
<1>19. CASE UNCHANGED vars
  BY <1>19 DEF vars
<1>20. QED
  BY <1>1, <1>2, <1>3, <1>4, <1>5, <1>6, <1>7, <1>8, <1>9, <1>10, <1>11, <1>12, <1>13,
     <1>14, <1>15, <1>16, <1>17, <1>18, <1>19 DEF Next, Work

\* Every step keeps the phases, the bound on the work and the honest record.
LEMMA StepPhases ==
    IInv /\ [Next]_vars => Phases' /\ BoundedWork' /\ RecordIsHonest'
<1> SUFFICES ASSUME IInv, [Next]_vars
             PROVE  Phases' /\ BoundedWork' /\ RecordIsHonest'
  OBVIOUS
<1> USE LoopAssumption DEF IInv, TypeOK, Intent, Phases, Agreed, Marked, BoundedWork,
                           RecordIsHonest, repairVars, candidateVars, evaluationVars,
                           runVars
<1>1. CASE StartGeneration
  BY <1>1 DEF StartGeneration
<1>2. CASE Propose
  BY <1>2 DEF Propose
<1>3. CASE ProposalFails
  BY <1>3 DEF ProposalFails
<1>4. CASE RepairsExhausted
  BY <1>4 DEF RepairsExhausted, Settle
<1>5. CASE SkipDuplicate
  BY <1>5 DEF SkipDuplicate, Settle
<1>6. CASE RepairUnavailable
  BY <1>6 DEF RepairUnavailable, CallRepair, Settle
<1>7. CASE RepairRaises
  BY <1>7 DEF RepairRaises, CallRepair
<1>8. CASE RepairFails
  BY <1>8 DEF RepairFails, CallRepair
<1>9. CASE RepairSucceeds
  BY <1>9 DEF RepairSucceeds, CallRepair
<1>10. CASE Evaluate
  BY <1>10 DEF Evaluate
<1>11. CASE EvaluationRepairsEnd
  BY <1>11 DEF EvaluationRepairsEnd
<1>12. CASE EvaluationRepairUnavailable
  BY <1>12 DEF EvaluationRepairUnavailable, CallRepair
<1>13. CASE EvaluationRepairRaises
  BY <1>13 DEF EvaluationRepairRaises, CallRepair
<1>14. CASE EvaluationRepairReturns
  BY <1>14 DEF EvaluationRepairReturns, CallRepair
<1>15. CASE Fallback
  BY <1>15 DEF Fallback
<1>16. CASE RecordGeneration
  BY <1>16 DEF RecordGeneration
<1>17. CASE FinishRun \/ AbortRun \/ Faults \/ EndFails
  BY <1>17 DEF FinishRun, AbortRun, Faults, EndFails
<1>18. CASE UNCHANGED vars
  BY <1>18 DEF vars
<1>19. QED
  BY <1>1, <1>2, <1>3, <1>4, <1>5, <1>6, <1>7, <1>8, <1>9, <1>10, <1>11, <1>12, <1>13,
     <1>14, <1>15, <1>16, <1>17, <1>18 DEF Next, Work

\* The run's report: FinalStatus looks at every record.
LEMMA FinalStatusHonest ==
    ASSUME TypeOK
    PROVE  /\ FinalStatus(records) = "COMPLETED" =>
                  \A i \in DOMAIN records : records[i] \in {"COMPLETED", "REPAIRED"}
           /\ FinalStatus(records) # "COMPLETED_WITH_ERRORS" =>
                  \A i \in DOMAIN records : records[i] # "DEGRADED"
<1>1. \A i \in DOMAIN records :
          records[i] \in {"COMPLETED", "REPAIRED", "FALLBACK", "DEGRADED"}
  BY DEF TypeOK
<1>2. QED
  BY <1>1 DEF FinalStatus

\* Every step keeps the count of the records and the honest report.
LEMMA StepProgress == IInv /\ [Next]_vars => Progress' /\ FinalIsHonest'
<1> SUFFICES ASSUME IInv, [Next]_vars PROVE Progress' /\ FinalIsHonest'
  OBVIOUS
<1> USE LoopAssumption DEF IInv, TypeOK, Progress, FinalIsHonest, repairVars,
                           candidateVars, evaluationVars, runVars
<1>1. CASE \/ StartGeneration \/ Propose \/ ProposalFails
           \/ RepairsExhausted \/ SkipDuplicate \/ RepairUnavailable \/ RepairRaises
           \/ RepairFails \/ RepairSucceeds
           \/ Evaluate \/ EvaluationRepairsEnd \/ EvaluationRepairUnavailable
           \/ EvaluationRepairRaises \/ EvaluationRepairReturns \/ Fallback
  <2>1. UNCHANGED <<generation, records, final>>
    BY <1>1 DEF StartGeneration, Propose, ProposalFails, RepairsExhausted, SkipDuplicate,
          RepairUnavailable, RepairRaises, RepairFails, RepairSucceeds, Evaluate,
          EvaluationRepairsEnd, EvaluationRepairUnavailable, EvaluationRepairRaises,
          EvaluationRepairReturns, Fallback
  <2>2. /\ pc \in {"generation", "propose", "repair", "evaluate", "evaluationRepair",
                   "fallback"}
        /\ pc' \in {"propose", "repair", "evaluate", "evaluationRepair", "fallback",
                    "record", "aborting"}
    BY <1>1 DEF StartGeneration, Propose, ProposalFails, RepairsExhausted, SkipDuplicate,
          RepairUnavailable, RepairRaises, RepairFails, RepairSucceeds, Evaluate,
          EvaluationRepairsEnd, EvaluationRepairUnavailable, EvaluationRepairRaises,
          EvaluationRepairReturns, Fallback, Settle
  <2>3. QED
    BY <2>1, <2>2
<1>2. CASE RecordGeneration
  <2>1. pc = "record" /\ Len(records) = generation - 1 /\ final = "RUNNING"
        /\ final' = final
    BY <1>2 DEF RecordGeneration
  <2>2. Len(records') = Len(records) + 1
    <3>1. records \in Seq({"COMPLETED", "REPAIRED", "FALLBACK", "DEGRADED"})
      OBVIOUS
    <3>2. QED
      BY <1>2, <3>1 DEF RecordGeneration
  <2>3. QED
    BY <1>2, <2>1, <2>2 DEF RecordGeneration
<1>3. CASE FinishRun
  <2>1. Len(records) = Generations /\ records' = records /\ pc' = "done"
        /\ final' = FinalStatus(records)
    BY <1>3 DEF FinishRun
  <2>2. QED
    BY <2>1, FinalStatusHonest
<1>4. CASE AbortRun \/ Faults \/ EndFails
  BY <1>4 DEF AbortRun, Faults, EndFails
<1>5. CASE UNCHANGED vars
  BY <1>5 DEF vars
<1>6. QED
  BY <1>1, <1>2, <1>3, <1>4, <1>5 DEF Next, Work

\* The invariant is inductive, and so holds in every reachable state.
THEOREM Invariance == Spec => []IInv
<1>1. Init => IInv
  BY InitIInv
<1>2. IInv /\ [Next]_vars => IInv'
  BY StepTypeOK, StepPhases, StepProgress DEF IInv
<1>3. QED
  BY <1>1, <1>2, PTL DEF Spec

-----------------------------------------------------------------------------
\* The variables of the loop stay in their types; in particular the number of
\* repair calls never exceeds the configured one.
THEOREM TypeCorrect == Spec => []TypeOK
<1>1. IInv => TypeOK
  BY DEF IInv
<1>2. QED
  BY <1>1, Invariance, PTL

\* For every configured number of repairs, and whatever the provider answers,
\* a generation makes at most one repair call and three evaluations.
THEOREM WorkBound == Spec => []BoundedWork
<1>1. IInv => BoundedWork
  BY DEF IInv
<1>2. QED
  BY <1>1, Invariance, PTL

\* Every generation is recorded under the status of what was evaluated.
THEOREM HonestRecords == Spec => []RecordIsHonest
<1>1. IInv => RecordIsHonest
  BY DEF IInv
<1>2. QED
  BY <1>1, Invariance, PTL

\* A run reports COMPLETED, with or without qualification, only of all its
\* generations.
THEOREM HonestReport == Spec => []FinalIsHonest
<1>1. IInv => FinalIsHonest
  BY DEF IInv
<1>2. QED
  BY <1>1, Invariance, PTL

-----------------------------------------------------------------------------
(* Numbers, and the calendar. *)

\* What division and remainder are.
LEMMA DivisionBounds ==
    ASSUME NEW a \in Int, NEW b \in Nat \ {0}
    PROVE  /\ a \div b \in Int /\ a % b \in 0 .. b - 1
           /\ a = b * (a \div b) + (a % b)
OBVIOUS

\* A product with a natural number grows with its other factor.
LEMMA ProductGrows == \A a, b \in Int, c \in Nat : a <= b => a * c <= b * c
OBVIOUS

\* A day lies within its year.
LEMMA YearBounds ==
    ASSUME NEW day \in Nat \ {0}, NEW D \in Nat \ {0}
    PROVE  /\ (day - 1) \div D \in Nat
           /\ ((day - 1) \div D) * D + 1 <= day
           /\ day <= ((day - 1) \div D) * D + D
<1> DEFINE a == day - 1
<1>1. a \in Nat /\ day = a + 1
  OBVIOUS
<1>2. /\ a \div D \in Int /\ a % D \in 0 .. D - 1
      /\ a = D * (a \div D) + (a % D)
  <2> HIDE DEF a
  <2> QED
    BY <1>1, DivisionBounds
<1>3. PICK q \in Int, r \in 0 .. D - 1 : q = a \div D /\ a = D * q + r
  BY <1>2
<1>4. q >= 0
  <2>1. SUFFICES ASSUME q + 1 <= 0 PROVE FALSE
    BY <1>3
  <2>2. (q + 1) * D <= 0 * D
    BY <2>1, <1>3, ProductGrows
  <2> QED
    BY <2>2, <1>3, <1>1
<1> QED
  BY <1>1, <1>3, <1>4

\* Where a day lies in its year.
LEMMA Calendar ==
    ASSUME NEW day \in Nat \ {0}
    PROVE  /\ YearOf(day) \in Nat
           /\ YearOf(day) * DaysPerYear + 1 <= day
           /\ day <= (YearOf(day) + 1) * DaysPerYear
           /\ InJanuary(day) <=> day = YearOf(day) * DaysPerYear + 1
           /\ InDecember(day) <=> day = (YearOf(day) + 1) * DaysPerYear
<1> DEFINE D == DaysPerYear
<1>1. D \in Nat \ {0}
  BY EvaluationAssumption
<1>2. PICK y \in Nat : /\ y = YearOf(day) /\ y * D + 1 <= day /\ day <= y * D + D
  BY <1>1, YearBounds DEF YearOf
<1>j. InJanuary(day) <=> (day - 1) % D = 0
  BY DEF InJanuary
<1>d. InDecember(day) <=> day % D = 0
  BY DEF InDecember
<1>y. y = (day - 1) \div D
  BY <1>2 DEF YearOf
<1> HIDE DEF D
<1>3. PICK q1 \in Int, r1 \in 0 .. D - 1 : r1 = (day - 1) % D /\ q1 = (day - 1) \div D /\ day - 1 = D * q1 + r1
  <2> DEFINE a == day - 1
  <2>1. a \in Int
    OBVIOUS
  <2> HIDE DEF a
  <2>2. /\ a \div D \in Int /\ a % D \in 0 .. D - 1
        /\ a = D * (a \div D) + (a % D)
    BY <1>1, <2>1, DivisionBounds
  <2> QED
    BY <2>2 DEF a
<1>4. q1 = y
  BY <1>y, <1>3
<1>5. PICK q2 \in Int, r2 \in 0 .. D - 1 : r2 = day % D /\ day = D * q2 + r2
  <2>1. day \in Int
    OBVIOUS
  <2>2. /\ day \div D \in Int /\ day % D \in 0 .. D - 1
        /\ day = D * (day \div D) + (day % D)
    BY <1>1, <2>1, DivisionBounds
  <2> QED
    BY <2>2
<1>6. (y + 1) * D = y * D + D /\ y * D \in Nat
  BY <1>1
<1>7. InJanuary(day) <=> day = y * D + 1
  <2>1. D * q1 = y * D
    BY <1>1, <1>4
  <2>2. day - 1 = y * D + r1 /\ r1 \in Nat
    BY <1>3, <2>1, <1>1
  <2> QED
    BY <1>j, <1>3, <2>2, <1>6
<1>8. InDecember(day) <=> r2 = 0
  BY <1>5, <1>d
<1>9. r2 = 0 => day = (y + 1) * D
  <2> SUFFICES ASSUME r2 = 0 PROVE day = (y + 1) * D
    OBVIOUS
  <2>1. day = q2 * D
    BY <1>5, <1>1
  <2>2. q2 > y
    <3>1. SUFFICES ASSUME q2 <= y PROVE FALSE
      OBVIOUS
    <3>2. q2 * D <= y * D
      BY <1>1, <3>1, ProductGrows
    <3> QED
      BY <3>2, <2>1, <1>2, <1>6
  <2>3. (y + 1) * D <= q2 * D
    BY <1>1, <2>2, ProductGrows
  <2>4. day <= (y + 1) * D /\ (y + 1) * D \in Int
    BY <1>2, <1>6, <1>1
  <2>5. day >= (y + 1) * D
    BY <2>1, <2>3
  <2> QED
    BY <2>4, <2>5
<1>10. day = (y + 1) * D => r2 = 0
  <2> SUFFICES ASSUME day = (y + 1) * D, r2 # 0 PROVE FALSE
    OBVIOUS
  <2>1. day = q2 * D + r2 /\ q2 * D \in Int
    BY <1>5, <1>1
  <2>2. CASE q2 >= y + 1
    <3>1. (y + 1) * D <= q2 * D
      BY <1>1, <2>2, ProductGrows
    <3> QED
      BY <3>1, <2>1
  <2>3. CASE q2 + 1 <= y + 1
    <3>1. (q2 + 1) * D <= (y + 1) * D
      BY <1>1, <2>3, ProductGrows
    <3>2. (q2 + 1) * D = q2 * D + D
      BY <1>1
    <3>3. q2 * D + D <= day
      BY <3>1, <3>2
    <3> QED
      BY <3>3, <2>1, <1>5, <1>1
  <2>4. q2 >= y + 1 \/ q2 + 1 <= y + 1
    BY <1>2, <1>5
  <2> QED
    BY <2>2, <2>3, <2>4
<1>11. InDecember(day) <=> day = (y + 1) * D
  BY <1>8, <1>9, <1>10
<1>12. day <= (y + 1) * D
  BY <1>2, <1>6
<1> QED
  BY <1>2, <1>7, <1>11, <1>12 DEF D

-----------------------------------------------------------------------------
(* Arranged: a finite set with distinct keys, in their order. *)

\* The members of S before x.
Before(S, key, x) == {y \in S : key[y] < key[x]}

\* The sequence a has every member of S once, in the order of the keys, at the
\* place that the number of members before it gives.
Lists(a, S, key) ==
    /\ a \in [1 .. Cardinality(S) -> S]
    /\ \A i, j \in 1 .. Cardinality(S) : i < j => key[a[i]] < key[a[j]]
    /\ \A x \in S : \E i \in 1 .. Cardinality(S) : a[i] = x
    /\ \A x \in S, i \in 1 .. Cardinality(S) :
          Cardinality(Before(S, key, x)) = i - 1 => a[i] = x

\* Arranged lists a finite set with distinct keys.
LEMMA Arrangement ==
    ASSUME NEW S, IsFiniteSet(S), NEW key \in [S -> Int],
           \A x, y \in S : key[x] = key[y] => x = y
    PROVE  Cardinality(S) \in Nat /\ Lists(Arranged(S, key), S, key)
<1> DEFINE n == Cardinality(S)
           Below(x) == {y \in S : key[y] < key[x]}
           rank == [x \in S |-> Cardinality(Below(x))]
           a == Arranged(S, key)
<1>1. n \in Nat
  BY FS_CardinalityType
<1>2. ASSUME NEW x \in S
      PROVE  /\ IsFiniteSet(Below(x)) /\ rank[x] = Cardinality(Below(x))
             /\ rank[x] \in Nat /\ rank[x] < n
  <2>1. Below(x) \in SUBSET S /\ x \notin Below(x)
    OBVIOUS
  <2>2. IsFiniteSet(Below(x)) /\ Cardinality(Below(x)) <= n /\ (n = Cardinality(Below(x)) => S = Below(x))
    BY <2>1, FS_Subset
  <2>3. Cardinality(Below(x)) \in Nat
    BY <2>2, FS_CardinalityType
  <2> QED
    BY <2>1, <2>2, <2>3, <1>1
<1> HIDE DEF rank
<1>3. ASSUME NEW x \in S, NEW y \in S, key[x] < key[y] PROVE rank[x] < rank[y]
  <2>1. Below(x) \in SUBSET Below(y) /\ x \in Below(y) /\ x \notin Below(x)
    BY <1>3
  <2>2. Cardinality(Below(x)) <= Cardinality(Below(y)) /\ Cardinality(Below(x)) # Cardinality(Below(y))
    BY <2>1, <1>2, FS_Subset
  <2>3. rank[x] = Cardinality(Below(x)) /\ rank[y] = Cardinality(Below(y))
    BY <1>2
  <2>4. rank[x] \in Nat /\ rank[y] \in Nat
    BY <1>2
  <2> HIDE DEF Below
  <2> QED
    BY <2>2, <2>3, <2>4
<1>r. \A x \in S : rank[x] \in Nat /\ rank[x] < n
  BY <1>2
<1>o. \A x, y \in S : key[x] < key[y] => rank[x] < rank[y]
  BY <1>3
<1>k. \A x \in S : key[x] \in Int
  OBVIOUS
<1>4. ASSUME NEW x \in S, NEW y \in S, rank[x] = rank[y] PROVE x = y
  <2>1. ~(key[x] < key[y]) /\ ~(key[y] < key[x])
    BY <1>r, <1>o, <1>4
  <2>2. key[x] = key[y]
    BY <2>1, <1>k
  <2> QED
    BY <2>2
<1>5. \A k \in 0 .. n - 1 : \E x \in S : rank[x] = k
  <2>1. rank \in [S -> 0 .. n - 1]
    BY <1>1, <1>r DEF rank
  <2>2. rank \in Injection(S, 0 .. n - 1)
    BY <2>1, <1>4 DEF Injection, IsInjective
  <2>3. IsFiniteSet(0 .. n - 1) /\ Cardinality(0 .. n - 1) = n
    BY <1>1, FS_Interval
  <2>4. rank \in Surjection(S, 0 .. n - 1)
    BY <2>2, <2>3, FS_Injection
  <2> QED
    BY <2>4 DEF Surjection
<1>6. ASSUME NEW i \in 1 .. n PROVE a[i] \in S /\ rank[a[i]] = i - 1
  <2>1. a[i] = CHOOSE x \in S : Cardinality(Below(x)) = i - 1
    BY DEF Arranged
  <2>2. i - 1 \in 0 .. n - 1
    BY <1>1
  <2>3. \E x \in S : Cardinality(Below(x)) = i - 1
    BY <2>2, <1>5, <1>2
  <2>4. a[i] \in S /\ Cardinality(Below(a[i])) = i - 1
    BY <2>1, <2>3
  <2> QED
    BY <2>4, <1>2
<1>7. a \in [1 .. n -> S]
  BY <1>6 DEF Arranged
<1> HIDE DEF a, Below
<1>8. ASSUME NEW i \in 1 .. n, NEW j \in 1 .. n, i < j PROVE key[a[i]] < key[a[j]]
  <2>1. a[i] \in S /\ a[j] \in S /\ rank[a[i]] = i - 1 /\ rank[a[j]] = j - 1
    BY <1>6
  <2>2. ~(key[a[j]] < key[a[i]])
    BY <2>1, <1>o, <1>8, <1>1
  <2>3. key[a[i]] # key[a[j]]
    BY <2>1, <1>8, <1>1
  <2> QED
    BY <2>1, <2>2, <2>3, <1>k
<1>9. ASSUME NEW x \in S PROVE \E i \in 1 .. n : a[i] = x
  <2>1. PICK i \in 1 .. n : rank[x] = i - 1
    <3>1. rank[x] \in Nat /\ rank[x] < n
      BY <1>r
    <3> QED
      BY <3>1, <1>1, rank[x] + 1 \in 1 .. n
  <2>2. a[i] \in S /\ rank[a[i]] = rank[x]
    BY <2>1, <1>6
  <2> QED
    BY <2>2, <1>4
<1>10. ASSUME NEW x \in S, NEW i \in 1 .. n, Cardinality(Below(x)) = i - 1 PROVE a[i] = x
  <2>1. rank[x] = i - 1
    BY <1>2, <1>10
  <2>2. a[i] \in S /\ rank[a[i]] = rank[x]
    BY <2>1, <1>6
  <2> QED
    BY <2>2, <1>4
<1> QED
  BY <1>1, <1>7, <1>8, <1>9, <1>10 DEF a, Below, Before, Lists

\* The same, of a set of numbers.
ListsNumbers(a, S) ==
    /\ a \in [1 .. Cardinality(S) -> S]
    /\ \A i, j \in 1 .. Cardinality(S) : i < j => a[i] < a[j]
    /\ \A x \in S : \E i \in 1 .. Cardinality(S) : a[i] = x
    /\ \A x \in S, i \in 1 .. Cardinality(S) :
          Cardinality({y \in S : y < x}) = i - 1 => a[i] = x

\* Ascending lists a finite set of numbers.
LEMMA AscendingIs ==
    ASSUME NEW S \in SUBSET Int, IsFiniteSet(S)
    PROVE  Cardinality(S) \in Nat /\ ListsNumbers(Ascending(S), S)
<1> DEFINE key == [x \in S |-> x]
           a == Arranged(S, key)
           n == Cardinality(S)
<1>1. key \in [S -> Int] /\ (\A x, y \in S : key[x] = key[y] => x = y) /\ (\A x \in S : key[x] = x)
  OBVIOUS
<1>2. \A x \in S : Before(S, key, x) = {y \in S : y < x}
  BY DEF Before
<1>3. a = Ascending(S)
  BY DEF Ascending
<1> HIDE DEF key, a
<1>4. n \in Nat /\ Lists(a, S, key)
  <2>1. \A x, y \in S : key[x] = key[y] => x = y
    BY <1>1
  <2> QED
    BY <1>1, <2>1, Arrangement DEF a
<1>5. \A i, j \in 1 .. n : i < j => a[i] < a[j]
  <2>1. \A i \in 1 .. n : key[a[i]] = a[i]
    BY <1>1, <1>4 DEF Lists
  <2> QED
    BY <2>1, <1>4 DEF Lists
<1>6. \A x \in S, i \in 1 .. n : Cardinality({y \in S : y < x}) = i - 1 => a[i] = x
  BY <1>2, <1>4 DEF Lists
<1> QED
  BY <1>3, <1>4, <1>5, <1>6 DEF Lists, ListsNumbers

\* As many members as numbers, for the first m numbers of an increasing sequence.
LEMMA IncreasingImage ==
    ASSUME NEW n \in Nat, NEW f \in [1 .. n -> Int],
           \A i, j \in 1 .. n : i < j => f[i] < f[j],
           NEW m \in 0 .. n
    PROVE  IsFiniteSet({f[i] : i \in 1 .. m}) /\ Cardinality({f[i] : i \in 1 .. m}) = m
<1> DEFINE T == {f[i] : i \in 1 .. m}
           g == [i \in 1 .. m |-> f[i]]
<1>1. m \in Nat /\ IsFiniteSet(1 .. m) /\ Cardinality(1 .. m) = m
  BY FS_Interval
<1>2. g \in [1 .. m -> T] /\ \A t \in T : \E i \in 1 .. m : g[i] = t
  OBVIOUS
<1>3. \A i, j \in 1 .. m : g[i] = g[j] => i = j
  <2> TAKE i, j \in 1 .. m
  <2>1. i \in 1 .. n /\ j \in 1 .. n /\ f[i] \in Int /\ f[j] \in Int
    OBVIOUS
  <2> QED
    BY <2>1
<1>4. g \in Bijection(1 .. m, T)
  BY <1>2, <1>3 DEF Bijection, Injection, Surjection, IsInjective
<1> QED
  BY <1>1, <1>4, FS_Bijection DEF ExistsBijection

\* The numbers of an increasing sequence in ascending order are that sequence.
LEMMA AscendingOfIncreasing ==
    ASSUME NEW n \in Nat, NEW f \in [1 .. n -> Int],
           \A i, j \in 1 .. n : i < j => f[i] < f[j]
    PROVE  Ascending({f[i] : i \in 1 .. n}) = f
<1> DEFINE S == {f[i] : i \in 1 .. n}
<1>1. IsFiniteSet(S) /\ Cardinality(S) = n /\ S \in SUBSET Int
  <2>1. n \in 0 .. n
    OBVIOUS
  <2>2. IsFiniteSet(S) /\ Cardinality(S) = n
    BY <2>1, IncreasingImage
  <2>3. S \in SUBSET Int
    OBVIOUS
  <2> QED
    BY <2>2, <2>3
<1>2. ListsNumbers(Ascending(S), S)
  <2> HIDE DEF S
  <2> QED
    BY <1>1, AscendingIs
<1>3. ASSUME NEW i \in 1 .. n PROVE Ascending(S)[i] = f[i]
  <2>1. {y \in S : y < f[i]} = {f[j] : j \in 1 .. i - 1}
    <3>1. ASSUME NEW j \in 1 .. n, f[j] < f[i] PROVE j \in 1 .. i - 1
      BY <3>1
    <3>2. ASSUME NEW j \in 1 .. i - 1 PROVE j \in 1 .. n /\ f[j] < f[i]
      OBVIOUS
    <3> QED
      BY <3>1, <3>2
  <2>2. Cardinality({f[j] : j \in 1 .. i - 1}) = i - 1
    BY i - 1 \in 0 .. n, IncreasingImage
  <2>3. f[i] \in S
    OBVIOUS
  <2> HIDE DEF S
  <2> QED
    BY <2>1, <2>2, <2>3, <1>1, <1>2 DEF ListsNumbers
<1> HIDE DEF S
<1>4. Ascending(S) \in [1 .. n -> S]
  <2>1. Ascending(S) \in [1 .. Cardinality(S) -> S]
    BY <1>2 DEF ListsNumbers
  <2> QED
    BY <2>1, <1>1
<1>5. f = [i \in 1 .. n |-> f[i]] /\ Ascending(S) = [i \in 1 .. n |-> Ascending(S)[i]]
  BY <1>4
<1>6. Ascending(S) = f
  BY <1>3, <1>5, <1>4
<1> QED
  BY <1>6 DEF S

\* A finite set of numbers has a greatest one, and Max is it.
LEMMA MaxIs ==
    ASSUME NEW S \in SUBSET Int, IsFiniteSet(S), S # {}
    PROVE  Max(S) \in S /\ \A x \in S : x <= Max(S)
<1> DEFINE n == Cardinality(S)
           a == Ascending(S)
<1>1. n \in Nat /\ n # 0
  BY FS_CardinalityType, FS_EmptySet
<1>2. ListsNumbers(a, S)
  BY AscendingIs
<1> HIDE DEF a
<1>3. a[n] \in S
  BY <1>1, <1>2 DEF ListsNumbers
<1>4. ASSUME NEW x \in S PROVE a[n] >= x
  <2>1. PICK i \in 1 .. n : a[i] = x
    BY <1>2 DEF ListsNumbers
  <2>2. n \in 1 .. n /\ (i < n => a[i] < a[n])
    <3>1. n \in 1 .. n
      BY <1>1
    <3> QED
      BY <3>1, <1>2 DEF ListsNumbers
  <2>3. a[i] \in Int /\ a[n] \in Int
    BY <2>1, <1>3
  <2>4. i < n \/ i = n
    <3> HIDE DEF n
    <3> QED
      BY <1>1
  <2> QED
    BY <2>1, <2>2, <2>3, <2>4
<1>5. Max(S) \in S /\ \A y \in S : Max(S) >= y
  BY <1>3, <1>4 DEF Max
<1> QED
  BY <1>5

-----------------------------------------------------------------------------
(* The data set. *)

\* A bar, of what it is named by.
Bar == [symbol : Nat, day : Nat \ {0}]

\* What run_local_evaluation is asked to cover.
Coverable(cover) ==
    /\ cover \in Seq(SUBSET (Nat \ {0}))
    /\ \A s \in DOMAIN cover : IsFiniteSet(cover[s])

\* Bars by symbol and then by day.
InOrder(data) ==
    /\ data \in Seq(Bar)
    /\ \A i, j \in Positions(data) :
          i < j => \/ data[i].symbol < data[j].symbol
                   \/ data[i].symbol = data[j].symbol /\ data[i].day < data[j].day

\* What is covered is a finite set of bars, on days that are covered.
LEMMA CoveredFinite ==
    ASSUME NEW cover, Coverable(cover)
    PROVE  LET days == UNION {cover[s] : s \in DOMAIN cover}
           IN  /\ days \in SUBSET (Nat \ {0}) /\ IsFiniteSet(days)
               /\ BarsCovered(cover) \in SUBSET Bar
               /\ \A bar \in BarsCovered(cover) : bar.day \in days
               /\ IsFiniteSet(BarsCovered(cover))
<1> DEFINE sets == {cover[s] : s \in DOMAIN cover}
           days == UNION sets
           symbols == 1 .. Len(cover)
           S == BarsCovered(cover)
<1>1. cover \in [symbols -> SUBSET (Nat \ {0})] /\ DOMAIN cover = symbols /\ Len(cover) \in Nat
  BY DEF Coverable
<1>2. IsFiniteSet(symbols)
  BY <1>1, FS_Interval
<1>3. cover \in Surjection(symbols, sets)
  BY <1>1 DEF Surjection
<1>4. IsFiniteSet(sets)
  BY <1>2, <1>3, FS_Surjection
<1>5. \A T \in sets : IsFiniteSet(T)
  BY DEF Coverable
<1>6. IsFiniteSet(days)
  <2> HIDE DEF sets
  <2> QED
    BY <1>4, <1>5, FS_UNION
<1>7. days \in SUBSET (Nat \ {0})
  BY <1>1
<1>8. \A bar \in S : \E s \in symbols : \E d \in cover[s] : bar = [symbol |-> s, day |-> d]
  BY <1>1 DEF BarsCovered
<1>9. ASSUME NEW bar \in S PROVE bar \in Bar /\ bar.day \in days /\ bar.symbol \in symbols
  <2>1. PICK s \in symbols : \E d \in cover[s] : bar = [symbol |-> s, day |-> d]
    BY <1>8
  <2>2. PICK d \in cover[s] : bar = [symbol |-> s, day |-> d]
    BY <2>1
  <2>3. d \in days /\ d \in Nat \ {0} /\ s \in Nat
    BY <1>1
  <2> QED
    BY <2>2, <2>3 DEF Bar
<1>10. IsFiniteSet(S)
  <2> DEFINE g == [bar \in S |-> <<bar.symbol, bar.day>>]
             P == symbols \X days
  <2> HIDE DEF days, symbols
  <2>1. IsFiniteSet(P)
    BY <1>2, <1>6, FS_Product
  <2>2. g \in [S -> P]
    BY <1>9
  <2>3. \A x, y \in S : g[x] = g[y] => x = y
    BY <1>9 DEF Bar
  <2>4. g \in Injection(S, P)
    BY <2>2, <2>3 DEF Injection, IsInjective
  <2> HIDE DEF g, P
  <2> QED
    BY <2>1, <2>4, FS_Injection
<1> QED
  BY <1>6, <1>7, <1>9, <1>10

\* A data set has its bars by symbol and then by day.
LEMMA DataSetInOrder ==
    ASSUME NEW cover, Coverable(cover) PROVE InOrder(MarketDataSet(cover))
<1> DEFINE days == UNION {cover[s] : s \in DOMAIN cover}
           last == LastDay(cover)
           S == BarsCovered(cover)
           key == SymbolMajor(cover)
           n == Cardinality(S)
           data == Arranged(S, key)
<1>1. /\ days \in SUBSET (Nat \ {0}) /\ IsFiniteSet(days)
      /\ S \in SUBSET Bar /\ \A bar \in S : bar.day \in days
      /\ IsFiniteSet(S)
  BY CoveredFinite
<1>2. data = MarketDataSet(cover)
  BY DEF MarketDataSet
<1>k. key = [bar \in S |-> bar.symbol * (last + 1) + bar.day]
  BY DEF SymbolMajor
<1>l. last = Max({0} \cup days)
  BY DEF LastDay
<1> HIDE DEF days, S, key, last
<1>3. last \in Nat /\ \A d \in days : d <= last
  <2> DEFINE numbers == {0} \cup days
  <2>1. numbers \in SUBSET Int /\ numbers # {} /\ numbers \subseteq Nat
    BY <1>1
  <2>2. IsFiniteSet(numbers)
    BY <1>1, FS_Singleton, FS_Union
  <2> HIDE DEF numbers
  <2>3. last \in numbers /\ \A d \in numbers : d <= last
    BY <1>l, <2>1, <2>2, MaxIs DEF numbers
  <2> QED
    BY <2>1, <2>3 DEF numbers
<1>4. ASSUME NEW x \in S
      PROVE  x.symbol \in Nat /\ x.day \in Nat \ {0} /\ x.day <= last
             /\ key[x] = x.symbol * (last + 1) + x.day
  BY <1>1, <1>3, <1>k DEF Bar
<1>5. key \in [S -> Int]
  <2>1. \A x \in S : x.symbol * (last + 1) + x.day \in Int
    BY <1>3, <1>4
  <2> QED
    BY <2>1, <1>k
<1>6. ASSUME NEW x \in S, NEW y \in S, x.symbol < y.symbol PROVE key[x] < key[y]
  <2>1. (x.symbol + 1) * (last + 1) <= y.symbol * (last + 1)
    BY <1>3, <1>4, <1>6, ProductGrows
  <2>2. (x.symbol + 1) * (last + 1) = x.symbol * (last + 1) + last + 1
    BY <1>3, <1>4
  <2>3. x.symbol * (last + 1) \in Nat /\ y.symbol * (last + 1) \in Nat
    BY <1>3, <1>4
  <2> QED
    BY <2>1, <2>2, <2>3, <1>3, <1>4
<1>7. ASSUME NEW x \in S, NEW y \in S, x.symbol = y.symbol
      PROVE  key[x] <= key[y] <=> x.day <= y.day
  <2>1. x.symbol * (last + 1) \in Nat
    BY <1>3, <1>4
  <2> QED
    BY <2>1, <1>4, <1>7
<1>8. \A x, y \in S : key[x] = key[y] => x = y
  <2> SUFFICES ASSUME NEW x \in S, NEW y \in S, key[x] = key[y] PROVE x = y
    OBVIOUS
  <2>1. key[x] \in Int /\ key[y] \in Int
    BY <1>5
  <2>2. x.symbol = y.symbol
    BY <2>1, <1>4, <1>6
  <2>3. x.day = y.day
    BY <2>1, <2>2, <1>4, <1>7
  <2> QED
    BY <2>2, <2>3, <1>1 DEF Bar
<1>9. n \in Nat /\ Lists(data, S, key)
  BY <1>1, <1>5, <1>8, Arrangement
<1> HIDE DEF data
<1>10. data \in [1 .. n -> S] /\ \A i, j \in 1 .. n : i < j => key[data[i]] < key[data[j]]
  BY <1>9 DEF Lists
<1> HIDE DEF n
<1>11. data \in Seq(Bar) /\ Len(data) = n
  BY <1>1, <1>9, <1>10
<1>12. ASSUME NEW i \in 1 .. n, NEW j \in 1 .. n, i < j
       PROVE  \/ data[i].symbol < data[j].symbol
              \/ data[i].symbol = data[j].symbol /\ data[i].day < data[j].day
  <2>1. data[i] \in S /\ data[j] \in S /\ key[data[i]] < key[data[j]]
    BY <1>10, <1>12
  <2>2. key[data[i]] \in Int /\ key[data[j]] \in Int
    BY <2>1, <1>5
  <2>3. ~(data[j].symbol < data[i].symbol)
    BY <2>1, <2>2, <1>6
  <2>4. data[i].symbol = data[j].symbol => ~(data[j].day <= data[i].day)
    BY <2>1, <2>2, <1>7
  <2> QED
    BY <2>1, <2>3, <2>4, <1>4
<1> QED
  BY <1>2, <1>11, <1>12 DEF InOrder, Positions

\* The bars of a data set by position.
LEMMA BarsTyped ==
    ASSUME NEW data, InOrder(data)
    PROVE  /\ Len(data) \in Nat /\ DOMAIN data = 1 .. Len(data)
           /\ \A i \in 1 .. Len(data) : /\ data[i] \in Bar /\ data[i].day \in Nat \ {0}
                                       /\ data[i].symbol \in Nat
<1>1. data \in Seq(Bar) /\ Len(data) \in Nat
  BY DEF InOrder
<1>2. DOMAIN data = 1 .. Len(data) /\ \A i \in 1 .. Len(data) : data[i] \in Bar
  BY <1>1
<1>3. \A bar \in Bar : bar.day \in Nat \ {0} /\ bar.symbol \in Nat
  BY DEF Bar
<1> QED
  BY <1>1, <1>2, <1>3

\* The days of a data set, in their order.
LEMMA TimestampsIs ==
    ASSUME NEW data, InOrder(data)
    PROVE  /\ DaysOf(data) \in SUBSET (Nat \ {0})
           /\ Cardinality(DaysOf(data)) \in Nat
           /\ DaysOf(data) # {} => Cardinality(DaysOf(data)) # 0
           /\ ListsNumbers(Timestamps(data), DaysOf(data))
           /\ Timestamps(data) \in Seq(Nat \ {0})
           /\ Len(Timestamps(data)) = Cardinality(DaysOf(data))
<1> DEFINE n == Len(data)
           S == DaysOf(data)
           f == [i \in 1 .. n |-> data[i].day]
<1>1. n \in Nat /\ \A i \in 1 .. n : data[i].day \in Nat \ {0}
  BY BarsTyped
<1>2. S = {data[i].day : i \in 1 .. n}
  BY DEF DaysOf, Positions
<1>3. S \in SUBSET (Nat \ {0})
  BY <1>1, <1>2
<1>4. f \in Surjection(1 .. n, S)
  BY <1>2 DEF Surjection
<1>5. IsFiniteSet(S)
  <2>1. IsFiniteSet(1 .. n)
    BY <1>1, FS_Interval
  <2> QED
    BY <1>4, <2>1, FS_Surjection
<1> HIDE DEF S
<1>6. S \in SUBSET Int
  BY <1>3
<1>7. Cardinality(S) \in Nat /\ ListsNumbers(Timestamps(data), S)
  BY <1>5, <1>6, AscendingIs DEF Timestamps, S
<1>8. S # {} => Cardinality(S) # 0
  BY <1>5, FS_EmptySet
<1>9. Timestamps(data) \in [1 .. Cardinality(S) -> Nat \ {0}]
  <2>1. Timestamps(data) \in [1 .. Cardinality(S) -> S]
    BY <1>7 DEF ListsNumbers
  <2> QED
    BY <2>1, <1>3
<1>10. Timestamps(data) \in Seq(Nat \ {0}) /\ Len(Timestamps(data)) = Cardinality(S)
  <2> DEFINE c == Cardinality(S)
  <2>1. c \in Nat /\ Timestamps(data) \in [1 .. c -> Nat \ {0}]
    BY <1>7, <1>9
  <2> HIDE DEF c
  <2>2. Timestamps(data) \in Seq(Nat \ {0}) /\ Len(Timestamps(data)) = c
    BY <2>1
  <2> QED
    BY <2>2 DEF c
<1> QED
  BY <1>3, <1>7, <1>8, <1>10 DEF S

\* Where the days of the equity curve begin and end.
LEMMA CurveEnds ==
    ASSUME NEW data, InOrder(data), DaysOf(data) # {},
           InTimeOrder(data) \/ Len(Timestamps(data)) < Len(data)
    PROVE  LET days == CurveTimestamps(data)
           IN  /\ days[1] \in DaysOf(data) /\ \A d \in DaysOf(data) : days[1] <= d
               /\ days[Len(days)] \in DaysOf(data)
               /\ \A d \in DaysOf(data) : d <= days[Len(days)]
<1> DEFINE n == Len(data)
           S == DaysOf(data)
           days == CurveTimestamps(data)
           distinct == Timestamps(data)
           c == Cardinality(S)
<1>1. n \in Nat /\ n > 0 /\ \A i \in 1 .. n : data[i].day \in Nat \ {0}
  <2>1. \E i \in 1 .. n : TRUE
    BY DEF DaysOf, Positions
  <2> QED
    BY <2>1, BarsTyped
<1>2. S = {data[i].day : i \in 1 .. n}
  BY DEF DaysOf, Positions
<1>3. /\ S \in SUBSET (Nat \ {0}) /\ c \in Nat \ {0} /\ ListsNumbers(distinct, S)
      /\ Len(distinct) = c
  BY TimestampsIs
<1>4. CASE Len(distinct) = n
  <2>1. days = [i \in 1 .. n |-> data[i].day]
    BY <1>4 DEF CurveTimestamps, Positions
  <2>2. \A i, j \in 1 .. n : i < j => data[i].day <= data[j].day
    BY <1>4, <1>1 DEF InTimeOrder, Positions
  <2>3. Len(days) = n
    BY <2>1, <1>1
  <2>4. 1 \in 1 .. n /\ n \in 1 .. n /\ \A i \in 1 .. n : i = 1 \/ 1 < i
    BY <1>1
  <2>5. \A i \in 1 .. n : i = n \/ i < n
    BY <1>1
  <2>6. ASSUME NEW d \in S PROVE days[1] <= d /\ d <= days[n]
    <3>1. PICK i \in 1 .. n : d = data[i].day
      BY <1>2
    <3>2. data[1].day <= data[i].day /\ data[i].day <= data[n].day
      BY <2>2, <2>4, <2>5, <1>1
    <3> QED
      BY <3>1, <3>2, <2>1, <2>4
  <2>7. days[1] \in S /\ days[n] \in S
    BY <2>1, <2>4, <1>2
  <2> QED
    BY <2>3, <2>6, <2>7
<1>5. CASE Len(distinct) # n
  <2>1. days = distinct
    BY <1>5 DEF CurveTimestamps
  <2> HIDE DEF c
  <2>2. /\ days \in [1 .. c -> S]
        /\ \A i, j \in 1 .. c : i < j => days[i] < days[j]
        /\ \A x \in S : \E i \in 1 .. c : days[i] = x
        /\ Len(days) = c
    BY <1>3, <2>1 DEF ListsNumbers, c
  <2> HIDE DEF days, S
  <2>3. 1 \in 1 .. c /\ c \in 1 .. c /\ \A i \in 1 .. c : (i = 1 \/ 1 < i) /\ (i = c \/ i < c)
    BY <1>3
  <2>4. ASSUME NEW d \in S PROVE days[1] <= d /\ d <= days[c]
    <3>1. PICK i \in 1 .. c : days[i] = d
      BY <2>2
    <3>2. days[1] \in Nat /\ days[c] \in Nat /\ d \in Nat
      BY <2>2, <2>3, <1>3
    <3>3. (1 < i => days[1] < days[i]) /\ (i < c => days[i] < days[c])
      BY <2>2, <2>3
    <3> QED
      BY <3>1, <3>2, <3>3, <2>3
  <2> QED
    BY <2>2, <2>3, <2>4 DEF days, S
<1> QED
  BY <1>4, <1>5

\* A later day is of no earlier year.
LEMMA YearsGrow ==
    ASSUME NEW d \in Nat \ {0}, NEW e \in Nat \ {0}, d <= e
    PROVE  YearOf(d) <= YearOf(e)
<1>1. SUFFICES ASSUME YearOf(e) + 1 <= YearOf(d) PROVE FALSE
  BY Calendar
<1>2. DaysPerYear \in Nat \ {0}
  BY EvaluationAssumption
<1>3. YearOf(d) \in Nat /\ YearOf(e) \in Nat
  BY Calendar
<1>4. (YearOf(e) + 1) * DaysPerYear <= YearOf(d) * DaysPerYear
  BY <1>1, <1>2, <1>3, ProductGrows
<1>5. (YearOf(e) + 1) * DaysPerYear \in Int /\ YearOf(d) * DaysPerYear \in Int
  BY <1>2, <1>3
<1>6. YearOf(d) * DaysPerYear + 1 <= d /\ e <= (YearOf(e) + 1) * DaysPerYear
  BY Calendar
<1> QED
  BY <1>4, <1>5, <1>6

\* The complete years of the report are the years the data cover.
LEMMA CompleteYears ==
    ASSUME NEW data, InOrder(data),
           InTimeOrder(data) \/ Len(Timestamps(data)) < Len(data),
           NEW y \in YearsOf(data)
    PROVE  LET days == CurveTimestamps(data)
           IN  IsCompleteYear(y, days[1], days[Len(days)]) <=> y \in CoveredYears(data)
<1> DEFINE S == DaysOf(data)
           days == CurveTimestamps(data)
           first == days[1]
           last == days[Len(days)]
           begins == y * DaysPerYear + 1
           ends == (y + 1) * DaysPerYear
<1>1. S \in SUBSET (Nat \ {0})
  BY TimestampsIs
<1>2. first \in S /\ last \in S /\ \A d \in S : first <= d /\ d <= last
  BY CurveEnds DEF YearsOf
<1>3. PICK d \in S : y = YearOf(d)
  BY DEF YearsOf
<1> HIDE DEF S, first, last
<1>4. first \in Nat \ {0} /\ last \in Nat \ {0} /\ d \in Nat \ {0} /\ first <= d /\ d <= last
  BY <1>1, <1>2
<1>5. YearOf(first) <= y /\ y <= YearOf(last)
  BY <1>3, <1>4, YearsGrow
<1>6. DaysPerYear \in Nat \ {0} /\ y \in Nat /\ YearOf(first) \in Nat /\ YearOf(last) \in Nat
  BY <1>3, <1>4, Calendar, EvaluationAssumption
<1>7. begins \in Int /\ ends \in Int /\ ends = y * DaysPerYear + DaysPerYear
  BY <1>6
<1>8. (y = YearOf(first) => InJanuary(first)) <=> first <= begins
  <2>1. CASE y = YearOf(first)
    <3>1. begins <= first /\ (InJanuary(first) <=> first = begins)
      BY <2>1, <1>4, Calendar
    <3> QED
      BY <2>1, <3>1, <1>4, <1>7
  <2>2. CASE y # YearOf(first)
    <3>1. YearOf(first) + 1 <= y
      BY <2>2, <1>5, <1>6
    <3>2. (YearOf(first) + 1) * DaysPerYear <= y * DaysPerYear
      BY <3>1, <1>6, ProductGrows
    <3>3. first <= (YearOf(first) + 1) * DaysPerYear
      BY <1>4, Calendar
    <3>4. (YearOf(first) + 1) * DaysPerYear \in Int /\ y * DaysPerYear \in Int
      BY <1>6
    <3> QED
      BY <2>2, <3>2, <3>3, <3>4, <1>4
  <2> QED
    BY <2>1, <2>2
<1>9. (y = YearOf(last) => InDecember(last)) <=> last >= ends
  <2>1. CASE y = YearOf(last)
    <3>1. last <= ends /\ (InDecember(last) <=> last = ends)
      BY <2>1, <1>4, Calendar
    <3> QED
      BY <2>1, <3>1, <1>4, <1>7
  <2>2. CASE y # YearOf(last)
    <3>1. y + 1 <= YearOf(last)
      BY <2>2, <1>5, <1>6
    <3>2. (y + 1) * DaysPerYear <= YearOf(last) * DaysPerYear
      BY <3>1, <1>6, ProductGrows
    <3>3. YearOf(last) * DaysPerYear + 1 <= last
      BY <1>4, Calendar
    <3>4. (y + 1) * DaysPerYear \in Int /\ YearOf(last) * DaysPerYear \in Int
      BY <1>6
    <3> QED
      BY <2>2, <3>2, <3>3, <3>4, <1>4
  <2> QED
    BY <2>1, <2>2
<1>10. IsCompleteYear(y, first, last) <=> first <= begins /\ last >= ends
  BY <1>8, <1>9 DEF IsCompleteYear
<1>11. (\E e \in S : e <= begins) <=> first <= begins
  <2>1. ASSUME NEW e \in S, e <= begins PROVE first <= begins
    BY <2>1, <1>1, <1>2, <1>4, <1>7
  <2> QED
    BY <2>1, <1>2
<1>12. (\E e \in S : e >= ends) <=> last >= ends
  <2>1. ASSUME NEW e \in S, e >= ends PROVE last >= ends
    BY <2>1, <1>1, <1>2, <1>4, <1>7
  <2> QED
    BY <2>1, <1>2
<1>13. y \in CoveredYears(data) <=> (\E e \in S : e <= begins) /\ (\E e \in S : e >= ends)
  BY DEF CoveredYears, S
<1> QED
  BY <1>10, <1>11, <1>12, <1>13 DEF first, last

-----------------------------------------------------------------------------
(* The gates and the choice. *)

\* What the gates have said of a candidate that was not rejected.
Passed(verdict) ==
    /\ verdict.risk_compliant
    /\ ValidationPassed(verdict.folds, benchmark # None, request.funnel)
    /\ request.funnel.min_qqq_cagr_delta # None =>
          /\ benchmark # None
          /\ verdict.full.qqq_cagr_delta >= request.funnel.min_qqq_cagr_delta
    /\ AnnualTradesPassed(YearlyMetrics(bars, verdict.sold), request.funnel.min_annual_trades)

\* What the funnel can hold of a candidate.
Verdict(data) ==
    [status : {"SURVIVOR", "NEAR_MISS", "REJECT"}, score : 0 .. MaxScore,
     full : [total_return : -1 .. 1,
             trade_count : {TradeCount(sold) : sold \in SoldByYear(data)},
             qqq_cagr_delta : 0 .. 1],
     sold : SoldByYear(data), folds : FoldOutcomes(data), risk_compliant : BOOLEAN]

TypesHold ==
    /\ request \in Requests /\ bars = MarketDataSet(request.cover)
    /\ benchmark \in {None, Timestamps(bars)}
    /\ phase \in {"new", "running", "done", "refused", "raised"}
    /\ results \in Seq(Verdict(bars))
    /\ Len(results) <= Len(request.hashes)
    /\ phase = "new" => results = <<>>

GatesHold == \A i \in Positions(results) : results[i].status # "REJECT" => Passed(results[i])

ChoiceHolds ==
    /\ phase # "done" => handedOn = None
    /\ handedOn # None => handedOn \in Eligible /\ \A i \in Eligible : NotBetter(i, handedOn)

PipelineInv == TypesHold /\ GatesHold /\ ChoiceHolds

\* A candidate is a near miss for a gate of its return, its trades or its score
\* only: whoever fails a hard gate is rejected.
LEMMA NotRejected ==
    ASSUME NEW input, NEW funnel, NEW compared,
           SelectCandidate(input, funnel, compared).status # "REJECT"
    PROVE  LET passed == GatePassed(input, funnel, compared)
           IN  /\ passed["validation"] /\ passed["risk"]
               /\ passed["qqq_cagr_delta"] /\ passed["annual_trade_count"]
<1> DEFINE passed == GatePassed(input, funnel, compared)
           failures == {g \in GateNames : ~passed[g]}
<1>1. FunnelStatus(failures) # "REJECT"
  BY DEF SelectCandidate
<1> HIDE DEF passed
<1>2. failures = {} \/ \E g \in {"fast", "full", "robustness"} : failures = {g}
  <2> HIDE DEF failures
  <2> QED
    BY <1>1 DEF FunnelStatus
<1>3. \A g \in GateNames : g \notin {"fast", "full", "robustness"} => passed[g]
  BY <1>2
<1> QED
  BY <1>3 DEF GateNames, passed

\* SelectCandidate keeps what the later properties read.
LEMMA Selected ==
    ASSUME NEW input, NEW funnel, NEW compared
    PROVE  LET verdict == SelectCandidate(input, funnel, compared)
           IN  /\ verdict.score = input.robustness.robust_score
               /\ verdict.full = input.full /\ verdict.sold = input.sold
               /\ verdict.folds = input.folds
               /\ verdict.risk_compliant = input.risk_compliant
               /\ verdict.status \in {"SURVIVOR", "NEAR_MISS", "REJECT"}
<1>1. \A failures : FunnelStatus(failures) \in {"SURVIVOR", "NEAR_MISS", "REJECT"}
  BY DEF FunnelStatus
<1> QED
  BY <1>1 DEF SelectCandidate

\* What the gates that reject ask.
LEMMA HardGates ==
    ASSUME NEW input, NEW funnel, NEW compared
    PROVE  LET passed == GatePassed(input, funnel, compared)
           IN  /\ passed["validation"] = ValidationPassed(input.folds, compared, funnel)
               /\ passed["risk"] = input.risk_compliant
               /\ passed["qqq_cagr_delta"] =
                     (\/ funnel.min_qqq_cagr_delta = None
                      \/ compared /\ input.full.qqq_cagr_delta >= funnel.min_qqq_cagr_delta)
               /\ passed["annual_trade_count"] =
                     AnnualTradesPassed(input.yearly, funnel.min_annual_trades)
BY DEF GatePassed, GateNames

\* The values of finitely many positions are finitely many.
LEMMA ImageFinite ==
    ASSUME NEW n \in Nat, NEW E \in SUBSET (1 .. n), NEW f \in [E -> Int]
    PROVE  IsFiniteSet({f[i] : i \in E}) /\ {f[i] : i \in E} \in SUBSET Int
<1>1. IsFiniteSet(E)
  <2>1. IsFiniteSet(1 .. n)
    BY FS_Interval
  <2> QED
    BY <2>1, FS_Subset
<1>2. f \in Surjection(E, {f[i] : i \in E})
  BY DEF Surjection
<1> QED
  BY <1>1, <1>2, FS_Surjection

\* Of the candidates that are eligible one is not worse than any.
LEMMA BestExists ==
    ASSUME TypesHold, Len(results) = Len(request.hashes), Eligible # {}
    PROVE  \E j \in Eligible : \A i \in Eligible : NotBetter(i, j)
<1> DEFINE n == Len(results)
           score == [i \in Eligible |-> results[i].score]
           M == Max({score[i] : i \in Eligible})
           Top == {i \in Eligible : score[i] = M}
           hash == [i \in Top |-> request.hashes[i]]
           H == Max({hash[i] : i \in Top})
<1>1. n \in Nat /\ Eligible \in SUBSET (1 .. n)
  BY DEF TypesHold, Eligible, Positions
<1>2. \A i \in 1 .. n : results[i].score \in Int /\ request.hashes[i] \in Int
  <2>1. \A i \in 1 .. n : results[i] \in Verdict(bars)
    BY <1>1 DEF TypesHold
  <2>2. \A v \in Verdict(bars) : v.score \in Int
    BY EvaluationAssumption DEF Verdict
  <2>3. request.hashes \in Seq(Int)
    BY EvaluationAssumption DEF TypesHold
  <2> QED
    BY <2>1, <2>2, <2>3
<1>3. score \in [Eligible -> Int]
  BY <1>1, <1>2
<1>4. PICK t \in Eligible : TRUE
  OBVIOUS
<1> HIDE DEF score
<1>5. M \in {score[i] : i \in Eligible} /\ \A i \in Eligible : score[i] <= M
  <2> DEFINE T == {score[i] : i \in Eligible}
  <2>1. IsFiniteSet(T) /\ T \in SUBSET Int
    BY <1>1, <1>3, ImageFinite
  <2>2. T # {}
    BY <1>4
  <2>3. \A i \in Eligible : score[i] \in T
    OBVIOUS
  <2> HIDE DEF T
  <2>4. Max(T) \in T /\ \A x \in T : x <= Max(T)
    BY <2>1, <2>2, MaxIs
  <2> QED
    BY <2>3, <2>4 DEF T
<1> HIDE DEF M
<1>6. Top # {} /\ Top \in SUBSET (1 .. n)
  BY <1>1, <1>5
<1>7. hash \in [Top -> Int]
  BY <1>2, <1>6
<1>8. \A i \in Top : i \in Eligible /\ score[i] = M
  OBVIOUS
<1>9. \A i \in Eligible : i \notin Top => score[i] # M
  OBVIOUS
<1> HIDE DEF Top
<1>10. \A i \in Top : hash[i] = request.hashes[i]
  OBVIOUS
<1> HIDE DEF hash
<1>11. H \in {hash[i] : i \in Top} /\ \A i \in Top : hash[i] <= H
  <2> DEFINE T == {hash[i] : i \in Top}
  <2>1. IsFiniteSet(T) /\ T \in SUBSET Int
    BY <1>1, <1>6, <1>7, ImageFinite
  <2>2. T # {}
    BY <1>6
  <2>3. \A i \in Top : hash[i] \in T
    OBVIOUS
  <2> HIDE DEF T
  <2>4. Max(T) \in T /\ \A x \in T : x <= Max(T)
    BY <2>1, <2>2, MaxIs
  <2> QED
    BY <2>3, <2>4 DEF T
<1>12. PICK j \in Top : hash[j] = H
  BY <1>11
<1> HIDE DEF H
<1>13. \A i \in Eligible : score[i] = results[i].score
  BY DEF score
<1>14. ASSUME NEW i \in Eligible PROVE NotBetter(i, j)
  <2>1. j \in Eligible /\ results[j].score = M
    BY <1>8, <1>12, <1>13
  <2>2. results[i].score <= M /\ results[i].score \in Int /\ M \in Int
    BY <1>1, <1>2, <1>5, <1>13, <2>1
  <2>3. CASE i \in Top
    BY <2>1, <2>3, <1>8, <1>10, <1>11, <1>12, <1>13 DEF NotBetter
  <2>4. CASE i \notin Top
    <3>1. results[i].score # M
      BY <2>4, <1>9, <1>13
    <3> QED
      BY <3>1, <2>1, <2>2 DEF NotBetter
  <2> QED
    BY <2>3, <2>4
<1> QED
  BY <1>8, <1>12, <1>14

-----------------------------------------------------------------------------
(* The invariant. *)

\* The bars of a request are in order.
LEMMA BarsInOrder == ASSUME TypesHold PROVE InOrder(bars)
<1>1. Coverable(request.cover)
  BY EvaluationAssumption DEF TypesHold, Coverable
<1> QED
  BY <1>1, DataSetInOrder DEF TypesHold

\* The invariant holds when an evaluation is asked for.
LEMMA InitPipeline == EvaluationInit => PipelineInv
<1> SUFFICES ASSUME EvaluationInit PROVE PipelineInv
  OBVIOUS
<1>1. request.hashes \in Seq(Int) /\ Len(results) = 0
  BY EvaluationAssumption DEF EvaluationInit
<1>2. TypesHold
  BY <1>1 DEF EvaluationInit, TypesHold
<1>3. Positions(results) = {}
  BY <1>1 DEF Positions
<1> QED
  BY <1>2, <1>3 DEF PipelineInv, GatesHold, ChoiceHolds, EvaluationInit

\* Every step of an evaluation keeps the invariant.
LEMMA NextPipeline == ASSUME PipelineInv, [EvaluationNext]_pipelineVars PROVE PipelineInv'
<1> USE DEF PipelineInv
<1>1. CASE Begin
  <2>1. results = <<>> /\ results' = <<>> /\ phase' \in {"refused", "raised", "running"}
    BY <1>1 DEF Begin, TypesHold
  <2>2. benchmark' \in {None, Timestamps(bars)}
    BY <1>1 DEF Begin, BenchmarkData
  <2>3. TypesHold'
    BY <1>1, <2>1, <2>2 DEF Begin, TypesHold
  <2>4. Positions(results)' = {}
    BY <2>1 DEF Positions
  <2> QED
    BY <1>1, <2>1, <2>3, <2>4 DEF Begin, GatesHold, ChoiceHolds
<1>2. CASE EngineRaises \/ FoldRaises
  BY <1>2 DEF EngineRaises, FoldRaises, MoreCandidates, TypesHold, GatesHold, Passed,
              ChoiceHolds, Positions
<1>3. CASE EvaluateCandidate
  <2>1. PICK fast \in [total_return : {-1, 1}, trade_count : TradesPossible(FastSlice(bars))],
             totalReturn \in -1 .. 1, sold \in SoldByYear(bars), delta \in 0 .. 1,
             risk \in BOOLEAN, score \in 0 .. MaxScore, folds \in FoldOutcomes(bars) :
          results' = Append(results, SelectCandidate(
              [fast |-> fast,
               full |-> Metrics(totalReturn, TradeCount(sold), delta),
               sold |-> sold,
               robustness |-> Robustness(totalReturn, score),
               folds |-> folds, risk_compliant |-> risk,
               yearly |-> YearlyMetrics(bars, sold)],
              request.funnel, benchmark # None))
    BY <1>3 DEF EvaluateCandidate
  <2> DEFINE input == [fast |-> fast,
                       full |-> Metrics(totalReturn, TradeCount(sold), delta),
                       sold |-> sold,
                       robustness |-> Robustness(totalReturn, score),
                       folds |-> folds, risk_compliant |-> risk,
                       yearly |-> YearlyMetrics(bars, sold)]
             verdict == SelectCandidate(input, request.funnel, benchmark # None)
  <2>2. results' = Append(results, verdict)
    BY <2>1
  <2>3. verdict \in Verdict(bars)
    <3>1. /\ input.robustness.robust_score \in 0 .. MaxScore
      BY EvaluationAssumption DEF Robustness
    <3>2. input.full \in [total_return : -1 .. 1,
                          trade_count : {TradeCount(s) : s \in SoldByYear(bars)},
                          qqq_cagr_delta : 0 .. 1]
      BY DEF Metrics
    <3>3. input.sold = sold /\ input.folds = folds /\ input.risk_compliant = risk
      OBVIOUS
    <3> HIDE DEF input
    <3>4. /\ verdict.score = input.robustness.robust_score
          /\ verdict.full = input.full /\ verdict.sold = input.sold
          /\ verdict.folds = input.folds
          /\ verdict.risk_compliant = input.risk_compliant
          /\ verdict.status \in {"SURVIVOR", "NEAR_MISS", "REJECT"}
      BY Selected
    <3>5. verdict = [status |-> verdict.status, score |-> verdict.score, full |-> verdict.full,
                     sold |-> verdict.sold, folds |-> verdict.folds,
                     risk_compliant |-> verdict.risk_compliant]
      BY DEF SelectCandidate
    <3> HIDE DEF verdict
    <3> QED
      BY <3>1, <3>2, <3>3, <3>4, <3>5 DEF Verdict
  <2>4. verdict.status # "REJECT" => Passed(verdict)
    <3> SUFFICES ASSUME verdict.status # "REJECT" PROVE Passed(verdict)
      OBVIOUS
    <3>1. /\ input.sold = sold /\ input.folds = folds /\ input.risk_compliant = risk
          /\ input.yearly = YearlyMetrics(bars, sold)
      OBVIOUS
    <3> HIDE DEF input
    <3>2. /\ verdict.full = input.full /\ verdict.sold = input.sold
          /\ verdict.folds = input.folds
          /\ verdict.risk_compliant = input.risk_compliant
      BY Selected
    <3>3. LET passed == GatePassed(input, request.funnel, benchmark # None)
          IN  /\ passed["validation"] /\ passed["risk"]
              /\ passed["qqq_cagr_delta"] /\ passed["annual_trade_count"]
      BY NotRejected
    <3>4. /\ ValidationPassed(input.folds, benchmark # None, request.funnel)
          /\ input.risk_compliant
          /\ \/ request.funnel.min_qqq_cagr_delta = None
             \/ /\ benchmark # None
                /\ input.full.qqq_cagr_delta >= request.funnel.min_qqq_cagr_delta
          /\ AnnualTradesPassed(input.yearly, request.funnel.min_annual_trades)
      BY <3>3, HardGates
    <3> HIDE DEF verdict
    <3> QED
      BY <3>1, <3>2, <3>4 DEF Passed
  <2> HIDE DEF verdict, input
  <2>5. /\ UNCHANGED <<request, bars, benchmark, phase, handedOn>>
        /\ phase = "running" /\ Len(results) < Len(request.hashes)
    BY <1>3 DEF EvaluateCandidate, MoreCandidates
  <2>6. /\ results' \in Seq(Verdict(bars)) /\ Len(results') = Len(results) + 1
        /\ Len(results) \in Nat
        /\ \A i \in 1 .. Len(results) : results'[i] = results[i]
        /\ results'[Len(results) + 1] = verdict
    BY <2>2, <2>3 DEF TypesHold
  <2>7. Len(request.hashes) \in Nat
    BY EvaluationAssumption DEF TypesHold
  <2>8. TypesHold'
    BY <2>5, <2>6, <2>7 DEF TypesHold
  <2>9. GatesHold'
    <3>1. ASSUME NEW i \in 1 .. Len(results'), results'[i].status # "REJECT"
          PROVE  Passed(results'[i])
      <4>1. i \in 1 .. Len(results) \/ i = Len(results) + 1
        BY <2>6
      <4> QED
        BY <3>1, <4>1, <2>4, <2>6 DEF GatesHold, Positions
    <3>2. \A i \in 1 .. Len(results') : results'[i].status # "REJECT" => Passed(results[i])'
      BY <3>1, <2>5 DEF Passed
    <3> QED
      BY <3>2 DEF GatesHold, Positions
  <2>10. ChoiceHolds'
    BY <2>5 DEF ChoiceHolds
  <2> QED
    BY <2>8, <2>9, <2>10
<1>4. CASE Finish
  <2>1. /\ UNCHANGED <<request, bars, benchmark, results>> /\ phase' = "done"
        /\ Len(results) = Len(request.hashes)
        /\ handedOn' = IF Eligible = {} THEN None
                       ELSE CHOOSE j \in Eligible : \A i \in Eligible : NotBetter(i, j)
    BY <1>4 DEF Finish
  <2>2. Eligible' = Eligible /\ \A i, j : NotBetter(i, j)' = NotBetter(i, j)
    BY <2>1 DEF Eligible, NotBetter, Positions
  <2>3. handedOn' # None => handedOn' \in Eligible /\ \A i \in Eligible : NotBetter(i, handedOn')
    BY <2>1, BestExists
  <2>4. TypesHold' /\ GatesHold'
    BY <2>1 DEF TypesHold, GatesHold, Passed, Positions
  <2>5. ChoiceHolds'
    BY <2>1, <2>2, <2>3 DEF ChoiceHolds, NotBetter
  <2> QED
    BY <2>4, <2>5
<1>5. CASE UNCHANGED pipelineVars
  BY <1>5 DEF pipelineVars, TypesHold, GatesHold, Passed, ChoiceHolds, Eligible, NotBetter,
              Positions
<1> QED
  BY <1>1, <1>2, <1>3, <1>4, <1>5 DEF EvaluationNext

\* The invariant holds in every state of every evaluation: a candidate that was
\* not rejected has passed the hard gates, and the one handed on is the best.
THEOREM PipelineInvariance == EvaluationSpec => []PipelineInv
<1>1. EvaluationInit => PipelineInv
  BY InitPipeline
<1>2. PipelineInv /\ [EvaluationNext]_pipelineVars => PipelineInv'
  BY NextPipeline
<1> QED
  BY <1>1, <1>2, PTL DEF EvaluationSpec

\* The property follows from the invariant and from the calendar.
LEMMA InvHandsOn == ASSUME PipelineInv PROVE HandedOnHolds
<1> SUFFICES ASSUME handedOn # None
             PROVE  LET chosen == results[handedOn]
                        funnel == request.funnel
                        target == funnel.min_qqq_cagr_delta
                    IN  /\ chosen.risk_compliant
                        /\ \A i \in Positions(results) :
                              results[i].status # "REJECT" => results[i].score <= chosen.score
                        /\ (/\ funnel.min_annual_trades # None
                            /\ InTimeOrder(bars) \/ Len(Timestamps(bars)) < Len(bars))
                              => /\ CoveredYears(bars) # {}
                                 /\ \A y \in CoveredYears(bars) :
                                        chosen.sold[y] > funnel.min_annual_trades
                        /\ target # None => benchmark # None /\ chosen.full.qqq_cagr_delta >= target
                        /\ chosen.folds # <<>>
                        /\ \A k \in Positions(chosen.folds) :
                              /\ chosen.folds[k].total_return >= 0
                              /\ chosen.folds[k].trade_count >= funnel.min_trades
                              /\ target # None => chosen.folds[k].qqq_cagr_delta >= target
  BY DEF HandedOnHolds
<1> DEFINE chosen == results[handedOn]
           funnel == request.funnel
           target == funnel.min_qqq_cagr_delta
<1> USE DEF PipelineInv
<1>1. handedOn \in Eligible /\ \A i \in Eligible : NotBetter(i, handedOn)
  BY DEF ChoiceHolds
<1>2. Passed(chosen)
  BY <1>1 DEF GatesHold, Eligible
<1>3. \A i \in Positions(results) : results[i].status # "REJECT" => results[i].score <= chosen.score
  <2> SUFFICES ASSUME NEW i \in Positions(results), results[i].status # "REJECT"
               PROVE  results[i].score <= chosen.score
    OBVIOUS
  <2>1. NotBetter(i, handedOn) /\ handedOn \in Positions(results)
    BY <1>1 DEF Eligible
  <2>2. \A j \in Positions(results) : results[j].score \in Int
    <3>1. \A j \in Positions(results) : results[j] \in Verdict(bars)
      BY DEF TypesHold, Positions
    <3>2. \A v \in Verdict(bars) : v.score \in Int
      BY EvaluationAssumption DEF Verdict
    <3> QED
      BY <3>1, <3>2
  <2> QED
    BY <2>1, <2>2 DEF NotBetter
<1>4. ASSUME funnel.min_annual_trades # None,
             InTimeOrder(bars) \/ Len(Timestamps(bars)) < Len(bars)
      PROVE  /\ CoveredYears(bars) # {}
             /\ \A y \in CoveredYears(bars) : chosen.sold[y] > funnel.min_annual_trades
  <2> DEFINE yearly == YearlyMetrics(bars, chosen.sold)
             counted == {y \in DOMAIN yearly : yearly[y].complete}
  <2>1. /\ counted # {}
        /\ \A y \in counted : yearly[y].trade_count > funnel.min_annual_trades
    BY <1>2, <1>4 DEF Passed, AnnualTradesPassed
  <2>2. DOMAIN yearly = YearsOf(bars) /\ \A y \in YearsOf(bars) : yearly[y].trade_count = chosen.sold[y]
    BY DEF YearlyMetrics
  <2>3. \A y \in YearsOf(bars) : yearly[y].complete <=> y \in CoveredYears(bars)
    <3> SUFFICES ASSUME NEW y \in YearsOf(bars)
                 PROVE  yearly[y].complete <=> y \in CoveredYears(bars)
      OBVIOUS
    <3> DEFINE days == CurveTimestamps(bars)
    <3>1. yearly[y].complete = IsCompleteYear(y, days[1], days[Len(days)])
      BY DEF YearlyMetrics
    <3>2. InOrder(bars)
      BY BarsInOrder
    <3>3. IsCompleteYear(y, days[1], days[Len(days)]) <=> y \in CoveredYears(bars)
      BY <3>2, <1>4, CompleteYears
    <3> QED
      BY <3>1, <3>3
  <2>4. CoveredYears(bars) \subseteq YearsOf(bars)
    BY DEF CoveredYears
  <2> HIDE DEF yearly
  <2>5. counted = CoveredYears(bars)
    BY <2>2, <2>3, <2>4
  <2> QED
    BY <2>1, <2>2, <2>4, <2>5
<1>5. \A k \in Positions(chosen.folds) : FoldPassed(chosen.folds[k], benchmark # None, funnel)
  BY <1>2 DEF Passed, ValidationPassed
<1>6. chosen.folds # <<>>
  BY <1>2 DEF Passed, ValidationPassed
<1>7. \A k \in Positions(chosen.folds) :
         /\ chosen.folds[k].total_return >= 0
         /\ chosen.folds[k].trade_count >= funnel.min_trades
         /\ target # None => chosen.folds[k].qqq_cagr_delta >= target
  BY <1>5 DEF FoldPassed
<1>8. /\ chosen.risk_compliant
      /\ target # None => benchmark # None /\ chosen.full.qqq_cagr_delta >= target
  BY <1>2 DEF Passed
<1> QED
  BY <1>3, <1>4, <1>6, <1>7, <1>8

\* Whatever data, limits and candidates an evaluation is called with, the strategy
\* it hands to the next generation has passed every hard gate: in every year that
\* the data cover, over the whole data and in every fold.
THEOREM HandedOn == EvaluationSpec => []HandedOnHolds
<1>1. PipelineInv => HandedOnHolds
  BY InvHandsOn
<1> QED
  BY <1>1, PipelineInvariance, PTL

-----------------------------------------------------------------------------
(* The stages of an evaluation of one symbol. *)

\* The greater and the lesser of two numbers.
LEMMA MaxOfTwo == \A a, b \in Int : Max({a, b}) = IF a >= b THEN a ELSE b
<1> SUFFICES ASSUME NEW a \in Int, NEW b \in Int
             PROVE  Max({a, b}) = IF a >= b THEN a ELSE b
  OBVIOUS
<1>1. \E x \in {a, b} : \A y \in {a, b} : x >= y
  OBVIOUS
<1>2. Max({a, b}) \in {a, b} /\ \A y \in {a, b} : Max({a, b}) >= y
  BY <1>1 DEF Max
<1> QED
  BY <1>2

LEMMA MinOfTwo == \A a, b \in Int : Min({a, b}) = IF a <= b THEN a ELSE b
<1> SUFFICES ASSUME NEW a \in Int, NEW b \in Int
             PROVE  Min({a, b}) = IF a <= b THEN a ELSE b
  OBVIOUS
<1>1. \E x \in {a, b} : \A y \in {a, b} : x <= y
  OBVIOUS
<1>2. Min({a, b}) \in {a, b} /\ \A y \in {a, b} : Min({a, b}) <= y
  BY <1>1 DEF Min
<1> QED
  BY <1>2

\* One symbol, with at least one bar, and its days one after another.
Series(data) ==
    /\ InOrder(data) /\ Len(data) > 0
    /\ \A i, j \in 1 .. Len(data) : data[i].symbol = data[j].symbol
    /\ \A i, j \in 1 .. Len(data) : i < j => data[i].day < data[j].day

\* Data of one symbol are a series.
LEMMA OneSymbolSeries ==
    ASSUME NEW data, InOrder(data), OneSymbol(data) PROVE Series(data)
<1> DEFINE n == Len(data)
           S == SymbolsOf(data)
           f == [i \in 1 .. n |-> data[i].symbol]
<1>1. n \in Nat /\ \A i \in 1 .. n : data[i].day \in Nat /\ data[i].symbol \in Nat
  BY BarsTyped
<1>2. S = {data[i].symbol : i \in 1 .. n}
  BY DEF SymbolsOf, Positions
<1>3. f \in Surjection(1 .. n, S)
  BY <1>2 DEF Surjection
<1>4. IsFiniteSet(S)
  <2>1. IsFiniteSet(1 .. n)
    BY <1>1, FS_Interval
  <2> QED
    BY <1>3, <2>1, FS_Surjection
<1>5. PICK s : S = {s}
  <2> HIDE DEF S
  <2>1. Cardinality(S) = 1
    BY DEF OneSymbol, S
  <2> QED
    BY <1>4, <2>1, FS_Singleton
<1>6. \A i \in 1 .. n : data[i].symbol = s
  BY <1>2, <1>5
<1>7. \A i, j \in 1 .. n : i < j => data[i].day < data[j].day
  BY <1>1, <1>6 DEF InOrder, Positions
<1>8. n > 0
  BY <1>1, <1>2, <1>5
<1> QED
  BY <1>6, <1>7, <1>8 DEF Series

\* The timestamps of a series are its days.
LEMMA SeriesTimestamps ==
    ASSUME NEW data, Series(data)
    PROVE  Timestamps(data) = [i \in 1 .. Len(data) |-> data[i].day]
<1> DEFINE n == Len(data)
           f == [i \in 1 .. n |-> data[i].day]
<1>1. n \in Nat /\ f \in [1 .. n -> Int]
  BY BarsTyped DEF Series
<1>2. \A i, j \in 1 .. n : i < j => f[i] < f[j]
  BY DEF Series
<1>3. DaysOf(data) = {f[i] : i \in 1 .. n}
  BY DEF DaysOf, Positions
<1> HIDE DEF f, n
<1>4. Ascending({f[i] : i \in 1 .. n}) = f
  BY <1>1, <1>2, AscendingOfIncreasing
<1>5. Timestamps(data) = f
  BY <1>3, <1>4 DEF Timestamps
<1> QED
  BY <1>5 DEF f, n

\* A part of a series by position: its bars, its days and the benchmark prices of
\* the same positions.
LEMMA PartOfSeries ==
    ASSUME NEW data, Series(data), NEW P \in SUBSET (1 .. Len(data))
    PROVE  LET order == Ascending(P)
           IN  /\ SelectDataset(data, P) = [k \in 1 .. Cardinality(P) |-> data[order[k]]]
               /\ Timestamps(SelectDataset(data, P)) =
                     [k \in 1 .. Cardinality(P) |-> data[order[k]].day]
               /\ BenchmarkSelect(Timestamps(data), P) =
                     [k \in 1 .. Cardinality(P) |-> data[order[k]].day]
               /\ Cardinality(P) \in Nat
<1> DEFINE n == Len(data)
           order == Ascending(P)
           c == Cardinality(P)
           part == SelectDataset(data, P)
           f == [k \in 1 .. c |-> data[order[k]].day]
<1>1. n \in Nat /\ \A i \in 1 .. n : data[i].day \in Nat \ {0}
  BY BarsTyped DEF Series
<1>2. IsFiniteSet(P) /\ P \in SUBSET Int
  <2>1. IsFiniteSet(1 .. n)
    BY <1>1, FS_Interval
  <2>2. IsFiniteSet(P)
    BY <2>1, FS_Subset
  <2>3. P \in SUBSET Int
    BY <1>1
  <2> QED
    BY <2>2, <2>3
<1>3. c \in Nat /\ ListsNumbers(order, P)
  BY <1>2, AscendingIs
<1> HIDE DEF order
<1>4. /\ order \in [1 .. c -> P]
      /\ \A i, j \in 1 .. c : i < j => order[i] < order[j]
  BY <1>3 DEF ListsNumbers
<1> HIDE DEF c
<1>5. Len(order) = c /\ Positions(order) = 1 .. c
  <2>1. order \in Seq(P) /\ Len(order) = c
    BY <1>3, <1>4
  <2> QED
    BY <2>1 DEF Positions
<1>6. part = [k \in 1 .. c |-> data[order[k]]]
  BY <1>5 DEF SelectDataset, order
<1>7. Timestamps(data) = [i \in 1 .. n |-> data[i].day]
  BY SeriesTimestamps
<1>8. BenchmarkSelect(Timestamps(data), P) = f
  <2>1. BenchmarkSelect(Timestamps(data), P) = [k \in 1 .. c |-> Timestamps(data)[order[k]]]
    BY <1>5 DEF BenchmarkSelect, order
  <2>2. \A k \in 1 .. c : Timestamps(data)[order[k]] = data[order[k]].day
    BY <1>4, <1>7
  <2> QED
    BY <2>1, <2>2
<1>9. f \in [1 .. c -> Int]
  <2>1. \A k \in 1 .. c : order[k] \in 1 .. n
    BY <1>4
  <2>2. \A k \in 1 .. c : data[order[k]].day \in Int
    BY <1>1, <2>1
  <2> QED
    BY <2>2
<1>10. \A i, j \in 1 .. c : i < j => f[i] < f[j]
  <2> SUFFICES ASSUME NEW i \in 1 .. c, NEW j \in 1 .. c, i < j PROVE f[i] < f[j]
    OBVIOUS
  <2>1. order[i] \in 1 .. n /\ order[j] \in 1 .. n /\ order[i] < order[j]
    BY <1>4
  <2>2. data[order[i]].day < data[order[j]].day
    BY <2>1 DEF Series
  <2> QED
    BY <2>2
<1>11. DaysOf(part) = {f[k] : k \in 1 .. c}
  <2>1. Positions(part) = 1 .. c
    <3>1. part \in Seq({data[order[k]] : k \in 1 .. c}) /\ Len(part) = c
      BY <1>3, <1>6
    <3> QED
      BY <3>1 DEF Positions
  <2>2. \A k \in 1 .. c : part[k].day = f[k]
    BY <1>6
  <2> HIDE DEF f, part
  <2> QED
    BY <2>1, <2>2 DEF DaysOf
<1> HIDE DEF f, part
<1>12. Ascending({f[k] : k \in 1 .. c}) = f
  BY <1>3, <1>9, <1>10, AscendingOfIncreasing
<1>13. Timestamps(part) = f
  BY <1>11, <1>12 DEF Timestamps
<1> QED
  BY <1>3, <1>6, <1>8, <1>13 DEF part, f, c, order

\* The numbers up to w, in their order.
LEMMA AscendingUpTo ==
    ASSUME NEW w \in Nat
    PROVE  Ascending(1 .. w) = [k \in 1 .. w |-> k] /\ Cardinality(1 .. w) = w
<1> DEFINE f == [k \in 1 .. w |-> k]
<1>1. f \in [1 .. w -> Int] /\ \A i, j \in 1 .. w : i < j => f[i] < f[j]
  OBVIOUS
<1>2. 1 .. w = {f[k] : k \in 1 .. w}
  OBVIOUS
<1> HIDE DEF f
<1>3. Ascending({f[k] : k \in 1 .. w}) = f
  BY <1>1, AscendingOfIncreasing
<1>4. Cardinality(1 .. w) = w
  BY FS_Interval
<1> QED
  BY <1>2, <1>3, <1>4 DEF f

\* The fast stage of a series has its first bars, with their inputs and with the
\* benchmark of their days.
LEMMA FastStage ==
    ASSUME NEW data, Series(data)
    PROVE  LET fast == FastSlice(data)
           IN  /\ SliceFeatureValues(data, Len(fast)) = fast
               /\ BenchmarkSlice(Timestamps(data), Len(Timestamps(fast))) = Timestamps(fast)
<1> DEFINE n == Len(data)
           w == FastWidth(n)
           fast == FastSlice(data)
<1>1. /\ n \in Nat /\ n > 0 /\ data \in Seq(Bar)
      /\ \A i, j \in 1 .. n : data[i].symbol = data[j].symbol
      /\ \A i \in 1 .. n : data[i].day \in Nat \ {0}
  BY BarsTyped DEF Series, InOrder
<1>2. w \in 1 .. n
  <2> DEFINE h == n \div 2
             m == Max({2, h})
  <2>1. h \in Int
    BY <1>1
  <2>2. m = IF 2 >= h THEN 2 ELSE h
    BY <2>1, MaxOfTwo
  <2> HIDE DEF h, m
  <2>3. m \in Int /\ m >= 2
    BY <2>1, <2>2
  <2>4. Min({n, m}) = IF n <= m THEN n ELSE m
    BY <1>1, <2>3, MinOfTwo
  <2>5. w = Min({n, m})
    BY DEF FastWidth, m, h
  <2> QED
    BY <2>3, <2>4, <2>5, <1>1
<1>3. FastPositions(data) = 1 .. w
  <2>1. \A i \in 1 .. n : PlaceInSymbol(data, i) = i
    <3> TAKE i \in 1 .. n
    <3>1. {j \in 1 .. i : data[j].symbol = data[i].symbol} = 1 .. i
      BY <1>1
    <3>2. Cardinality(1 .. i) = i
      BY <1>1, FS_Interval
    <3> QED
      BY <3>1, <3>2 DEF PlaceInSymbol
  <2>2. \A i \in 1 .. n : BarsOf(data, data[i].symbol) = n
    <3> TAKE i \in 1 .. n
    <3>1. {j \in Positions(data) : data[j].symbol = data[i].symbol} = 1 .. n
      BY <1>1 DEF Positions
    <3>2. Cardinality(1 .. n) = n
      BY <1>1, FS_Interval
    <3> QED
      BY <3>1, <3>2 DEF BarsOf
  <2>3. FastPositions(data) = {i \in 1 .. n : i <= w}
    BY <2>1, <2>2 DEF FastPositions, Positions
  <2> HIDE DEF w
  <2> QED
    BY <2>3, <1>1, <1>2
<1> HIDE DEF w
<1>4. w \in Nat /\ 1 .. w \in SUBSET (1 .. n)
  BY <1>1, <1>2
<1>5. /\ fast = [k \in 1 .. w |-> data[k]]
      /\ Timestamps(fast) = [k \in 1 .. w |-> data[k].day]
  <2> DEFINE P == 1 .. w
             order == Ascending(P)
  <2>1. order = [k \in 1 .. w |-> k] /\ Cardinality(P) = w
    BY <1>4, AscendingUpTo
  <2>2. fast = SelectDataset(data, P)
    BY <1>3 DEF FastSlice
  <2>p. P \in SUBSET (1 .. n)
    BY <1>4
  <2> HIDE DEF P, fast
  <2>3. /\ fast = [k \in 1 .. Cardinality(P) |-> data[order[k]]]
        /\ Timestamps(fast) = [k \in 1 .. Cardinality(P) |-> data[order[k]].day]
    BY <2>p, <2>2, PartOfSeries
  <2> HIDE DEF order
  <2>4. \A k \in 1 .. w : order[k] = k
    BY <2>1
  <2> QED
    BY <2>1, <2>3, <2>4
<1> HIDE DEF fast
<1>6. Len(fast) = w
  BY <1>4, <1>5
<1>7. Len(Timestamps(fast)) = w
  <2>1. Timestamps(fast) \in [1 .. w -> Nat]
    BY <1>1, <1>4, <1>5
  <2> QED
    BY <1>4, <2>1
<1>8. Min({w, n}) = w
  <2>1. w \in Int /\ n \in Int /\ w <= n
    BY <1>1, <1>2
  <2> HIDE DEF n
  <2> QED
    BY <2>1, MinOfTwo
<1>9. SliceFeatureValues(data, w) = [k \in 1 .. w |-> data[k]]
  <2>1. SliceFeatureValues(data, w) = SubSeq(data, 1, w)
    BY <1>8 DEF SliceFeatureValues
  <2>2. SubSeq(data, 1, w) = [k \in 1 .. w |-> data[k]]
    BY <1>1, <1>2, <1>4
  <2> QED
    BY <2>1, <2>2
<1>10. BenchmarkSlice(Timestamps(data), w) = [k \in 1 .. w |-> data[k].day]
  <2> DEFINE t == Timestamps(data)
  <2>1. t = [i \in 1 .. n |-> data[i].day]
    BY SeriesTimestamps
  <2> HIDE DEF t
  <2>2. t \in Seq(Nat) /\ Len(t) = n
    BY <1>1, <2>1
  <2>3. SubSeq(t, 1, w) = [k \in 1 .. w |-> t[k]]
    BY <2>2, <1>1, <1>2, <1>4
  <2>4. \A k \in 1 .. w : t[k] = data[k].day
    BY <1>4, <2>1
  <2>5. BenchmarkSlice(t, w) = SubSeq(t, 1, w)
    BY <2>2, <1>8 DEF BenchmarkSlice
  <2> QED
    BY <2>3, <2>4, <2>5 DEF t
<1> QED
  BY <1>5, <1>6, <1>7, <1>9, <1>10 DEF fast

-----------------------------------------------------------------------------
(* The walk-forward windows. *)

\* The sizes of the windows over n bars.
LEMMA WindowSizes ==
    ASSUME NEW n \in Nat \ {0}, NEW tr, NEW te, NEW c,
           tr = Max({1, n \div 2}), te = Max({1, n \div 4}),
           c = Max({0, (n - tr - te + te) \div te})
    PROVE  /\ c \in Nat /\ tr \in 1 .. n /\ te \in Nat \ {0}
           /\ n > 1 => tr = n \div 2
           /\ n = 1 => c = 0
           /\ c * te \in Nat /\ tr + c * te <= n /\ n < tr + c * te + te
<1>1. PICK half \in Nat : half = n \div 2 /\ 2 * half <= n /\ n <= 2 * half + 1
  OBVIOUS
<1>2. tr = IF 1 >= half THEN 1 ELSE half
  BY <1>1, MaxOfTwo
<1>3. te \in Nat \ {0}
  <2>1. PICK quarter \in Int : quarter = n \div 4
    OBVIOUS
  <2>2. te = IF 1 >= quarter THEN 1 ELSE quarter
    BY <2>1, MaxOfTwo
  <2> QED
    BY <2>1, <2>2
<1>4. tr \in 1 .. n /\ (n > 1 => tr = half) /\ (n = 1 => tr = 1)
  BY <1>1, <1>2
<1>5. PICK a \in Nat : a = n - tr /\ n - tr - te + te = a
  BY <1>3, <1>4
<1>6. PICK q \in Int, r \in 0 .. te - 1 : q = a \div te /\ a = te * q + r
  <2>1. a \in Int
    OBVIOUS
  <2>2. /\ a \div te \in Int /\ a % te \in 0 .. te - 1
        /\ a = te * (a \div te) + (a % te)
    BY <1>3, <2>1, DivisionBounds
  <2> QED
    BY <2>2
<1>7. PICK p \in Int : p = q * te /\ p = te * q
  BY <1>3
<1>8. a = p + r /\ 0 <= r /\ r < te
  BY <1>3, <1>6, <1>7
<1>9. q >= 0
  <2> SUFFICES ASSUME q + 1 <= 0 PROVE FALSE
    OBVIOUS
  <2>1. (q + 1) * te <= 0 * te
    BY <1>3, ProductGrows
  <2>2. (q + 1) * te = p + te
    BY <1>3, <1>7
  <2>3. p + te <= 0
    BY <2>1, <2>2, <1>3
  <2> QED
    BY <2>3, <1>3, <1>8
<1>10. c = q
  <2>1. c = Max({0, q})
    BY <1>5, <1>6
  <2> QED
    BY <2>1, <1>9, MaxOfTwo
<1>11. p \in Nat
  <2>1. 0 * te <= q * te
    BY <1>3, <1>9, ProductGrows
  <2> QED
    BY <2>1, <1>3, <1>7
<1>12. tr + p <= n /\ n < tr + p + te
  BY <1>3, <1>4, <1>5, <1>8
<1>13. n = 1 => q = 0
  <2> SUFFICES ASSUME n = 1, q >= 1 PROVE FALSE
    BY <1>9
  <2>1. 1 * te <= q * te
    BY <1>3, ProductGrows
  <2>2. te <= p
    BY <2>1, <1>3, <1>7
  <2> QED
    BY <2>2, <1>3, <1>4, <1>12
<1>14. /\ c \in Nat /\ c * te \in Nat /\ tr + c * te <= n /\ n < tr + c * te + te
       /\ n = 1 => c = 0
  BY <1>7, <1>9, <1>10, <1>11, <1>12, <1>13
<1> QED
  BY <1>1, <1>3, <1>4, <1>14

\* The windows of any data lie one after another behind the first training days,
\* inside the data, and fewer bars than one test has follow the last.
Follow(data, c, tr, te) ==
    /\ c \in Nat /\ tr \in 1 .. Len(data) /\ te \in Nat \ {0}
    /\ te = TestSize(data)
    /\ Len(data) > 1 => tr = Len(data) \div 2
    /\ Len(data) = 1 => c = 0
    /\ c * te \in Nat /\ tr + c * te <= Len(data) /\ Len(data) < tr + c * te + te
    /\ Splits(data) = [k \in 1 .. c |-> Window(k, tr, te, te)]

\* walk_forward_splits makes such windows.
LEMMA WindowsFollow ==
    ASSUME NEW data, Len(data) \in Nat, Len(data) > 0
    PROVE  \E c, tr, te : Follow(data, c, tr, te)
<1> DEFINE n == Len(data)
           tr == Max({1, n \div 2})
           te == TestSize(data)
           c == Max({0, (n - tr - te + te) \div te})
<1>1. n \in Nat \ {0}
  OBVIOUS
<1>2. te = Max({1, n \div 4})
  BY DEF TestSize
<1>3. Splits(data) = [k \in 1 .. c |-> Window(k, tr, te, te)]
  BY DEF Splits, WalkForwardSplits
<1>4. tr = Max({1, n \div 2}) /\ c = Max({0, (n - tr - te + te) \div te}) /\ te = TestSize(data)
  OBVIOUS
<1> HIDE DEF c, tr, te
<1>5. /\ c \in Nat /\ tr \in 1 .. n /\ te \in Nat \ {0}
      /\ n > 1 => tr = n \div 2
      /\ n = 1 => c = 0
      /\ c * te \in Nat /\ tr + c * te <= n /\ n < tr + c * te + te
  <2> HIDE DEF n
  <2> QED
    BY <1>1, <1>2, <1>4, WindowSizes
<1>6. Follow(data, c, tr, te)
  BY <1>3, <1>4, <1>5 DEF Follow
<1> QED
  BY <1>6

\* What the windows over a data set are.
LEMMA WindowBounds ==
    ASSUME NEW c \in Nat, NEW tr \in Nat \ {0}, NEW te \in Nat \ {0}, NEW k \in 1 .. c
    PROVE  /\ (k - 1) * te \in Nat /\ (k - 1) * te + te <= c * te
           /\ Window(k, tr, te, te).train = (k - 1) * te + 1 .. (k - 1) * te + tr
           /\ Window(k, tr, te, te).test = (k - 1) * te + tr + 1 .. (k - 1) * te + tr + te
<1>1. 0 * te <= (k - 1) * te
  BY ProductGrows
<1>2. k * te <= c * te
  BY ProductGrows
<1>3. k * te = (k - 1) * te + te /\ (k - 1) * te \in Int
  OBVIOUS
<1> QED
  BY <1>1, <1>2, <1>3 DEF Window

\* Of n bars, each test lies behind its training bars and no bar is tested twice;
\* what is not tested of the second half is less than one test, at the end.
Forward(n, te, folds) ==
    LET tested == UNION {folds[k].test : k \in Positions(folds)}
        untested == ((n \div 2) + 1 .. n) \ tested
    IN  /\ \A k \in Positions(folds) :
              /\ folds[k].train \in SUBSET (1 .. n)
              /\ folds[k].test \in SUBSET (1 .. n)
              /\ \A i \in folds[k].train, j \in folds[k].test : i < j
        /\ \A k, m \in Positions(folds) : k # m => folds[k].test \cap folds[m].test = {}
        /\ n > 1 => Cardinality(untested) < te
        /\ \A i \in untested, j \in tested : j < i

\* Windows that follow one another are of that kind.
LEMMA WindowTests ==
    ASSUME NEW n \in Nat \ {0}, NEW c \in Nat, NEW tr \in 1 .. n, NEW te \in Nat \ {0},
           n > 1 => tr = n \div 2,
           n = 1 => c = 0,
           tr + c * te <= n, n < tr + c * te + te,
           NEW folds, folds = [k \in 1 .. c |-> Window(k, tr, te, te)]
    PROVE  Forward(n, te, folds)
<1> DEFINE tested == UNION {folds[k].test : k \in Positions(folds)}
           untested == ((n \div 2) + 1 .. n) \ tested
<1>1. /\ n > 1 => tr = n \div 2
      /\ n = 1 => c = 0
  OBVIOUS
<1>2. tr \in Nat /\ te \in Nat /\ te > 0 /\ tr > 0 /\ tr <= n
  OBVIOUS
<1>3. Positions(folds) = 1 .. c
  <2>1. Len(folds) = c
    OBVIOUS
  <2> QED
    BY <2>1 DEF Positions
<1>4. PICK p \in Nat : p = c * te /\ tr + p <= n /\ n < tr + p + te
  <2>1. 0 * te <= c * te /\ c * te \in Int
    BY ProductGrows
  <2> QED
    BY <2>1
<1>5. ASSUME NEW k \in 1 .. c
      PROVE  /\ (k - 1) * te \in Nat /\ (k - 1) * te + te <= p
             /\ folds[k].train = (k - 1) * te + 1 .. (k - 1) * te + tr
             /\ folds[k].test = (k - 1) * te + tr + 1 .. (k - 1) * te + tr + te
  <2>1. tr \in Nat \ {0} /\ folds[k] = Window(k, tr, te, te)
    OBVIOUS
  <2>2. (k - 1) * te + te <= c * te /\ c * te \in Int
    BY WindowBounds
  <2>3. (k - 1) * te + te <= p
    BY <2>2, <1>4
  <2>4. /\ (k - 1) * te \in Nat
        /\ Window(k, tr, te, te).train = (k - 1) * te + 1 .. (k - 1) * te + tr
        /\ Window(k, tr, te, te).test = (k - 1) * te + tr + 1 .. (k - 1) * te + tr + te
    BY <2>1, WindowBounds
  <2> QED
    BY <2>1, <2>3, <2>4
<1>6. ASSUME NEW k \in 1 .. c
      PROVE  /\ folds[k].train \in SUBSET (1 .. n)
             /\ folds[k].test \in SUBSET (1 .. n)
             /\ \A i \in folds[k].train, j \in folds[k].test : i < j
  <2>1. PICK b \in Nat : b = (k - 1) * te
    BY <1>5
  <2>2. /\ b + te <= p /\ folds[k].train = b + 1 .. b + tr
        /\ folds[k].test = b + tr + 1 .. b + tr + te
    BY <1>5, <2>1
  <2>3. tr \in Nat /\ te \in Nat /\ n \in Nat /\ b + tr <= n /\ b + tr + te <= n
    BY <1>2, <1>4, <2>2
  <2>4. folds[k].train \in SUBSET (1 .. n)
    <3>1. ASSUME NEW i \in b + 1 .. b + tr PROVE i \in 1 .. n
      BY <2>3
    <3> QED
      BY <2>2, <3>1
  <2>5. folds[k].test \in SUBSET (1 .. n)
    <3>1. ASSUME NEW i \in b + tr + 1 .. b + tr + te PROVE i \in 1 .. n
      BY <2>3
    <3> QED
      BY <2>2, <3>1
  <2>6. \A i \in folds[k].train, j \in folds[k].test : i < j
    BY <2>2, <2>3
  <2> QED
    BY <2>4, <2>5, <2>6
<1>7. ASSUME NEW k \in 1 .. c, NEW m \in 1 .. c, k < m
      PROVE  folds[k].test \cap folds[m].test = {}
  <2>1. PICK b \in Nat : b = (k - 1) * te
    BY <1>5
  <2>2. PICK d \in Nat : d = (m - 1) * te
    BY <1>5
  <2>3. k * te <= (m - 1) * te
    <3>1. k \in Int /\ m - 1 \in Int /\ k <= m - 1 /\ te \in Nat
      BY <1>7
    <3> QED
      BY <3>1, ProductGrows
  <2>4. k * te = (k - 1) * te + te
    BY <1>2
  <2>5. b + te <= d
    BY <2>1, <2>2, <2>3, <2>4
  <2>6. folds[k].test = b + tr + 1 .. b + tr + te /\ folds[m].test = d + tr + 1 .. d + tr + te
    BY <1>5, <2>1, <2>2
  <2>7. tr \in Nat /\ te \in Nat
    BY <1>2
  <2> QED
    BY <2>5, <2>6, <2>7
<1>8. tested = tr + 1 .. tr + p
  <2>1. ASSUME NEW i \in tested PROVE i \in tr + 1 .. tr + p
    <3>1. PICK k \in 1 .. c : i \in folds[k].test
      BY <1>3
    <3>2. PICK b \in Nat : b = (k - 1) * te
      BY <1>5
    <3>3. b + te <= p /\ i \in b + tr + 1 .. b + tr + te
      BY <1>5, <3>1, <3>2
    <3>4. tr \in Nat /\ te \in Nat
      BY <1>2
    <3> QED
      BY <3>3, <3>4
  <2>2. ASSUME NEW i \in tr + 1 .. tr + p PROVE i \in tested
    <3>1. PICK a \in Nat : a = i - tr - 1 /\ a < p
      BY <1>2
    <3>2. PICK q \in Int, r \in 0 .. te - 1 : a = te * q + r
      <4>1. a \in Int
        OBVIOUS
      <4>2. /\ a \div te \in Int /\ a % te \in 0 .. te - 1
            /\ a = te * (a \div te) + (a % te)
        BY <1>2, <4>1, DivisionBounds
      <4> QED
        BY <4>2
    <3>3. PICK b \in Int : b = q * te /\ b = te * q
      OBVIOUS
    <3>4. a = b + r /\ 0 <= r /\ r < te /\ te \in Nat
      BY <1>2, <3>2, <3>3
    <3>5. q >= 0
      <4> SUFFICES ASSUME q + 1 <= 0 PROVE FALSE
        OBVIOUS
      <4>1. (q + 1) * te <= 0 * te
        BY ProductGrows
      <4>2. (q + 1) * te = b + te
        BY <1>2, <3>3
      <4>3. b + te <= 0
        BY <4>1, <4>2, <1>2
      <4> QED
        BY <4>3, <3>4
    <3>6. q < c
      <4> SUFFICES ASSUME c <= q PROVE FALSE
        BY <1>2
      <4>1. c * te <= q * te
        BY ProductGrows
      <4> QED
        BY <4>1, <3>1, <3>3, <3>4, <1>4
    <3>7. q + 1 \in 1 .. c /\ (q + 1) - 1 = q
      BY <3>5, <3>6
    <3>8. folds[q + 1].test = b + tr + 1 .. b + tr + te
      <4>1. PICK k \in 1 .. c : k = q + 1 /\ k - 1 = q
        BY <3>7
      <4>2. folds[k].test = (k - 1) * te + tr + 1 .. (k - 1) * te + tr + te
        BY <1>5
      <4> QED
        BY <4>1, <4>2, <3>3
    <3>9. i \in folds[q + 1].test
      BY <3>1, <3>3, <3>4, <3>8, <1>2
    <3> QED
      BY <3>7, <3>9, <1>3
  <2> QED
    BY <2>1, <2>2
<1> HIDE DEF tested
<1>9. n > 1 => untested = tr + p + 1 .. n
  <2> SUFFICES ASSUME n > 1 PROVE untested = tr + p + 1 .. n
    OBVIOUS
  <2>1. untested = (tr + 1 .. n) \ (tr + 1 .. tr + p)
    BY <1>1, <1>8
  <2>2. tr \in Nat /\ n \in Nat
    BY <1>2
  <2> HIDE DEF untested
  <2> QED
    BY <2>1, <2>2
<1>10. n > 1 => Cardinality(untested) < te
  <2> SUFFICES ASSUME n > 1 PROVE Cardinality(untested) < te
    OBVIOUS
  <2>1. tr + p + 1 \in Int /\ n \in Int /\ tr + p + 1 <= n + 1 /\ n < tr + p + te /\ te \in Nat
    BY <1>2, <1>4
  <2>2. Cardinality(tr + p + 1 .. n) = IF tr + p + 1 > n THEN 0 ELSE n - (tr + p + 1) + 1
    BY <2>1, FS_Interval
  <2>3. Cardinality(tr + p + 1 .. n) < te
    BY <2>1, <2>2, <1>2
  <2> QED
    BY <2>3, <1>9
<1>11. \A i \in untested, j \in tested : j < i
  <2>1. CASE n > 1
    <3> HIDE DEF untested
    <3> QED
      BY <2>1, <1>2, <1>8, <1>9
  <2>2. CASE n = 1
    <3>1. p = 0
      BY <2>2, <1>1, <1>4
    <3>2. tested = {}
      BY <3>1, <1>2, <1>8
    <3> QED
      BY <3>2
  <2>3. n > 1 \/ n = 1
    OBVIOUS
  <2> QED
    BY <2>1, <2>2, <2>3
<1>12. \A k, m \in 1 .. c : k # m => folds[k].test \cap folds[m].test = {}
  <2> SUFFICES ASSUME NEW k \in 1 .. c, NEW m \in 1 .. c, k # m
               PROVE  folds[k].test \cap folds[m].test = {}
    OBVIOUS
  <2>1. k < m \/ m < k
    OBVIOUS
  <2>2. folds[m].test \cap folds[k].test = folds[k].test \cap folds[m].test
    OBVIOUS
  <2> QED
    BY <2>1, <2>2, <1>7
<1> QED
  BY <1>3, <1>6, <1>10, <1>11, <1>12 DEF tested, Forward

\* So do the folds of any data.
LEMMA WalkForward ==
    ASSUME NEW data, Len(data) \in Nat, Len(data) > 0
    PROVE  Forward(Len(data), TestSize(data), Splits(data))
<1>1. PICK c, tr, te : Follow(data, c, tr, te)
  BY WindowsFollow
<1>2. PICK n \in Nat \ {0} : n = Len(data)
  OBVIOUS
<1>3. /\ c \in Nat /\ tr \in 1 .. n /\ te \in Nat \ {0} /\ te = TestSize(data)
      /\ n > 1 => tr = n \div 2
      /\ n = 1 => c = 0
      /\ tr + c * te <= n /\ n < tr + c * te + te
      /\ Splits(data) = [k \in 1 .. c |-> Window(k, tr, te, te)]
  BY <1>1, <1>2 DEF Follow
<1>4. PICK folds : folds = Splits(data)
  OBVIOUS
<1>5. folds = [k \in 1 .. c |-> Window(k, tr, te, te)]
  BY <1>3, <1>4
<1>6. Forward(n, te, folds)
  BY <1>3, <1>5, WindowTests
<1> QED
  BY <1>2, <1>3, <1>4, <1>6

\* The property, for one evaluation.
LEMMA StagesOfSeries ==
    ASSUME TypesHold, phase = "running", OneSymbol(bars) PROVE StagesKeepToTheirDays
<1> DEFINE fast == FastSlice(bars)
           folds == Splits(bars)
           tested == UNION {folds[k].test : k \in Positions(folds)}
           untested == ((Len(bars) \div 2) + 1 .. Len(bars)) \ tested
<1>1. Series(bars)
  BY BarsInOrder, OneSymbolSeries
<1>2. /\ SliceFeatureValues(bars, Len(fast)) = fast
      /\ BenchmarkSlice(Timestamps(bars), Len(Timestamps(fast))) = Timestamps(fast)
  BY <1>1, FastStage
<1>3. benchmark # None => benchmark = Timestamps(bars)
  BY DEF TypesHold
<1>4. Len(bars) \in Nat /\ Len(bars) > 0
  BY <1>1, BarsTyped DEF Series
<1>5. /\ \A k \in Positions(folds) :
            /\ folds[k].train \in SUBSET (1 .. Len(bars))
            /\ folds[k].test \in SUBSET (1 .. Len(bars))
            /\ \A i \in folds[k].train, j \in folds[k].test : i < j
      /\ \A k, m \in Positions(folds) : k # m => folds[k].test \cap folds[m].test = {}
      /\ Len(bars) > 1 => Cardinality(untested) < TestSize(bars)
      /\ \A i \in untested, j \in tested : j < i
  BY <1>4, WalkForward DEF Forward
<1> HIDE DEF fast, folds
<1>6. ASSUME NEW k \in Positions(folds)
      PROVE  BenchmarkSelect(Timestamps(bars), folds[k].test) = Timestamps(FoldData(bars, k))
  <2>1. FoldData(bars, k) = SelectDataset(bars, folds[k].test)
    BY DEF FoldData, folds
  <2>2. PICK P : P = folds[k].test
    OBVIOUS
  <2>3. P \in SUBSET (1 .. Len(bars))
    BY <1>5, <2>2
  <2> QED
    BY <1>1, <2>1, <2>2, <2>3, PartOfSeries
<1>7. ASSUME NEW k \in Positions(folds), NEW i \in folds[k].train, NEW j \in folds[k].test
      PROVE  bars[i].day < bars[j].day
  <2>1. i \in 1 .. Len(bars) /\ j \in 1 .. Len(bars) /\ i < j
    BY <1>5
  <2> QED
    BY <1>1, <2>1 DEF Series
<1>8. benchmark # None =>
         /\ BenchmarkSlice(benchmark, Len(Timestamps(fast))) = Timestamps(fast)
         /\ \A k \in Positions(folds) :
               BenchmarkSelect(benchmark, folds[k].test) = Timestamps(FoldData(bars, k))
  BY <1>2, <1>3, <1>6
<1> HIDE DEF tested, untested
<1>9. /\ SliceFeatureValues(bars, Len(fast)) = fast
      /\ benchmark # None =>
            /\ BenchmarkSlice(benchmark, Len(Timestamps(fast))) = Timestamps(fast)
            /\ \A k \in Positions(folds) :
                  BenchmarkSelect(benchmark, folds[k].test) = Timestamps(FoldData(bars, k))
      /\ \A k \in Positions(folds) :
            \A i \in folds[k].train, j \in folds[k].test : bars[i].day < bars[j].day
      /\ \A k, m \in Positions(folds) : k # m => folds[k].test \cap folds[m].test = {}
      /\ Len(bars) > 1 => Cardinality(untested) < TestSize(bars)
      /\ \A i \in untested, j \in tested : j < i
  BY <1>2, <1>5, <1>7, <1>8
<1> QED
  BY <1>9, Zenon DEF StagesKeepToTheirDays, fast, folds, tested, untested

\* Of any number of bars of one symbol, the stages keep to their own days: the
\* fast stage and its benchmark to the first ones, and each fold to a test behind
\* its training days, over the days its benchmark is taken from.
THEOREM OwnDays == EvaluationSpec => []StagesKeepToTheirDays
<1>1. PipelineInv => StagesKeepToTheirDays
  <2>1. ASSUME ~(phase = "running" /\ OneSymbol(bars)) PROVE StagesKeepToTheirDays
    BY <2>1 DEF StagesKeepToTheirDays
  <2> QED
    BY <2>1, StagesOfSeries DEF PipelineInv
<1> QED
  BY <1>1, PipelineInvariance, PTL
=============================================================================
