----------------------------- MODULE ResearchLoop -----------------------------
(***************************************************************************)
(* The generations of run_autoresearch (runtime/research_loop.py): the     *)
(* director proposes an intent, preflight checks it against the parent, a  *)
(* repair agent is asked about an intent that failed preflight or          *)
(* evaluation, and the parent alone is evaluated when nothing else is      *)
(* left.  The journal that the evaluations write is in EvidenceSession;    *)
(* here an evaluation succeeds, raises, or raises EvidenceIntegrityError.  *)
(*                                                                         *)
(* An intent stands for its sanitized payload: the loop compares intents   *)
(* by the hash of that payload.  The provider answers anything at any      *)
(* time; which intents preflight accepts depends on the parent, so it may  *)
(* change with every generation but not within one.                        *)
(***************************************************************************)
EXTENDS Naturals, Sequences

CONSTANTS Payload,         \* the intents a provider can return
          Nothing,         \* None: no intent, no evaluation
          Unbound,         \* a local variable that was never assigned
          Parent,          \* the operations (): evaluate the parent as it is
          RepairLimits,    \* the values of config.intent_repair_attempts
          Generations      \* config.generations

ASSUME LoopAssumption ==
    /\ RepairLimits \subseteq Nat
    /\ Generations \in Nat \ {0}
    /\ Nothing \notin Payload /\ Unbound \notin Payload /\ Parent \notin Payload
    /\ Nothing # Unbound /\ Nothing # Parent

Intent == Payload \cup {Nothing}

VARIABLES pc,
          allowed,      \* config.intent_repair_attempts of this run
          generation,   \* generation_number
          valid,        \* what _preflight_intent accepts for this parent
          intent,       \* the latest intent accepted for evaluation, or proposed
          invalid,      \* invalid_payload
          repaired,     \* repaired_intent, which outlives its generation
          attempted,    \* attempted_repair_payloads
          calls,        \* repair_attempts of this generation
          evals,        \* history: evaluations begun in this generation
          status,       \* intent_status
          operations,   \* the intent they were made from, or Parent
          evaluation,   \* the operations evaluated, or Nothing
          records,      \* the status of each finished generation
          final,        \* what the run reported at its end
          faulted      \* history: an integrity error or a failed status write

repairVars == <<invalid, repaired, attempted, calls>>
candidateVars == <<intent, status, operations>>
evaluationVars == <<evals, evaluation>>
runVars == <<allowed, generation, valid, records, final, faulted>>
vars == <<pc, repairVars, candidateVars, evaluationVars, runVars>>

TypeOK ==
    /\ pc \in {"generation", "propose", "repair", "evaluate", "evaluationRepair",
               "fallback", "record", "closing", "done", "aborting", "failed"}
    /\ allowed \in RepairLimits
    /\ generation \in 1..Generations
    /\ valid \subseteq Payload
    /\ intent \in Intent /\ invalid \in Intent
    /\ repaired \in Intent \cup {Unbound}
    /\ attempted \subseteq Intent
    /\ calls \in 0..allowed
    /\ evals \in Nat
    /\ status \in {"PROPOSED", "REPAIRED", "FALLBACK"}
    /\ operations \in Payload \cup {Parent}
    /\ evaluation \in Payload \cup {Parent, Nothing}
    /\ records \in Seq({"COMPLETED", "REPAIRED", "FALLBACK", "DEGRADED"})
    /\ final \in {"RUNNING", "COMPLETED", "COMPLETED_WITH_FALLBACKS",
                  "COMPLETED_WITH_ERRORS", "FAILED"}
    /\ faulted \in BOOLEAN

Init ==
    /\ allowed \in RepairLimits
    /\ pc = "generation" /\ generation = 1
    /\ valid = {}
    /\ intent = Nothing /\ invalid = Nothing /\ repaired = Unbound
    /\ attempted = {} /\ calls = 0 /\ evals = 0
    /\ status = "PROPOSED" /\ operations = Parent /\ evaluation = Nothing
    /\ records = <<>> /\ final = "RUNNING"
    /\ faulted = FALSE

-----------------------------------------------------------------------------
(* Proposal *)

\* The locals of a generation are reset; repaired_intent is not one of them.
StartGeneration ==
    /\ pc = "generation"
    /\ pc' = "propose"
    /\ valid' \in SUBSET Payload
    /\ intent' = Nothing /\ invalid' = Nothing
    /\ attempted' = {}
    /\ calls' = 0 /\ evals' = 0
    /\ status' = "PROPOSED" /\ operations' = Parent /\ evaluation' = Nothing
    /\ UNCHANGED <<allowed, generation, repaired, records, final, faulted>>

Propose ==
    /\ pc = "propose"
    /\ \E p \in valid :
           /\ intent' = p
           /\ operations' = p
    /\ pc' = "evaluate"
    /\ UNCHANGED <<status, repairVars, evaluationVars, runVars>>

\* The provider raised (intent stays None), preflight refused its intent, or
\* the intent or its progress could not be written.
ProposalFails ==
    /\ pc = "propose"
    /\ \E p \in Intent :
           /\ intent' = p
           /\ invalid' = p
           /\ operations' \in {operations} \cup (valid \cap {p})
    /\ repaired' = Nothing
    /\ pc' = "repair"
    /\ UNCHANGED <<status, attempted, calls, evaluationVars, runVars>>

-----------------------------------------------------------------------------
(* Repair of a proposal: the `for attempt' loop. *)

\* Variant: the operations of the intent that was given up are kept.
SettleKeeping(s) ==
    /\ pc' = "evaluate"
    /\ status' = IF s = "REPAIRED" THEN s ELSE "FALLBACK"
    /\ UNCHANGED operations

\* After the loop: without a repaired intent the parent is evaluated.
Settle(s) ==
    /\ pc' = "evaluate"
    /\ status' = IF s = "REPAIRED" THEN s ELSE "FALLBACK"
    /\ operations' = IF s = "REPAIRED" THEN operations ELSE Parent

RepairsExhausted ==
    /\ pc = "repair" /\ calls = allowed
    /\ repaired' = Nothing
    /\ Settle(status)
    /\ UNCHANGED <<intent, invalid, attempted, calls,
                   evaluationVars, runVars>>

SkipDuplicate ==
    /\ pc = "repair" /\ calls < allowed
    /\ invalid \in attempted
    /\ Settle(status)
    /\ UNCHANGED <<intent, invalid, repaired, attempted, calls,
                   evaluationVars, runVars>>

\* Variant: what was attempted before is not looked at.
CallRepairAgain(x) ==
    /\ calls < allowed
    /\ calls' = calls + 1

\* director.repair(context, x, error) is called, and returns or raises.
CallRepair(x) ==
    /\ calls < allowed
    /\ x \notin attempted
    /\ calls' = calls + 1

\* IntentRepairUnavailable: the provider cannot repair.
RepairUnavailable ==
    /\ pc = "repair"
    /\ CallRepair(invalid)
    /\ attempted' = attempted \cup {invalid}
    /\ Settle(status)
    /\ UNCHANGED <<intent, invalid, repaired, evaluationVars, runVars>>

RepairRaises ==
    /\ pc = "repair"
    /\ CallRepair(invalid)
    /\ attempted' = attempted \cup {invalid}
    /\ invalid' = IF repaired = Nothing THEN invalid ELSE repaired
    /\ UNCHANGED <<pc, intent, status, operations, repaired, evaluationVars, runVars>>

\* The repaired intent p is refused, or a report or write fails after preflight
\* made its operations, or after it was taken for the intent, or for REPAIRED.
RepairFails ==
    /\ pc = "repair"
    /\ CallRepair(invalid)
    /\ \E p \in Payload :
           /\ attempted' = attempted \cup {invalid, p}
           /\ repaired' = p /\ invalid' = p
           /\ \/ UNCHANGED <<intent, status, operations>>
              \/ /\ p \in valid /\ operations' = p
                 /\ UNCHANGED <<intent, status>>
              \/ /\ p \in valid /\ operations' = p /\ intent' = p
                 /\ status' \in {status, "REPAIRED"}
    /\ UNCHANGED <<pc, evaluationVars, runVars>>

RepairSucceeds ==
    /\ pc = "repair"
    /\ CallRepair(invalid)
    /\ \E p \in valid :
           /\ attempted' = attempted \cup {invalid, p}
           /\ repaired' = p
           /\ intent' = p
           /\ operations' = p
    /\ status' = "REPAIRED"
    /\ pc' = "evaluate"
    /\ UNCHANGED <<invalid, evaluationVars, runVars>>

-----------------------------------------------------------------------------
(* Evaluation *)

Evaluate ==
    /\ pc = "evaluate"
    /\ evals' = evals + 1
    /\ \/ pc' = "record" /\ evaluation' = operations
       \/ pc' = "evaluationRepair" /\ UNCHANGED evaluation
    /\ UNCHANGED <<repairVars, candidateVars, runVars>>

\* Variant: a duplicate continues the loop instead of leaving it.
EvaluationRepairsContinue ==
    /\ pc = "evaluationRepair"
    /\ \/ calls = allowed /\ pc' = "fallback"
       \/ calls < allowed /\ intent \in attempted /\ UNCHANGED pc
    /\ UNCHANGED <<invalid, repaired, attempted, calls,
                   candidateVars, evaluationVars, runVars>>

\* The `while' loop ends without an evaluation: no repair is left, or the
\* intent has been tried.
EvaluationRepairsEnd ==
    /\ pc = "evaluationRepair"
    /\ calls < allowed => intent \in attempted
    /\ pc' = "fallback"
    /\ UNCHANGED <<invalid, repaired, attempted, calls,
                   candidateVars, evaluationVars, runVars>>

EvaluationRepairUnavailable ==
    /\ pc = "evaluationRepair"
    /\ CallRepair(intent)
    /\ attempted' = attempted \cup {intent}
    /\ pc' = "fallback"
    /\ UNCHANGED <<invalid, repaired, candidateVars, evaluationVars, runVars>>

\* The handler of a raising repair reads repaired_intent: Python raises
\* UnboundLocalError from the handler if no generation ever assigned it.
EvaluationRepairRaises ==
    /\ pc = "evaluationRepair"
    /\ CallRepair(intent)
    /\ attempted' = attempted \cup {intent}
    /\ pc' = IF repaired = Unbound THEN "aborting" ELSE pc
    /\ UNCHANGED <<invalid, repaired, candidateVars, evaluationVars, runVars>>

\* The repaired intent p is refused, or accepted but not written, or written
\* and evaluated: the evaluation returns or raises.
EvaluationRepairReturns ==
    /\ pc = "evaluationRepair"
    /\ CallRepair(intent)
    /\ \E p \in Payload :
           /\ attempted' = attempted \cup {intent, p}
           /\ repaired' = p
           /\ \/ /\ p \notin valid
                 /\ UNCHANGED <<pc, candidateVars, evaluationVars>>
              \/ /\ p \in valid /\ intent' = p /\ operations' = p
                 /\ UNCHANGED <<pc, status, evaluationVars>>
              \/ /\ p \in valid /\ intent' = p /\ operations' = p
                 /\ status' = "REPAIRED"
                 /\ evals' = evals + 1
                 /\ \/ pc' = "record" /\ evaluation' = p
                    \/ UNCHANGED <<pc, evaluation>>
    /\ UNCHANGED <<invalid, runVars>>

Fallback ==
    /\ pc = "fallback"
    /\ status' = "FALLBACK"
    /\ operations' = Parent
    /\ evals' = evals + 1
    /\ evaluation' \in {Parent, Nothing}
    /\ pc' = "record"
    /\ UNCHANGED <<intent, repairVars, runVars>>

-----------------------------------------------------------------------------
(* The record of the generation, and the end of the run *)

RecordStatus ==
    IF evaluation = Nothing THEN "DEGRADED"
    ELSE IF status = "PROPOSED" THEN "COMPLETED" ELSE status

\* Variant: the last generation is recognised one generation late.
RecordGenerationLate ==
    /\ pc = "record"
    /\ records' = Append(records, RecordStatus)
    /\ IF Len(records) = Generations
       THEN pc' = "closing" /\ UNCHANGED generation
       ELSE pc' = "generation" /\ generation' = generation + 1
    /\ UNCHANGED <<allowed, valid, final, faulted, repairVars, candidateVars, evaluationVars>>

RecordGeneration ==
    /\ pc = "record"
    /\ records' = Append(records, RecordStatus)
    /\ IF generation = Generations
       THEN pc' = "closing" /\ UNCHANGED generation
       ELSE pc' = "generation" /\ generation' = generation + 1
    /\ UNCHANGED <<allowed, valid, final, faulted, repairVars, candidateVars, evaluationVars>>

\* Variant of the next definition: the last record speaks for the run.
FinalStatusOfLast(rs) ==
    IF rs[Len(rs)] = "DEGRADED" THEN "COMPLETED_WITH_ERRORS"
    ELSE IF rs[Len(rs)] = "FALLBACK" THEN "COMPLETED_WITH_FALLBACKS" ELSE "COMPLETED"

\* _autoresearch_final_status.
FinalStatus(rs) ==
    LET statuses == {rs[i] : i \in DOMAIN rs}
    IN  IF "DEGRADED" \in statuses THEN "COMPLETED_WITH_ERRORS"
        ELSE IF "FALLBACK" \in statuses THEN "COMPLETED_WITH_FALLBACKS"
        ELSE "COMPLETED"

FinishRun ==
    /\ pc = "closing"
    /\ pc' = "done"
    /\ final' = FinalStatus(records)
    /\ UNCHANGED <<allowed, generation, valid, records, faulted,
                   repairVars, candidateVars, evaluationVars>>

\* The outer handler: finish_run("FAILED"), and the exception is raised again.
AbortRun ==
    /\ pc = "aborting"
    /\ pc' = "failed"
    /\ final' = "FAILED"
    /\ UNCHANGED <<allowed, generation, valid, records, faulted,
                   repairVars, candidateVars, evaluationVars>>

\* An EvidenceIntegrityError, or an error of the context, of a status report
\* or of the feature proposals outside the inner handlers, ends the run.
Faults ==
    /\ pc \in {"generation", "propose", "repair", "evaluate", "evaluationRepair",
               "fallback", "record", "closing"}
    /\ pc' = "aborting"
    /\ faulted' = TRUE
    /\ UNCHANGED <<allowed, generation, valid, records, final,
                   repairVars, candidateVars, evaluationVars>>

\* finish_run raises, or the report after it: nothing handles that.
EndFails ==
    /\ pc \in {"closing", "aborting"}
    /\ pc' = "failed"
    /\ faulted' = TRUE
    /\ UNCHANGED <<allowed, generation, valid, records, final,
                   repairVars, candidateVars, evaluationVars>>

Work ==
    \/ StartGeneration \/ Propose \/ ProposalFails
    \/ RepairsExhausted \/ SkipDuplicate \/ RepairUnavailable \/ RepairRaises
    \/ RepairFails \/ RepairSucceeds
    \/ Evaluate \/ EvaluationRepairsEnd \/ EvaluationRepairUnavailable
    \/ EvaluationRepairRaises \/ EvaluationRepairReturns \/ Fallback
    \/ RecordGeneration \/ FinishRun \/ AbortRun

Next == Work \/ Faults \/ EndFails

Spec == Init /\ [][Next]_vars

\* Provider calls have a timeout and evaluations are finite, so the steps of the
\* loop are taken while the process lives.  Nothing needs to fail.
LiveSpec == Spec /\ WF_vars(Work)

-----------------------------------------------------------------------------
(* Properties *)

\* One generation costs one repair call and three evaluations at most, however
\* large intent_repair_attempts is and whatever the provider answers: every
\* payload that a second call could be about has been marked as attempted.
BoundedWork == calls <= 1 /\ evals <= calls + 2

\* The record of a generation says what was evaluated.  PROPOSED and REPAIRED:
\* the recorded intent itself, which preflight accepted for this parent;
\* FALLBACK: the unchanged parent; DEGRADED: nothing, and only after the
\* fallback failed.  In particular the operations of an intent that was given
\* up are never evaluated under the label of another one.
RecordIsHonest ==
    pc = "record" =>
        /\ evaluation = Nothing => status = "FALLBACK"
        /\ evaluation \in Payload =>
               status # "FALLBACK" /\ evaluation = intent /\ evaluation \in valid
        /\ evaluation = Parent => status = "FALLBACK"

\* A run that reports COMPLETED evaluated in every generation a candidate of
\* that generation, and one that reports any COMPLETED status has processed
\* all generations that were requested.
FinalIsHonest ==
    final \in {"COMPLETED", "COMPLETED_WITH_FALLBACKS", "COMPLETED_WITH_ERRORS"} =>
        /\ Len(records) = Generations
        /\ final = "COMPLETED" =>
               \A i \in DOMAIN records : records[i] \in {"COMPLETED", "REPAIRED"}
        /\ final # "COMPLETED_WITH_ERRORS" =>
               \A i \in DOMAIN records : records[i] # "DEGRADED"

\* The repair and evaluation loops of every generation end, so the run does.
RunSettles == <>(pc \in {"done", "failed"})

\* What README.md says of /research: errors of single generations do not stop
\* it.  Only its own journal or status files can.
OnlyFaultsAbort == pc = "aborting" => faulted
=============================================================================
