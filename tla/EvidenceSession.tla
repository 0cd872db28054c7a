--------------------------- MODULE EvidenceSession ---------------------------
(***************************************************************************)
(* Research runs that share one state directory: the sessions of           *)
(* runtime/evidence_session.py, the evaluation of                          *)
(* orchestration/evaluation_runner.py, the manifest of                     *)
(* orchestration/evidence.py, the Knowledge projection of                  *)
(* memory/evidence_knowledge.py and the readers of                         *)
(* memory/research_evidence.py.                                            *)
(*                                                                         *)
(* A run is one process.  Automatic runs are run_autoresearch, Repeated    *)
(* runs run_repeated_evaluation, Standalone runs one run_local_evaluation  *)
(* without a run id.  A process can be killed between any two steps, the   *)
(* input files can change at any time, and a write to the store or to any  *)
(* other file can fail at any time.  Runs outside the group that shares    *)
(* the directory count as dead.                                            *)
(***************************************************************************)
EXTENDS Naturals, Sequences, SequencesExt

CONSTANTS Automatic, Repeated, Standalone,   \* the runs of each kind
          Together,      \* bound: the sets of runs that share a state directory
          Requested,     \* [Run -> requested_generations]
          Condition,     \* digests of the source and data an evaluation reads
          Outcomes,      \* the funnels an evaluation may produce
          MaxTries       \* evaluations of one generation: candidate, repair, fallback

Run == Automatic \cup Repeated \cup Standalone
Loop == Automatic \cup Repeated

Verdict == {"SURVIVOR", "FRONTIER", "NEAR_MISS", "REJECT"}

ASSUME SessionAssumption ==
    /\ Together \subseteq SUBSET Run
    /\ Requested \in [Run -> Nat \ {0}]
    /\ \A r \in Standalone : Requested[r] = 1
    /\ MaxTries \in Nat \ {0, 1}
    /\ Outcomes \subseteq Seq(Verdict) \ {<<>>}

Free == "free"

ASSUME FreeAssumption == Free \notin Run

AttemptId == Run \X Nat
NoAttempt == <<>>
Candidate == [status : Verdict, data : Condition]

VARIABLES journal,     \* the rows of evidence.sqlite
          knowledge,   \* the entries of knowledge.json, oldest first
          rows,        \* the attempts with rows in test-records.jsonl
          lock,        \* the run inside sync_knowledge's transaction, or Free
          files,       \* what freeze_manifest would find on disk now
          proc,        \* [Run -> the state of the process; injected: the loop
                       \* was given an evaluator of its caller's own]
          raised,      \* history: attempts whose evaluation raised
          faulted      \* history: runs whose store or status file failed

vars == <<journal, knowledge, rows, lock, files, proc, raised, faulted>>

-----------------------------------------------------------------------------
(* Events *)

Id == {"run", "manifest", "end"} \X Run
      \cup {"attempt"} \X AttemptId
      \cup {"generation"} \X Run \X Nat

\* _validate: the fields of each kind and their types.
ShapeOf(k) ==
    CASE k = "run"        -> [requested : Nat \ {0}]
      [] k = "manifest"   -> [key : Condition]
      [] k = "attempt"    -> [attempt : AttemptId, generation : Nat \ {0},
                              status : {"COMPLETED", "FAILED"},
                              candidates : Seq(Candidate)]
      [] k = "generation" -> [generation : Nat \ {0}, status : {"COMPLETED", "DEGRADED"},
                              attempt : AttemptId \cup {NoAttempt}]
      [] k = "end"        -> [status : {"COMPLETED", "FAILED"}]

Kinds == {"run", "manifest", "attempt", "generation", "end"}

Shapes(k) == [id : Id, kind : {k}, run : Run, payload : ShapeOf(k)]

Shaped == Shapes("run") \cup Shapes("manifest") \cup Shapes("attempt")
             \cup Shapes("generation") \cup Shapes("end")

Log == INSTANCE EvidenceLog
           WITH Payload <- UNION {ShapeOf(k) : k \in Kinds}, WellFormed <- Shaped

RunEvent(r) ==
    [id |-> <<"run", r>>, kind |-> "run", run |-> r,
     payload |-> [requested |-> Requested[r]]]

ManifestEvent(r, c) ==
    [id |-> <<"manifest", r>>, kind |-> "manifest", run |-> r, payload |-> [key |-> c]]

AttemptEvent(r, a, g, s, cs) ==
    [id |-> <<"attempt", a>>, kind |-> "attempt", run |-> r,
     payload |-> [attempt |-> a, generation |-> g, status |-> s, candidates |-> cs]]

GenerationEvent(r, g, s, a) ==
    [id |-> <<"generation", r, g>>, kind |-> "generation", run |-> r,
     payload |-> [generation |-> g, status |-> s, attempt |-> a]]

EndEvent(r, s) ==
    [id |-> <<"end", r>>, kind |-> "end", run |-> r, payload |-> [status |-> s]]

OfKind(r, k) == {e \in Log!Related(journal, r) : e.kind = k}

\* candidate_evidence: each candidate names the data it was measured on.
Measured(outcome, c) == [i \in DOMAIN outcome |-> [status |-> outcome[i], data |-> c]]

-----------------------------------------------------------------------------
(* Projection: what sync_knowledge makes of a journal. *)

Category(verdict) ==
    CASE verdict = "REJECT" -> "known_bad"
      [] verdict = "NEAR_MISS" -> "unexplored"
      [] verdict \in {"SURVIVOR", "FRONTIER"} -> "known_good"

\* An entry made by an earlier version, with no experiment_id.
Legacy == [experiment |-> <<NoAttempt, 0>>, category |-> "known_bad"]

Experiments(e) ==
    IF e.kind # "attempt" THEN <<>>
    ELSE [i \in DOMAIN e.payload.candidates |->
             [experiment |-> <<e.payload.attempt, i>>,
              category |-> Category(e.payload.candidates[i].status)]]

Projection(log) == FlattenSeq([i \in DOMAIN log |-> Experiments(log[i])])

\* Variants of the next definition: every sync adds every experiment again; the
\* file is rebuilt from the journal alone.
MergeAgain(entries, log) == entries \o Projection(log)
MergeAfresh(entries, log) == Projection(log)

\* Each experiment is added once: not when it has an entry in the file, nor
\* when it got one earlier in the same walk over the journal.
AppendNew(entries, found) ==
    LET New(n) == /\ \A i \in DOMAIN entries : entries[i].experiment # found[n].experiment
                  /\ \A m \in 1..(n - 1) : found[m].experiment # found[n].experiment
        merged[n \in 0..Len(found)] ==
            IF n = 0 THEN entries
            ELSE IF New(n) THEN Append(merged[n - 1], found[n]) ELSE merged[n - 1]
    IN  merged[Len(found)]

Merge(entries, log) == AppendNew(entries, Projection(log))

-----------------------------------------------------------------------------
(* Readers: _run_summary of one registered run. *)

SummaryAccepts(r) ==
    LET finals == OfKind(r, "generation")
        ends == OfKind(r, "end")
    IN  /\ \A e, f \in finals : e.payload.generation = f.payload.generation => e = f
        /\ \A e \in finals : e.payload.attempt # NoAttempt =>
               \E a \in OfKind(r, "attempt") :
                   /\ a.payload.attempt = e.payload.attempt
                   /\ a.payload.generation = e.payload.generation
                   /\ a.payload.status = "COMPLETED"
        /\ Cardinality(finals) <= Requested[r]
        /\ \A e \in ends : e.payload.status = "COMPLETED" =>
               Cardinality(finals) = Requested[r]

-----------------------------------------------------------------------------
(* Processes *)

Steps == {"new", "registering", "starting", "context", "contextSync", "ready",
          "freezing", "measuring", "projecting", "syncing", "filing", "failing",
          "evaluated", "retrying", "reporting", "closing", "aborting",
          "done", "raised", "dead"}

Over == {"done", "raised", "dead"}

Entry == [experiment : (AttemptId \cup {NoAttempt}) \X Nat,
          category : {"known_good", "known_bad", "unexplored"}]

TypeOK ==
    /\ journal \in Seq(Shaped)
    /\ knowledge \in Seq(Entry)
    /\ rows \subseteq AttemptId
    /\ lock \in Run \cup {Free}
    /\ files \in Condition
    /\ proc \in [Run -> [pc : Steps, gen : Nat, tries : 0..MaxTries, atts : Nat,
                         cond : Condition, view : Seq(Entry), injected : BOOLEAN]]
    /\ raised \subseteq AttemptId
    /\ faulted \subseteq Run

Init ==
    /\ journal = <<>>
    /\ knowledge = <<Legacy>>
    /\ rows = {}
    /\ lock = Free
    /\ files \in Condition
    /\ \E group \in Together : \E given \in SUBSET (Loop \cap group) :
           proc = [r \in Run |-> [pc |-> IF r \in group THEN "new" ELSE "dead",
                                  gen |-> 0, tries |-> 0, atts |-> 0,
                                  cond |-> CHOOSE c \in Condition : TRUE, view |-> <<>>,
                                  injected |-> r \in given]]
    /\ raised = {}
    /\ faulted = {}

At(r, s) == proc[r].pc = s
In(r, S) == proc[r].pc \in S
Attempt(r) == <<r, proc[r].atts>>
Goto(r, s) == proc' = [proc EXCEPT ![r].pc = s]

\* Variant: a refused attempt record gets past the outer handler.
FailToPastHandler(r) ==
    IF r \in Loop /\ ~In(r, {"registering", "closing", "aborting", "failing"})
    THEN "aborting" ELSE "raised"

\* Where an EvidenceIntegrityError takes the process: the outer handler of a
\* loop closes the run; a standalone evaluation has no handler, and nor have
\* the constructor of the session and finish_run outside the loop.
FailTo(r) ==
    IF r \in Loop /\ ~In(r, {"registering", "closing", "aborting"})
    THEN "aborting" ELSE "raised"

\* Variant: appending does not wait for a projection to finish.
PutsUnlocked(r, e, s) ==
    /\ \/ Log!Admits(journal, e) /\ journal' = Append(journal, e) /\ Goto(r, s)
       \/ Log!Resent(journal, e) /\ UNCHANGED journal /\ Goto(r, s)
       \/ Log!Refuses(journal, e) /\ UNCHANGED journal /\ Goto(r, FailTo(r))
    /\ UNCHANGED <<knowledge, rows, lock, files, raised, faulted>>

\* EvidenceStore.append(e) by r, which goes on to s: the row is new, or it is
\* there already, or the event is refused.
Puts(r, e, s) ==
    /\ lock = Free
    /\ \/ Log!Admits(journal, e) /\ journal' = Append(journal, e) /\ Goto(r, s)
       \/ Log!Resent(journal, e) /\ UNCHANGED journal /\ Goto(r, s)
       \/ Log!Refuses(journal, e) /\ UNCHANGED journal /\ Goto(r, FailTo(r))
    /\ UNCHANGED <<knowledge, rows, lock, files, raised, faulted>>

-----------------------------------------------------------------------------
(* The life of a run *)

\* The inputs are read and resolved before the run is registered.
Begin(r) ==
    /\ At(r, "new")
    /\ proc' = [proc EXCEPT ![r].pc = "registering", ![r].gen = 1,
                            ![r].atts = IF r \in Standalone THEN 1 ELSE 0,
                            ![r].cond = files]
    /\ UNCHANGED <<journal, knowledge, rows, lock, files, raised, faulted>>

Register(r) ==
    /\ At(r, "registering")
    /\ Puts(r, RunEvent(r), IF r \in Standalone THEN "freezing" ELSE "starting")

\* The first generation, or the next one: run_autoresearch builds a context.
Ready(r) == IF r \in Automatic THEN "context" ELSE "ready"

\* The first status report is written before the try block.
ReportStart(r) ==
    /\ At(r, "starting")
    /\ Goto(r, Ready(r))
    /\ UNCHANGED <<journal, knowledge, rows, lock, files, raised, faulted>>

StartEvaluation(r) ==
    /\ At(r, "ready")
    /\ proc' = [proc EXCEPT ![r].pc = "freezing", ![r].tries = @ + 1,
                            ![r].atts = @ + 1, ![r].cond = files]
    /\ UNCHANGED <<journal, knowledge, rows, lock, files, raised, faulted>>

\* Variant: a run that has a manifest is not checked against it again.
FreezeOnce(r) ==
    /\ At(r, "freezing") /\ ~proc[r].injected
    /\ IF OfKind(r, "manifest") = {}
       THEN Puts(r, ManifestEvent(r, proc[r].cond), "measuring")
       ELSE /\ Goto(r, "measuring")
            /\ UNCHANGED <<journal, knowledge, rows, lock, files, raised, faulted>>

\* freeze_manifest: one event identity per run, so a second evaluation under
\* the same conditions is a resend and one under others a conflict.
Freeze(r) ==
    /\ At(r, "freezing") /\ ~proc[r].injected
    /\ Puts(r, ManifestEvent(r, proc[r].cond), "measuring")

RecordCompleted(r) ==
    /\ At(r, "measuring")
    /\ \E outcome \in Outcomes :
           Puts(r, AttemptEvent(r, Attempt(r), proc[r].gen, "COMPLETED",
                                Measured(outcome, proc[r].cond)), "projecting")

\* EvidenceSession.evaluate for an evaluator that left no attempt event.
RecordUnverified(r) ==
    /\ At(r, "freezing") /\ proc[r].injected
    /\ Puts(r, AttemptEvent(r, Attempt(r), proc[r].gen, "COMPLETED", <<>>), "evaluated")

\* sync_knowledge: BEGIN IMMEDIATE, then the journal and knowledge.json are
\* read, and the merged object replaces the file before the lock is released.
SyncBegin(r) ==
    /\ In(r, {"context", "projecting"})
    /\ lock = Free
    /\ lock' = r
    /\ proc' = [proc EXCEPT ![r].pc = IF @ = "context" THEN "contextSync" ELSE "syncing",
                            ![r].view = Merge(knowledge, journal)]
    /\ UNCHANGED <<journal, knowledge, rows, files, raised, faulted>>

SyncReplace(r) ==
    /\ In(r, {"contextSync", "syncing"})
    /\ knowledge' = proc[r].view
    /\ lock' = Free
    /\ proc' = [proc EXCEPT ![r].pc = IF @ = "contextSync" THEN "ready" ELSE "filing",
                            ![r].view = <<>>]
    /\ UNCHANGED <<journal, rows, files, raised, faulted>>

\* append_funnel_results.
FileRows(r) ==
    /\ At(r, "filing")
    /\ rows' = rows \cup {Attempt(r)}
    /\ Goto(r, "evaluated")
    /\ UNCHANGED <<journal, knowledge, lock, files, raised, faulted>>

\* Anything but an integrity error out of the evaluator: bad input, a failed
\* pipeline, or an OSError of test-records.jsonl, also after some of its rows.
EvaluationRaises(r) ==
    /\ In(r, {"freezing", "measuring", "filing"})
    /\ raised' = raised \cup {Attempt(r)}
    /\ \/ UNCHANGED rows
       \/ At(r, "filing") /\ rows' = rows \cup {Attempt(r)}
    /\ Goto(r, IF r \in Loop THEN "failing" ELSE "raised")
    /\ UNCHANGED <<journal, knowledge, lock, files, faulted>>

\* EvidenceSession.evaluate: the attempt is recorded once more, as FAILED.
RecordFailed(r) ==
    /\ At(r, "failing")
    /\ Puts(r, AttemptEvent(r, Attempt(r), proc[r].gen, "FAILED", <<>>), "retrying")

\* run_autoresearch evaluates a repaired candidate or the parent instead.
Retry(r) ==
    /\ At(r, "retrying") /\ r \in Automatic /\ proc[r].tries < MaxTries
    /\ Goto(r, "ready")
    /\ UNCHANGED <<journal, knowledge, rows, lock, files, raised, faulted>>

\* Variant: a DEGRADED generation names the attempt that failed last.
FinishDegradedByLast(r) ==
    /\ At(r, "retrying") /\ r \in Automatic /\ proc[r].tries >= 2
    /\ Puts(r, GenerationEvent(r, proc[r].gen, "DEGRADED", Attempt(r)), "reporting")

\* The parent failed as well: the generation is DEGRADED and has no attempt.
FinishDegraded(r) ==
    /\ At(r, "retrying") /\ r \in Automatic /\ proc[r].tries >= 2
    /\ Puts(r, GenerationEvent(r, proc[r].gen, "DEGRADED", NoAttempt), "reporting")

FinishGeneration(r) ==
    /\ At(r, "evaluated")
    /\ Puts(r, GenerationEvent(r, proc[r].gen, "COMPLETED", Attempt(r)),
            IF r \in Standalone THEN "closing" ELSE "reporting")

NextGeneration(r) ==
    /\ At(r, "reporting")
    /\ proc' = IF proc[r].gen = Requested[r]
               THEN [proc EXCEPT ![r].pc = "closing"]
               ELSE [proc EXCEPT ![r].pc = Ready(r), ![r].gen = @ + 1, ![r].tries = 0]
    /\ UNCHANGED <<journal, knowledge, rows, lock, files, raised, faulted>>

Close(r) ==
    /\ At(r, "closing")
    /\ Puts(r, EndEvent(r, "COMPLETED"), "done")

Abort(r) ==
    /\ At(r, "aborting")
    /\ Puts(r, EndEvent(r, "FAILED"), "raised")

-----------------------------------------------------------------------------
(* Failures *)

\* run_repeated_evaluation has no second try, and in both loops an exception
\* of a status report, the context or the proposal ends the run.
GiveUp(r) ==
    /\ r \in Loop
    /\ In(r, {"context", "ready", "retrying", "reporting"})
    /\ Goto(r, "aborting")
    /\ UNCHANGED <<journal, knowledge, rows, lock, files, raised, faulted>>

\* Variant: a failing sync_knowledge leaves its transaction open.
StoreFailsLocking(r) ==
    /\ In(r, {"registering", "freezing", "measuring", "context", "contextSync",
              "projecting", "syncing", "failing", "evaluated", "closing", "aborting"})
    /\ Goto(r, FailTo(r))
    /\ faulted' = faulted \cup {r}
    /\ UNCHANGED <<journal, knowledge, rows, lock, files, raised>>

\* sqlite3.Error in append, events or sync_knowledge (lock timeout, full
\* disk), or an OSError of sync_knowledge: rolled back and raised.
StoreFails(r) ==
    /\ In(r, {"registering", "freezing", "measuring", "context", "contextSync",
              "projecting", "syncing", "failing", "evaluated", "closing", "aborting"})
    /\ Goto(r, FailTo(r))
    /\ lock' = IF lock = r THEN Free ELSE lock
    /\ faulted' = faulted \cup {r}
    /\ UNCHANGED <<journal, knowledge, rows, files, raised>>

StartFails(r) ==
    /\ In(r, {"new", "starting"})
    /\ Goto(r, "raised")
    /\ faulted' = faulted \cup {r}
    /\ UNCHANGED <<journal, knowledge, rows, lock, files, raised>>

\* The process is killed; SQLite drops its lock.
Crash(r) ==
    /\ ~In(r, Over)
    /\ proc' = [proc EXCEPT ![r].pc = "dead", ![r].view = <<>>]
    /\ lock' = IF lock = r THEN Free ELSE lock
    /\ UNCHANGED <<journal, knowledge, rows, files, raised, faulted>>

\* Somebody edits the strategy or the data.
FilesChange ==
    /\ files' \in Condition \ {files}
    /\ UNCHANGED <<journal, knowledge, rows, lock, proc, raised, faulted>>

Work(r) ==
    \/ Begin(r) \/ Register(r) \/ ReportStart(r)
    \/ StartEvaluation(r) \/ Freeze(r) \/ RecordCompleted(r) \/ RecordUnverified(r)
    \/ SyncBegin(r) \/ SyncReplace(r) \/ FileRows(r)
    \/ EvaluationRaises(r) \/ RecordFailed(r) \/ Retry(r)
    \/ FinishDegraded(r) \/ FinishGeneration(r) \/ NextGeneration(r)
    \/ Close(r) \/ Abort(r)
    \/ GiveUp(r)

Next ==
    \/ \E r \in Run : Work(r) \/ StoreFails(r) \/ StartFails(r) \/ Crash(r)
    \/ FilesChange

Spec == Init /\ [][Next]_vars

\* A process that is not killed keeps going: its evaluations are finite and its
\* writes are done once the store's lock is free.  Nothing needs to fail.
LiveSpec == Spec /\ \A r \in Run : WF_vars(Work(r))

-----------------------------------------------------------------------------
(* Properties *)

Registered(r) == Log!Registered(journal, r)

Attempts(s) == {e.payload.attempt : e \in {x \in Log!Stored(journal) :
                                              x.kind = "attempt" /\ x.payload.status = s}}

Known == {knowledge[i].experiment : i \in DOMAIN knowledge}
Projected(log) == {Projection(log)[i].experiment : i \in DOMAIN Projection(log)}

\* Wherever the runs were killed or failed, the journal they leave can be
\* read: research_evidence finds no duplicate run and no orphan, and
\* _run_summary raises for none of the runs.  In particular a run that ends
\* COMPLETED has one final record for every requested generation.
ReadersAccept ==
    /\ Log!Readable(journal)
    /\ \A r \in Run : Registered(r) => SummaryAccepts(r)

\* All candidates recorded for a run were measured under the conditions its
\* manifest froze, although the files may change between two evaluations:
\* compare_runs may take the one comparison_key for the whole run.
OneConditionPerRun ==
    \A e \in Log!Stored(journal) :
        e.kind = "attempt" =>
            \A i \in DOMAIN e.payload.candidates :
                \E m \in OfKind(e.run, "manifest") :
                    m.payload.key = e.payload.candidates[i].data

\* The journal comes first: every entry of knowledge.json but the legacy ones,
\* and every row of test-records.jsonl, is a copy of committed evidence, and no
\* experiment is counted twice however often and by whom it is projected.
EvidenceBeforeCopies ==
    /\ Known \subseteq Projected(journal) \cup {Legacy.experiment}
    /\ \A i, j \in DOMAIN knowledge :
           knowledge[i].experiment = knowledge[j].experiment => i = j
    /\ rows \subseteq Attempts("COMPLETED")

\* A projection that is written is complete: it also holds the candidates of
\* runs killed between their commit and their own sync_knowledge, and no event
\* slips in between reading the journal and replacing the file.
ProjectionIsComplete ==
    [][\A r \in Run : SyncReplace(r) =>
           Projected(journal) \subseteq Known']_vars

\* No sync_knowledge loses or reorders what another one wrote.
KnowledgeGrows == [][IsPrefix(knowledge, knowledge')]_vars

\* A loop that is over, and whose process was neither killed nor cut off from
\* its files, has closed its run: a refused event (changed conditions, an
\* attempt recorded twice) never leaves a run open.
LoopsClose ==
    \A r \in Loop :
        In(r, {"done", "raised"}) /\ r \notin faulted =>
            Log!Closed(journal, r)

\* Every run comes to an end: however its evaluations, retries, syncs and
\* reports fail and whatever the other runs do, its process returns, raises or
\* is killed, and it never waits for the store's lock for good.
EveryRunSettles == \A r \in Run : <>In(r, Over)

\* What docs/operations/research-evidence.md says of failed evaluations: their
\* attempts are stored FAILED, with an empty list of candidates.
FailedAttemptsAreEmpty ==
    \A e \in Log!Stored(journal) :
        e.kind = "attempt" /\ e.payload.attempt \in raised =>
            e.payload.status = "FAILED" /\ e.payload.candidates = <<>>
=============================================================================
