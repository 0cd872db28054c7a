----------------------------- MODULE EvidenceLog -----------------------------
(***************************************************************************)
(* The rules of the evidence journal (memory/evidence_store.py), as        *)
(* operators on a sequence of events: which event an append may add, when  *)
(* an append is the harmless resend of an event already there, and what    *)
(* the readers of the journal (memory/research_evidence.py) take for       *)
(* granted about it.  Nothing here is stateful; EvidenceStore and          *)
(* EvidenceSession give the journal its actors.                            *)
(*                                                                         *)
(* An event is a row of the table `events'.  Its payload is opaque except  *)
(* for the run it belongs to: the shape checks of _validate are the set    *)
(* WellFormed, and the checksum is equality of rows.                       *)
(***************************************************************************)
EXTENDS Naturals, Sequences, Functions

CONSTANTS Id,          \* event identities (`run:...', `attempt:...', ...)
          Run,         \* research run identities
          Payload,     \* what the rest of a payload says
          WellFormed   \* the events whose shape _validate accepts

Kind == {"run", "manifest", "attempt", "generation", "end"}

Event == [id : Id, kind : Kind, run : Run, payload : Payload]

ASSUME WellFormedAssumption == WellFormed \subseteq Event

-----------------------------------------------------------------------------
Stored(log) == Range(log)

Related(log, r) == {e \in Stored(log) : e.run = r}

Registered(log, r) == \E e \in Related(log, r) : e.kind = "run"

Closed(log, r) == \E e \in Related(log, r) : e.kind = "end"

(***************************************************************************)
(* EvidenceStore.append inside its BEGIN IMMEDIATE transaction.  The       *)
(* identity is looked up before the shape is checked, and the shape before *)
(* the run's history.                                                      *)
(***************************************************************************)
Taken(log, e) == \E x \in Stored(log) : x.id = e.id

\* Variant of the next definition: the stored content is not compared.
ResentById(log, e) == Taken(log, e)

\* The same row again: append returns without writing.
Resent(log, e) == \E x \in Stored(log) : x.id = e.id /\ x = e

\* Variants of the next definition, each without one of its checks.
AdmitsUnregistered(log, e) ==
    /\ ~Taken(log, e) /\ e \in WellFormed /\ ~Closed(log, e.run)
    /\ e.kind \in {"run", "manifest"} =>
           \A x \in Related(log, e.run) : x.kind # e.kind

AdmitsClosed(log, e) ==
    /\ ~Taken(log, e) /\ e \in WellFormed
    /\ e.kind # "run" => Registered(log, e.run)
    /\ e.kind \in {"run", "manifest"} =>
           \A x \in Related(log, e.run) : x.kind # e.kind

AdmitsManifests(log, e) ==
    /\ ~Taken(log, e) /\ e \in WellFormed /\ ~Closed(log, e.run)
    /\ e.kind = "run" <=> ~Registered(log, e.run)

Admits(log, e) ==
    /\ ~Taken(log, e)
    /\ e \in WellFormed
    /\ ~Closed(log, e.run)
    /\ e.kind # "run" => Registered(log, e.run)
    /\ e.kind \in {"run", "manifest"} =>
           \A x \in Related(log, e.run) : x.kind # e.kind

\* Every other call raises EvidenceIntegrityError and rolls back.
Refuses(log, e) == ~Resent(log, e) /\ ~Admits(log, e)

-----------------------------------------------------------------------------
(***************************************************************************)
(* What every reader of the journal checks before it summarises a run:     *)
(* research_evidence (duplicate run, orphan evidence) and the counting     *)
(* checks of _run_summary (more than one manifest or end).                 *)
(***************************************************************************)
NoDuplicateRun(log) ==
    \A i, j \in DOMAIN log :
        log[i].kind = "run" /\ log[j].kind = "run" /\ log[i].run = log[j].run => i = j

NoOrphan(log) == \A e \in Stored(log) : Registered(log, e.run)

AtMostOne(log, k) ==
    \A i, j \in DOMAIN log :
        log[i].kind = k /\ log[j].kind = k /\ log[i].run = log[j].run => i = j

Readable(log) ==
    /\ NoDuplicateRun(log)
    /\ NoOrphan(log)
    /\ AtMostOne(log, "manifest")
    /\ AtMostOne(log, "end")
=============================================================================
