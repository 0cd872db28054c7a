------------------------- MODULE EvidenceStore_proofs -------------------------
(***************************************************************************)
(* Proofs about the evidence journal, for any number of clients, runs,     *)
(* identities and payloads.  The inductive invariant adds two facts to the *)
(* properties: rows have distinct identities, and a reply "accepted" that  *)
(* has not been delivered yet already speaks of a stored row.              *)
(***************************************************************************)
EXTENDS EvidenceStore, TLAPS

DistinctIds == \A e, f \in Stored(journal) : e.id = f.id => e = f

RepliedDurable ==
    \A c \in Client : reply[c] = "accepted" => call[c] \in Stored(journal)

IInv ==
    /\ TypeOK
    /\ AlwaysReadable
    /\ DistinctIds
    /\ RepliedDurable
    /\ AckedDurable

-----------------------------------------------------------------------------
\* Appending an event adds that event, and nothing else, to the stored rows.
LEMMA StoredAppend ==
    ASSUME NEW log \in Seq(Event), NEW e \in Event
    PROVE  /\ Append(log, e) \in Seq(Event)
           /\ Len(Append(log, e)) = Len(log) + 1
           /\ DOMAIN Append(log, e) = 1..(Len(log) + 1)
           /\ \A i \in 1..Len(log) : Append(log, e)[i] = log[i]
           /\ Append(log, e)[Len(log) + 1] = e
           /\ Stored(Append(log, e)) = Stored(log) \cup {e}
<1>1. /\ Append(log, e) \in Seq(Event)
      /\ Len(Append(log, e)) = Len(log) + 1
      /\ DOMAIN Append(log, e) = 1..(Len(log) + 1)
      /\ DOMAIN log = 1..Len(log)
      /\ Len(log) \in Nat
      /\ \A i \in 1..Len(log) : Append(log, e)[i] = log[i]
      /\ Append(log, e)[Len(log) + 1] = e
  OBVIOUS
<1>2. Stored(Append(log, e)) \subseteq Stored(log) \cup {e}
  <2>1. SUFFICES ASSUME NEW i \in 1..(Len(log) + 1)
                 PROVE  Append(log, e)[i] \in Stored(log) \cup {e}
    BY <1>1 DEF Stored, Range
  <2>2. i \in 1..Len(log) \/ i = Len(log) + 1
    BY <1>1
  <2>3. QED
    BY <2>2, <1>1 DEF Stored, Range
<1>3. Stored(log) \cup {e} \subseteq Stored(Append(log, e))
  <2>1. 1..Len(log) \subseteq 1..(Len(log) + 1) /\ Len(log) + 1 \in 1..(Len(log) + 1)
    BY <1>1
  <2>2. QED
    BY <2>1, <1>1 DEF Stored, Range
<1>4. QED
  BY <1>1, <1>2, <1>3

\* The rows of a journal are events.
LEMMA StoredType ==
    ASSUME NEW log \in Seq(Event)
    PROVE  Stored(log) \subseteq Event
BY DEF Stored, Range

\* An admitted event leaves the journal readable: append's checks imply each
\* of the readers' checks one row later.
LEMMA AdmitsKeepsReadable ==
    ASSUME NEW log \in Seq(Event), NEW e \in Event,
           Admits(log, e), Readable(log)
    PROVE  Readable(Append(log, e))
<1> DEFINE new == Append(log, e)
<1>1. /\ DOMAIN log = 1..Len(log) /\ Len(log) \in Nat
      /\ DOMAIN new = 1..(Len(log) + 1)
      /\ \A i \in 1..Len(log) : new[i] = log[i] /\ log[i] \in Stored(log)
      /\ new[Len(log) + 1] = e
      /\ Stored(new) = Stored(log) \cup {e}
  BY StoredAppend DEF Stored, Range
<1>2. ASSUME NEW k \in {"run", "manifest", "end"}, AtMostOne(log, k)
      PROVE  AtMostOne(new, k)
  <2>1. SUFFICES ASSUME NEW i \in DOMAIN new, NEW j \in DOMAIN new,
                        new[i].kind = k, new[j].kind = k, new[i].run = new[j].run
                 PROVE  i = j
    BY DEF AtMostOne
  <2>2. e.kind = k => \A x \in Related(log, e.run) : x.kind # k
    BY <1>2 DEF Admits, Closed
  <2>3. CASE i \in 1..Len(log) /\ j \in 1..Len(log)
    BY <2>1, <2>3, <1>1, <1>2 DEF AtMostOne
  <2>4. CASE i \in 1..Len(log) /\ j = Len(log) + 1
    BY <2>1, <2>2, <2>4, <1>1 DEF Related
  <2>5. CASE i = Len(log) + 1 /\ j \in 1..Len(log)
    BY <2>1, <2>2, <2>5, <1>1 DEF Related
  <2>6. QED
    BY <2>1, <2>3, <2>4, <2>5, <1>1
<1>3. NoDuplicateRun(new)
  BY <1>2 DEF Readable, NoDuplicateRun, AtMostOne
<1>4. NoOrphan(new)
  <2>1. \A r \in Run : Registered(log, r) => Registered(new, r)
    BY <1>1 DEF Registered, Related
  <2>2. Registered(new, e.run)
    <3>1. e.kind = "run" => e \in Related(new, e.run)
      BY <1>1 DEF Related
    <3>2. QED
      BY <2>1, <3>1 DEF Admits, Registered, Event
  <2>3. \A x \in Stored(log) : x.run \in Run
    BY StoredType DEF Event
  <2>4. QED
    BY <1>1, <2>1, <2>2, <2>3 DEF NoOrphan, Readable
<1>5. QED
  BY <1>2, <1>3, <1>4 DEF Readable

-----------------------------------------------------------------------------
\* The invariant holds of the empty journal.
LEMMA InitIInv == Init => IInv
<1> SUFFICES ASSUME Init PROVE IInv
  OBVIOUS
<1>1. Stored(journal) = {} /\ DOMAIN journal = {} /\ journal \in Seq(Event)
  BY DEF Init, Stored, Range
<1>2. Readable(journal)
  BY <1>1 DEF Readable, NoDuplicateRun, NoOrphan, AtMostOne
<1>3. QED
  BY <1>1, <1>2 DEF Init, IInv, TypeOK, AlwaysReadable, DistinctIds, RepliedDurable,
                    AckedDurable

\* The one step that adds a row keeps the invariant.
LEMMA InsertIInv ==
    ASSUME IInv, NEW c \in Client, Insert(c)
    PROVE  IInv'
<1> DEFINE e == call[c]
<1>1. /\ e \in Event /\ Admits(journal, e) /\ journal \in Seq(Event)
      /\ journal' = Append(journal, e)
      /\ reply' = [reply EXCEPT ![c] = "accepted"]
      /\ UNCHANGED <<call, acked>>
  BY DEF Insert, Pending, IInv, TypeOK
<1>2. journal' \in Seq(Event) /\ Stored(journal') = Stored(journal) \cup {e}
  BY <1>1, StoredAppend
<1>3. TypeOK'
  BY <1>1, <1>2 DEF IInv, TypeOK
<1>4. AlwaysReadable'
  BY <1>1, AdmitsKeepsReadable DEF IInv, AlwaysReadable
<1>5. DistinctIds'
  BY <1>1, <1>2 DEF IInv, DistinctIds, Admits, Taken
<1>6. RepliedDurable'
  BY <1>1, <1>2 DEF IInv, TypeOK, RepliedDurable
<1>7. AckedDurable'
  BY <1>1, <1>2 DEF IInv, AckedDurable
<1>8. QED
  BY <1>3, <1>4, <1>5, <1>6, <1>7 DEF IInv

\* Every other step leaves the journal alone and keeps the invariant.
LEMMA QuietIInv ==
    ASSUME IInv, NEW c \in Client,
           \/ \E e \in Event : Call(c, e)
           \/ Resend(c) \/ Refuse(c) \/ WriteFails(c) \/ Return(c) \/ Crash(c)
    PROVE  IInv'
<1>1. journal' = journal
  BY DEF Call, Resend, Refuse, WriteFails, Return, Crash
<1>2. TypeOK'
  <2>1. CASE \E e \in Event : Call(c, e)
    BY <2>1, <1>1 DEF IInv, TypeOK, Call
  <2>2. CASE Resend(c) \/ Refuse(c) \/ WriteFails(c)
    BY <2>2, <1>1 DEF IInv, TypeOK, Resend, Refuse, WriteFails
  <2>3. CASE Return(c)
    <3>1. reply[c] = "accepted" => call[c] \in Event
      BY StoredType DEF IInv, TypeOK, RepliedDurable
    <3>2. QED
      BY <2>3, <3>1, <1>1 DEF IInv, TypeOK, Return
  <2>4. CASE Crash(c)
    BY <2>4, <1>1 DEF IInv, TypeOK, Crash
  <2>5. QED
    BY <2>1, <2>2, <2>3, <2>4
<1>3. AlwaysReadable' /\ DistinctIds'
  BY <1>1 DEF IInv, AlwaysReadable, DistinctIds
<1>4. RepliedDurable'
  <2>1. CASE \E e \in Event : Call(c, e)
    <3>1. UNCHANGED reply /\ \A d \in Client : d # c => call'[d] = call[d]
      BY <2>1 DEF Call, IInv, TypeOK
    <3>2. reply[c] = "accepted" => FALSE
      BY <2>1, NoCallAssumption, StoredType DEF Call, IInv, TypeOK, RepliedDurable
    <3>3. QED
      BY <1>1, <3>1, <3>2 DEF IInv, RepliedDurable
  <2>2. CASE Resend(c)
    BY <2>2, <1>1 DEF IInv, TypeOK, RepliedDurable, Resend, Resent
  <2>3. CASE Refuse(c) \/ WriteFails(c)
    BY <2>3, <1>1 DEF IInv, TypeOK, RepliedDurable, Refuse, WriteFails
  <2>4. CASE Return(c) \/ Crash(c)
    BY <2>4, <1>1 DEF IInv, TypeOK, RepliedDurable, Return, Crash
  <2>5. QED
    BY <2>1, <2>2, <2>3, <2>4
<1>5. AckedDurable'
  <2>1. acked' \subseteq Stored(journal)
    BY DEF IInv, AckedDurable, RepliedDurable, Call, Resend, Refuse, WriteFails, Return, Crash
  <2>2. QED
    BY <1>1, <2>1 DEF IInv, AckedDurable, DistinctIds
<1>6. QED
  BY <1>2, <1>3, <1>4, <1>5 DEF IInv

\* Every step of the specification keeps the invariant.
LEMMA StepIInv == IInv /\ [Next]_vars => IInv'
<1> SUFFICES ASSUME IInv, [Next]_vars PROVE IInv'
  OBVIOUS
<1>1. CASE Next
  <2>1. PICK c \in Client :
            \/ \E e \in Event : Call(c, e)
            \/ Insert(c) \/ Resend(c) \/ Refuse(c) \/ WriteFails(c) \/ Return(c) \/ Crash(c)
    BY <1>1 DEF Next
  <2>2. QED
    BY <2>1, InsertIInv, QuietIInv
<1>2. CASE UNCHANGED vars
  BY <1>2 DEF vars, IInv, TypeOK, AlwaysReadable, DistinctIds, RepliedDurable, AckedDurable
<1>3. QED
  BY <1>1, <1>2

\* The inductive invariant holds of every behaviour of the store.
THEOREM Invariance == Spec => []IInv
BY InitIInv, StepIInv, PTL DEF Spec

\* Every variable of the store keeps its type.
THEOREM TypeCorrect == Spec => []TypeOK
<1>1. IInv => TypeOK
  BY DEF IInv
<1>2. QED
  BY <1>1, Invariance, PTL

\* Whatever clients append, in whatever order and with whatever crashes, the
\* journal is one that the readers' structural checks accept.
THEOREM Readability == Spec => []AlwaysReadable
<1>1. IInv => AlwaysReadable
  BY DEF IInv
<1>2. QED
  BY <1>1, Invariance, PTL

\* An acknowledged append is durable, and acknowledged appends of one identity
\* agree.
THEOREM Durability == Spec => []AckedDurable
<1>1. IInv => AckedDurable
  BY DEF IInv
<1>2. QED
  BY <1>1, Invariance, PTL

\* No step changes a stored row or adds one to a closed run.
THEOREM RowsAreImmutable == Spec => AppendOnly
<1> DEFINE A == /\ Len(journal') \in {Len(journal), Len(journal) + 1}
                /\ \A i \in 1..Len(journal) : journal'[i] = journal[i]
                /\ \A e \in Stored(journal') \ Stored(journal) : ~Closed(journal, e.run)
<1>1. IInv /\ [Next]_vars => [A]_journal
  <2> SUFFICES ASSUME IInv, Next, journal' # journal PROVE A
    BY DEF vars
  <2>1. PICK c \in Client : Insert(c)
    BY DEF Next, Call, Resend, Refuse, WriteFails, Return, Crash
  <2>2. /\ call[c] \in Event /\ Admits(journal, call[c]) /\ journal \in Seq(Event)
        /\ journal' = Append(journal, call[c])
    BY <2>1 DEF Insert, Pending, IInv, TypeOK
  <2>3. QED
    BY <2>2, StoredAppend DEF Admits
<1>2. QED
  BY <1>1, Invariance, PTL DEF Spec, AppendOnly

-----------------------------------------------------------------------------
(* Refinement: the journal implements the run ledger. *)

\* The empty journal is an empty ledger.
LEMMA LedgerInitial == Init => Ledger!LedgerInit
<1> SUFFICES ASSUME Init PROVE Ledger!LedgerInit
  OBVIOUS
<1>1. Stored(journal) = {}
  BY DEF Init, Stored, Range
<1>2. QED
  BY <1>1 DEF Ledger!LedgerInit, PhaseOf, Closed, Registered, Related

\* Every step is a step of the ledger, or changes nothing the ledger sees.
LEMMA LedgerStep == IInv /\ [Next]_vars => [Ledger!LedgerNext]_Ledger!ledgerVars
<1> DEFINE phaseBar == [r \in Run |-> PhaseOf(r)]
<1> SUFFICES ASSUME IInv, [Next]_vars, journal' # journal
             PROVE  Ledger!LedgerNext
  BY DEF Ledger!ledgerVars, PhaseOf
<1>1. PICK c \in Client : Insert(c)
  BY DEF Next, Call, Resend, Refuse, WriteFails, Return, Crash, vars
<1>2. PICK e \in Event : /\ Admits(journal, e) /\ journal \in Seq(Event)
                        /\ journal' = Append(journal, e)
  BY <1>1 DEF Insert, Pending, IInv, TypeOK
<1>3. Stored(journal') = Stored(journal) \cup {e}
  BY <1>2, StoredAppend
<1>4. \A x \in Stored(journal) : x.id # e.id
  BY <1>2 DEF Admits, Taken
<1>5. \A r \in Run : r # e.run => PhaseOf(r)' = PhaseOf(r)
  BY <1>3 DEF PhaseOf, Closed, Registered, Related
<1>6. CASE e.kind = "run"
  <2>1. PhaseOf(e.run) = "absent" /\ PhaseOf(e.run)' = "open"
    BY <1>2, <1>3, <1>6 DEF Admits, PhaseOf, Closed, Registered, Related
  <2>2. phaseBar' = [phaseBar EXCEPT ![e.run] = "open"]
    BY <1>2, <1>5, <2>1 DEF Event
  <2>3. Ledger!Open(e)
    BY <1>2, <1>3, <1>4, <1>6, <2>1, <2>2 DEF Ledger!Open, Ledger!Fresh, Event
  <2>4. QED
    BY <1>2, <2>3 DEF Ledger!LedgerNext, Ledger!LedgerEvent, Event, Kind
<1>7. CASE e.kind \in {"manifest", "attempt", "generation"}
  <2>1. PhaseOf(e.run) = "open" /\ PhaseOf(e.run)' = "open"
    BY <1>2, <1>3, <1>7 DEF Admits, PhaseOf, Closed, Registered, Related
  <2>2. phaseBar' = phaseBar
    BY <1>5, <2>1
  <2>3. e.kind = "manifest" => \A x \in Stored(journal) : x.kind = "manifest" => x.run # e.run
    BY <1>2 DEF Admits, Related
  <2>4. Ledger!Record(e)
    BY <1>2, <1>3, <1>4, <1>7, <2>1, <2>2, <2>3 DEF Ledger!Record, Ledger!Fresh, Event
  <2>5. QED
    BY <1>2, <2>4 DEF Ledger!LedgerNext, Ledger!LedgerEvent, Event, Kind
<1>8. CASE e.kind = "end"
  <2>1. PhaseOf(e.run) = "open" /\ PhaseOf(e.run)' = "closed"
    BY <1>2, <1>3, <1>8 DEF Admits, PhaseOf, Closed, Registered, Related
  <2>2. phaseBar' = [phaseBar EXCEPT ![e.run] = "closed"]
    BY <1>2, <1>5, <2>1 DEF Event
  <2>3. Ledger!Close(e)
    BY <1>2, <1>3, <1>4, <1>8, <2>1, <2>2 DEF Ledger!Close, Ledger!Fresh, Event
  <2>4. QED
    BY <1>2, <2>3 DEF Ledger!LedgerNext, Ledger!LedgerEvent, Event, Kind
<1>9. QED
  BY <1>2, <1>6, <1>7, <1>8 DEF Event, Kind

\* The journal with its clients is an implementation of the run ledger.
THEOREM Refinement == Spec => ImplementsLedger
<1>1. QED
  BY LedgerInitial, LedgerStep, Invariance, PTL DEF Spec, ImplementsLedger, Ledger!LedgerSpec
=============================================================================
