---------------------------- MODULE EvidenceStore ----------------------------
(***************************************************************************)
(* The evidence journal under arbitrary clients (memory/evidence_store.py).*)
(* Any number of processes share one SQLite file and call append with any  *)
(* event at all: resends, stale retries, events of runs that are closed or *)
(* were never opened.  A transaction commits or rolls back as a whole; a   *)
(* client may die at any point of its call, also between the commit and    *)
(* the return, and never learns what became of it.                         *)
(***************************************************************************)
EXTENDS EvidenceLog

CONSTANTS Client,   \* the processes that share the file
          NoCall    \* no append is running

ASSUME NoCallAssumption == NoCall \notin Event

VARIABLES journal,   \* the rows of the table `events', in seq order
          call,      \* [Client -> the event being appended, or NoCall]
          reply,     \* [Client -> what append did with it]
          acked      \* history: the events whose append returned normally

vars == <<journal, call, reply, acked>>

TypeOK ==
    /\ journal \in Seq(Event)
    /\ call \in [Client -> Event \cup {NoCall}]
    /\ reply \in [Client -> {"none", "accepted", "raised"}]
    /\ acked \subseteq Event

Init ==
    /\ journal = <<>>
    /\ call = [c \in Client |-> NoCall]
    /\ reply = [c \in Client |-> "none"]
    /\ acked = {}

-----------------------------------------------------------------------------
Call(c, e) ==
    /\ call[c] = NoCall
    /\ call' = [call EXCEPT ![c] = e]
    /\ UNCHANGED <<journal, reply, acked>>

Pending(c) == call[c] # NoCall /\ reply[c] = "none"

\* The INSERT and the commit at the end of the `with' block.
Insert(c) ==
    /\ Pending(c)
    /\ Admits(journal, call[c])
    /\ journal' = Append(journal, call[c])
    /\ reply' = [reply EXCEPT ![c] = "accepted"]
    /\ UNCHANGED <<call, acked>>

\* The row is there with the same kind, payload and checksum.
Resend(c) ==
    /\ Pending(c)
    /\ Resent(journal, call[c])
    /\ reply' = [reply EXCEPT ![c] = "accepted"]
    /\ UNCHANGED <<journal, call, acked>>

\* EvidenceIntegrityError: conflict, shape, closed or unregistered run.
Refuse(c) ==
    /\ Pending(c)
    /\ Refuses(journal, call[c])
    /\ reply' = [reply EXCEPT ![c] = "raised"]
    /\ UNCHANGED <<journal, call, acked>>

\* sqlite3.Error (lock timeout, full disk): rolled back, then re-raised.
WriteFails(c) ==
    /\ Pending(c)
    /\ reply' = [reply EXCEPT ![c] = "raised"]
    /\ UNCHANGED <<journal, call, acked>>

\* Variant of the next action: the caller does not wait for the outcome.
ReturnEarly(c) ==
    /\ acked' = acked \cup {call[c]}
    /\ call' = [call EXCEPT ![c] = NoCall]
    /\ reply' = [reply EXCEPT ![c] = "none"]
    /\ UNCHANGED journal

Return(c) ==
    /\ reply[c] # "none"
    /\ acked' = IF reply[c] = "accepted" THEN acked \cup {call[c]} ELSE acked
    /\ call' = [call EXCEPT ![c] = NoCall]
    /\ reply' = [reply EXCEPT ![c] = "none"]
    /\ UNCHANGED journal

\* The process is killed, before or after the commit.
Crash(c) ==
    /\ call[c] # NoCall
    /\ call' = [call EXCEPT ![c] = NoCall]
    /\ reply' = [reply EXCEPT ![c] = "none"]
    /\ UNCHANGED <<journal, acked>>

Next == \E c \in Client :
    \/ \E e \in Event : Call(c, e)
    \/ Insert(c)
    \/ Resend(c)
    \/ Refuse(c)
    \/ WriteFails(c)
    \/ Return(c)
    \/ Crash(c)

Spec == Init /\ [][Next]_vars

-----------------------------------------------------------------------------
(* Properties *)

\* Whatever the clients send, in whatever interleaving, the write-side checks
\* of append are strong enough for the read side: research_evidence and
\* _run_summary never find a duplicate run, an orphan event, a second manifest
\* or a second end.
AlwaysReadable == Readable(journal)

\* An append that returned normally is durable, and two appends that both
\* returned normally for one identity were given the same event, also when
\* one of them is a retry by a client that died before it saw the reply.
AckedDurable ==
    /\ acked \subseteq Stored(journal)
    /\ \A e, f \in acked : e.id = f.id => e = f

\* No step rewrites, removes or reorders a stored row (the UPDATE and DELETE
\* triggers), and a closed run gets nothing more: at most one row is added at
\* the end, and only to a run that had no end event.
AppendOnly ==
    [][/\ Len(journal') \in {Len(journal), Len(journal) + 1}
       /\ \A i \in 1..Len(journal) : journal'[i] = journal[i]
       /\ \A e \in Stored(journal') \ Stored(journal) : ~Closed(journal, e.run)]_journal

-----------------------------------------------------------------------------
(* The journal implements the run ledger. *)

PhaseOf(r) ==
    IF Closed(journal, r) THEN "closed"
    ELSE IF Registered(journal, r) THEN "open" ELSE "absent"

Ledger == INSTANCE RunLedger WITH
              recorded <- Stored(journal),
              phase <- [r \in Run |-> PhaseOf(r)]

\* The journal is one way to keep a ledger of runs that open once, take
\* events while open, and close for good.
ImplementsLedger == Ledger!LedgerSpec
=============================================================================
