------------------------------ MODULE RunLedger ------------------------------
(***************************************************************************)
(* What the evidence journal promises, without saying how: a set of        *)
(* recorded events and, for each research run, whether it was never        *)
(* opened, is open, or is closed.  A run is opened once, collects events   *)
(* while it is open, has one manifest at most, and is closed for good.     *)
(***************************************************************************)
EXTENDS Naturals

CONSTANTS Id, Run, Payload

VARIABLES recorded,   \* the events recorded so far
          phase       \* [Run -> {"absent", "open", "closed"}]

ledgerVars == <<recorded, phase>>

LedgerEvent == [id : Id,
                kind : {"run", "manifest", "attempt", "generation", "end"},
                run : Run,
                payload : Payload]

LedgerInit ==
    /\ recorded = {}
    /\ phase = [r \in Run |-> "absent"]

Fresh(e) == \A x \in recorded : x.id # e.id

Open(e) ==
    /\ Fresh(e) /\ e.kind = "run" /\ phase[e.run] = "absent"
    /\ recorded' = recorded \cup {e}
    /\ phase' = [phase EXCEPT ![e.run] = "open"]

Record(e) ==
    /\ Fresh(e) /\ e.kind \in {"manifest", "attempt", "generation"}
    /\ phase[e.run] = "open"
    /\ e.kind = "manifest" =>
           \A x \in recorded : x.kind = "manifest" => x.run # e.run
    /\ recorded' = recorded \cup {e}
    /\ UNCHANGED phase

Close(e) ==
    /\ Fresh(e) /\ e.kind = "end" /\ phase[e.run] = "open"
    /\ recorded' = recorded \cup {e}
    /\ phase' = [phase EXCEPT ![e.run] = "closed"]

LedgerNext == \E e \in LedgerEvent : Open(e) \/ Record(e) \/ Close(e)

LedgerSpec == LedgerInit /\ [][LedgerNext]_ledgerVars
=============================================================================
