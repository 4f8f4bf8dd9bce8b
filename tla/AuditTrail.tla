----------------------------- MODULE AuditTrail -----------------------------
(***************************************************************************)
(* What the audit pipeline promises its users, without queue, workers,     *)
(* retries or hashes: every user has an append-only trail that names each  *)
(* of the user's transactions at most once, and a transaction is archived  *)
(* only when it is in the trail.                                           *)
(***************************************************************************)
EXTENDS Naturals, Sequences

CONSTANTS Users, MaxTxns

VARIABLES
    submitted, \* submitted[t] is the user of transaction t
    trail,     \* per user: the audited transactions, in order
    archived   \* the transactions that have a backup

vars == <<submitted, trail, archived>>

Audited(t) == \E n \in DOMAIN trail[submitted[t]] : trail[submitted[t]][n] = t

Init ==
    /\ submitted = <<>>
    /\ trail = [u \in Users |-> <<>>]
    /\ archived = {}

Submit(u) ==
    /\ Len(submitted) < MaxTxns
    /\ submitted' = Append(submitted, u)
    /\ UNCHANGED <<trail, archived>>

AppendToTrail(t) ==
    /\ ~Audited(t)
    /\ trail' = [trail EXCEPT ![submitted[t]] = Append(@, t)]
    /\ UNCHANGED <<submitted, archived>>

Archive(t) ==
    /\ Audited(t)
    /\ archived' = archived \cup {t}
    /\ UNCHANGED <<submitted, trail>>

Next ==
    \/ \E u \in Users : Submit(u)
    \/ \E t \in DOMAIN submitted : AppendToTrail(t) \/ Archive(t)

Spec == Init /\ [][Next]_vars
=============================================================================
