-------------------------- MODULE LedgerLifecycle --------------------------
(***************************************************************************)
(* What the status of a ledger promises to those who only look at it: the  *)
(* transaction form, the console pages and ledgerMiddleware.  A ledger is  *)
(* locked at any time, taken for repair by one repair at a time, and       *)
(* becomes ACTIVE only through an unlock request that found it             *)
(* UNDER_REPAIR.  The request looks first and writes later, so that what   *)
(* it overwrites may be another status: LedgerControl, which implements    *)
(* this specification, says what else happens in between.                  *)
(*                                                                         *)
(* No repair makes the ledger ACTIVE, as repairService.js:408-411 says and *)
(* does; END_TO_END_STUDY_GUIDE.md:458 and testing.txt:87-92 differ.       *)
(***************************************************************************)
CONSTANT Requests    \* unlock requests that may run at the same time

VARIABLES
    status,     \* LedgerState.status
    granted     \* the requests that found the ledger UNDER_REPAIR and will activate it

vars == <<status, granted>>

Init ==
    /\ status = "ACTIVE"
    /\ granted = {}

\* A verification reports a compromised row.
Lock ==
    /\ status' = "LOCKED"
    /\ UNCHANGED granted

\* A repair job takes the ledger.
TakeForRepair ==
    /\ status # "UNDER_REPAIR"
    /\ status' = "UNDER_REPAIR"
    /\ UNCHANGED granted

Grant(r) ==
    /\ status = "UNDER_REPAIR"
    /\ granted' = granted \cup {r}
    /\ UNCHANGED status

Activate(r) ==
    /\ r \in granted
    /\ status' = "ACTIVE"
    /\ granted' = granted \ {r}

\* The request fails before it writes.
Withdraw(r) ==
    /\ granted' = granted \ {r}
    /\ UNCHANGED status

Next ==
    \/ Lock
    \/ TakeForRepair
    \/ \E r \in Requests : Grant(r) \/ Activate(r) \/ Withdraw(r)

Spec == Init /\ [][Next]_vars
=============================================================================
