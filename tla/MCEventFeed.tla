---------------------------- MODULE MCEventFeed ----------------------------
(***************************************************************************)
(* Model-checking instances of EventFeed: interchangeable tabs, a user and *)
(* an administrator, and an email that is still free.                      *)
(***************************************************************************)
EXTENDS EventFeed, TLC

CONSTANTS t1, t2, ann, bea, cid

MCTabs == {t1, t2}

MCEmails == {ann, bea, cid}

MCSeedAccounts == <<[email |-> ann, role |-> "USER"], [email |-> bea, role |-> "SUPER_ADMIN"]>>

TabSymmetry == Permutations(Tabs)
=============================================================================
