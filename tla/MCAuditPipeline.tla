-------------------------- MODULE MCAuditPipeline --------------------------
(***************************************************************************)
(* Model-checking instances of AuditPipeline: symmetric users and servers. *)
(***************************************************************************)
EXTENDS AuditPipeline, TLC

CONSTANTS u1, u2, s1, s2

OneUser    == {u1}
TwoUsers   == {u1, u2}
OneServer  == {s1}
TwoServers == {s1, s2}

\* Users and servers are interchangeable; used in runs without liveness only.
Interchangeable == Permutations(Users) \cup Permutations(Servers)
=============================================================================
