----------------------------- MODULE MCAccounts -----------------------------
(***************************************************************************)
(* Instances of Accounts for TLC.  Requests, e-mail addresses, and secrets *)
(* are interchangeable.                                                    *)
(***************************************************************************)
EXTENDS Accounts, TLC

\* At most one request at a time may take an administrator away, and no account comes
\* while a session or a token is on its way to its own.
Removing == {"setup", "role", "delete"}
KeptApart ==
    {{k, j} : k, j \in Removing}
    \cup {{k, j} : k \in Granting \cup {"setup"}, j \in {"setup", "create"}}
OnlySetup == {{"setup"}}

Symmetry == Permutations(Requests) \cup Permutations(Emails) \cup Permutations(Secrets)
=============================================================================
