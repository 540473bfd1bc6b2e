----------------------------- MODULE MCProvider -----------------------------
(* Small instances of ProviderConfig. *)
EXTENDS ProviderConfig, TLC

\* Either four rows and administrators who never meet on one configuration, or
\* three rows and overlaps and failures anywhere.
MCLimits == {[rows |-> 4, disturbed |-> 0], [rows |-> 3, disturbed |-> 3]}

\* Administrators differ only in name.
SameAdmins == Permutations(Admins)
=============================================================================
