---------------------------- MODULE MCGovernance ----------------------------
(* A policy for the runs of the governor's stores. *)
EXTENDS Governance

\* Reads are allowed: the first rule that matches wins, so the later one has no
\* say.  Any other call has no rule.
ReadsOnly ==
  <<[tool |-> "read", args |-> Args, action |-> "allow"],
    [tool |-> "read", args |-> Args, action |-> "rate_limit"]>>
=============================================================================
