------------------------------ MODULE MCTenancy ------------------------------
(* A small instance of Tenancy for TLC. *)
EXTENDS Tenancy, TLC

\* Signing up, in and out and leaving; working in organizations and with
\* invites; and an account that is left while an invite of it is accepted.
MCScenarios ==
  {{"register", "oauth", "login", "logout", "tidy", "trial", "leave"},
   {"oauth", "refresh", "switch", "create", "rename", "delete", "invite",
    "expire", "accept", "remove", "lapse"},
   {"register", "oauth", "login", "invite", "accept", "remove", "leave", "delete", "create"}}

\* People, their ids and browsers are interchangeable.
MCSymmetry == Permutations(Person) \cup Permutations(UserId) \cup Permutations(Tab)
=============================================================================
