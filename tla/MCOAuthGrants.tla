---------------------------- MODULE MCOAuthGrants -----------------------------
(* Small instances of OAuthGrants. *)
EXTENDS OAuthGrants, TLC

\* Row ids, credentials and handlers are interchangeable (used where no liveness
\* is checked).
Symmetry ==
  Permutations(Handler) \cup Permutations(User) \cup Permutations(Grant)
    \cup Permutations(Code) \cup Permutations(Access) \cup Permutations(Refresh)

===============================================================================
