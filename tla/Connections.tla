----------------------------- MODULE Connections ------------------------------
(***************************************************************************)
(* What connecting an application promises.  `consent` is every scope a    *)
(* user ever approved for a client; `acting` is what clients can do now.   *)
(* A client starts acting only with a scope approved for it by the user it *)
(* acts for; one disconnection, whoever asks for it, ends everything the   *)
(* client can do for that user; besides, single abilities lapse with time. *)
(***************************************************************************)
CONSTANTS User, Client, Scope

VARIABLES consent, acting

Ability == [user : User, client : Client, scope : Scope]

Init == consent = {} /\ acting = {}

Approve(a) ==
  /\ consent' = consent \cup {a}
  /\ UNCHANGED acting

Act(a) ==
  /\ a \in consent
  /\ acting' = acting \cup {a}
  /\ UNCHANGED consent

Lapse(a) ==
  /\ acting' = acting \ {a}
  /\ UNCHANGED consent

Disconnect(u, c) ==
  /\ acting' = {a \in acting : <<a.user, a.client>> # <<u, c>>}
  /\ UNCHANGED consent

Next ==
  \/ \E a \in Ability : Approve(a) \/ Act(a) \/ Lapse(a)
  \/ \E u \in User, c \in Client : Disconnect(u, c)

Spec == Init /\ [][Next]_<<consent, acting>>
===============================================================================
