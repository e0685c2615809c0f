-------------------------- MODULE MCMemberWorkflow --------------------------
(* An officer who works in the dossier of the member, and one in the list. *)
EXTENDS MemberWorkflow, TLC

CONSTANTS a, t1, t2

MCMay == (t1 :> {"approve", "reject", "activate", "deactivate", "delete"})
         @@ (t2 :> {"reject", "complete", "edit"} \cup Bulk)
MCOpens == (t1 :> {"dossier"}) @@ (t2 :> {"list"})

\* No property speaks of the one member any more once an edit has been saved.
Unedited == edited = {}
=============================================================================
