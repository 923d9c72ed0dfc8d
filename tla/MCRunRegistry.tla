--------------------------- MODULE MCRunRegistry ---------------------------
(***************************************************************************)
(* A registry of one run, so that every further one sets off a trim; a     *)
(* user who takes a run to its review, a presenter who shows a direct      *)
(* write on the same run and then resets, and another run that comes in.   *)
(***************************************************************************)
EXTENDS RunRegistry, TLC

Named(kind, r) == [kind |-> kind, run |-> r, named |-> TRUE]
MCScript ==
  "user"         :> <<Named("until_review", "r1"), Named("review", "r1")>>
  @@ "presenter" :> <<Named("direct_write", "r1"), Named("reset", "r1")>>
  @@ "other"     :> <<Named("allocate", "r2")>>
MCClients == DOMAIN MCScript
=============================================================================
