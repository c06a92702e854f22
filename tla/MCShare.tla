------------------------------ MODULE MCShare ------------------------------
(***************************************************************************)
(* The page of an owner, the page of somebody else, and the calls of       *)
(* another owner.                                                          *)
(***************************************************************************)
EXTENDS SharePages

CONSTANTS p1, p2, a1

AllRequests == LinkButton \cup RevokeButton \cup Caller
OwnersRequests == {Link(p1), Revoke(p1), a1}
=============================================================================
