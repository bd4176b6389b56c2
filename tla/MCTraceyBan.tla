----------------------------- MODULE MCTraceyBan -----------------------------
(***************************************************************************)
(* TraceyBan for model checking: two hosts that adopt each other's bans of *)
(* one address, which the second may ignore.                               *)
(***************************************************************************)
EXTENDS TraceyBan

MCIgnoreLists == {<<{}, {}>>, <<{}, {1}>>}
=============================================================================
