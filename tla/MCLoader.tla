------------------------------ MODULE MCLoader ------------------------------
(***************************************************************************)
(* Loader for model checking: two releases of the local channel and a      *)
(* third build that shares its version with the second.                    *)
(***************************************************************************)
EXTENDS Loader

MCVersion2 == <<1, 2>>
MCChannel2 == <<"production", "production">>
MCVersion3 == <<1, 2, 2>>
MCChannel3 == <<"production", "production", "development">>
=============================================================================
