--------------------------------- MODULE Options ---------------------------------
(***************************************************************************)
(* None, for the fields the code declares as Option<_>.                    *)
(***************************************************************************)
CONSTANT Unset
=================================================================================
