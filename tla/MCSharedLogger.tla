---------------------------- MODULE MCSharedLogger ----------------------------
(***************************************************************************)
(* Three factories: two of one service_name, and one of a name of its own. *)
(***************************************************************************)
EXTENDS SharedLogger

CONSTANTS f1, f2, f3, app, api

MCNameOf == (f1 :> app) @@ (f2 :> app) @@ (f3 :> api)
=============================================================================
