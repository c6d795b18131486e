---------------------------- MODULE MCModelsCache ----------------------------
(* Two files of one architecture in two directories.                       *)
EXTENDS ModelsCache, TLC

CONSTANTS f1, f2, left, right, flux, sdxl

MCDirOf  == (f1 :> left) @@ (f2 :> right)
MCArchOf == (f1 :> flux) @@ (f2 :> flux)
=============================================================================
