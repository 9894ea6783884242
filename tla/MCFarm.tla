-------------------------------- MODULE MCFarm --------------------------------
(* Small instances of the farm.                                                *)
EXTENDS Farm
==============================================================================
