---------------------------- MODULE MCRegionSetup ----------------------------
(* Two regions: one initialises twice, the other once.                     *)
EXTENDS RegionSetup, TLC

CONSTANTS r1, r2

Regions == {r1, r2}
Left == {{SockFolder, SysvFile}}
Calls == r1 :> 2 @@ r2 :> 1
=============================================================================
