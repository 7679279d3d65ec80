----------------------- MODULE MCNodeClassControllers -----------------------
(* Small instances of NodeClassControllers for TLC.                        *)
EXTENDS NodeClassControllers

ImageAndSG == {"image", "sg"}
SubnetOnly == {"subnet"}

=============================================================================
