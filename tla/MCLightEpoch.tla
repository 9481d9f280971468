---------------------------- MODULE MCLightEpoch ----------------------------
(***************************************************************************)
(* Instances of LightEpoch for TLC.                                        *)
(***************************************************************************)
EXTENDS LightEpoch, TLC

\* Objects are interchangeable; thread ids are not (the scan skips id 0).
ObjectSymmetry == Permutations(Object)
=============================================================================
