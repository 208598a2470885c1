---------------------------- MODULE MCVolumeLevel ----------------------------
(* Nothing to define: the instances of VolumeLevel are sets of numbers.     *)
EXTENDS VolumeLevel
=============================================================================
