---------------------------- MODULE MCVolumeChase ----------------------------
EXTENDS VolumeChase

=============================================================================
