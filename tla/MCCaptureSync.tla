---------------------------- MODULE MCCaptureSync ----------------------------
(* Small instances of CaptureSync: model values come from the cfg files. *)
EXTENDS CaptureSync
=============================================================================
