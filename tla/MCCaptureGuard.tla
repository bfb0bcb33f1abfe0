--------------------------- MODULE MCCaptureGuard ---------------------------
(***************************************************************************)
(* Small instances of the capture guard.                                   *)
(***************************************************************************)
EXTENDS CaptureGuard

\* One budget shorter and one longer than the metadata allowance.
ShortAndLong == {1, 2}

=============================================================================
