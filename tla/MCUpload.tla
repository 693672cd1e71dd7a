-------------------------------- MODULE MCUpload --------------------------------
(***************************************************************************)
(* Instances of UploadProperties for TLC.                                  *)
(***************************************************************************)
EXTENDS UploadProperties
=============================================================================
