-------------------------------- MODULE MCUploads --------------------------------
(* Model values for Uploads. *)
EXTENDS Uploads
CONSTANTS f, m, m2, n, t, u, u2, r1, r2, w
=============================================================================
