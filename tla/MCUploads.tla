------------------------------- MODULE MCUploads -------------------------------
(* Uploads for TLC: images are of one acceptable size, all else of two.        *)
EXTENDS Uploads

SizeLimits == [k \in UploadKinds |-> IF k = "image" THEN 1 ELSE 2]
=============================================================================
