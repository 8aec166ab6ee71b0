------------------------------ MODULE MCFormats ------------------------------
(* Formats with pages that are portrait and landscape in turn. *)
EXTENDS Formats

PortraitAndLandscape(p) == IF p % 2 = 0 THEN <<2, 4>> ELSE <<4, 2>>
=============================================================================
