-------------------------------- MODULE MCEitb --------------------------------
(***************************************************************************)
(* Blobs for TLC: the first of two bytes, so that their order matters, and *)
(* no nibble twice in a byte.                                              *)
(***************************************************************************)
EXTENDS Eitb

MCBlobs == << <<161, 28>>, <<94>>, <<173>> >>
===============================================================================
