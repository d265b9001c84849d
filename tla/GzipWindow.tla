----------------------------- MODULE GzipWindow ------------------------------
(***************************************************************************)
(* What usr/gzip/gzip.h gives to both directions: the window array, which  *)
(* deflate.c uses with twice the size and inflate.c calls slide.           *)
(***************************************************************************)
EXTENDS Integers, Sequences, FiniteSets, SequencesExt

CONSTANTS
    WSIZE,          \* the size of the window, a power of two
    Garbage         \* what memory holds where nothing was written
=============================================================================
