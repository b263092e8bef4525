----------------------------- MODULE MCUefiBoot -----------------------------
(* TLC instance of UefiBoot: three graphics modes of any score.              *)
EXTENDS UefiBoot
=============================================================================
