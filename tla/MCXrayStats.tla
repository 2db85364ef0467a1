---------------------------- MODULE MCXrayStats ----------------------------
(* XrayStats on a small instance: one runner besides the timer's.          *)
EXTENDS XrayStats
===========================================================================
