----------------------------- MODULE MCTextMda -----------------------------
(* Instances of TextMda for TLC. *)
EXTENDS TextMda
=============================================================================
