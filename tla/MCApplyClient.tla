---------------------------- MODULE MCApplyClient ----------------------------
(* A small instance of the apply client for TLC. *)
EXTENDS ApplyClient
=============================================================================
