------------------------------- MODULE MCPages -------------------------------
(***************************************************************************)
(* Three submissions of each page, so that a submission and an answer can  *)
(* each be late for the next but one; runs of no, one and two events.      *)
(***************************************************************************)
EXTENDS Pages

MCLengths == 0..2
==============================================================================
