----------------------------- MODULE MCTranscript ------------------------------
(* Transcript for TLC. *)
EXTENDS Transcript, TLC

(* The two ends are alike. *)
Interchangeable == Permutations({A, B})
===============================================================================
