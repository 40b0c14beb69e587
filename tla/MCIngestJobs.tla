---------------------------- MODULE MCIngestJobs ----------------------------
(* TLC instances of IngestJobs. *)
EXTENDS IngestJobs, TLC

\* The job slots are interchangeable (safety runs only)
SlotSymmetry == Permutations(Slots)

=============================================================================
