---------------------------- MODULE MCFairMutex -----------------------------
(* TLC instance of FairMutex: four threads, counters that wrap after five. *)
EXTENDS FairMutex
=============================================================================
