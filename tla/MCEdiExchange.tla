----------------------------- MODULE MCEdiExchange -----------------------------
(* EdiExchange on small instances.  Calls are interchangeable, and so are      *)
(* business keys; the liveness run, which distinguishes the fallible calls,    *)
(* uses no symmetry.                                                           *)
EXTENDS EdiExchangeInv, TLC

Symmetry == Permutations(Calls) \cup Permutations(Keys)

================================================================================
