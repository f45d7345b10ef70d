------------------------------ MODULE MCEdiAdmin ------------------------------
(* EdiAdmin on a small instance.  A liveness property is checked, so no symmetry *)
(* set is used; slots being interchangeable, one call's slot is fixed instead.   *)
EXTENDS EdiAdminInv, TLC

CONSTANTS FirstCall, FirstSlot

\* The refused document of two, if any, is that of the other call.
MCInit ==
  /\ AdminInit
  /\ msg[FirstCall].key = FirstSlot
  /\ ~msg[FirstCall].refused

\* A bound: a PUT or PATCH loads its row before any row was moved, purged or taken
\* back.  Anything may happen to the row afterwards, before the save and after it.
LoadBound == loads' \subseteq loads \/ (touched = {} /\ reverted = {})

MCNext == AdminNext /\ LoadBound

MCSpec == MCInit /\ [][MCNext]_adminVars /\ AdminFairness

================================================================================
