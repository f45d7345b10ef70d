------------------------------ MODULE MCRowRules ------------------------------
(* The partners, and the documents without business_key, which is ruled, tested *)
(* and limited like control_number.                                            *)
EXTENDS RowRules, TLC

MCTables ==
  {PartnerTable,
   [DocumentTable EXCEPT !.columns = @ \ {"business_key"},
                         !.tested = @ \ {"business_key"}]}

Symmetry == Permutations(Requests)

===============================================================================
