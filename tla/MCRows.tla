------------------------------- MODULE MCRows -------------------------------
(* RowReplay from the search for an order to the patched sheet.  Another   *)
(* caller of Viterbi, which builds lattices of any kind, has its turn      *)
(* after the merge of two empty tables.                                    *)
EXTENDS MCRowReplay, ViterbiSearch

NothingToMerge ==
  /\ pc = "end" /\ order_local = <<>> /\ order_remote = <<>> /\ ~use_order
  /\ acts = {"update"}

MCInit == RowInit /\ SearchInit
MCNext == \/ RowNext /\ UNCHANGED searchVars
          \/ NothingToMerge /\ SearchNext /\ UNCHANGED rowVars
MCSpec == MCInit /\ [][MCNext]_<<rowVars, searchVars>> /\ WF_vars(Next)
=============================================================================
