----------------------------- MODULE MCRowReplay -----------------------------
(* Small instances of RowReplay.                                           *)
EXTENDS RowReplay

NamesInRow == {<<"row", Everything, FALSE>>}

SomeOptions ==
  {<<"none", Everything, TRUE>>, <<"none", Everything, FALSE>>,
   <<"row", Everything, FALSE>>, <<"hidden", Everything, FALSE>>,
   <<"row", {"insert", "delete"}, FALSE>>, <<"none", {"update"}, TRUE>>}
=============================================================================
