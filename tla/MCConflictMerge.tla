-------------------------- MODULE MCConflictMerge --------------------------
(* Small instances of ConflictMerge.                                       *)
EXTENDS ConflictMerge

CONSTANTS x, y, z

Texts == {x, y, z}
TwoTexts == {x, y}
OneText == {x}
NoNull == {}
WithNull == {Null}
OneSheet == <<2>>
WiderSecondSheet == <<1, 2>>
NoSheets == {}
FirstSheet == {1}
Merging == {"ssmerge"}
BothTools == {"ssmerge", "sspatch"}
AllChoices == {"none", "ours", "theirs", "neither"}
NoChoice == {"none"}
=============================================================================
