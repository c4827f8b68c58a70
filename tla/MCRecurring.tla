----------------------------- MODULE MCRecurring -----------------------------
(***************************************************************************)
(* Three subscriptions: an ordinary one, one without an owner, and one     *)
(* whose draft never validates (a vendor name of at most 200 characters    *)
(* and more than 200 bytes).                                               *)
(***************************************************************************)
EXTENDS RecurringSweep

CONSTANTS figma, orphan, aerzte

mc_Sub        == {figma, orphan, aerzte}
mc_Tracked    == {orphan, aerzte}
mc_Owned      == {figma, aerzte}
mc_Acceptable == {figma, orphan}
=============================================================================
