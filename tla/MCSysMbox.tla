----------------------------- MODULE MCSysMbox -----------------------------
(***************************************************************************)
(* Small instances of SysMbox for TLC.                                     *)
(***************************************************************************)
EXTENDS SysMbox

\* Arguments of sys_mbox_new: one that selects the default, and 1.
MCSizes == {-1, 1}
=============================================================================
