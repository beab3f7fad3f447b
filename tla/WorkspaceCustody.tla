------------------------- MODULE WorkspaceCustody --------------------------
(***************************************************************************)
(* Workspace implements HomeCustody.  A home is attached while a Sandbox   *)
(* owns it or could adopt it by its labels, and is being erased from the   *)
(* delete request until its volume is gone as well.                        *)
(***************************************************************************)
EXTENDS WorkspaceInductive

CustodyOf(h) ==
  CASE home[h].st = "none" -> "unused"
    [] home[h].st = "live" /\ (home[h].owner # 0 \/ home[h].adoptable) -> "attached"
    [] home[h].st = "live" /\ home[h].owner = 0 /\ ~home[h].adoptable -> "released"
    [] home[h].st = "terminating" \/ (home[h].st = "gone" /\ home[h].pv = "bound") -> "erasing"
    [] Erased(h) -> "erased"

Abstract == INSTANCE HomeCustody WITH
  Homes <- Uid,
  custody <- [h \in Uid |-> CustodyOf(h)],
  recorded <- [h \in Uid |-> Recorded(h)]

\* Whatever the interleaving and the crashes of commands: data that was in use is first
\* released, for good and on record, then destroyed, and only then forgotten
\* (retainSandboxHome, deleteRetainedHome).
CustodyKept == Abstract!Spec
=============================================================================
