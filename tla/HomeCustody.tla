---------------------------- MODULE HomeCustody ----------------------------
(***************************************************************************)
(* What Kubeflock promises about the data of a sandbox, without commands,  *)
(* claims or processes: a home is in use until it is released for good, is *)
(* destroyed only after that, and from the time it is released until the   *)
(* last of it is gone there is a record that names it.                     *)
(***************************************************************************)
CONSTANT Homes

VARIABLES
  custody,   \* what becomes of each home
  recorded   \* whether some record in the state directory names it

vars == <<custody, recorded>>

Custody == {"unused", "attached", "released", "erasing", "erased"}

Init ==
  /\ custody \in [Homes -> {"unused", "attached", "released"}]
  /\ recorded = [h \in Homes |-> custody[h] # "unused"]

Become(h, from, to) ==
  /\ custody[h] = from
  /\ custody' = [custody EXCEPT ![h] = to]
  /\ UNCHANGED recorded

\* The controllers provide a home, which a record names only later, if ever.
Provide(h) == Become(h, "unused", "attached")

Record(h) ==
  /\ custody[h] # "unused" /\ ~recorded[h]
  /\ recorded' = [recorded EXCEPT ![h] = TRUE]
  /\ UNCHANGED custody

\* No Sandbox has the home any more and none can get it.
Release(h) == recorded[h] /\ Become(h, "attached", "released")

Erase(h) == recorded[h] /\ Become(h, "released", "erasing")

\* The claim and the volume behind it are gone.
EraseEnds(h) == recorded[h] /\ Become(h, "erasing", "erased")

Forget(h) ==
  /\ custody[h] = "erased" /\ recorded[h]
  /\ recorded' = [recorded EXCEPT ![h] = FALSE]
  /\ UNCHANGED custody

Next ==
  \E h \in Homes :
    Provide(h) \/ Record(h) \/ Release(h) \/ Erase(h) \/ EraseEnds(h) \/ Forget(h)

Spec == Init /\ [][Next]_vars
=============================================================================
