------------------------ MODULE RetirementInductive ------------------------
(***************************************************************************)
(* Why EraseOnlyRetired holds: what the inspection of a retained home      *)
(* finds stays so until the delete request, because the name it goes by    *)
(* and the volume on record are those of the home, and because nobody can  *)
(* create while the deletion stage holds the lock.                         *)
(***************************************************************************)
EXTENDS CustodyInductive

\* Home h has the name of Sandbox u, which left it.
Origin(u, h) == u # 0 /\ sandbox[u].st # "none" /\ sandbox[u].name = home[h].name

NamesFollow ==
  /\ \A h \in Uid : retained[h].state # "none" => Origin(retained[h].origin, h)
  /\ \A p \in Procs : pc[p] \in ErasePcs \ {"reselect"} => Origin(mem[p].sandbox, mem[p].home)

\* A volume that was found to go with its home still does.
Going(h) == home[h].pv = "bound" => home[h].policy = "Delete"

VolumesFollow ==
  /\ \A h \in Uid : retained[h].state = "deleting" => Going(h)
  /\ \A p \in Procs : pc[p] \in ErasePcs \ {"reselect"} /\ (pc[p] = "mark" \/ mem[p].state = "deleting")
       => Going(mem[p].home)

\* An inspection outlives its moment.
Inspected ==
  \A p \in Procs : HomePresent(mem[p].home) =>
    LET h == mem[p].home IN
    /\ pc[p] \in {"inspectMounts", "inspectVolume", "mark", "erase"} =>
         claim = 0 /\ Named(home[h].name) = {}
    /\ pc[p] \in {"inspectVolume", "mark", "erase"} => ~Mounted(h)

RetiredInv == CustodyInv /\ NamesFollow /\ VolumesFollow /\ Inspected
=============================================================================
