---------------------------- MODULE MCWorkspace ----------------------------
(* Small instances of Workspace for TLC. *)
EXTENDS RetirementInductive, SerialInductive, TLC

Symmetry == Permutations(Procs)

\* Bounds: the Sandboxes of a behaviour share a name, and it is the allocation's unless a
\* home of an older version waits to be adopted.
OneName == \A u, v \in Uid : sandbox[u].name = sandbox[v].name
NamedSpec ==
  /\ Init /\ (sandbox[1].name = Alloc \/ home[1].adoptable)
  /\ [][Next /\ OneName']_vars

(* An allocation that create has finished: bound, running and connected. *)
Allocated ==
  /\ claim = 1 /\ dying = FALSE /\ claimReady = TRUE /\ lastUid = 1
  /\ \E name \in SandboxNames, policy \in Policies :
       /\ sandbox = [u \in Uid |->
            [st |-> IF u = 1 THEN "live" ELSE "none", name |-> name, mode |-> "Running",
             seen |-> u = 1, ready |-> u = 1, pod |-> u = 1]]
       /\ home = [h \in Uid |->
            [st |-> IF h = 1 THEN "live" ELSE "none", name |-> name, owner |-> IF h = 1 THEN 1 ELSE 0,
             adoptable |-> h = 1, pv |-> "bound", policy |-> policy]]
  /\ managed = [i \in Uid |-> IF i = 1 THEN [phase |-> "bound", sandbox |-> 1, home |-> 1]
                              ELSE NoManaged]
  /\ retained = [h \in Uid |-> NoRetained]
  /\ conn = [u \in Uid |-> IF u = 1 THEN "connected" ELSE "none"]
  /\ machine = [u \in Uid |-> IF u = 1 THEN "enabled" ELSE "absent"]
  /\ holder = {}
  /\ pc = [p \in Procs |-> "idle"]
  /\ mem = [p \in Procs |-> NoMemory]

(* In the end users only delete. *)
OnlyDeletes == Repeat("delete") /\ <>[][\A p \in Procs : ~StartCreate(p)]_vars

AllocatedSafetySpec == Allocated /\ [][Next]_vars

\* Bound: no pod fails.
SteadySafetySpec == Allocated /\ [][Next /\ \A u \in Uid : ~PodFails(u)]_vars

AllocatedSpec == Allocated /\ [][Next]_vars /\ Fairness /\ OnlyDeletes
=============================================================================
