-------------------------- MODULE StatusInductive ---------------------------
(***************************************************************************)
(* Why the answers of sandbox list can be trusted: what is known, between  *)
(* two of its reads, of the things it has read and that may have changed   *)
(* since.                                                                  *)
(***************************************************************************)
EXTENDS SandboxStatus

\* The claims have been listed.
ClaimsRead == {"connections", "readConnections", "machines", "modes"}

\* A claim that was missing after its record had been read was made and has gone.
MissingInv ==
  \A i \in Uid :
    /\ got.managed[i].phase # "none" => i <= lastUid
    /\ step \in ClaimsRead /\ got.managed[i].phase # "none" /\ got.claims[i] = "none" => claim # i
    /\ report[i] = "claim missing" => i <= lastUid /\ claim # i

\* What a listing has not read yet.
Unread ==
  /\ step \in {"start", "records"} => got.managed = NothingRead.managed
  /\ step \notin ClaimsRead => got.claims = NothingRead.claims
  /\ step \notin ClaimsRead \ {"connections"} => got.conns = NothingRead.conns
  /\ step # "modes" => got.machines = NothingRead.machines
  /\ step # "start" => report = NoReport

\* Bound records are read whole.
ReadWhole == \A i \in Uid : got.managed[i].phase = "bound" => got.managed[i].sandbox # 0

\* A bound record that was read is still there for as long as its claim or its Sandbox is.
RecordsRead ==
  \A i \in Uid : got.managed[i].phase = "bound" =>
    /\ got.managed[i].sandbox = i
    /\ managed[i] = got.managed[i] \/ (claim # i /\ sandbox[i].st = "gone")

\* A Sandbox whose claim said Ready when the claims were listed has either been attached
\* in this listing, or what is missing for that is not going to be taken for there.
ReadyInv ==
  /\ AttachedNow \subseteq up
  /\ \A i \in Uid :
       /\ got.managed[i].phase = "bound" /\ got.claims[i] = "ready" /\ i \notin up =>
            /\ ~(conn[i] = "connected" /\ machine[i] = "enabled")
            /\ got.conns[i] = "connected" =>
                 /\ machine[i] # "enabled" /\ got.machines[i] # "enabled"
                 /\ conn[i] = "connected" \/ sandbox[i].st = "gone"
       /\ report[i] = "ready" => i \in up

\* As long as nothing moves but the cluster, what was read is so.
CalmInv == calm =>
  /\ \A p \in Procs : pc[p] = "idle"
  /\ \A i \in Uid :
       /\ got.managed[i].phase # "none" => managed[i] = got.managed[i]
       /\ got.claims[i] # "none" => claim = i
       /\ report[i] = "stopped" => managed[i].phase = "bound" /\ claim = i

\* Between two reads of a listing, what it has read either is still so, or what has changed
\* since cannot make its answer wrong (sandboxStatus).
StatusInv == MissingInv /\ Unread /\ ReadWhole /\ RecordsRead /\ ReadyInv /\ CalmInv
=============================================================================
