-------------------------- MODULE WorkspaceProofs --------------------------
(***************************************************************************)
(* IInv is inductive, and the theorems that follow from it: types, the     *)
(* lock, and that records outlive the storage they name, for any number of *)
(* processes, claims and standby names and for every reclaim policy.       *)
(*                                                                         *)
(* The proof goes part by part: the books (records and the copies of them) *)
(* under each step that touches them, the lock, the claim that a delete    *)
(* leaves behind, and the hand-over from the managed to the retained       *)
(* record.                                                                 *)
(***************************************************************************)
EXTENDS WorkspaceFrames

-----------------------------------------------------------------------------
(* The books *)

\* A copy is of the record of some claim.
LEMMA CopiedUid ==
  ASSUME TypeOK, CompleteCopies
  PROVE  \A q \in Procs : mem[q].phase # "none" => mem[q].rec \in Uid
  BY UidFacts DEF TypeOK, CompleteCopies, Memory

\* Quiet steps keep the books,
LEMMA QuietKeeps ==
  ASSUME TypeOK, Bookkeeping, NEW p \in Procs, Quiet(p)
  PROVE  Bookkeeping'
<1> USE DEF Bookkeeping, Quiet, OthersKeep, SameCopy
<1>1. CompleteCopies'
  BY DEF CompleteCopies, BoundPcs, ConnectPcs, ModePcs, ReleasePcs, CleanupPcs, ErasePcs
<1>2. Issued'
  BY DEF Issued, Saved
<1>3. Provisioned'
  <2>1. 0 \notin Uid /\ \A i \in Uid : managed[i].home \in Uid0
    BY DEF TypeOK, Managed, Uid
  <2>2. \A q \in Procs : mem'[q].home = mem[q].home /\ mem[q].home \in Uid0
    BY DEF TypeOK, Memory
  <2>3. \A h \in Uid : home[h].st # "none" => home'[h].st # "none"
    BY DEF HomesLast
  <2>4. QED
    BY <2>1, <2>2, <2>3, UidFacts DEF Provisioned
<1>4. NothingSaved'
  BY DEF NothingSaved, Saved, BoundPcs, ConnectPcs, ModePcs, ReleasePcs, CleanupPcs, ErasePcs
<1>5. ClaimedCopy'
  BY DEF ClaimedCopy, CompleteCopies, BoundPcs, CreatePcs, ConnectPcs, ModePcs, ReleasePcs, CleanupPcs, ErasePcs
<1>6. CopiesAgree'
  BY DEF CopiesAgree
<1>7. GoneForGood'
  BY DEF GoneForGood, BoundPcs, ConnectPcs, ModePcs, ReleasePcs, CleanupPcs, ErasePcs
<1>8. QED
  BY <1>1, <1>2, <1>3, <1>4, <1>5, <1>6, <1>7

\* returning commands do,
LEMMA ReturnKeeps ==
  ASSUME TypeOK, Bookkeeping, NEW p \in Procs, Returned(p)
  PROVE  Bookkeeping'
<1> USE DEF Bookkeeping, Returned, OthersKeep, cluster, NoMemory
<1>1. CompleteCopies'
  BY DEF CompleteCopies, ConnectPcs, ModePcs, ReleasePcs, CleanupPcs, ErasePcs
<1>2. Issued'
  BY DEF Issued, Saved, TypeOK, Uid0
<1>3. Provisioned'
  BY DEF Provisioned
<1>4. NothingSaved'
  BY DEF NothingSaved, Saved
<1>5. ClaimedCopy'
  BY DEF ClaimedCopy
<1>6. CopiesAgree'
  BY DEF CopiesAgree
<1>7. GoneForGood'
  BY DEF GoneForGood
<1>8. QED
  BY <1>1, <1>2, <1>3, <1>4, <1>5, <1>6, <1>7

\* and so does the cluster.
LEMMA ClusterKeeps ==
  ASSUME TypeOK, Bookkeeping, ClusterMoves
  PROVE  Bookkeeping'
<1> USE DEF Bookkeeping, ClusterMoves, records
<1>1. CompleteCopies'
  BY DEF CompleteCopies
<1>2. Issued'
  BY DEF Issued, Saved, TypeOK, Uid0
<1>3. Provisioned'
  <2>1. \A i \in Uid : managed[i].home \in Uid0
    BY DEF TypeOK, Managed
  <2>2. \A q \in Procs : mem[q].home \in Uid0
    BY DEF TypeOK, Memory
  <2>3. \A h \in Uid : home[h].st # "none" => home'[h].st # "none"
    BY DEF HomesLast
  <2>4. QED
    BY <2>1, <2>2, <2>3, UidFacts DEF Provisioned
<1>4. NothingSaved'
  BY DEF NothingSaved, Saved
<1>5. ClaimedCopy'
  BY DEF ClaimedCopy
<1>6. CopiesAgree'
  BY DEF CopiesAgree
<1>7. GoneForGood'
  BY DEF GoneForGood, CompleteCopies
<1>8. QED
  BY <1>1, <1>2, <1>3, <1>4, <1>5, <1>6, <1>7

\* A new command has an empty copy, or one of the only record, fresh from the file.
LEMMA StartKeeps ==
  ASSUME TypeOK, Bookkeeping, NEW p \in Procs, Start(p)
  PROVE  Bookkeeping'
<1> USE DEF Bookkeeping, OthersKeep, cluster, records, links
<1>1. CASE StartCreate(p)
  <2>1. OthersKeep(p) /\ pc'[p] = "origin"
    BY <1>1, AtMoves, KeepMoves DEF StartCreate
  <2>2. mem'[p].rec = 0 /\ mem'[p].phase = "none" /\ mem'[p].home = 0 /\ mem'[p].claim = 0
    BY <1>1, KeepMoves DEF StartCreate, NoMemory
  <2>3. UNCHANGED <<claim, lastUid, home, managed, retained>>
    BY <1>1 DEF StartCreate
  <2>4. CompleteCopies'
    BY <2>1, <2>2, <2>3 DEF CompleteCopies, ConnectPcs, ModePcs, ReleasePcs, CleanupPcs, ErasePcs
  <2>5. Issued'
    BY <2>1, <2>2, <2>3 DEF Issued, Saved, TypeOK, Uid0
  <2>6. Provisioned' /\ NothingSaved'
    BY <2>1, <2>2, <2>3 DEF Provisioned, NothingSaved, Saved
  <2>7. ClaimedCopy' /\ CopiesAgree' /\ GoneForGood'
    BY <2>1, <2>2, <2>3 DEF ClaimedCopy, CopiesAgree, GoneForGood
  <2>8. QED
    BY <2>4, <2>5, <2>6, <2>7
<1>2. CASE StartFromRetained(p)
  <2>1. PICK h \in Uid : /\ retained[h].state # "none"
                         /\ Keep(p, [NoMemory EXCEPT !.cmd = "delete", !.home = h])
    BY <1>2 DEF StartFromRetained, RetainedFor
  <2>2. OthersKeep(p) /\ pc'[p] = "lock"
    BY <1>2, <2>1, AtMoves, KeepMoves DEF StartFromRetained
  <2>3. mem'[p] = [NoMemory EXCEPT !.cmd = "delete", !.home = h]
    BY <2>1, KeepMoves
  <2>4. mem'[p].rec = 0 /\ mem'[p].phase = "none" /\ mem'[p].home = h /\ mem'[p].claim = 0
    BY <2>3 DEF NoMemory
  <2>5. UNCHANGED <<claim, lastUid, home, managed, retained>>
    BY <1>2 DEF StartFromRetained
  <2>6. CompleteCopies'
    BY <2>2, <2>4, <2>5 DEF CompleteCopies, ConnectPcs, ModePcs, ReleasePcs, CleanupPcs, ErasePcs, Uid
  <2>7. Issued'
    BY <2>2, <2>4, <2>5 DEF Issued, Saved, TypeOK, Uid0
  <2>8. Provisioned' /\ NothingSaved'
    BY <2>1, <2>2, <2>4, <2>5 DEF Provisioned, NothingSaved, Saved
  <2>9. ClaimedCopy' /\ CopiesAgree' /\ GoneForGood'
    BY <2>2, <2>4, <2>5 DEF ClaimedCopy, CopiesAgree, GoneForGood
  <2>10. QED
    BY <2>6, <2>7, <2>8, <2>9
<1>3. ASSUME NEW cmd \in Commands, StartFromRecord(p, cmd)
      PROVE  Bookkeeping'
  <2>1. PICK i \in Uid : /\ Saved = {i} /\ managed[i].phase = "bound"
                         /\ Keep(p, Copy([NoMemory EXCEPT !.cmd = cmd], i))
    BY <1>3 DEF StartFromRecord
  <2>2. /\ OthersKeep(p) /\ pc'[p] = "claim"
        /\ mem'[p] = Copy([NoMemory EXCEPT !.cmd = cmd], i)
    BY <1>3, <2>1, AtMoves, KeepMoves DEF StartFromRecord
  <2>3. /\ mem'[p].rec = i /\ mem'[p].phase = "bound" /\ mem'[p].claim = 0
        /\ mem'[p].sandbox = managed[i].sandbox /\ mem'[p].home = managed[i].home
    BY <2>1, <2>2 DEF NoMemory, Copy, Uid
  <2>4. UNCHANGED <<claim, lastUid, home, managed, retained>>
    BY <1>3 DEF StartFromRecord
  <2>5. CompleteCopies'
    BY <2>1, <2>2, <2>3, <2>4 DEF CompleteCopies, ErasePcs, Uid
  <2>6. Issued'
    BY <2>1, <2>2, <2>3, <2>4 DEF Issued, Saved, TypeOK, Uid0
  <2>7. Provisioned' /\ NothingSaved'
    BY <2>1, <2>2, <2>3, <2>4 DEF Provisioned, NothingSaved, Saved
  <2>8. ClaimedCopy' /\ CopiesAgree' /\ GoneForGood'
    BY <2>1, <2>2, <2>3, <2>4 DEF ClaimedCopy, CopiesAgree, GoneForGood
  <2>9. QED
    BY <2>5, <2>6, <2>7, <2>8
<1>4. CASE StartConnect(p) \/ StartDisconnect(p)
  <2>1. OthersKeep(p) /\ pc'[p] \in ConnectPcs
    BY <1>4, AtMoves, KeepMoves DEF StartConnect, StartDisconnect, ConnectPcs
  <2>2. mem'[p].rec = 0 /\ mem'[p].phase = "none" /\ mem'[p].home = 0 /\ mem'[p].claim = 0
    <3>1. CASE StartConnect(p)
      <4>1. PICK name \in SandboxNames : Keep(p, [NoMemory EXCEPT !.cmd = "connect", !.name = name])
        BY <3>1 DEF StartConnect
      <4>2. mem'[p] = [NoMemory EXCEPT !.cmd = "connect", !.name = name]
        BY <4>1, KeepMoves
      <4>3. QED
        BY <4>2 DEF NoMemory
    <3>2. CASE StartDisconnect(p)
      <4>1. PICK u \in Uid : Keep(p, [NoMemory EXCEPT !.cmd = "disconnect", !.sandbox = u,
                                                      !.link = conn[u]])
        BY <3>2 DEF StartDisconnect
      <4>2. mem'[p] = [NoMemory EXCEPT !.cmd = "disconnect", !.sandbox = u, !.link = conn[u]]
        BY <4>1, KeepMoves
      <4>3. QED
        BY <4>2 DEF NoMemory
    <3>3. QED
      BY <1>4, <3>1, <3>2
  <2>3. UNCHANGED <<claim, lastUid, home, managed, retained>>
    BY <1>4 DEF StartConnect, StartDisconnect
  <2>4. CompleteCopies'
    BY <2>1, <2>2, <2>3 DEF CompleteCopies, ConnectPcs, ModePcs, ReleasePcs, CleanupPcs, ErasePcs
  <2>5. Issued'
    BY <2>1, <2>2, <2>3 DEF Issued, Saved, TypeOK, Uid0
  <2>6. Provisioned' /\ NothingSaved'
    BY <2>1, <2>2, <2>3 DEF Provisioned, NothingSaved, Saved, ConnectPcs
  <2>7. ClaimedCopy' /\ CopiesAgree' /\ GoneForGood'
    BY <2>1, <2>2, <2>3 DEF ClaimedCopy, CopiesAgree, GoneForGood, ConnectPcs
  <2>8. QED
    BY <2>4, <2>5, <2>6, <2>7
<1>5. QED
  BY <1>1, <1>2, <1>3, <1>4 DEF Start

\* A create that finds a record copies it; without one there is none to clash with.
LEMMA SelectSavedKeeps ==
  ASSUME TypeOK, Bookkeeping, NEW p \in Procs, SelectSaved(p)
  PROVE  Bookkeeping'
<1> USE DEF Bookkeeping, OthersKeep
<1> mem[p] \in Memory
  BY DEF TypeOK
<1>1. PICK i \in Uid0, rekey \in BOOLEAN :
        /\ Saved \subseteq {i} /\ (i = 0 <=> Saved = {})
        /\ Keep(p, [Copy(mem[p], i) EXCEPT !.rekey = rekey])
  BY DEF SelectSaved
<1>2. OthersKeep(p) /\ pc'[p] = "obtain" /\ mem'[p] = [Copy(mem[p], i) EXCEPT !.rekey = rekey]
  BY <1>1, AtMoves, KeepMoves DEF SelectSaved
<1>3. /\ mem'[p].rec = i /\ mem'[p].claim = mem[p].claim
      /\ i = 0 => mem'[p].phase = "none" /\ mem'[p].home = 0
      /\ i # 0 => /\ mem'[p].phase = managed[i].phase
                  /\ mem'[p].sandbox = managed[i].sandbox /\ mem'[p].home = managed[i].home
  BY <1>2 DEF Copy, Memory
<1>4. UNCHANGED <<claim, lastUid, home, managed, retained>>
  BY DEF SelectSaved, cluster, records
<1>5. OthersKeep(p) /\ pc'[p] = "obtain"
  BY <1>2
<1>6. i # 0 => i \in Uid /\ Saved = {i} /\ managed[i].phase # "none"
  BY <1>1, UidFacts DEF Saved
<1>7. CompleteCopies'
  BY <1>3, <1>4, <1>5, <1>6 DEF CompleteCopies, ConnectPcs, ModePcs, ReleasePcs, CleanupPcs, ErasePcs
<1>8. Issued'
  BY <1>3, <1>4, <1>5, <1>6 DEF Issued, Saved, TypeOK, Uid0
<1>9. Provisioned'
  BY <1>3, <1>4, <1>5, <1>6 DEF Provisioned
<1>10. NothingSaved'
  BY <1>1, <1>3, <1>4, <1>5 DEF NothingSaved, Saved
<1>11. ClaimedCopy'
  BY <1>3, <1>4, <1>5, <1>6 DEF ClaimedCopy, CopiesAgree, CreatePcs
<1>12. CopiesAgree' /\ GoneForGood'
  BY <1>3, <1>4, <1>5, <1>6 DEF CopiesAgree, GoneForGood
<1>13. QED
  BY <1>7, <1>8, <1>9, <1>10, <1>11, <1>12

\* The claim that a create reads was not left behind by anyone.
LEMMA GetClaimKeeps ==
  ASSUME TypeOK, Bookkeeping, NEW p \in Procs, GetClaim(p)
  PROVE  Bookkeeping'
<1> USE DEF Bookkeeping, OthersKeep
<1> mem[p] \in Memory
  BY DEF TypeOK
<1>1. mem'[p] = [mem[p] EXCEPT !.claim = claim, !.ready = claimReady]
  BY KeepMoves DEF GetClaim
<1>2. /\ mem'[p].rec = mem[p].rec /\ mem'[p].phase = mem[p].phase /\ mem'[p].claim = claim
      /\ mem'[p].sandbox = mem[p].sandbox /\ mem'[p].home = mem[p].home
  BY <1>1 DEF Memory
<1>3. OthersKeep(p) /\ pc[p] = "obtain" /\ pc'[p] = "record"
  BY AtMoves, KeepMoves DEF GetClaim
<1>4. UNCHANGED <<claim, lastUid, home, managed, retained>> /\ claim # 0
  BY DEF GetClaim, cluster, records
<1>5. CompleteCopies'
  BY <1>2, <1>3, <1>4 DEF CompleteCopies, ConnectPcs, ModePcs, ReleasePcs, CleanupPcs, ErasePcs
<1>6. Issued'
  BY <1>2, <1>3, <1>4 DEF Issued, Saved
<1>7. Provisioned' /\ NothingSaved'
  BY <1>2, <1>3, <1>4 DEF Provisioned, NothingSaved, Saved
<1>8. ClaimedCopy' /\ CopiesAgree'
  BY <1>2, <1>3, <1>4 DEF ClaimedCopy, CopiesAgree, CreatePcs
<1>9. GoneForGood'
  BY <1>2, <1>3, <1>4 DEF GoneForGood
<1>10. QED
  BY <1>5, <1>6, <1>7, <1>8, <1>9

\* A claim that a create makes has a UID that no record and no copy has seen.
LEMMA CreateClaimKeeps ==
  ASSUME TypeOK, Bookkeeping, NEW p \in Procs, CreateClaim(p)
  PROVE  Bookkeeping'
<1> USE DEF Bookkeeping, OthersKeep
<1> mem[p] \in Memory
  BY DEF TypeOK
<1>1. mem'[p] = [mem[p] EXCEPT !.claim = lastUid + 1]
  BY KeepMoves DEF CreateClaim
<1>2. /\ mem'[p].rec = mem[p].rec /\ mem'[p].phase = mem[p].phase /\ mem'[p].claim = lastUid + 1
      /\ mem'[p].sandbox = mem[p].sandbox /\ mem'[p].home = mem[p].home
  BY <1>1 DEF Memory
<1>3. OthersKeep(p) /\ pc[p] = "obtain" /\ pc'[p] = "record"
  BY AtMoves, KeepMoves DEF CreateClaim
<1>4. /\ UNCHANGED <<home, managed, retained>>
      /\ lastUid \in Nat /\ lastUid' = lastUid + 1 /\ claim' = lastUid + 1
  BY DEF CreateClaim, records, TypeOK, Uid0
<1>5. \A q \in Procs : mem[q].rec \in Nat /\ mem[q].claim \in Nat
  BY DEF TypeOK, Memory, Uid0
<1>6. CompleteCopies'
  BY <1>2, <1>3, <1>4 DEF CompleteCopies, ConnectPcs, ModePcs, ReleasePcs, CleanupPcs, ErasePcs
<1>7. Issued'
  BY <1>2, <1>3, <1>4, <1>5 DEF Issued, Saved, Uid
<1>8. Provisioned' /\ NothingSaved'
  BY <1>2, <1>3, <1>4 DEF Provisioned, NothingSaved, Saved
<1>9. ClaimedCopy' /\ CopiesAgree'
  BY <1>2, <1>3, <1>4 DEF ClaimedCopy, CopiesAgree, CreatePcs
<1>10. GoneForGood'
  BY <1>2, <1>3, <1>4, <1>5 DEF GoneForGood, Issued
<1>11. QED
  BY <1>6, <1>7, <1>8, <1>9, <1>10

\* Only the process that holds the lock is in a create, so it alone adds a record.
LEMMA RecordClaimKeeps ==
  ASSUME TypeOK, Exclusive, Bookkeeping, NEW p \in Procs, RecordClaim(p)
  PROVE  Bookkeeping'
<1> USE DEF Bookkeeping, OthersKeep
<1> DEFINE c == mem[p].claim
<1> mem[p] \in Memory
  BY DEF TypeOK
<1>1. pc[p] = "record" /\ pc'[p] = "ready" /\ \A q \in Procs \ {p} : pc'[q] = pc[q]
  BY AtMoves DEF RecordClaim
<1>2. c \in Uid
  BY <1>1, UidFacts DEF CompleteCopies, Memory
<1>3. UNCHANGED <<claim, lastUid, home, retained>>
  BY DEF RecordClaim, cluster
<1>4. \A q \in Procs \ {p} : pc[q] \notin CreatePcs
  BY <1>1 DEF Exclusive, CreatePcs
<1>5. CASE mem[p].rec # 0
  <2>1. mem[p].rec = c /\ UNCHANGED <<managed, mem>>
    BY <1>5 DEF RecordClaim
  <2>2. CompleteCopies'
    BY <1>1, <1>2, <1>3, <2>1 DEF CompleteCopies, ConnectPcs, ModePcs, ReleasePcs, CleanupPcs,
                                  ErasePcs, Uid
  <2>3. Issued' /\ Provisioned' /\ NothingSaved'
    BY <1>1, <1>3, <2>1 DEF Issued, Provisioned, NothingSaved, Saved
  <2>4. ClaimedCopy' /\ CopiesAgree' /\ GoneForGood'
    BY <1>1, <1>3, <2>1 DEF ClaimedCopy, CopiesAgree, GoneForGood, CreatePcs
  <2>5. QED
    BY <2>2, <2>3, <2>4
<1>6. CASE mem[p].rec = 0
  <2>1. /\ managed' = [managed EXCEPT ![c] = [NoManaged EXCEPT !.phase = "claimed"]]
        /\ mem'[p] = [mem[p] EXCEPT !.rec = c, !.phase = "claimed"]
        /\ \A q \in Procs \ {p} : mem'[q] = mem[q]
    BY <1>6, KeepMoves DEF RecordClaim
  <2>2. /\ managed'[c].phase = "claimed" /\ managed'[c].home = 0
        /\ \A j \in Uid \ {c} : managed'[j] = managed[j]
    BY <1>2, <2>1 DEF TypeOK, NoManaged
  <2>3. /\ mem'[p].rec = c /\ mem'[p].phase = "claimed" /\ mem'[p].claim = c
        /\ mem'[p].sandbox = mem[p].sandbox /\ mem'[p].home = mem[p].home
    BY <2>1 DEF Memory
  <2>4. OthersKeep(p)
    BY <1>1, <2>1
  <2>5. Saved = {}
    BY <1>1, <1>6 DEF NothingSaved
  <2>6. \A q \in Procs : mem[q].phase = "bound" => mem[q].rec # c /\ mem[q].rec \in Uid
    <3> SUFFICES ASSUME NEW q \in Procs, mem[q].phase = "bound"
                 PROVE  mem[q].rec # c /\ mem[q].rec \in Uid
      OBVIOUS
    <3>1. mem[q].rec \in Uid
      BY UidFacts DEF CompleteCopies, TypeOK, Memory
    <3>2. managed[mem[q].rec].phase = "none"
      BY <2>5, <3>1 DEF Saved
    <3>3. QED
      BY <1>1, <1>6, <3>1, <3>2 DEF GoneForGood
  <2>7. CompleteCopies'
    BY <1>1, <1>2, <2>2, <2>3, <2>4 DEF CompleteCopies, ConnectPcs, ModePcs, ReleasePcs, CleanupPcs,
                                  ErasePcs, Uid
  <2>8. Issued'
    BY <1>2, <1>3, <2>2, <2>3, <2>4 DEF Issued, Saved
  <2>9. Provisioned'
    BY <1>2, <1>3, <2>2, <2>3, <2>4 DEF Provisioned
  <2>10. NothingSaved'
    BY <1>1, <1>4, <2>4 DEF NothingSaved, CreatePcs
  <2>11. ClaimedCopy'
    BY <1>1, <1>4, <2>2, <2>3, <2>4, <2>6 DEF ClaimedCopy, CreatePcs
  <2>12. CopiesAgree'
    BY <2>2, <2>3, <2>4, <2>6 DEF CopiesAgree
  <2>13. GoneForGood'
    BY <1>1, <1>3, <2>2, <2>3, <2>4, <2>6 DEF GoneForGood
  <2>14. QED
    BY <2>7, <2>8, <2>9, <2>10, <2>11, <2>12, <2>13
<1>7. QED
  BY <1>5, <1>6

\* A bound copy accepts only the home it names already.
LEMMA ResolveHomeKeeps ==
  ASSUME TypeOK, Bookkeeping, NEW p \in Procs, ResolveHome(p)
  PROVE  Bookkeeping'
<1> USE DEF Bookkeeping, OthersKeep
<1> mem[p] \in Memory
  BY DEF TypeOK
<1>1. PICK h \in Uid : /\ HomePresent(h)
                       /\ mem[p].phase = "bound" => h = mem[p].home
                       /\ Keep(p, [mem[p] EXCEPT !.home = h])
  BY DEF ResolveHome, OwnedHome
<1>2. mem'[p] = [mem[p] EXCEPT !.home = h]
  BY <1>1, KeepMoves
<1>3. /\ mem'[p].rec = mem[p].rec /\ mem'[p].phase = mem[p].phase
      /\ mem'[p].claim = mem[p].claim /\ mem'[p].sandbox = mem[p].sandbox /\ mem'[p].home = h
  BY <1>2 DEF Memory
<1>4. OthersKeep(p) /\ pc[p] = "resolveHome" /\ pc'[p] = "bind"
  BY <1>1, AtMoves, KeepMoves DEF ResolveHome
<1>5. UNCHANGED <<claim, lastUid, home, managed, retained>>
  BY DEF ResolveHome, cluster, records
<1>6. h # 0 /\ home[h].st # "none"
  BY <1>1 DEF HomePresent, Uid
<1>7. CompleteCopies'
  BY <1>3, <1>4, <1>5, <1>6 DEF CompleteCopies, ConnectPcs, ModePcs, ReleasePcs, CleanupPcs, ErasePcs
<1>8. Issued'
  BY <1>3, <1>4, <1>5 DEF Issued, Saved
<1>9. Provisioned' /\ NothingSaved'
  BY <1>3, <1>4, <1>5, <1>6 DEF Provisioned, NothingSaved, Saved
<1>10. ClaimedCopy' /\ GoneForGood'
  BY <1>3, <1>4, <1>5 DEF ClaimedCopy, GoneForGood, CreatePcs
<1>11. CopiesAgree'
  BY <1>1, <1>3, <1>4, <1>5 DEF CopiesAgree
<1>12. QED
  BY <1>7, <1>8, <1>9, <1>10, <1>11

\* Reading the claim changes no copy of a record.
LEMMA ReadClaimKeeps ==
  ASSUME TypeOK, Bookkeeping, NEW p \in Procs, ReadClaim(p)
  PROVE  Bookkeeping'
<1> USE DEF Bookkeeping, OthersKeep
<1> mem[p] \in Memory
  BY DEF TypeOK
<1>1. mem'[p] = [mem[p] EXCEPT !.claim = claim]
  BY KeepMoves DEF ReadClaim
<1>2. /\ mem'[p].rec = mem[p].rec /\ mem'[p].phase = mem[p].phase /\ mem'[p].claim = claim
      /\ mem'[p].sandbox = mem[p].sandbox /\ mem'[p].home = mem[p].home
  BY <1>1 DEF Memory
<1>3. OthersKeep(p) /\ pc[p] = "claim" /\ pc'[p] = "sandbox"
  BY AtMoves, KeepMoves DEF ReadClaim
<1>4. UNCHANGED <<claim, lastUid, home, managed, retained>>
  BY DEF ReadClaim, cluster, records
<1>5. CompleteCopies'
  BY <1>2, <1>3, <1>4 DEF CompleteCopies, ModePcs, ErasePcs
<1>6. Issued'
  BY <1>2, <1>3, <1>4 DEF Issued, Saved
<1>7. Provisioned' /\ NothingSaved'
  BY <1>2, <1>3, <1>4 DEF Provisioned, NothingSaved, Saved
<1>8. ClaimedCopy' /\ CopiesAgree' /\ GoneForGood'
  BY <1>2, <1>3, <1>4 DEF ClaimedCopy, CopiesAgree, GoneForGood, CreatePcs
<1>9. QED
  BY <1>5, <1>6, <1>7, <1>8

\* The copy of the lock's holder becomes bound; no other command knew the allocation
\* unless the copy was bound already, and then it agrees with theirs.
LEMMA SaveBindingKeeps ==
  ASSUME TypeOK, Exclusive, Bookkeeping, NEW p \in Procs, SaveBinding(p)
  PROVE  Bookkeeping'
<1> USE DEF Bookkeeping, OthersKeep
<1> DEFINE m == mem[p]
           i == m.rec
<1> m \in Memory
  BY DEF TypeOK
<1>1. /\ pc[p] = "bind" /\ pc'[p] = "link" /\ OthersKeep(p)
      /\ mem'[p] = [m EXCEPT !.phase = "bound", !.rekey = FALSE]
  BY AtMoves, KeepMoves DEF SaveBinding
<1>2. /\ mem'[p].rec = i /\ mem'[p].phase = "bound" /\ mem'[p].claim = m.claim
      /\ mem'[p].sandbox = m.sandbox /\ mem'[p].home = m.home
  BY <1>1 DEF Memory
<1>3. OthersKeep(p) /\ pc[p] = "bind" /\ pc'[p] = "link"
  BY <1>1
<1>4. UNCHANGED <<claim, lastUid, home, retained>>
  BY DEF SaveBinding, cluster
<1>5. i \in Uid /\ m.phase \in {"claimed", "bound"} /\ m.sandbox # 0 /\ m.home # 0
  BY <1>3, UidFacts DEF CompleteCopies, Memory, Phases
<1>6. \A q \in Procs \ {p} : pc[q] \notin CreatePcs
  BY <1>3 DEF Exclusive, CreatePcs
<1>7. /\ \A j \in Uid \ {i} : managed'[j] = managed[j]
      /\ \/ m.phase = "bound" /\ managed'[i] = managed[i]
         \/ managed'[i] = [phase |-> "bound", sandbox |-> m.sandbox, home |-> m.home]
  BY <1>5 DEF SaveBinding, TypeOK
<1>8. \A q \in Procs : mem[q].phase = "bound" /\ mem[q].rec = i => mem[q].home = m.home
  BY <1>5 DEF ClaimedCopy, CopiesAgree
<1>9. /\ m.phase = "claimed" => managed'[i].phase = "bound"
      /\ managed'[i].phase \in {"none", "bound"}
      /\ managed'[i].phase = "bound" => managed'[i].home = m.home
      /\ managed'[i].home \in {managed[i].home, m.home}
      /\ managed'[i].phase = "none" => managed[i].phase = "none"
  BY <1>5, <1>7 DEF CopiesAgree
<1>10. CompleteCopies'
  <2>1. \A j \in Uid : managed'[j].phase = "bound" => managed'[j].sandbox # 0 /\ managed'[j].home # 0
    BY <1>5, <1>7 DEF CompleteCopies
  <2>2. QED
    BY <1>2, <1>3, <1>5, <2>1 DEF CompleteCopies, ConnectPcs, ErasePcs, Uid
<1>11. Issued'
  BY <1>2, <1>3, <1>4, <1>7 DEF Issued, Saved
<1>12. Provisioned'
  BY <1>2, <1>3, <1>4, <1>7, <1>9 DEF Provisioned
<1>13. NothingSaved'
  BY <1>3, <1>6 DEF NothingSaved, CreatePcs
<1>14. ClaimedCopy'
  BY <1>2, <1>3, <1>6 DEF ClaimedCopy
<1>15. CopiesAgree'
  BY <1>2, <1>3, <1>7, <1>8, <1>9, CopiedUid DEF CopiesAgree
<1>16. GoneForGood'
  BY <1>2, <1>3, <1>4, <1>5, <1>7, <1>9, CopiedUid DEF GoneForGood
<1>17. QED
  BY <1>10, <1>11, <1>12, <1>13, <1>14, <1>15, <1>16

\* The claim of the forgotten record is left behind, so the record cannot come back.
LEMMA ForgetKeeps ==
  ASSUME TypeOK, Bookkeeping, ClaimLeftBehind, NEW p \in Procs, Forget(p)
  PROVE  Bookkeeping'
<1> USE DEF Bookkeeping, OthersKeep
<1> DEFINE m == mem[p]
           i == m.rec
<1> m \in Memory
  BY DEF TypeOK
<1>1. /\ pc[p] = "forget" /\ pc'[p] = "lock" /\ OthersKeep(p)
      /\ mem'[p] = [NoMemory EXCEPT !.cmd = m.cmd, !.home = m.home]
  BY AtMoves, KeepMoves DEF Forget
<1>2. /\ mem'[p].rec = 0 /\ mem'[p].phase = "none" /\ mem'[p].claim = 0
      /\ mem'[p].home = m.home
  BY <1>1 DEF NoMemory
<1>3. OthersKeep(p) /\ pc[p] = "forget" /\ pc'[p] = "lock"
  BY <1>1
<1>4. UNCHANGED <<claim, lastUid, home, retained>>
  BY DEF Forget, cluster
<1>5. i \in Uid /\ m.phase = "bound" /\ m.home # 0 /\ claim # i
  BY <1>3, UidFacts DEF CompleteCopies, Memory, CleanupPcs, ClaimLeftBehind
<1>6. /\ \A j \in Uid \ {i} : managed'[j] = managed[j]
      /\ managed'[i].phase = "none" /\ managed'[i].home = 0
  BY <1>5 DEF Forget, TypeOK, NoManaged
<1>7. CompleteCopies'
  BY <1>2, <1>3, <1>5, <1>6 DEF CompleteCopies, ConnectPcs, ModePcs, ReleasePcs, CleanupPcs, ErasePcs
<1>8. Issued'
  BY <1>2, <1>3, <1>4, <1>6 DEF Issued, Saved, TypeOK, Uid0
<1>9. Provisioned'
  BY <1>2, <1>3, <1>4, <1>6 DEF Provisioned
<1>10. NothingSaved'
  BY <1>2, <1>3, <1>6 DEF NothingSaved, Saved
<1>11. ClaimedCopy'
  BY <1>2, <1>3, <1>5, <1>6, CopiedUid DEF ClaimedCopy
<1>12. CopiesAgree'
  BY <1>2, <1>3, <1>6, CopiedUid DEF CopiesAgree
<1>13. GoneForGood'
  <2>1. \A q \in Procs : pc[q] = "record" /\ mem[q].rec = 0 => mem[q].claim # i
    BY <1>5 DEF GoneForGood, NothingSaved, Saved
  <2>2. QED
    BY <1>2, <1>3, <1>4, <1>5, <1>6, <2>1, CopiedUid DEF GoneForGood
<1>14. QED
  BY <1>7, <1>8, <1>9, <1>10, <1>11, <1>12, <1>13

\* Every step is one of the steps treated above.
LEMMA StepKinds ==
  ASSUME TypeOK, CompleteCopies, NEW p \in Procs, Step(p) \/ Interrupt(p)
  PROVE  \/ Quiet(p) \/ Returned(p)
         \/ SelectSaved(p) \/ GetClaim(p) \/ CreateClaim(p) \/ RecordClaim(p)
         \/ ResolveHome(p) \/ SaveBinding(p) \/ ReadClaim(p) \/ Forget(p)
<1>1. CASE CreateStep(p)
  BY <1>1, QuietCreate DEF CreateStep
<1>2. CASE ConnectStep(p)
  BY <1>2, QuietConnect, Returning DEF ConnectStep
<1>3. CASE ModeStep(p)
  BY <1>3, QuietMode, Returning DEF ModeStep
<1>4. CASE RetainStep(p)
  BY <1>4, QuietRetain DEF RetainStep
<1>5. CASE EraseStep(p)
  BY <1>5, QuietErase, Returning DEF EraseStep
<1>6. CASE Interrupt(p)
  BY <1>6, Returning
<1>7. QED
  BY <1>1, <1>2, <1>3, <1>4, <1>5, <1>6 DEF Step

\* Every step keeps the books.
LEMMA BookkeepingKept ==
  ASSUME IInv, [Next]_vars
  PROVE  Bookkeeping'
<1> USE DEF IInv
<1>1. ASSUME NEW p \in Procs, Step(p) \/ Interrupt(p)
      PROVE  Bookkeeping'
  BY <1>1, StepKinds, QuietKeeps, ReturnKeeps, SelectSavedKeeps, GetClaimKeeps, CreateClaimKeeps,
     RecordClaimKeeps, ResolveHomeKeeps, SaveBindingKeeps, ReadClaimKeeps, ForgetKeeps DEF Bookkeeping
<1>2. CASE Controllers \/ \E h \in Uid : LoseVolume(h) \/ PodFails(h)
  BY <1>2, ClusterMoving, ClusterKeeps
<1>3. CASE UNCHANGED vars
  BY <1>3 DEF vars, Bookkeeping, CompleteCopies, Issued, Provisioned, NothingSaved, ClaimedCopy,
              CopiesAgree, GoneForGood, Saved
<1>4. QED
  BY <1>1, <1>2, <1>3, StartKeeps DEF Next

-----------------------------------------------------------------------------
(* The lock *)

\* A step excludes others if it leaves the lock alone, takes it when free, or lets go of it.
LEMMA LockKept ==
  ASSUME Exclusive, NEW p \in Procs, OthersKeep(p),
         \/ UNCHANGED holder /\ (pc'[p] \in CreatePcs \cup ErasePcs => pc[p] \in CreatePcs \cup ErasePcs)
         \/ holder = {} /\ holder' = {p}
         \/ holder' = holder \ {p} /\ pc'[p] = "idle"
  PROVE  Exclusive'
  BY DEF Exclusive, OthersKeep, CreatePcs, ErasePcs

\* Every step is one of those: only a create and the deletion stage take the lock.
LEMMA ExclusiveKept ==
  ASSUME IInv, [Next]_vars
  PROVE  Exclusive'
<1> TypeOK /\ CompleteCopies /\ Exclusive
  BY DEF IInv, Bookkeeping
<1>1. ASSUME NEW p \in Procs, Start(p)
      PROVE  Exclusive'
  <2>1. OthersKeep(p)
    BY <1>1, AtMoves, KeepMoves DEF Start, StartCreate, StartConnect, StartDisconnect,
       StartFromRetained, StartFromRecord, OthersKeep
  <2>2. CASE StartCreate(p)
    BY <2>1, <2>2, LockKept DEF StartCreate, Lock
  <2>3. CASE ~StartCreate(p)
    <3>1. UNCHANGED holder /\ pc'[p] \in {"lock", "claim", "link", "detach"}
      BY <1>1, <2>3, AtMoves DEF Start, StartConnect, StartDisconnect, StartFromRetained, StartFromRecord
    <3>2. QED
      BY <2>1, <3>1, LockKept DEF CreatePcs, ErasePcs
  <2>4. QED
    BY <2>2, <2>3
<1>2. ASSUME NEW p \in Procs, Returned(p)
      PROVE  Exclusive'
  BY <1>2, LockKept DEF Returned
<1>3. ASSUME NEW p \in Procs, Quiet(p), Step(p), ~Returned(p)
      PROVE  Exclusive'
  <2>1. CASE LockRetained(p)
    BY <1>3, <2>1, LockKept DEF LockRetained, Lock, Quiet
  <2>2. CASE ~LockRetained(p)
    <3>1. UNCHANGED holder /\ pc[p] # "lock"
      <4>1. CASE CreateStep(p)
        BY <4>1, AtMoves DEF CreateStep, CheckOrigin, SelectSaved, GetClaim, CreateClaim,
           RecordClaim, WaitReady, ResolveSandbox, ResolveHome, SaveBinding
      <4>2. CASE ConnectStep(p)
        <5>1. CASE SelectLink(p)
          BY <5>1, AtMoves DEF SelectLink
        <5>2. CASE FirstLink(p) \/ AdoptIdentity(p) \/ Reach(p) \/ PrepareLink(p) \/ Attach(p)
          BY <5>2, AtMoves DEF FirstLink, AdoptIdentity, Reach, PrepareLink, Attach
        <5>3. QED
          BY <1>3, <4>2, <5>1, <5>2, Returning DEF ConnectStep
      <4>3. CASE ModeStep(p)
        BY <1>3, <4>3, Returning, AtMoves DEF ModeStep, ReadClaim, ReadSandbox, ReadHome, Disable,
           PatchMode, WaitMode, HomeAgain
      <4>4. CASE RetainStep(p)
        BY <4>4, AtMoves DEF RetainStep, OrphanClaim, ClaimGone, Recheck, StripLabels,
           OrphanSandbox, SandboxGone, VerifyRetained, SaveRetained, RemoveMachine, RemoveFiles, Forget
      <4>5. CASE EraseStep(p)
        BY <1>3, <2>2, <4>5, Returning, AtMoves DEF EraseStep, Reselect, CheckPending, InspectHome,
           InspectAllocation, InspectMounts, InspectVolume, MarkDeleting, DeletePVC, StorageGone
      <4>6. QED
        BY <1>3, <4>1, <4>3, <4>4, <4>5, <4>2 DEF Step
    <3>2. QED
      BY <1>3, <3>1, LockKept DEF Quiet, BoundPcs, CreatePcs, ConnectPcs, ModePcs, ReleasePcs,
                                  CleanupPcs, ErasePcs
  <2>3. QED
    BY <2>1, <2>2
<1>4. ASSUME NEW p \in Procs,
             \/ SelectSaved(p) \/ GetClaim(p) \/ CreateClaim(p) \/ RecordClaim(p)
             \/ ResolveHome(p) \/ SaveBinding(p) \/ ReadClaim(p) \/ Forget(p)
      PROVE  Exclusive'
  <2>1. OthersKeep(p) /\ UNCHANGED holder
    BY <1>4, AtMoves, KeepMoves DEF SelectSaved, GetClaim, CreateClaim, RecordClaim, ResolveHome,
                                    SaveBinding, ReadClaim, Forget, OthersKeep
  <2>2. \/ pc[p] \in CreatePcs
        \/ pc'[p] \in {"sandbox", "lock"}
    BY <1>4, AtMoves DEF SelectSaved, GetClaim, CreateClaim, RecordClaim, ResolveHome, SaveBinding,
                         ReadClaim, Forget, CreatePcs
  <2>3. QED
    BY <2>1, <2>2, LockKept DEF CreatePcs, ErasePcs
<1>5. CASE Controllers \/ (\E h \in Uid : LoseVolume(h) \/ PodFails(h)) \/ UNCHANGED vars
  <2>1. UNCHANGED <<holder, pc>>
    BY <1>5, ClusterMoving DEF ClusterMoves, vars
  <2>2. QED
    BY <2>1 DEF Exclusive
<1>6. ASSUME NEW p \in Procs, Step(p) \/ Interrupt(p)
      PROVE  Exclusive'
  BY <1>2, <1>3, <1>4, <1>6, StepKinds, Returning
<1>7. QED
  BY <1>1, <1>5, <1>6 DEF Next

-----------------------------------------------------------------------------
(* What a delete has left behind *)

\* A claim that was not a record's claim becomes it by no step: new claims are new.
LEMMA LeftBehindKept ==
  ASSUME IInv, [Next]_vars, NEW q \in Procs, mem[q].phase = "bound", claim # mem[q].rec
  PROVE  claim' # mem[q].rec
<1> TypeOK /\ Issued /\ CompleteCopies
  BY DEF IInv, Bookkeeping
<1>1. mem[q].rec \in Uid /\ mem[q].rec <= lastUid
  BY CopiedUid DEF Issued
<1>2. claim' \in {claim, 0} \/ claim' = lastUid + 1
  <2>1. ASSUME NEW p \in Procs, Start(p)
        PROVE  claim' = claim
    BY <2>1 DEF Start, StartCreate, StartConnect, StartDisconnect, StartFromRetained,
       StartFromRecord, cluster
  <2>2. ASSUME NEW p \in Procs, Step(p) \/ Interrupt(p)
        PROVE  claim' = claim \/ claim' = lastUid + 1
    BY <2>2, StepKinds DEF Quiet, Returned, SelectSaved, GetClaim, CreateClaim, RecordClaim,
       ResolveHome, SaveBinding, ReadClaim, Forget, cluster
  <2>3. CASE Controllers \/ (\E h \in Uid : LoseVolume(h) \/ PodFails(h)) \/ UNCHANGED vars
    BY <2>3, ClusterMoving DEF ClusterMoves, vars
  <2>4. QED
    BY <2>1, <2>2, <2>3 DEF Next
<1>3. QED
  BY <1>1, <1>2 DEF Uid, TypeOK, Uid0

\* The copies that ClaimLeftBehind is about, in the stages where a command has left its claim.
Left(p) ==
  \/ pc[p] \in ModePcs \ {"claim"} /\ mem[p].claim = 0
  \/ pc[p] \in {"recheck", "strip", "orphanSandbox", "sandboxGone", "verify", "retain"} \cup CleanupPcs

\* The other stages are entered from their own kind only.
LEMMA StageMoves ==
  ASSUME TypeOK, NEW p \in Procs
  PROVE  /\ Start(p) => pc'[p] \in {"origin", "link", "detach", "lock", "claim"}
         /\ CreateStep(p) => pc'[p] \in CreatePcs \cup {"link"}
         /\ ConnectStep(p) => pc'[p] \in ConnectPcs \cup {"idle"}
         /\ EraseStep(p) => pc'[p] \in ErasePcs \cup {"idle"}
<1>1. Start(p) => pc'[p] \in {"origin", "link", "detach", "lock", "claim"}
  BY AtMoves DEF Start, StartCreate, StartConnect, StartDisconnect, StartFromRetained,
     StartFromRecord
<1>2. CreateStep(p) => pc'[p] \in CreatePcs \cup {"link"}
  BY AtMoves DEF CreateStep, CheckOrigin, SelectSaved, GetClaim, CreateClaim, RecordClaim,
                 WaitReady, ResolveSandbox, ResolveHome, SaveBinding, CreatePcs
<1>3. ASSUME ConnectStep(p) PROVE pc'[p] \in ConnectPcs \cup {"idle"}
  <2>1. CASE SaveLink(p) \/ Disconnect(p)
    BY <2>1, Returning DEF Returned
  <2>2. CASE SelectLink(p)
    BY <2>2, AtMoves DEF SelectLink, ConnectPcs
  <2>3. CASE FirstLink(p) \/ AdoptIdentity(p) \/ Reach(p)
    BY <2>3, AtMoves DEF FirstLink, AdoptIdentity, Reach, ConnectPcs
  <2>4. CASE PrepareLink(p) \/ Attach(p)
    BY <2>4, AtMoves DEF PrepareLink, Attach, ConnectPcs
  <2>5. QED
    BY <1>3, <2>1, <2>2, <2>3, <2>4 DEF ConnectStep
<1>4. ASSUME EraseStep(p) PROVE pc'[p] \in ErasePcs \cup {"idle"}
  <2>1. CASE DropRetained(p)
    BY <2>1, Returning DEF Returned
  <2>2. CASE ~DropRetained(p)
    BY <1>4, <2>2, AtMoves DEF EraseStep, LockRetained, Reselect, CheckPending, InspectHome,
       InspectAllocation, InspectMounts, InspectVolume, MarkDeleting, DeletePVC, StorageGone, ErasePcs
  <2>3. QED
    BY <2>1, <2>2
<1>5. QED
  BY <1>1, <1>2, <1>3, <1>4

\* A command that has left its claim had left it before, or just saw that it is gone.
LEMMA LeftMoves ==
  ASSUME TypeOK, CompleteCopies, ClaimLeftBehind, NEW p \in Procs, ModeStep(p) \/ RetainStep(p)
  PROVE  /\ Left(p)' => /\ mem[p].phase = "bound" /\ mem'[p].rec = mem[p].rec
                        /\ claim # mem[p].rec
         /\ pc'[p] = "home" /\ ~mem'[p].found => mem'[p].claim = 0
<1> USE DEF Left
<1> mem[p] \in Memory
  BY DEF TypeOK
<1>1. mem[p].phase = "bound" /\ mem[p].rec # 0
  <2>1. ModeStep(p) => pc[p] \in ModePcs
    BY AtMoves DEF ModeStep, ReadClaim, ReadSandbox, ReadHome, Disable, PatchMode, WaitMode,
                   HomeAgain, ModePcs
  <2>2. RetainStep(p) => pc[p] \in ReleasePcs \cup CleanupPcs
    BY AtMoves DEF RetainStep, OrphanClaim, ClaimGone, Recheck, StripLabels, OrphanSandbox,
                   SandboxGone, VerifyRetained, SaveRetained, RemoveMachine, RemoveFiles, Forget,
                   ReleasePcs, CleanupPcs
  <2>3. QED
    BY <2>1, <2>2 DEF CompleteCopies
<1>2. CASE ReadClaim(p)
  <2>1. mem'[p] = [mem[p] EXCEPT !.claim = claim] /\ pc'[p] = "sandbox"
    BY <1>2, KeepMoves, AtMoves DEF ReadClaim
  <2>2. mem'[p].claim = claim /\ mem'[p].rec = mem[p].rec
    BY <2>1 DEF Memory
  <2>3. QED
    BY <1>1, <2>1, <2>2 DEF CleanupPcs
<1>3. CASE ReadSandbox(p)
  <2> DEFINE u == mem[p].sandbox
  <2>1. /\ mem'[p] = [mem[p] EXCEPT !.found = Present(u), !.mode = sandbox[u].mode]
        /\ pc[p] = "sandbox" /\ pc'[p] = "home"
    BY <1>3, KeepMoves, AtMoves DEF ReadSandbox
  <2>2. /\ mem'[p].claim = mem[p].claim /\ mem'[p].rec = mem[p].rec
        /\ mem'[p].found = Present(u)
    BY <2>1 DEF Memory
  <2>3. ~Present(u) => mem[p].claim = 0
    BY <1>3 DEF ReadSandbox
  <2>4. QED
    BY <1>1, <2>1, <2>2, <2>3 DEF CleanupPcs, ClaimLeftBehind, ModePcs
<1>4. CASE ReadHome(p)
  <2>1. /\ mem'[p] = [mem[p] EXCEPT !.link = conn[mem[p].sandbox]]
        /\ pc[p] = "home" /\ pc'[p] \in {"verify", "patch", "disable"}
        /\ pc'[p] = "verify" => ~mem[p].found
    BY <1>4, KeepMoves, AtMoves DEF ReadHome, Memory
  <2>2. mem'[p].claim = mem[p].claim /\ mem'[p].rec = mem[p].rec
    BY <2>1 DEF Memory
  <2>3. QED
    BY <1>1, <2>1, <2>2 DEF ClaimLeftBehind, ModePcs, CleanupPcs
<1>5. CASE Disable(p) \/ PatchMode(p)
  <2>1. /\ mem'[p].claim = mem[p].claim /\ mem'[p].rec = mem[p].rec
        /\ pc[p] \in {"disable", "patch"} /\ pc'[p] \in {"patch", "wait"}
    <3>1. CASE Disable(p)
      BY <3>1, AtMoves DEF Disable
    <3>2. CASE PatchMode(p)
      <4>1. /\ mem'[p] = [mem[p] EXCEPT !.mode = "Running", !.found = FALSE]
            /\ pc[p] = "patch" /\ pc'[p] = "wait"
        BY <3>2, AtMoves, KeepMoves DEF PatchMode
      <4>2. QED
        BY <4>1 DEF Memory
    <3>3. QED
      BY <1>5, <3>1, <3>2
  <2>2. QED
    BY <1>1, <2>1 DEF ClaimLeftBehind, ModePcs, CleanupPcs
<1>6. CASE WaitMode(p)
  <2>1. /\ mem' = mem /\ pc[p] = "wait" /\ pc'[p] \in {"again", "orphanClaim", "strip"}
        /\ pc'[p] = "strip" => mem[p].claim = 0
    BY <1>6, AtMoves DEF WaitMode, Memory
  <2>2. QED
    BY <1>1, <2>1 DEF ClaimLeftBehind, ModePcs, CleanupPcs
<1>7. CASE HomeAgain(p)
  <2>1. pc'[p] \in {"link", "idle"}
    BY <1>7, AtMoves, ReturnMoves DEF HomeAgain
  <2>2. QED
    BY <2>1 DEF ModePcs, CleanupPcs
<1>8. CASE OrphanClaim(p)
  <2>1. pc'[p] = "claimGone"
    BY <1>8, AtMoves DEF OrphanClaim
  <2>2. QED
    BY <2>1 DEF ModePcs, CleanupPcs
<1>9. CASE ClaimGone(p)
  BY <1>1, <1>9, AtMoves DEF ClaimGone
<1>10. CASE Recheck(p) \/ StripLabels(p) \/ OrphanSandbox(p) \/ SandboxGone(p) \/ VerifyRetained(p)
  <2>1. /\ mem' = mem /\ pc'[p] # "home"
        /\ pc[p] \in {"recheck", "strip", "orphanSandbox", "sandboxGone", "verify"}
    BY <1>10, AtMoves DEF Recheck, StripLabels, OrphanSandbox, SandboxGone, VerifyRetained
  <2>2. QED
    BY <1>1, <2>1 DEF ClaimLeftBehind
<1>11. CASE SaveRetained(p) \/ RemoveMachine(p) \/ RemoveFiles(p)
  <2>1. /\ mem' = mem /\ pc'[p] # "home"
        /\ pc[p] \in {"retain"} \cup CleanupPcs
    BY <1>11, AtMoves DEF SaveRetained, RemoveMachine, RemoveFiles, CleanupPcs
  <2>2. QED
    BY <1>1, <2>1 DEF ClaimLeftBehind
<1>12. CASE Forget(p)
  <2>1. pc'[p] = "lock"
    BY <1>12, AtMoves DEF Forget
  <2>2. QED
    BY <2>1 DEF ModePcs, CleanupPcs
<1>13. QED
  BY <1>2, <1>3, <1>4, <1>5, <1>6, <1>7, <1>8, <1>9, <1>10, <1>11, <1>12 DEF ModeStep, RetainStep

\* Nothing about a command changes unless it takes a step itself.
LEMMA OthersKept ==
  ASSUME TypeOK, CompleteCopies, NEW p \in Procs, Start(p) \/ Step(p) \/ Interrupt(p)
  PROVE  OthersKeep(p)
<1>1. CASE Start(p)
  BY <1>1, AtMoves, KeepMoves DEF Start, StartCreate, StartConnect, StartDisconnect, StartFromRetained,
     StartFromRecord, OthersKeep
<1>2. CASE SelectSaved(p) \/ GetClaim(p) \/ CreateClaim(p) \/ ResolveHome(p)
  BY <1>2, AtMoves, KeepMoves DEF SelectSaved, GetClaim, CreateClaim, ResolveHome, OthersKeep
<1>3. CASE RecordClaim(p) \/ SaveBinding(p) \/ ReadClaim(p) \/ Forget(p)
  BY <1>3, AtMoves, KeepMoves DEF RecordClaim, SaveBinding, ReadClaim, Forget, OthersKeep
<1>4. CASE Step(p) \/ Interrupt(p)
  BY <1>2, <1>3, <1>4, StepKinds DEF Quiet, Returned
<1>5. QED
  BY <1>1, <1>4

\* So no step brings back the claim of a delete that is past it.
LEMMA ClaimLeftBehindKept ==
  ASSUME IInv, [Next]_vars
  PROVE  ClaimLeftBehind'
<1> TypeOK /\ CompleteCopies /\ ClaimLeftBehind
  BY DEF IInv, Bookkeeping
<1>1. \A q \in Procs : mem[q].phase = "bound" /\ claim # mem[q].rec => claim' # mem[q].rec
  BY LeftBehindKept
<1>2. \A q \in Procs : Left(q) => mem[q].phase = "bound" /\ claim # mem[q].rec
  BY DEF Left, ClaimLeftBehind, CompleteCopies, ModePcs, ReleasePcs, CleanupPcs
<1>3. ASSUME NEW p \in Procs, Start(p) \/ Step(p) \/ Interrupt(p)
      PROVE  ClaimLeftBehind'
  <2>1. OthersKeep(p)
    BY <1>3, OthersKept
  <2>2. /\ Left(p)' => claim' # mem'[p].rec
        /\ pc'[p] = "home" /\ ~mem'[p].found => mem'[p].claim = 0
    <3>1. CASE ModeStep(p) \/ RetainStep(p)
      BY <1>1, <3>1, LeftMoves
    <3>2. CASE Start(p) \/ CreateStep(p) \/ ConnectStep(p) \/ EraseStep(p)
      <4>1. pc'[p] \in {"origin", "link", "detach", "lock", "claim", "idle"} \cup CreatePcs \cup ConnectPcs \cup ErasePcs
        BY <3>2, StageMoves DEF ConnectPcs
      <4>2. QED
        BY <4>1 DEF Left, CreatePcs, ConnectPcs, ModePcs, CleanupPcs, ErasePcs
    <3>3. CASE Interrupt(p)
      BY <3>3, Returning DEF Returned, Left, ModePcs, CleanupPcs
    <3>4. QED
      BY <1>3, <3>1, <3>2, <3>3 DEF Step
  <2>3. QED
    BY <1>1, <1>2, <2>1, <2>2 DEF ClaimLeftBehind, Left, OthersKeep
<1>4. CASE Controllers \/ (\E h \in Uid : LoseVolume(h) \/ PodFails(h)) \/ UNCHANGED vars
  <2>1. UNCHANGED <<pc, mem>>
    BY <1>4, ClusterMoving DEF ClusterMoves, vars
  <2>2. QED
    BY <1>1, <1>2, <2>1 DEF ClaimLeftBehind, Left
<1>5. QED
  BY <1>3, <1>4 DEF Next

-----------------------------------------------------------------------------
(* The retained record takes over *)

\* A home that has been provisioned keeps what a deletion has reached.
LEMMA HomesMove ==
  ASSUME TypeOK, CompleteCopies, [Next]_vars
  PROVE  HomesLast
<1>1. ASSUME UNCHANGED home PROVE HomesLast
  BY <1>1 DEF HomesLast
<1>2. ASSUME NEW p \in Procs, Start(p)
      PROVE  UNCHANGED home
  BY <1>2 DEF Start, StartCreate, StartConnect, StartDisconnect, StartFromRetained,
     StartFromRecord, cluster
<1>3. ASSUME NEW p \in Procs, Step(p) \/ Interrupt(p)
      PROVE  HomesLast \/ UNCHANGED home
  BY <1>3, StepKinds DEF Quiet, Returned, SelectSaved, GetClaim, CreateClaim, RecordClaim,
     ResolveHome, SaveBinding, ReadClaim, Forget, cluster
<1>4. CASE UNCHANGED vars
  BY <1>1, <1>4 DEF vars
<1>5. QED
  BY <1>1, <1>2, <1>3, <1>4, ClusterMoving DEF Next, ClusterMoves

\* Three steps write retained records.
LEMMA RetainedWriters ==
  ASSUME TypeOK, [Next]_vars
  PROVE  \/ UNCHANGED retained
         \/ \E p \in Procs : SaveRetained(p) \/ MarkDeleting(p) \/ DropRetained(p)
<1>1. ASSUME NEW p \in Procs, Start(p) \/ Interrupt(p)
      PROVE  UNCHANGED retained
  BY <1>1 DEF Start, StartCreate, StartConnect, StartDisconnect, StartFromRetained,
     StartFromRecord, Interrupt, records
<1>2. ASSUME NEW p \in Procs, CreateStep(p)
      PROVE  UNCHANGED retained
  BY <1>2 DEF CreateStep, CheckOrigin, SelectSaved, GetClaim, CreateClaim, RecordClaim,
     WaitReady, ResolveSandbox, ResolveHome, SaveBinding, records
<1>3. ASSUME NEW p \in Procs, ConnectStep(p)
      PROVE  UNCHANGED retained
  BY <1>3 DEF ConnectStep, SelectLink, FirstLink, AdoptIdentity, Reach, PrepareLink, Attach,
     SaveLink, Disconnect, records
<1>4. ASSUME NEW p \in Procs, ModeStep(p)
      PROVE  UNCHANGED retained
  BY <1>4 DEF ModeStep, ReadClaim, ReadSandbox, ReadHome, Disable, PatchMode, WaitMode, HomeAgain, records
<1>5. ASSUME NEW p \in Procs, RetainStep(p), ~SaveRetained(p)
      PROVE  UNCHANGED retained
  BY <1>5 DEF RetainStep, OrphanClaim, ClaimGone, Recheck, StripLabels, OrphanSandbox,
     SandboxGone, VerifyRetained, RemoveMachine, RemoveFiles, Forget, records
<1>6. ASSUME NEW p \in Procs, EraseStep(p), ~MarkDeleting(p), ~DropRetained(p)
      PROVE  UNCHANGED retained
  BY <1>6 DEF EraseStep, LockRetained, Reselect, CheckPending, InspectHome, InspectAllocation,
     InspectMounts, InspectVolume, DeletePVC, StorageGone, records
<1>7. CASE Controllers \/ (\E h \in Uid : LoseVolume(h) \/ PodFails(h)) \/ UNCHANGED vars
  BY <1>7, ClusterMoving DEF ClusterMoves, vars, records
<1>8. QED
  BY <1>1, <1>2, <1>3, <1>4, <1>5, <1>6, <1>7 DEF Next, Step

\* The home of a command with work left on it has been provisioned.
LEMMA HomeInHand ==
  ASSUME TypeOK, CompleteCopies, Provisioned, NEW q \in Procs, pc[q] \in CleanupPcs \cup ErasePcs \cup {"retain"}
  PROVE  mem[q].home \in Uid /\ home[mem[q].home].st # "none"
  BY UidFacts DEF TypeOK, CompleteCopies, Provisioned, Memory, ReleasePcs

\* A retained record goes away only with the storage, and is not saved as a deletion that
\* owes nothing while the volume is there.
LEMMA RetainedMoves ==
  ASSUME IInv, [Next]_vars, NEW h \in Uid
  PROVE  /\ retained[h].state # "none" /\ retained'[h].state = "none" => Erased(h)
         /\ retained'[h].state = "deleting" /\ ~retained'[h].volume => home[h].pv = "gone"
<1> TypeOK /\ CompleteCopies /\ HandedOver
  BY DEF IInv, Bookkeeping
<1>1. CASE UNCHANGED retained
  BY <1>1 DEF HandedOver
<1>2. ASSUME NEW p \in Procs, SaveRetained(p)
      PROVE  /\ retained[h].state # "none" /\ retained'[h].state = "none" => Erased(h)
             /\ retained'[h].state = "deleting" /\ ~retained'[h].volume => home[h].pv = "gone"
  <2>1. retained'[h] = retained[h] \/ retained'[h].state = "available"
    BY <1>2 DEF SaveRetained, TypeOK
  <2>2. QED
    BY <2>1 DEF HandedOver
<1>3. ASSUME NEW p \in Procs, MarkDeleting(p)
      PROVE  /\ retained[h].state # "none" /\ retained'[h].state = "none" => Erased(h)
             /\ retained'[h].state = "deleting" /\ ~retained'[h].volume => home[h].pv = "gone"
  <2>1. \/ retained'[h] = retained[h]
        \/ h = mem[p].home /\ retained'[h].state = "deleting" /\ retained'[h].volume = mem[p].volume
    BY <1>3 DEF MarkDeleting, TypeOK
  <2>2. pc[p] = "mark"
    BY <1>3, AtMoves DEF MarkDeleting
  <2>3. QED
    BY <2>1, <2>2 DEF HandedOver, ErasePcs
<1>4. ASSUME NEW p \in Procs, DropRetained(p)
      PROVE  /\ retained[h].state # "none" /\ retained'[h].state = "none" => Erased(h)
             /\ retained'[h].state = "deleting" /\ ~retained'[h].volume => home[h].pv = "gone"
  <2>1. retained'[h] = retained[h] \/ (h = mem[p].home /\ retained'[h].state = "none")
    BY <1>4 DEF DropRetained, TypeOK, NoRetained
  <2>2. pc[p] = "drop"
    BY <1>4 DEF DropRetained
  <2>3. QED
    BY <2>1, <2>2 DEF HandedOver
<1>5. QED
  BY <1>1, <1>2, <1>3, <1>4, RetainedWriters

\* What the deletion stage knows of the home when its next call is "next".
Knows(m, next) ==
  /\ next \in {"erase", "storageGone"} => m.state = "deleting"
  /\ next \in ErasePcs \ {"reselect"} /\ (next = "mark" \/ m.state = "deleting") /\ ~m.volume
       => home[m.home].pv = "gone"
  /\ next = "drop" => Erased(m.home)

\* Each call of the deletion stage establishes what the next one relies on.
LEMMA EraseMoves ==
  ASSUME IInv, NEW p \in Procs, EraseStep(p), ~DropRetained(p)
  PROVE  Knows(mem'[p], pc'[p])
<1> DEFINE m == mem[p]
           h == m.home
<1> TypeOK /\ CompleteCopies /\ Provisioned /\ HandedOver /\ m \in Memory
  BY DEF IInv, Bookkeeping, TypeOK
<1>1. Knows(m, pc[p])
  BY DEF HandedOver, Knows
<1>2. CASE LockRetained(p)
  <2>1. pc'[p] = "reselect"
    BY <1>2, AtMoves DEF LockRetained
  <2>2. QED
    BY <2>1 DEF Knows
<1>3. CASE Reselect(p)
  <2> DEFINE r == retained[h]
  <2>1. /\ mem'[p] = [m EXCEPT !.state = r.state, !.sandbox = r.origin, !.volume = r.volume]
        /\ pc[p] = "reselect" /\ pc'[p] \in {"inspectHome", "pending"}
    BY <1>3, AtMoves, KeepMoves DEF Reselect
  <2>2. mem'[p].state = r.state /\ mem'[p].volume = r.volume /\ mem'[p].home = h
    BY <2>1 DEF Memory
  <2>3. h \in Uid
    BY <2>1, HomeInHand DEF ErasePcs
  <2>4. QED
    BY <2>1, <2>2, <2>3 DEF HandedOver, Knows
<1>4. CASE CheckPending(p)
  <2>1. /\ mem' = mem /\ pc[p] = "pending" /\ pc'[p] \in {"inspectHome", "erase"}
        /\ pc'[p] = "erase" => m.state = "deleting"
    BY <1>4, AtMoves DEF CheckPending
  <2>2. QED
    BY <1>1, <2>1 DEF Knows, ErasePcs
<1>5. CASE InspectHome(p) \/ InspectAllocation(p) \/ InspectMounts(p)
  <2>1. /\ mem' = mem /\ pc[p] \in {"inspectHome", "inspectAllocation", "inspectMounts"}
        /\ pc'[p] \in {"inspectAllocation", "inspectMounts", "inspectVolume"}
    BY <1>5, AtMoves DEF InspectHome, InspectAllocation, InspectMounts
  <2>2. QED
    BY <1>1, <2>1 DEF Knows, ErasePcs
<1>6. CASE InspectVolume(p)
  <2>1. CASE m.state = "available"
    <3>1. pc'[p] = "mark" /\ mem'[p] = [m EXCEPT !.volume = (home[h].pv = "bound")]
      BY <1>6, <2>1, AtMoves, KeepMoves DEF InspectVolume
    <3>2. mem'[p].volume = (home[h].pv = "bound") /\ mem'[p].home = h
      BY <3>1 DEF Memory
    <3>3. pc[p] = "inspectVolume"
      BY <1>6, AtMoves DEF InspectVolume
    <3>4. home[h].pv \in {"bound", "gone"}
      BY <3>3, HomeInHand DEF TypeOK, Home, ErasePcs
    <3>5. QED
      BY <3>1, <3>2, <3>4 DEF Knows
  <2>2. CASE m.state # "available"
    <3>1. mem' = mem /\ m.state = "deleting" /\ pc[p] = "inspectVolume" /\ pc'[p] = "erase"
      BY <1>6, <2>2, AtMoves DEF InspectVolume
    <3>2. QED
      BY <1>1, <3>1 DEF Knows, ErasePcs
  <2>3. QED
    BY <2>1, <2>2
<1>7. CASE MarkDeleting(p)
  <2>1. pc[p] = "mark" /\ pc'[p] = "erase" /\ mem'[p] = [m EXCEPT !.state = "deleting"]
    BY <1>7, AtMoves, KeepMoves DEF MarkDeleting
  <2>2. mem'[p].state = "deleting" /\ mem'[p].volume = m.volume /\ mem'[p].home = h
    BY <2>1 DEF Memory
  <2>3. QED
    BY <1>1, <2>1, <2>2 DEF Knows, ErasePcs
<1>8. CASE DeletePVC(p)
  <2>1. mem' = mem /\ pc[p] = "erase" /\ pc'[p] = "storageGone"
    BY <1>8, AtMoves DEF DeletePVC
  <2>2. QED
    BY <1>1, <2>1 DEF Knows, ErasePcs
<1>9. CASE StorageGone(p)
  <2>1. /\ mem' = mem /\ pc[p] = "storageGone" /\ pc'[p] = "drop"
        /\ ~HomePresent(h) /\ (m.volume => home[h].pv = "gone")
    BY <1>9, AtMoves DEF StorageGone
  <2>2. h \in Uid /\ home[h].st = "gone"
    BY <2>1, HomeInHand DEF ErasePcs, HomePresent, TypeOK, Home
  <2>3. home[h].pv = "gone"
    BY <1>1, <2>1 DEF Knows, ErasePcs
  <2>4. QED
    BY <1>1, <2>1, <2>2, <2>3 DEF Knows, ErasePcs, Erased
<1>10. QED
  BY <1>2, <1>3, <1>4, <1>5, <1>6, <1>7, <1>8, <1>9 DEF EraseStep

\* A retained record is there, or its storage is gone, when the managed one is to go.
TakenOver(q) == pc[q] \in CleanupPcs => retained[mem[q].home].state # "none" \/ Erased(mem[q].home)

\* The clean-up starts after the retained record is saved.
LEMMA TakingOver ==
  ASSUME TypeOK, CompleteCopies, HandedOver, NEW p \in Procs, RetainStep(p)
  PROVE  /\ pc'[p] \in CleanupPcs => \/ retained'[mem'[p].home].state # "none"
                                     \/ Erased(mem'[p].home) /\ UNCHANGED home
         /\ pc'[p] \notin ErasePcs
<1> DEFINE h == mem[p].home
<1>1. CASE SaveRetained(p)
  <2>1. pc[p] = "retain" /\ pc'[p] = "removeMachine" /\ mem' = mem
    BY <1>1, AtMoves DEF SaveRetained
  <2>2. h \in Uid
    BY <2>1, UidFacts DEF TypeOK, CompleteCopies, Memory, ReleasePcs
  <2>3. retained'[h].state = "available"
    BY <1>1, <2>2 DEF SaveRetained, TypeOK
  <2>4. retained'[mem'[p].home].state # "none" /\ pc'[p] \notin ErasePcs
    BY <2>1, <2>3 DEF ErasePcs
  <2>5. QED
    BY <2>4
<1>2. CASE RemoveMachine(p) \/ RemoveFiles(p)
  <2>1. /\ pc[p] \in CleanupPcs /\ pc'[p] \in {"removeFiles", "forget"}
        /\ UNCHANGED <<mem, home, retained>>
    BY <1>2, AtMoves DEF RemoveMachine, RemoveFiles, CleanupPcs, records, cluster
  <2>2. QED
    BY <2>1 DEF HandedOver, ErasePcs
<1>3. CASE Forget(p)
  <2>1. pc'[p] = "lock"
    BY <1>3, AtMoves DEF Forget
  <2>2. QED
    BY <2>1 DEF CleanupPcs, ErasePcs
<1>4. CASE OrphanClaim(p) \/ ClaimGone(p) \/ Recheck(p) \/ StripLabels(p) \/ OrphanSandbox(p)
          \/ SandboxGone(p) \/ VerifyRetained(p)
  <2>1. pc'[p] \in ReleasePcs
    BY <1>4, AtMoves DEF OrphanClaim, ClaimGone, Recheck, StripLabels, OrphanSandbox, SandboxGone,
                         VerifyRetained, ReleasePcs
  <2>2. QED
    BY <2>1 DEF ReleasePcs, CleanupPcs, ErasePcs
<1>5. QED
  BY <1>1, <1>2, <1>3, <1>4 DEF RetainStep

\* Every step keeps the hand-over: what others have established is not undone.
LEMMA HandedOverKept ==
  ASSUME IInv, [Next]_vars
  PROVE  HandedOver'
<1> TypeOK /\ CompleteCopies /\ Provisioned /\ HandedOver
  BY DEF IInv, Bookkeeping
<1>1. \A h \in Uid : home[h].st # "none" => /\ home[h].pv = "gone" => home'[h].pv = "gone"
                                            /\ Erased(h) => Erased(h)'
  BY HomesMove DEF HomesLast, Erased
<1>2. \A h \in Uid : /\ retained[h].state # "none" /\ retained'[h].state = "none" => Erased(h)
                     /\ retained'[h].state = "deleting" /\ ~retained'[h].volume => home[h].pv = "gone"
  BY RetainedMoves
<1>3. \A h \in Uid : retained'[h].state = "deleting" => home[h].st # "none"
  <2>1. ASSUME NEW h \in Uid, retained'[h].state = "deleting", home[h].st = "none"
        PROVE  FALSE
    <3>1. retained[h].state = "none"
      BY <2>1 DEF Provisioned
    <3>2. PICK p \in Procs : SaveRetained(p) \/ MarkDeleting(p) \/ DropRetained(p)
      BY <2>1, <3>1, RetainedWriters
    <3>3. pc[p] \in CleanupPcs \cup ErasePcs \cup {"retain"} /\ h = mem[p].home
      BY <2>1, <3>1, <3>2, AtMoves DEF SaveRetained, MarkDeleting, DropRetained, TypeOK, NoRetained, ErasePcs
    <3>4. QED
      BY <2>1, <3>3, HomeInHand
  <2>2. QED
    BY <2>1
<1>4. \A h \in Uid : retained'[h].state = "deleting" /\ ~retained'[h].volume => home'[h].pv = "gone"
  BY <1>1, <1>2, <1>3
\* A command that does not move keeps what it knows.
<1>5. \A q \in Procs : mem'[q] = mem[q] /\ pc'[q] = pc[q] => TakenOver(q)' /\ Knows(mem[q], pc[q])'
  <2> SUFFICES ASSUME NEW q \in Procs, mem'[q] = mem[q], pc'[q] = pc[q]
               PROVE  TakenOver(q)' /\ Knows(mem[q], pc[q])'
    OBVIOUS
  <2>1. Knows(mem[q], pc[q]) /\ TakenOver(q)
    BY DEF HandedOver, Knows, TakenOver
  <2>2. CASE pc[q] \in CleanupPcs \cup ErasePcs
    <3> DEFINE h == mem[q].home
    <3>1. h \in Uid /\ home[h].st # "none"
      BY <2>2, HomeInHand
    <3>2. TakenOver(q)'
      BY <1>1, <1>2, <2>1, <3>1 DEF TakenOver
    <3>3. Knows(mem[q], pc[q])'
      BY <1>1, <2>1, <3>1 DEF Knows
    <3>4. QED
      BY <3>2, <3>3
  <2>3. CASE pc[q] \notin CleanupPcs \cup ErasePcs
    BY <2>3 DEF TakenOver, Knows, ErasePcs
  <2>4. QED
    BY <2>2, <2>3
<1>6. ASSUME NEW p \in Procs, Start(p) \/ Step(p) \/ Interrupt(p)
      PROVE  TakenOver(p)' /\ Knows(mem[p], pc[p])'
  <2>1. CASE RetainStep(p)
    <3>1. TakenOver(p)'
      BY <2>1, TakingOver DEF TakenOver, Erased
    <3>2. Knows(mem[p], pc[p])'
      BY <2>1, TakingOver DEF Knows, ErasePcs
    <3>3. QED
      BY <3>1, <3>2
  <2>2. CASE EraseStep(p) /\ ~DropRetained(p)
    <3>1. Knows(mem'[p], pc'[p]) /\ Quiet(p) /\ pc'[p] \in ErasePcs \cup {"idle"}
      BY <2>2, EraseMoves, QuietErase, StageMoves
    <3>2. CASE pc'[p] \in ErasePcs
      <4>1. mem'[p].home \in Uid /\ home[mem'[p].home].st # "none"
        <5>1. pc[p] \in {"lock"} \cup ErasePcs
          BY <2>2, AtMoves DEF EraseStep, LockRetained, Reselect, CheckPending, InspectHome,
             InspectAllocation, InspectMounts, InspectVolume, MarkDeleting, DeletePVC, StorageGone, ErasePcs
        <5>2. mem[p].home # 0 /\ mem[p].home \in Uid0 /\ mem'[p].home = mem[p].home
          BY <3>1, <5>1 DEF CompleteCopies, TypeOK, Memory, Quiet, SameCopy
        <5>3. QED
          BY <5>2, UidFacts DEF Provisioned
      <4>2. QED
        BY <1>1, <3>1, <3>2, <4>1 DEF Knows, TakenOver, CleanupPcs, ErasePcs
    <3>3. QED
      BY <3>1, <3>2 DEF TakenOver, Knows, CleanupPcs, ErasePcs
  <2>3. CASE \/ Start(p) \/ CreateStep(p) \/ ConnectStep(p) \/ ModeStep(p) \/ DropRetained(p) \/ Interrupt(p)
    <3>1. CASE ModeStep(p)
      <4>1. pc'[p] \in ModePcs \cup ReleasePcs \cup {"link", "idle"}
        BY <3>1, AtMoves, ReturnMoves DEF ModeStep, ReadClaim, ReadSandbox, ReadHome, Disable, PatchMode,
           WaitMode, HomeAgain, ModePcs, ReleasePcs
      <4>2. QED
        BY <4>1 DEF TakenOver, Knows, ModePcs, ReleasePcs, CleanupPcs, ErasePcs
    <3>2. CASE Start(p) \/ CreateStep(p) \/ ConnectStep(p) \/ DropRetained(p) \/ Interrupt(p)
      <4>1. pc'[p] \in {"origin", "link", "detach", "lock", "claim", "idle"} \cup CreatePcs \cup ConnectPcs
        BY <3>2, StageMoves, Returning DEF Returned, ConnectPcs
      <4>2. QED
        BY <4>1 DEF TakenOver, Knows, CreatePcs, ConnectPcs, CleanupPcs, ErasePcs
    <3>3. QED
      BY <2>3, <3>1, <3>2
  <2>4. QED
    BY <1>6, <2>1, <2>2, <2>3 DEF Step
<1>7. \A q \in Procs : TakenOver(q)' /\ Knows(mem[q], pc[q])'
  <2>1. ASSUME NEW p \in Procs, Start(p) \/ Step(p) \/ Interrupt(p)
        PROVE  \A q \in Procs : TakenOver(q)' /\ Knows(mem[q], pc[q])'
    BY <1>5, <1>6, <2>1, OthersKept DEF OthersKeep
  <2>2. CASE Controllers \/ (\E h \in Uid : LoseVolume(h) \/ PodFails(h)) \/ UNCHANGED vars
    BY <1>5, <2>2, ClusterMoving DEF ClusterMoves, vars
  <2>3. QED
    BY <2>1, <2>2 DEF Next
<1>8. QED
  BY <1>4, <1>7 DEF HandedOver, TakenOver, Knows

-----------------------------------------------------------------------------
(* The theorems *)

\* Nothing has been handed out at first, but for the record of an older version.
LEMMA InitInductive == Init => IInv
<1> SUFFICES ASSUME NEW legacy \in Legacies, Beginning(legacy)
             PROVE  IInv
  BY DEF Init
<1>1. TypeOK
  BY InitTypes DEF Init
<1>2. \A p \in Procs : pc[p] = "idle" /\ mem[p] = NoMemory
  BY DEF Beginning
<1>3. \A p \in Procs : /\ mem[p].rec = 0 /\ mem[p].phase = "none" /\ mem[p].claim = 0
                       /\ mem[p].home = 0
  BY <1>2 DEF NoMemory
<1>4. \A i \in Uid : managed[i].phase = "none" /\ managed[i].home = 0
  BY DEF Beginning, NoManaged
<1>5. Exclusive
  BY <1>2 DEF Beginning, Exclusive, CreatePcs, ErasePcs
<1>6. CompleteCopies /\ NothingSaved /\ ClaimedCopy /\ CopiesAgree /\ GoneForGood /\ ClaimLeftBehind
  BY <1>2, <1>3, <1>4 DEF CompleteCopies, NothingSaved, ClaimedCopy, CopiesAgree, GoneForGood,
     ClaimLeftBehind, ConnectPcs, ModePcs, ReleasePcs, CleanupPcs, ErasePcs
<1>7. Issued
  BY <1>1, <1>3, <1>4 DEF Beginning, Issued, Saved, TypeOK, Uid0
<1>8. \A h \in Uid : /\ retained[h].state # "none" => home[h].st # "none"
                     /\ retained[h].state # "deleting"
  BY LegacyAssumption DEF Beginning, NoRetained
<1>9. Provisioned /\ HandedOver
  BY <1>2, <1>3, <1>4, <1>8 DEF Provisioned, HandedOver, CleanupPcs, ErasePcs
<1>10. QED
  BY <1>1, <1>5, <1>6, <1>7, <1>9 DEF IInv, Bookkeeping

\* Every step keeps the invariant.
LEMMA NextInductive == IInv /\ [Next]_vars => IInv'
  BY NextTypes, ExclusiveKept, BookkeepingKept, ClaimLeftBehindKept, HandedOverKept DEF IInv, Bookkeeping

\* The invariant holds in every state that any number of commands can reach.
THEOREM Inductive == Spec => []IInv
  BY InitInductive, NextInductive, PTL DEF Spec

\* Every state is well typed, so no step reads a record at the UID of nothing.
THEOREM TypeCorrect == Spec => []TypeOK
<1>1. IInv => TypeOK
  BY DEF IInv
<1>2. QED
  BY <1>1, Inductive, PTL

\* The file lock admits one create or deletion stage at a time (acquireSandboxLock).
THEOREM LockExcludes == Spec => []Exclusive
<1>1. IInv => Exclusive
  BY DEF IInv
<1>2. QED
  BY <1>1, Inductive, PTL

\* A step that removes the last record of a home finds its storage gone.
LEMMA RecordedUntilErased ==
  ASSUME IInv, [Next]_vars, NEW h \in Uid, Recorded(h), ~Recorded(h)'
  PROVE  Erased(h)
<1> TypeOK /\ CompleteCopies /\ Bookkeeping /\ HandedOver /\ Exclusive
  BY DEF IInv, Bookkeeping
<1>1. CASE retained[h].state # "none"
  BY <1>1, RetainedMoves DEF Recorded
<1>2. CASE retained[h].state = "none"
  <2>1. PICK i \in Uid : managed[i].phase = "bound" /\ managed[i].home = h
    BY <1>2 DEF Recorded
  <2>2. ~(managed'[i].phase = "bound" /\ managed'[i].home = h) /\ retained'[h].state = "none"
    BY DEF Recorded
  <2>3. ASSUME NEW p \in Procs, RecordClaim(p)
        PROVE  FALSE
    <3>1. pc[p] = "record"
      BY <2>3, AtMoves DEF RecordClaim
    <3>2. mem[p].rec = 0
      BY <2>1, <2>2, <2>3 DEF RecordClaim
    <3>3. QED
      BY <2>1, <3>1, <3>2 DEF Bookkeeping, NothingSaved, Saved
  <2>4. ASSUME NEW p \in Procs, SaveBinding(p)
        PROVE  FALSE
    <3>1. pc[p] = "bind" /\ mem[p].rec \in Uid /\ mem[p].phase \in {"claimed", "bound"}
      BY <2>4, AtMoves, UidFacts DEF SaveBinding, CompleteCopies, TypeOK, Memory, Phases
    <3>2. mem[p].rec = i
      BY <2>1, <2>2, <2>4 DEF SaveBinding, TypeOK
    <3>3. mem[p].phase = "bound" /\ mem[p].home = h
      BY <2>1, <3>1, <3>2 DEF Bookkeeping, ClaimedCopy, CopiesAgree
    <3>4. QED
      BY <2>1, <2>2, <2>4, <3>1, <3>2, <3>3 DEF SaveBinding, TypeOK
  <2>5. ASSUME NEW p \in Procs, Forget(p)
        PROVE  Erased(h)
    <3>1. pc[p] = "forget" /\ UNCHANGED retained
      BY <2>5, AtMoves DEF Forget
    <3>2. mem[p].rec = i
      BY <2>1, <2>2, <2>5 DEF Forget, TypeOK
    <3>3. mem[p].home = h
      BY <2>1, <3>1, <3>2 DEF Bookkeeping, CompleteCopies, CopiesAgree, CleanupPcs
    <3>4. QED
      BY <1>2, <3>1, <3>3 DEF HandedOver, CleanupPcs
  <2>6. ASSUME NEW p \in Procs, Start(p) \/ Step(p) \/ Interrupt(p),
               ~RecordClaim(p), ~SaveBinding(p), ~Forget(p)
        PROVE  UNCHANGED managed
    <3>1. CASE Start(p)
      BY <3>1 DEF Start, StartCreate, StartConnect, StartDisconnect, StartFromRetained,
     StartFromRecord, records
    <3>2. CASE Step(p) \/ Interrupt(p)
      BY <2>6, <3>2, StepKinds DEF Quiet, Returned, SelectSaved, GetClaim, CreateClaim, ResolveHome,
         ReadClaim, records
    <3>3. QED
      BY <2>6, <3>1, <3>2
  <2>7. CASE Controllers \/ (\E g \in Uid : LoseVolume(g) \/ PodFails(g)) \/ UNCHANGED vars
    BY <2>1, <2>2, <2>7, ClusterMoving DEF ClusterMoves, records, vars
  <2>8. QED
    BY <2>1, <2>2, <2>3, <2>4, <2>5, <2>6, <2>7 DEF Next
<1>3. QED
  BY <1>1, <1>2

\* However many commands run, and wherever they are interrupted, the last record that names
\* a home goes away only after its PVC and its volume are gone.
THEOREM RecordsOutliveStorage == Spec => RecordOutlivesStorage
<1>1. IInv /\ [Next]_vars =>
        [\A h \in Uid : Recorded(h) /\ ~Recorded(h)' => Erased(h)]_vars
  BY RecordedUntilErased
<1>2. QED
  BY <1>1, Inductive, PTL DEF Spec, RecordOutlivesStorage

-----------------------------------------------------------------------------
(***************************************************************************)
(* That an allocation never has two managed records, and that a bound one  *)
(* never changes.  Both are about the one command that may write a record: *)
(* a create writes from a copy it read long before, and is right to do so  *)
(* only because, as long as it holds the lock, no other record comes up    *)
(* and its own is at most removed (OwnRecord).                             *)
(***************************************************************************)

\* The stages of create after it has read the record.
WorkPcs == {"obtain", "record", "ready", "resolve", "resolveHome", "bind"}

\* What the copy of a create that may write a record still tells of the records.
OwnRecord ==
  \A p \in Procs : pc[p] \in WorkPcs =>
    /\ mem[p].rec # 0 => Saved \subseteq {mem[p].rec}
    /\ mem[p].phase = "bound" /\ managed[mem[p].rec].phase = "bound"
         => managed[mem[p].rec].sandbox = mem[p].sandbox

RInv == OneManagedRecord /\ OwnRecord

\* Three steps write managed records.
LEMMA ManagedWriters ==
  ASSUME IInv, [Next]_vars
  PROVE  \/ UNCHANGED managed
         \/ \E p \in Procs : RecordClaim(p) \/ SaveBinding(p) \/ Forget(p)
<1> TypeOK /\ CompleteCopies
  BY DEF IInv, Bookkeeping
<1>1. ASSUME NEW p \in Procs, Start(p)
      PROVE  UNCHANGED managed
  BY <1>1 DEF Start, StartCreate, StartConnect, StartDisconnect, StartFromRetained,
     StartFromRecord, records
<1>2. ASSUME NEW p \in Procs, Step(p) \/ Interrupt(p), ~RecordClaim(p), ~SaveBinding(p), ~Forget(p)
      PROVE  UNCHANGED managed
  BY <1>2, StepKinds DEF Quiet, Returned, SelectSaved, GetClaim, CreateClaim, ResolveHome,
     ReadClaim, records
<1>3. CASE Controllers \/ (\E g \in Uid : LoseVolume(g) \/ PodFails(g)) \/ UNCHANGED vars
  BY <1>3, ClusterMoving DEF ClusterMoves, records, vars
<1>4. QED
  BY <1>1, <1>2, <1>3 DEF Next

\* Only create comes to those stages.
LEMMA OnlyCreateWorks ==
  ASSUME TypeOK, NEW p \in Procs, Start(p) \/ Step(p) \/ Interrupt(p), ~CreateStep(p)
  PROVE  pc'[p] \notin WorkPcs
<1> USE DEF WorkPcs
<1>1. CASE Start(p) \/ ConnectStep(p) \/ EraseStep(p)
  BY <1>1, StageMoves DEF ConnectPcs, ErasePcs
<1>2. CASE ModeStep(p)
  <2>1. CASE HomeAgain(p)
    BY <2>1, Returning, AtMoves DEF HomeAgain, Returned
  <2>2. CASE ~HomeAgain(p)
    BY <1>2, <2>2, AtMoves DEF ModeStep, ReadClaim, ReadSandbox, ReadHome, Disable, PatchMode, WaitMode
  <2>3. QED
    BY <2>1, <2>2
<1>3. CASE RetainStep(p)
  BY <1>3, AtMoves DEF RetainStep, OrphanClaim, ClaimGone, Recheck, StripLabels, OrphanSandbox,
     SandboxGone, VerifyRetained, SaveRetained, RemoveMachine, RemoveFiles, Forget
<1>4. CASE Interrupt(p)
  BY <1>4, Returning DEF Returned
<1>5. QED
  BY <1>1, <1>2, <1>3, <1>4 DEF Step

\* A create keeps its copy once it has one.
LEMMA CopyKept ==
  ASSUME TypeOK, NEW p \in Procs, CreateStep(p), ~SelectSaved(p), ~RecordClaim(p),
         pc'[p] \in WorkPcs
  PROVE  /\ pc[p] \in WorkPcs
         /\ mem'[p].rec = mem[p].rec /\ mem'[p].phase = mem[p].phase
         /\ mem[p].phase = "bound" => mem'[p].sandbox = mem[p].sandbox
<1> USE DEF WorkPcs
<1>0. mem[p] \in Memory
  BY DEF TypeOK
<1>1. CASE CheckOrigin(p) \/ SaveBinding(p)
  BY <1>1, AtMoves DEF CheckOrigin, SaveBinding
<1>2. CASE GetClaim(p)
  <2>1. mem'[p] = [mem[p] EXCEPT !.claim = claim, !.ready = claimReady]
    BY <1>2, KeepMoves DEF GetClaim
  <2>2. QED
    BY <1>0, <1>2, <2>1, AtMoves DEF GetClaim, Memory
<1>3. CASE CreateClaim(p)
  <2>1. mem'[p] = [mem[p] EXCEPT !.claim = lastUid + 1]
    BY <1>3, KeepMoves DEF CreateClaim
  <2>2. QED
    BY <1>0, <1>3, <2>1, AtMoves DEF CreateClaim, Memory
<1>4. CASE WaitReady(p)
  <2>1. mem'[p] = [mem[p] EXCEPT !.ready = FALSE]
    BY <1>4, KeepMoves DEF WaitReady
  <2>2. QED
    BY <1>0, <1>4, <2>1, AtMoves DEF WaitReady, Memory
<1>5. CASE ResolveSandbox(p)
  <2>1. PICK u \in Uid : /\ mem[p].phase = "bound" => u = mem[p].sandbox
                         /\ Keep(p, [mem[p] EXCEPT !.sandbox = u])
    BY <1>5 DEF ResolveSandbox, Named
  <2>2. mem'[p] = [mem[p] EXCEPT !.sandbox = u]
    BY <2>1, KeepMoves
  <2>3. QED
    BY <1>0, <1>5, <2>1, <2>2, AtMoves DEF ResolveSandbox, Memory
<1>6. CASE ResolveHome(p)
  <2>1. PICK h \in Uid : Keep(p, [mem[p] EXCEPT !.home = h])
    BY <1>6 DEF ResolveHome
  <2>2. mem'[p] = [mem[p] EXCEPT !.home = h]
    BY <2>1, KeepMoves
  <2>3. QED
    BY <1>0, <1>6, <2>2, AtMoves DEF ResolveHome, Memory
<1>7. QED
  BY <1>1, <1>2, <1>3, <1>4, <1>5, <1>6 DEF CreateStep

\* The lock keeps every other create away from one that works.
LEMMA WorksAlone ==
  ASSUME Exclusive, NEW p \in Procs, NEW q \in Procs, pc[p] \in WorkPcs, pc[q] \in WorkPcs
  PROVE  p = q
BY DEF Exclusive, WorkPcs, CreatePcs

\* Where the records stay as they are, so does what a create knows of them,
LEMMA UnwrittenKept ==
  ASSUME IInv, RInv, [Next]_vars, UNCHANGED managed
  PROVE  RInv'
<1> TypeOK /\ CompleteCopies
  BY DEF IInv, Bookkeeping
<1>1. OneManagedRecord' /\ Saved' = Saved
  BY DEF RInv, OneManagedRecord, Saved
<1>2. ASSUME NEW p \in Procs, Start(p) \/ Step(p) \/ Interrupt(p)
      PROVE  OwnRecord'
  <2>1. ASSUME pc'[p] \in WorkPcs
        PROVE  /\ mem'[p].rec # 0 => Saved' \subseteq {mem'[p].rec}
               /\ mem'[p].phase = "bound" /\ managed'[mem'[p].rec].phase = "bound"
                    => managed'[mem'[p].rec].sandbox = mem'[p].sandbox
    <3>1. CreateStep(p)
      BY <1>2, <2>1, OnlyCreateWorks
    <3>2. CASE SelectSaved(p)
      <4>1. PICK i \in Uid0, rekey \in BOOLEAN :
              Saved \subseteq {i} /\ Keep(p, [Copy(mem[p], i) EXCEPT !.rekey = rekey])
        BY <3>2 DEF SelectSaved
      <4>2. mem'[p] = [Copy(mem[p], i) EXCEPT !.rekey = rekey] /\ mem[p] \in Memory
        BY <4>1, KeepMoves DEF TypeOK
      <4>3. /\ mem'[p].rec = i
            /\ mem'[p].phase = IF i = 0 THEN "none" ELSE managed[i].phase
            /\ mem'[p].sandbox = IF i = 0 THEN 0 ELSE managed[i].sandbox
        BY <4>2 DEF Copy, Memory
      <4>4. QED
        BY <1>1, <4>1, <4>3
    <3>3. CASE RecordClaim(p)
      <4>1. mem[p].rec # 0
        <5> SUFFICES ASSUME mem[p].rec = 0 PROVE FALSE
          OBVIOUS
        <5>1. pc[p] = "record"
          BY <3>3, AtMoves DEF RecordClaim
        <5>2. Saved = {} /\ mem[p].claim \in Uid
          BY <5>1, UidFacts DEF IInv, Bookkeeping, NothingSaved, CompleteCopies, TypeOK, Memory
        <5>3. managed'[mem[p].claim].phase = "claimed"
          BY <3>3, <5>2 DEF RecordClaim, NoManaged, TypeOK
        <5>4. QED
          BY <5>2, <5>3 DEF Saved
      <4>2. UNCHANGED mem /\ pc[p] \in WorkPcs
        BY <3>3, <4>1, AtMoves DEF RecordClaim, WorkPcs
      <4>3. QED
        BY <1>1, <4>2 DEF RInv, OwnRecord
    <3>4. CASE ~SelectSaved(p) /\ ~RecordClaim(p)
      BY <1>1, <2>1, <3>1, <3>4, CopyKept DEF RInv, OwnRecord
    <3>5. QED
      BY <3>2, <3>3, <3>4
  <2>2. QED
    BY <1>1, <1>2, <2>1, OthersKept DEF RInv, OwnRecord, OthersKeep
<1>3. CASE Controllers \/ (\E h \in Uid : LoseVolume(h) \/ PodFails(h)) \/ UNCHANGED vars
  <2>1. UNCHANGED <<pc, mem>>
    BY <1>3, ClusterMoving DEF ClusterMoves, vars
  <2>2. QED
    BY <1>1, <2>1 DEF RInv, OwnRecord
<1>4. QED
  BY <1>1, <1>2, <1>3 DEF Next, RInv

\* and a step that writes one knows that there is no other.
LEMMA RecordClaimWrites ==
  ASSUME IInv, RInv, NEW p \in Procs, RecordClaim(p), managed' # managed
  PROVE  RInv' /\ \A i \in Uid : managed[i].phase # "bound"
<1> TypeOK /\ CompleteCopies
  BY DEF IInv, Bookkeeping
<1> DEFINE c == mem[p].claim
<1>1. pc[p] = "record" /\ pc'[p] = "ready" /\ OthersKeep(p)
  BY AtMoves, OthersKept DEF RecordClaim, CreateStep, Step
<1>2. mem[p].rec = 0
  BY DEF RecordClaim
<1>3. Saved = {} /\ c \in Uid /\ mem[p] \in Memory
  BY <1>1, <1>2, UidFacts DEF IInv, Bookkeeping, NothingSaved, CompleteCopies, TypeOK, Memory
<1>4. /\ managed' = [managed EXCEPT ![c] = [NoManaged EXCEPT !.phase = "claimed"]]
      /\ mem'[p] = [mem[p] EXCEPT !.rec = c, !.phase = "claimed"]
  BY <1>2, KeepMoves DEF RecordClaim
<1>5. mem'[p].rec = c /\ mem'[p].phase = "claimed"
  BY <1>3, <1>4 DEF Memory
<1>6. Saved' \subseteq {c}
  BY <1>3, <1>4 DEF Saved, TypeOK
<1>7. \A q \in Procs \ {p} : pc'[q] \notin WorkPcs
  BY <1>1, WorksAlone DEF IInv, OthersKeep, WorkPcs
<1>8. OwnRecord'
  BY <1>5, <1>6, <1>7 DEF OwnRecord
<1>9. OneManagedRecord'
  BY <1>6 DEF OneManagedRecord
<1>10. QED
  BY <1>3, <1>8, <1>9 DEF RInv, Saved

LEMMA SaveBindingWrites ==
  ASSUME IInv, RInv, NEW p \in Procs, SaveBinding(p)
  PROVE  /\ RInv'
         /\ \A i \in Uid : managed[i].phase = "bound" => managed'[i] = managed[i]
<1> TypeOK /\ CompleteCopies /\ ClaimedCopy /\ CopiesAgree
  BY DEF IInv, Bookkeeping
<1> DEFINE m == mem[p]
           r == m.rec
           saved == [phase |-> "bound", sandbox |-> m.sandbox, home |-> m.home]
<1>1. pc[p] = "bind" /\ pc'[p] = "link" /\ OthersKeep(p)
  BY AtMoves, OthersKept DEF SaveBinding, CreateStep, Step
<1>2. r \in Uid /\ m.phase \in {"claimed", "bound"}
  BY <1>1, UidFacts DEF CompleteCopies, TypeOK, Memory, Phases
<1>3. managed' = managed \/ managed' = [managed EXCEPT ![r] = saved]
  BY DEF SaveBinding
<1>4. Saved \subseteq {r}
  BY <1>1, <1>2, UidFacts DEF RInv, OwnRecord, WorkPcs, Uid
<1>5. Saved' \subseteq {r}
  BY <1>3, <1>4 DEF Saved, TypeOK
<1>6. \A q \in Procs : pc'[q] \notin WorkPcs
  BY <1>1, WorksAlone DEF IInv, OthersKeep, WorkPcs
<1>7. RInv'
  BY <1>5, <1>6 DEF RInv, OneManagedRecord, OwnRecord
<1>8. managed[r].phase = "bound" => managed[r] = saved
  <2> SUFFICES ASSUME managed[r].phase = "bound" PROVE managed[r] = saved
    OBVIOUS
  <2>1. m.phase = "bound"
    BY <1>2 DEF ClaimedCopy
  <2>2. managed[r].home = m.home /\ managed[r].sandbox = m.sandbox
    BY <1>1, <2>1 DEF CopiesAgree, RInv, OwnRecord, WorkPcs
  <2>3. managed[r] \in Managed
    BY <1>2 DEF TypeOK
  <2>4. QED
    BY <2>2, <2>3 DEF Managed
<1>9. \A i \in Uid : managed[i].phase = "bound" => managed'[i] = managed[i]
  BY <1>2, <1>3, <1>8 DEF TypeOK
<1>10. QED
  BY <1>7, <1>9

LEMMA ForgetWrites ==
  ASSUME IInv, RInv, NEW p \in Procs, Forget(p)
  PROVE  RInv' /\ \A i \in Uid : managed'[i] \in {NoManaged, managed[i]}
<1> TypeOK /\ CompleteCopies
  BY DEF IInv, Bookkeeping
<1>1. pc'[p] = "lock" /\ OthersKeep(p)
  BY AtMoves, OthersKept DEF Forget, RetainStep, Step
<1>2. \A i \in Uid : managed'[i] \in {NoManaged, managed[i]}
  BY DEF Forget, TypeOK
<1>3. Saved' \subseteq Saved
  BY <1>2 DEF Saved, NoManaged
<1>4. OneManagedRecord'
  BY <1>3 DEF RInv, OneManagedRecord
<1>5. ASSUME NEW q \in Procs, pc'[q] \in WorkPcs
      PROVE  /\ mem'[q].rec # 0 => Saved' \subseteq {mem'[q].rec}
             /\ mem'[q].phase = "bound" /\ managed'[mem'[q].rec].phase = "bound"
                  => managed'[mem'[q].rec].sandbox = mem'[q].sandbox
  <2>1. pc[q] \in WorkPcs /\ mem'[q] = mem[q]
    BY <1>1, <1>5 DEF OthersKeep, WorkPcs
  <2>2. mem[q].phase = "bound" => mem[q].rec \in Uid
    BY CopiedUid
  <2>3. QED
    BY <1>2, <1>3, <2>1, <2>2 DEF RInv, OwnRecord, NoManaged
<1>6. QED
  BY <1>2, <1>4, <1>5 DEF RInv, OwnRecord

LEMMA InitRecords == Init => RInv
<1> SUFFICES ASSUME NEW legacy \in Legacies, Beginning(legacy)
             PROVE  RInv
  BY DEF Init
<1>1. Saved = {} /\ \A p \in Procs : pc[p] = "idle"
  BY DEF Beginning, Saved, NoManaged
<1>2. QED
  BY <1>1 DEF RInv, OneManagedRecord, OwnRecord, WorkPcs

LEMMA RecordsKept ==
  ASSUME IInv, RInv, [Next]_vars
  PROVE  /\ RInv'
         /\ \A i \in Uid : managed[i].phase = "bound" => managed'[i] \in {NoManaged, managed[i]}
BY ManagedWriters, UnwrittenKept, RecordClaimWrites, SaveBindingWrites, ForgetWrites

LEMMA RecordsInductive == Spec => []RInv
BY InitRecords, RecordsKept, Inductive, PTL DEF Spec

\* However many commands run, and wherever they are interrupted, an allocation has at most
\* one managed record, so later commands can tell what its name stands for (selectManaged).
THEOREM OneRecord == Spec => []OneManagedRecord
<1>1. RInv => OneManagedRecord
  BY DEF RInv
<1>2. QED
  BY <1>1, RecordsInductive, PTL

\* A bound record names the same Sandbox and home for as long as it exists, although every
\* create with a new identity file writes it again from a copy (saveManagedBinding).
THEOREM BoundRecordsFixed == Spec => BoundRecordFixed
<1>1. IInv /\ RInv /\ [Next]_vars =>
        [\A i \in Uid : managed[i].phase = "bound" => managed'[i] \in {NoManaged, managed[i]}]_vars
  BY RecordsKept
<1>2. QED
  BY <1>1, Inductive, RecordsInductive, PTL DEF Spec, BoundRecordFixed
=============================================================================
