------------------------- MODULE ConnectionsProofs -------------------------
(***************************************************************************)
(* What Connections promises for any number of processes, Sandboxes,       *)
(* identities, host keys and machines.                                     *)
(***************************************************************************)
EXTENDS ConnectionsInductive, TLAPS

-----------------------------------------------------------------------------
(* Types *)

Pcs == {"idle"} \cup ConnectPcs \cup DetachPcs \cup RemovePcs

LEMMA MemoryParts ==
  ASSUME TypeOK, NEW p \in Procs
  PROVE  /\ mem[p] \in Memory /\ mem[p].copy \in Record
         /\ mem[p].sandbox \in Sandboxes \cup {Nil}
         /\ mem[p].identity \in Identities \cup {Nil} /\ mem[p].key \in HostKeys \cup {Nil}
         /\ mem[p].config \subseteq Sandboxes /\ mem[p].machine \in Profiles \cup {0}
         /\ mem[p].copy.identity \in Identities \cup {Nil}
         /\ mem[p].copy.pin \in HostKeys \cup {Nil}
         /\ mem[p].copy.profile \in Profiles \cup {0}
BY DEF TypeOK, Memory, Record

\* Machines are profiles, and setting one keeps the list and whose they are.
LEMMA MachineParts ==
  ASSUME TypeOK
  PROVE  /\ DOMAIN machines = 1 .. Len(machines)
         /\ Len(machines) \in Nat
         /\ DOMAIN machines \subseteq Profiles
         /\ \A m \in DOMAIN machines : machines[m] \in Machine
BY MachinesAssumption DEF TypeOK, Profiles

LEMMA Setting ==
  ASSUME TypeOK, NEW m \in DOMAIN machines, NEW st \in {"enabled", "disabled", "removed"},
         Set(m, st)
  PROVE  /\ machines' \in Seq(Machine) /\ Len(machines') = Len(machines)
         /\ DOMAIN machines' = DOMAIN machines
         /\ machines'[m].of = machines[m].of /\ machines'[m].st = st
         /\ \A n \in DOMAIN machines : n # m => machines'[n] = machines[n]
<1>1. machines' = [machines EXCEPT ![m].st = st]
  BY DEF Set
<1>2. machines[m] \in Machine /\ machines \in Seq(Machine)
  BY DEF TypeOK
<1>3. [machines[m] EXCEPT !.st = st] \in Machine
  BY <1>2 DEF Machine
<1>4. machines' = [machines EXCEPT ![m] = [machines[m] EXCEPT !.st = st]]
  BY <1>1
<1>5. machines' \in Seq(Machine) /\ Len(machines') = Len(machines) /\ DOMAIN machines' = DOMAIN machines
  BY <1>2, <1>3, <1>4
<1> QED BY <1>2, <1>4, <1>5 DEF Machine

LEMMA Adding ==
  ASSUME TypeOK, NEW u \in Sandboxes, Len(machines) < MaxMachines,
         machines' = Append(machines, [of |-> u, st |-> "enabled"])
  PROVE  /\ machines' \in Seq(Machine) /\ Len(machines') = Len(machines) + 1
         /\ Len(machines') <= MaxMachines
         /\ DOMAIN machines' = DOMAIN machines \cup {Len(machines) + 1}
         /\ Len(machines) + 1 \notin DOMAIN machines
         /\ machines'[Len(machines) + 1] = [of |-> u, st |-> "enabled"]
         /\ \A n \in DOMAIN machines : machines'[n] = machines[n]
<1>1. machines \in Seq(Machine) /\ [of |-> u, st |-> "enabled"] \in Machine
  BY DEF TypeOK, Machine
<1>2. Len(machines) \in Nat /\ DOMAIN machines = 1 .. Len(machines)
  BY <1>1
<1>3. machines' \in Seq(Machine) /\ Len(machines') = Len(machines) + 1
  BY <1>1
<1>4. DOMAIN machines' = 1 .. (Len(machines) + 1)
  BY <1>3
<1>5. Len(machines') <= MaxMachines
  BY <1>2, <1>3, MachinesAssumption
<1> QED BY <1>1, <1>2, <1>3, <1>4, <1>5

LEMMA MatchingParts ==
  ASSUME TypeOK, NEW u, NEW m \in Matching(u)
  PROVE  m \in DOMAIN machines /\ m \in Profiles /\ machines[m].of = u /\ Present(m)
BY MachineParts DEF Matching, Present

\* A process that returns, or goes on with a memory of the right type.
LEMMA ReturnTypes ==
  ASSUME TypeOK, NEW p \in Procs, Return(p)
  PROVE  pc' \in [Procs -> Pcs] /\ mem' \in [Procs -> Memory]
BY DEF TypeOK, Return, Keep, Pcs, NoMemory, NoRecord, Memory, Record

LEMMA KeepTypes ==
  ASSUME TypeOK, NEW p \in Procs, NEW m \in Memory, Keep(p, m)
  PROVE  mem' \in [Procs -> Memory]
BY DEF TypeOK, Keep

LEMMA AtTypes ==
  ASSUME TypeOK, NEW p \in Procs, NEW here, NEW next \in Pcs, At(p, here, next)
  PROVE  pc' \in [Procs -> Pcs]
BY DEF TypeOK, At, Pcs

\* What is left unchanged keeps its type.
RestTypes ==
  /\ record' \in [Sandboxes -> Record]
  /\ include' \subseteq Sandboxes
  /\ known' \in [Sandboxes -> HostKeys \cup {Nil}]
  /\ entry' \in [Sandboxes -> Identities \cup {Nil}]
  /\ proxy' \subseteq Sandboxes
  /\ machines' \in Seq(Machine) /\ Len(machines') <= MaxMachines
  /\ hostKey' \in [Sandboxes -> HostKeys]
  /\ gone' \subseteq Sandboxes

LEMMA TypesOfParts ==
  ASSUME RestTypes, pc' \in [Procs -> Pcs], mem' \in [Procs -> Memory]
  PROVE  TypeOK'
BY DEF RestTypes, TypeOK, Pcs

LEMMA StartTypes ==
  ASSUME TypeOK, NEW p \in Procs, Start(p)
  PROVE  TypeOK'
<1>1. RestTypes
  BY DEF Start, StartDisconnect, StartDelete, StartConnect, RestTypes, TypeOK, files, world
<1>2. PICK u \in Sandboxes :
        StartDisconnect(p, u) \/ StartDelete(p, u)
        \/ \E i \in Identities \cup {Nil} : StartConnect(p, u, i)
  BY DEF Start
<1>3. record[u] \in Record /\ NoMemory \in Memory
  BY DEF TypeOK, NoMemory, NoRecord, Memory, Record
<1>4. ASSUME NEW cmd \in {"connect", "disconnect", "delete"}, NEW i \in Identities \cup {Nil},
             Open(p, cmd, u, i)
      PROVE  mem' \in [Procs -> Memory]
  <2>1. [NoMemory EXCEPT !.cmd = cmd, !.sandbox = u, !.copy = record[u], !.identity = i] \in Memory
    BY <1>3 DEF Memory
  <2> QED BY <2>1, <1>4, KeepTypes DEF Open
<1>5. CASE StartDisconnect(p, u)
  BY <1>1, <1>4, <1>5, AtTypes, TypesOfParts DEF StartDisconnect, Pcs, DetachPcs
<1>6. CASE StartDelete(p, u)
  <2>1. PICK next \in Pcs : At(p, "idle", next)
    BY <1>6 DEF StartDelete, AfterSandbox, Pcs, DetachPcs, RemovePcs
  <2> QED BY <1>1, <1>4, <1>6, <2>1, AtTypes, TypesOfParts DEF StartDelete
<1>7. CASE \E i \in Identities \cup {Nil} : StartConnect(p, u, i)
  <2>1. PICK i \in Identities \cup {Nil} : StartConnect(p, u, i)
    BY <1>7
  <2>2. PICK next \in Pcs : At(p, "idle", next)
    BY <2>1 DEF StartConnect, Pcs, ConnectPcs
  <2>3. PICK j \in Identities \cup {Nil} : Open(p, "connect", u, j)
    BY <2>1 DEF StartConnect
  <2> QED BY <1>1, <1>4, <2>2, <2>3, AtTypes, TypesOfParts
<1> QED BY <1>2, <1>5, <1>6, <1>7

LEMMA ConnectTypes ==
  ASSUME TypeOK, NEW p \in Procs, Busy, ConnectStep(p)
  PROVE  TypeOK'
<1> DEFINE m == mem[p]
           u == m.sandbox
<1>1. u \in Sandboxes /\ m \in Memory /\ m.copy \in Record
  BY MemoryParts DEF Busy, ConnectStep, Adopt, Reach, Prepare, ReadConfig, WriteInclude, WriteKnown,
     WriteEntry, WriteProxy, ListSaved, ListMatching, AddMachine, EnableMachine, SaveConnected, At
<1>2. CASE Adopt(p)
  <2>1. [m.copy EXCEPT !.identity = m.identity] \in Record
    BY <1>1, MemoryParts DEF Record
  <2>2. [m EXCEPT !.copy = [m.copy EXCEPT !.identity = m.identity], !.identity = Nil] \in Memory
    BY <1>1, <2>1 DEF Memory
  <2>3. RestTypes
    BY <1>1, <1>2, <2>1 DEF Adopt, RestTypes, TypeOK, files, world
  <2> QED BY <1>2, <2>2, <2>3, AtTypes, KeepTypes, TypesOfParts DEF Adopt, Pcs, ConnectPcs
<1>3. CASE Reach(p)
  <2>1. [m EXCEPT !.key = IF m.copy.phase = "none" THEN hostKey[u] ELSE Nil] \in Memory
    BY <1>1 DEF Memory, TypeOK
  <2>2. PICK next \in Pcs : At(p, "reach", next)
    BY <1>3 DEF Reach, Pcs, ConnectPcs
  <2>3. RestTypes
    BY <1>3 DEF Reach, RestTypes, TypeOK, files, world
  <2> QED BY <1>3, <2>1, <2>2, <2>3, AtTypes, KeepTypes, TypesOfParts DEF Reach
<1>4. CASE Prepare(p)
  <2> DEFINE c == [phase |-> "prepared", identity |-> m.identity, pin |-> m.key, profile |-> 0]
  <2>1. c \in Record
    BY <1>1, MemoryParts DEF Record
  <2>2. [m EXCEPT !.copy = c, !.identity = Nil, !.key = Nil] \in Memory
    BY <1>1, <2>1 DEF Memory
  <2>3. RestTypes
    BY <1>1, <1>4, <2>1 DEF Prepare, RestTypes, TypeOK, files, world
  <2> QED BY <1>4, <2>2, <2>3, AtTypes, KeepTypes, TypesOfParts DEF Prepare, Pcs, ConnectPcs
<1>5. CASE ReadConfig(p)
  <2>1. [m EXCEPT !.config = IF u \in include THEN {} ELSE include] \in Memory
    BY <1>1 DEF Memory, TypeOK
  <2>2. PICK next \in Pcs : At(p, "readConfig", next)
    BY <1>5 DEF ReadConfig, Pcs, ConnectPcs
  <2>3. RestTypes
    BY <1>5 DEF ReadConfig, RestTypes, TypeOK, files, world
  <2> QED BY <1>5, <2>1, <2>2, <2>3, AtTypes, KeepTypes, TypesOfParts DEF ReadConfig
<1>6. CASE WriteInclude(p)
  <2>1. [m EXCEPT !.config = {}] \in Memory
    BY <1>1 DEF Memory
  <2>2. RestTypes
    BY <1>1, <1>6, MemoryParts DEF WriteInclude, RestTypes, TypeOK, files, world
  <2> QED BY <1>6, <2>1, <2>2, AtTypes, KeepTypes, TypesOfParts DEF WriteInclude, Pcs, ConnectPcs
<1>7. CASE WriteKnown(p) \/ WriteEntry(p) \/ WriteProxy(p)
  <2>1. RestTypes
    BY <1>1, <1>7, MemoryParts
       DEF WriteKnown, WriteEntry, WriteProxy, RestTypes, TypeOK, files, world
  <2>2. mem' \in [Procs -> Memory] /\ \E here \in Pcs, next \in Pcs : At(p, here, next)
    BY <1>7 DEF WriteKnown, WriteEntry, WriteProxy, TypeOK, Pcs, ConnectPcs
  <2> QED BY <2>1, <2>2, AtTypes, TypesOfParts
<1>8. CASE ListSaved(p)
  <2>1. RestTypes
    BY <1>8 DEF ListSaved, RestTypes, TypeOK, files, world
  <2>2. CASE Return(p)
    BY <2>1, <2>2, ReturnTypes, TypesOfParts
  <2>3. CASE ~Return(p)
    <3>1. [m EXCEPT !.machine = m.copy.profile] \in Memory
      BY <1>1, MemoryParts DEF Memory
    <3>2. At(p, "list", "enable") /\ Keep(p, [m EXCEPT !.machine = m.copy.profile])
      BY <1>8, <2>3 DEF ListSaved
    <3> QED BY <2>1, <3>1, <3>2, AtTypes, KeepTypes, TypesOfParts DEF Pcs, ConnectPcs
  <2> QED BY <2>2, <2>3
<1>9. CASE ListMatching(p)
  <2>1. RestTypes
    BY <1>9 DEF ListMatching, RestTypes, TypeOK, files, world
  <2>2. \E here \in Pcs, next \in Pcs : At(p, here, next)
    BY <1>9 DEF ListMatching, Pcs, ConnectPcs
  <2>3. mem' \in [Procs -> Memory]
    <3>1. CASE UNCHANGED mem
      BY <3>1 DEF TypeOK
    <3>2. ASSUME NEW n \in Matching(u), Keep(p, [m EXCEPT !.machine = n])
          PROVE  mem' \in [Procs -> Memory]
      <4>1. [m EXCEPT !.machine = n] \in Memory
        BY <1>1, <3>2, MatchingParts DEF Memory
      <4> QED BY <3>2, <4>1, KeepTypes
    <3> QED BY <1>9, <3>1, <3>2 DEF ListMatching
  <2> QED BY <2>1, <2>2, <2>3, AtTypes, TypesOfParts
<1>10. CASE AddMachine(p)
  <2>1. machines' \in Seq(Machine) /\ Len(machines') <= MaxMachines
    BY <1>1, <1>10, Adding DEF AddMachine
  <2>2. RestTypes
    BY <1>10, <2>1 DEF AddMachine, RestTypes, TypeOK, files, world
  <2>3. mem' \in [Procs -> Memory]
    BY <1>10 DEF AddMachine, TypeOK
  <2> QED BY <1>10, <2>2, <2>3, AtTypes, TypesOfParts DEF AddMachine, Pcs, ConnectPcs
<1>11. CASE EnableMachine(p)
  <2>1. machines' \in Seq(Machine) /\ Len(machines') <= MaxMachines
    BY <1>11, Setting DEF EnableMachine, Present, TypeOK
  <2>2. RestTypes
    BY <1>11, <2>1 DEF EnableMachine, RestTypes, TypeOK, files, world
  <2>3. CASE Return(p)
    BY <2>2, <2>3, ReturnTypes, TypesOfParts
  <2>4. CASE ~Return(p)
    <3>1. At(p, "enable", "save") /\ mem' \in [Procs -> Memory]
      BY <1>11, <2>4 DEF EnableMachine, TypeOK
    <3> QED BY <2>2, <3>1, AtTypes, TypesOfParts DEF Pcs, ConnectPcs
  <2> QED BY <2>3, <2>4
<1>12. CASE SaveConnected(p)
  <2>1. [m.copy EXCEPT !.phase = "connected", !.profile = m.machine] \in Record
    BY <1>1, MemoryParts DEF Record
  <2>2. RestTypes
    BY <1>1, <1>12, <2>1 DEF SaveConnected, RestTypes, TypeOK, files, world
  <2> QED BY <1>12, <2>2, ReturnTypes, TypesOfParts DEF SaveConnected
<1> QED BY <1>2, <1>3, <1>4, <1>5, <1>6, <1>7, <1>8, <1>9, <1>10, <1>11, <1>12 DEF ConnectStep

LEMMA DetachTypes ==
  ASSUME TypeOK, NEW p \in Procs, DetachStep(p)
  PROVE  TypeOK'
<1>1. ASSUME RestTypes, Detached(p)
      PROVE  TypeOK'
  <2>1. CASE Return(p)
    BY <1>1, <2>1, ReturnTypes, TypesOfParts
  <2>2. CASE ~Return(p)
    <3>1. At(p, pc[p], "orphan") /\ mem' \in [Procs -> Memory]
      BY <1>1, <2>2 DEF Detached, TypeOK
    <3> QED BY <1>1, <3>1, AtTypes, TypesOfParts DEF Pcs, RemovePcs
  <2> QED BY <2>1, <2>2
<1>2. CASE ListToDisable(p)
  <2>1. RestTypes
    BY <1>2 DEF ListToDisable, RestTypes, TypeOK, files, world
  <2>2. CASE Detached(p)
    BY <1>1, <2>1, <2>2
  <2>3. CASE ~Detached(p)
    <3>1. At(p, "listToDisable", "disable") /\ mem' \in [Procs -> Memory]
      BY <1>2, <2>3 DEF ListToDisable, TypeOK
    <3> QED BY <2>1, <3>1, AtTypes, TypesOfParts DEF Pcs, DetachPcs
  <2> QED BY <2>2, <2>3
<1>3. CASE DisableMachine(p)
  <2>1. machines' \in Seq(Machine) /\ Len(machines') <= MaxMachines
    BY <1>3, Setting DEF DisableMachine, Present, TypeOK
  <2>2. RestTypes
    BY <1>3, <2>1 DEF DisableMachine, RestTypes, TypeOK, files, world
  <2> QED BY <1>1, <1>3, <2>2 DEF DisableMachine
<1> QED BY <1>2, <1>3 DEF DetachStep

LEMMA RemoveTypes ==
  ASSUME TypeOK, NEW p \in Procs, Busy, RemoveStep(p)
  PROVE  TypeOK'
<1> DEFINE m == mem[p]
           u == m.sandbox
<1>1. u \in Sandboxes /\ m \in Memory
  BY MemoryParts DEF Busy, RemoveStep, Orphan, ListToRemove, RemoveMachine, ReadLines, WriteLines,
     RemoveKnown, RemoveEntry, RemoveProxy, RemoveRecord, At
<1>2. CASE Orphan(p)
  <2>1. RestTypes
    BY <1>1, <1>2 DEF Orphan, RestTypes, TypeOK, files
  <2>2. CASE Return(p)
    BY <2>1, <2>2, ReturnTypes, TypesOfParts
  <2>3. CASE ~Return(p)
    <3>1. At(p, "orphan", AfterSandbox(m.copy)) /\ mem' \in [Procs -> Memory]
      BY <1>2, <2>3 DEF Orphan, TypeOK
    <3>2. AfterSandbox(m.copy) \in Pcs
      BY DEF AfterSandbox, Pcs, RemovePcs
    <3> QED BY <2>1, <3>1, <3>2, AtTypes, TypesOfParts
  <2> QED BY <2>2, <2>3
<1>3. CASE ListToRemove(p)
  <2>1. RestTypes /\ mem' \in [Procs -> Memory]
    BY <1>3 DEF ListToRemove, RestTypes, TypeOK, files, world
  <2>2. PICK next \in Pcs : At(p, "listToRemove", next)
    BY <1>3 DEF ListToRemove, Pcs, RemovePcs
  <2> QED BY <2>1, <2>2, AtTypes, TypesOfParts
<1>4. CASE RemoveMachine(p)
  <2>1. machines' \in Seq(Machine) /\ Len(machines') <= MaxMachines
    BY <1>4, Setting DEF RemoveMachine, Present, TypeOK
  <2>2. RestTypes /\ mem' \in [Procs -> Memory]
    BY <1>4, <2>1 DEF RemoveMachine, RestTypes, TypeOK, files, world
  <2> QED BY <1>4, <2>2, AtTypes, TypesOfParts DEF RemoveMachine, Pcs, RemovePcs
<1>5. CASE ReadLines(p)
  <2>1. [m EXCEPT !.config = IF u \in include THEN include \ {u} ELSE {}] \in Memory
    BY <1>1 DEF Memory, TypeOK
  <2>2. PICK next \in Pcs : At(p, "readLines", next)
    BY <1>5 DEF ReadLines, Pcs, RemovePcs
  <2>3. RestTypes
    BY <1>5 DEF ReadLines, RestTypes, TypeOK, files, world
  <2> QED BY <1>5, <2>1, <2>2, <2>3, AtTypes, KeepTypes, TypesOfParts DEF ReadLines
<1>6. CASE WriteLines(p)
  <2>1. [m EXCEPT !.config = {}] \in Memory
    BY <1>1 DEF Memory
  <2>2. RestTypes
    BY <1>6, MemoryParts DEF WriteLines, RestTypes, TypeOK, files, world
  <2> QED BY <1>6, <2>1, <2>2, AtTypes, KeepTypes, TypesOfParts DEF WriteLines, Pcs, RemovePcs
<1>7. CASE RemoveKnown(p) \/ RemoveEntry(p) \/ RemoveProxy(p)
  <2>1. RestTypes
    BY <1>1, <1>7 DEF RemoveKnown, RemoveEntry, RemoveProxy, RestTypes, TypeOK, files, world
  <2>2. mem' \in [Procs -> Memory] /\ \E here \in Pcs, next \in Pcs : At(p, here, next)
    BY <1>7 DEF RemoveKnown, RemoveEntry, RemoveProxy, TypeOK, Pcs, RemovePcs
  <2> QED BY <2>1, <2>2, AtTypes, TypesOfParts
<1>8. CASE RemoveRecord(p)
  <2>1. NoRecord \in Record
    BY DEF NoRecord, Record
  <2>2. RestTypes
    BY <1>1, <1>8, <2>1 DEF RemoveRecord, RestTypes, TypeOK, files, world
  <2> QED BY <1>8, <2>2, ReturnTypes, TypesOfParts DEF RemoveRecord
<1> QED BY <1>2, <1>3, <1>4, <1>5, <1>6, <1>7, <1>8 DEF RemoveStep

LEMMA WorldTypes ==
  ASSUME TypeOK, (\E p \in Procs : Interrupt(p)) \/ \E u \in Sandboxes : ChangeHostKey(u)
  PROVE  TypeOK'
<1>1. RestTypes
  BY DEF Interrupt, ChangeHostKey, RestTypes, TypeOK, files, world
<1>2. ASSUME NEW p \in Procs, Interrupt(p)
      PROVE  TypeOK'
  BY <1>1, <1>2, ReturnTypes, TypesOfParts DEF Interrupt
<1>3. ASSUME NEW u \in Sandboxes, ChangeHostKey(u)
      PROVE  TypeOK'
  BY <1>1, <1>3, TypesOfParts DEF ChangeHostKey, TypeOK, Pcs
<1> QED BY <1>2, <1>3

-----------------------------------------------------------------------------
(* Program counters and memories *)

\* What every step of a process does to the others, and to its own claim on a Sandbox.
Moves(p) ==
  /\ \A q \in Procs \ {p} : pc'[q] = pc[q] /\ mem'[q] = mem[q]
  /\ pc'[p] = "idle" => mem'[p] = NoMemory
  /\ pc'[p] # "idle" => pc[p] # "idle" /\ mem'[p].sandbox = mem[p].sandbox

LEMMA ReturnMoves ==
  ASSUME TypeOK, NEW p \in Procs, Return(p)
  PROVE  Moves(p) /\ pc'[p] = "idle" /\ mem'[p] = NoMemory
BY DEF TypeOK, Return, Keep, Moves

\* Going on: to a named call, with the memory as it was or another of the same Sandbox.
LEMMA AtMoves ==
  ASSUME TypeOK, NEW p \in Procs, NEW here, NEW next, At(p, here, next), pc[p] # "idle",
         next # "idle",
         \/ UNCHANGED mem
         \/ \E m \in Memory : m.sandbox = mem[p].sandbox /\ Keep(p, m)
  PROVE  Moves(p) /\ pc[p] = here /\ pc'[p] = next
BY DEF TypeOK, At, Keep, Moves

LEMMA StepBusy ==
  ASSUME TypeOK, Busy, NEW p \in Procs, Moves(p)
  PROVE  Busy'
BY NilAssumption DEF Busy, Moves, NoMemory

\* Every step of a process is a return or goes on with the same Sandbox.
LEMMA StepMoves ==
  ASSUME TypeOK, TypeOK', NEW p \in Procs, Step(p) \/ Interrupt(p)
  PROVE  Moves(p)
<1>1. CASE Return(p)
  BY <1>1, ReturnMoves
<1>2. ASSUME NEW here, NEW next, At(p, here, next), here # "idle", next # "idle",
             mem'[p].sandbox = mem[p].sandbox,
             UNCHANGED mem \/ \E m : Keep(p, m)
      PROVE  Moves(p)
  BY <1>2 DEF TypeOK, At, Keep, Moves
<1>3. mem \in [Procs -> Memory] /\ mem[p] \in Memory
  BY DEF TypeOK
<1>4. ASSUME UNCHANGED mem, \E here, next : At(p, here, next) /\ here # "idle" /\ next # "idle"
      PROVE  Moves(p)
  BY <1>2, <1>4
<1>5. CASE Adopt(p) \/ Reach(p) \/ Prepare(p) \/ ReadConfig(p) \/ WriteInclude(p) \/ ReadLines(p)
           \/ WriteLines(p)
  <2>1. \E m : Keep(p, m)
    BY <1>5 DEF Adopt, Reach, Prepare, ReadConfig, WriteInclude, ReadLines, WriteLines
  <2>2. mem'[p].sandbox = mem[p].sandbox
    <3>1. CASE Adopt(p)
      BY <1>3, <3>1 DEF Adopt, Keep, Memory
    <3>2. CASE Reach(p)
      BY <1>3, <3>2 DEF Reach, Keep, Memory
    <3>3. CASE Prepare(p)
      BY <1>3, <3>3 DEF Prepare, Keep, Memory
    <3>4. CASE ReadConfig(p) \/ WriteInclude(p)
      BY <1>3, <3>4 DEF ReadConfig, WriteInclude, Keep, Memory
    <3>5. CASE ReadLines(p) \/ WriteLines(p)
      BY <1>3, <3>5 DEF ReadLines, WriteLines, Keep, Memory
    <3> QED BY <1>5, <3>1, <3>2, <3>3, <3>4, <3>5
  <2>3. PICK here, next : At(p, here, next) /\ here # "idle" /\ next # "idle"
    BY <1>5 DEF Adopt, Reach, Prepare, ReadConfig, WriteInclude, ReadLines, WriteLines
  <2> QED BY <1>2, <2>1, <2>2, <2>3
<1>6. CASE WriteKnown(p) \/ WriteEntry(p) \/ WriteProxy(p) \/ AddMachine(p)
  BY <1>4, <1>6 DEF WriteKnown, WriteEntry, WriteProxy, AddMachine
<1>7. CASE ListToRemove(p) \/ RemoveMachine(p) \/ RemoveKnown(p) \/ RemoveEntry(p) \/ RemoveProxy(p)
  BY <1>4, <1>7 DEF ListToRemove, RemoveMachine, RemoveKnown, RemoveEntry, RemoveProxy
<1>8. CASE ListSaved(p) \/ ListMatching(p)
  <2>1. CASE UNCHANGED mem /\ ~Return(p)
    BY <1>4, <1>8, <2>1 DEF ListSaved, ListMatching
  <2>2. CASE ~UNCHANGED mem /\ ~Return(p)
    <3>1. PICK k : Keep(p, [mem[p] EXCEPT !.machine = k])
      BY <1>8, <2>2 DEF ListSaved, ListMatching
    <3>2. mem'[p].sandbox = mem[p].sandbox
      BY <1>3, <3>1 DEF Keep, Memory
    <3>3. PICK here, next : At(p, here, next) /\ here # "idle" /\ next # "idle"
      BY <1>8, <2>2 DEF ListSaved, ListMatching
    <3> QED BY <1>2, <3>1, <3>2, <3>3
  <2> QED BY <1>1, <2>1, <2>2
<1>9. CASE EnableMachine(p)
  BY <1>1, <1>4, <1>9 DEF EnableMachine
<1>10. CASE DetachStep(p)
  <2>1. CASE ListToDisable(p)
    BY <1>1, <1>4, <2>1 DEF ListToDisable, Detached
  <2>2. CASE DisableMachine(p)
    BY <1>1, <1>4, <2>2 DEF DisableMachine, Detached
  <2> QED BY <1>10, <2>1, <2>2 DEF DetachStep
<1>11. CASE Orphan(p)
  BY <1>1, <1>4, <1>11 DEF Orphan, AfterSandbox
<1>12. CASE SaveConnected(p) \/ RemoveRecord(p) \/ Interrupt(p)
  BY <1>1, <1>12 DEF SaveConnected, RemoveRecord, Interrupt
<1> QED BY <1>5, <1>6, <1>7, <1>8, <1>9, <1>10, <1>11, <1>12 DEF Step, ConnectStep, RemoveStep

LEMMA IdleWorking ==
  ASSUME NEW p \in Procs, pc'[p] = "idle"
  PROVE  Working(p)'
BY DEF Working

-----------------------------------------------------------------------------
(* Sandboxes that a step does not concern *)

Same(v) ==
  /\ record'[v] = record[v] /\ known'[v] = known[v] /\ entry'[v] = entry[v]
  /\ v \in proxy' <=> v \in proxy
  /\ v \in gone' <=> v \in gone
  /\ \A m \in Profiles : m \in DOMAIN machines' /\ machines'[m].of = v <=>
                         m \in DOMAIN machines /\ machines[m].of = v
  /\ \A m \in DOMAIN machines : machines[m].of = v => machines'[m] = machines[m]

Aside(u) == \A v \in Sandboxes \ {u} : Same(v)

\* The action properties, for one Sandbox.
Kept(u) ==
  /\ record[u].phase # "none" => record'[u].phase = "none" \/ record'[u].pin = record[u].pin
  /\ record[u].phase = "connected" => record'[u] \in {record[u], NoRecord}
  /\ record[u].phase = "connected" /\ record'[u].phase = "none" => ~Present(record[u].profile)

LEMMA Quiet ==
  ASSUME UNCHANGED <<record, files, machines, gone>>
  PROVE  \A v \in Sandboxes : Same(v)
BY DEF Same, files

LEMMA SameMatching ==
  ASSUME TypeOK, TypeOK', NEW v \in Sandboxes, Same(v)
  PROVE  Matching(v)' = Matching(v)
<1>1. DOMAIN machines \subseteq Profiles /\ DOMAIN machines' \subseteq Profiles
  <2>1. machines' \in Seq(Machine) /\ Len(machines') <= MaxMachines
    BY DEF TypeOK
  <2>2. DOMAIN machines' = 1 .. Len(machines') /\ Len(machines') \in Nat
    BY <2>1
  <2> QED BY <2>1, <2>2, MachineParts, MachinesAssumption DEF Profiles
<1>2. ASSUME NEW m \in Profiles
      PROVE  m \in Matching(v)' <=> m \in Matching(v)
  BY DEF Same, Matching, Present
<1> QED BY <1>1, <1>2 DEF Matching

LEMMA SameSound ==
  ASSUME TypeOK, TypeOK', NEW v \in Sandboxes, Same(v), Sound(v)
  PROVE  Sound(v)' /\ Kept(v)
<1>1. Matching(v)' = Matching(v)
  BY SameMatching
<1>2. Kept(v)
  BY DEF Same, Kept
<1>3. record[v].phase = "connected" =>
        record[v].profile \in DOMAIN machines' /\ machines'[record[v].profile].of = v
  BY MachineParts DEF Sound, Same
<1> QED BY <1>1, <1>2, <1>3 DEF Same, Sound

LEMMA SameWorking ==
  ASSUME TypeOK, TypeOK', NEW q \in Procs, pc'[q] = pc[q], mem'[q] = mem[q],
         mem[q].sandbox \in Sandboxes, Same(mem[q].sandbox), Sound(mem[q].sandbox), Working(q)
  PROVE  Working(q)'
<1> DEFINE v == mem[q].sandbox
<1>1. Matching(v)' = Matching(v)
  BY SameMatching
<1> SUFFICES ASSUME pc[q] # "idle"
             PROVE  CopyAt(q)' /\ FilesAt(q)' /\ MachinesAt(q)'
  BY DEF Working
<1>2. CopyAt(q) /\ FilesAt(q) /\ MachinesAt(q)
  BY DEF Working
<1>3. CopyAt(q)'
  BY <1>2 DEF CopyAt, Same
<1>4. FilesAt(q)'
  BY <1>2 DEF FilesAt, Same
<1>5. mem[q].copy.phase = "connected" => (Present(mem[q].copy.profile)' <=> Present(mem[q].copy.profile))
  BY <1>2, MachineParts DEF CopyAt, Sound, Same, Present
<1>6. MachinesAt(q)'
  BY <1>1, <1>2, <1>5 DEF MachinesAt, Same
<1> QED BY <1>3, <1>4, <1>6

-----------------------------------------------------------------------------
(* What each step of a process does *)

\* A step of p, which works on the Sandbox u.
Works(p, u) == Moves(p) /\ Aside(u) /\ Working(p)' /\ Sound(u)' /\ Kept(u)

LEMMA Given ==
  ASSUME LInv, NEW p \in Procs, NEW u, u = mem[p].sandbox, pc[p] # "idle"
  PROVE  /\ u \in Sandboxes /\ Sound(u)
         /\ CopyAt(p) /\ FilesAt(p) /\ MachinesAt(p)
         /\ mem[p] \in Memory /\ mem[p].copy \in Record
BY MemoryParts DEF LInv, Busy, Working

\* Steps that touch no record, no file under ssh/ and no machine.
LEMMA QuietWorks ==
  ASSUME LInv, TypeOK', NEW p \in Procs, NEW u, u = mem[p].sandbox, pc[p] # "idle", Moves(p), Working(p)',
         UNCHANGED <<record, files, machines, gone>>
  PROVE  Works(p, u)
BY Given, Quiet, SameSound DEF Works, Aside, LInv

LEMMA ReturnWorks ==
  ASSUME LInv, TypeOK', NEW p \in Procs, NEW u, u = mem[p].sandbox, pc[p] # "idle", Return(p),
         UNCHANGED <<record, files, machines, gone>>
  PROVE  Works(p, u)
BY QuietWorks, ReturnMoves, IdleWorking DEF LInv

LEMMA AdoptWorks ==
  ASSUME LInv, TypeOK', NEW p \in Procs, NEW u, u = mem[p].sandbox, Adopt(p)
  PROVE  Works(p, u)
<1> DEFINE m == mem[p]
           c == [m.copy EXCEPT !.identity = m.identity]
           n == [m EXCEPT !.copy = c, !.identity = Nil]
<1>1. pc[p] = "adopt" /\ TypeOK
  BY DEF Adopt, At, LInv
<1>2. /\ u \in Sandboxes /\ Sound(u) /\ CopyAt(p) /\ FilesAt(p) /\ MachinesAt(p)
      /\ m \in Memory /\ m.copy \in Record
  BY <1>1, Given
<1>3. c \in Record /\ c.phase = "prepared" /\ c.pin = m.copy.pin
  BY <1>1, <1>2, MemoryParts DEF CopyAt, Record
<1>4. n \in Memory /\ n.sandbox = u /\ n.copy = c
  BY <1>2, <1>3 DEF Memory
<1>5. Moves(p) /\ pc'[p] = "reach"
  BY <1>1, <1>4, AtMoves DEF Adopt
<1>6. mem'[p] = n /\ record' = [record EXCEPT ![u] = c]
  BY <1>1 DEF Adopt, Keep, TypeOK
<1>7. record'[u] = c /\ m.copy = record[u] /\ record[u].phase = "prepared"
  BY <1>1, <1>2, <1>6 DEF CopyAt, TypeOK
<1>8. Aside(u)
  BY <1>6 DEF Aside, Same, Adopt, TypeOK, files, world
<1>9. Working(p)'
  BY <1>4, <1>5, <1>6, <1>7 DEF Working, CopyAt, FilesAt, MachinesAt, DetachPcs, RemovePcs
<1>10. Sound(u)' /\ Kept(u)
  BY <1>2, <1>3, <1>7 DEF Adopt, Sound, Kept, Matching, Present, files, world
<1> QED BY <1>5, <1>8, <1>9, <1>10 DEF Works

LEMMA ReachWorks ==
  ASSUME LInv, TypeOK', NEW p \in Procs, NEW u, u = mem[p].sandbox, Reach(p)
  PROVE  Works(p, u)
<1> DEFINE m == mem[p]
           n == [m EXCEPT !.key = IF m.copy.phase = "none" THEN hostKey[u] ELSE Nil]
           next == IF m.copy.phase = "none" THEN "prepare" ELSE "readConfig"
<1>1. pc[p] = "reach" /\ TypeOK
  BY DEF Reach, At, LInv
<1>2. u \in Sandboxes /\ CopyAt(p) /\ m \in Memory
  BY <1>1, Given
<1>3. n \in Memory /\ n.sandbox = m.sandbox /\ n.copy = m.copy
  BY <1>1, <1>2 DEF Memory, TypeOK
<1>4. Moves(p) /\ pc'[p] = next
  BY <1>1, <1>3, AtMoves DEF Reach
<1>5. mem'[p] = n /\ UNCHANGED <<record, files, machines, gone>>
  BY <1>1 DEF Reach, Keep, TypeOK, world
<1>6. Working(p)'
  BY <1>2, <1>3, <1>4, <1>5 DEF Working, CopyAt, FilesAt, MachinesAt, DetachPcs, RemovePcs
<1> QED BY <1>1, <1>4, <1>5, <1>6, QuietWorks

LEMMA PrepareWorks ==
  ASSUME LInv, TypeOK', NEW p \in Procs, NEW u, u = mem[p].sandbox, Prepare(p)
  PROVE  Works(p, u)
<1> DEFINE m == mem[p]
           c == [phase |-> "prepared", identity |-> m.identity, pin |-> m.key, profile |-> 0]
           n == [m EXCEPT !.copy = c, !.identity = Nil, !.key = Nil]
<1>1. pc[p] = "prepare" /\ TypeOK
  BY DEF Prepare, At, LInv
<1>2. u \in Sandboxes /\ Sound(u) /\ CopyAt(p) /\ m \in Memory
  BY <1>1, Given
<1>3. c \in Record
  BY <1>1, <1>2, MemoryParts DEF Record
<1>4. n \in Memory /\ n.sandbox = u /\ n.copy = c
  BY <1>2, <1>3 DEF Memory
<1>5. Moves(p) /\ pc'[p] = "readConfig"
  BY <1>1, <1>4, AtMoves DEF Prepare
<1>6. mem'[p] = n /\ record' = [record EXCEPT ![u] = c]
  BY <1>1 DEF Prepare, Keep, TypeOK
<1>7. record'[u] = c /\ record[u].phase = "none"
  BY <1>1, <1>2, <1>6 DEF CopyAt, TypeOK
<1>8. Aside(u)
  BY <1>6 DEF Aside, Same, Prepare, TypeOK, files, world
<1>9. Working(p)'
  BY <1>4, <1>5, <1>6, <1>7 DEF Working, CopyAt, FilesAt, MachinesAt, DetachPcs, RemovePcs
<1>10. Sound(u)' /\ Kept(u)
  BY <1>2, <1>7 DEF Prepare, Sound, Kept, Matching, Present, files, world
<1> QED BY <1>5, <1>8, <1>9, <1>10 DEF Works

LEMMA ConfigWorks ==
  ASSUME LInv, TypeOK', NEW p \in Procs, NEW u, u = mem[p].sandbox, ReadConfig(p) \/ WriteInclude(p)
  PROVE  Works(p, u)
<1> DEFINE m == mem[p]
<1>1. pc[p] \in {"readConfig", "include"} /\ TypeOK
  BY DEF ReadConfig, WriteInclude, At, LInv
<1>2. u \in Sandboxes /\ CopyAt(p) /\ m \in Memory
  BY <1>1, Given
<1>3. PICK config \in SUBSET Sandboxes : Keep(p, [m EXCEPT !.config = config])
  BY <1>1 DEF ReadConfig, WriteInclude, TypeOK
<1>4. /\ [m EXCEPT !.config = config] \in Memory
      /\ [m EXCEPT !.config = config].sandbox = m.sandbox
      /\ [m EXCEPT !.config = config].copy = m.copy
  BY <1>2 DEF Memory
<1>5. PICK next \in {"include", "known"} : At(p, pc[p], next)
  BY DEF ReadConfig, WriteInclude, At
<1>6. Moves(p) /\ pc'[p] = next
  BY <1>1, <1>3, <1>4, <1>5, AtMoves
<1>7. mem'[p] = [m EXCEPT !.config = config] /\ UNCHANGED <<record, files, machines, gone>>
  BY <1>1, <1>3 DEF ReadConfig, WriteInclude, Keep, TypeOK, world
<1>8. Working(p)'
  BY <1>1, <1>2, <1>4, <1>6, <1>7 DEF Working, CopyAt, FilesAt, MachinesAt, DetachPcs, RemovePcs
<1> QED BY <1>1, <1>6, <1>7, <1>8, QuietWorks

\* A file is written with what the record asks for.
LEMMA FilesWorks ==
  ASSUME LInv, TypeOK', NEW p \in Procs, NEW u, u = mem[p].sandbox,
         WriteKnown(p) \/ WriteEntry(p) \/ WriteProxy(p)
  PROVE  Works(p, u)
<1>1. pc[p] \in {"known", "entry", "proxy"} /\ TypeOK
  BY DEF WriteKnown, WriteEntry, WriteProxy, At, LInv
<1>2. u \in Sandboxes /\ Sound(u) /\ CopyAt(p) /\ FilesAt(p)
  BY <1>1, Given
<1>3. PICK next \in {"entry", "proxy", "list"} : At(p, pc[p], next) /\ UNCHANGED mem
  BY DEF WriteKnown, WriteEntry, WriteProxy, At
<1>4. Moves(p) /\ pc'[p] = next
  BY <1>1, <1>3, AtMoves
<1>5. Aside(u)
  BY <1>1 DEF Aside, Same, WriteKnown, WriteEntry, WriteProxy, TypeOK, world
<1>6. Working(p)'
  BY <1>1, <1>2, <1>3, <1>4 DEF Working, CopyAt, FilesAt, MachinesAt, DetachPcs, RemovePcs,
     WriteKnown, WriteEntry, WriteProxy, At, TypeOK, world
<1>7. Sound(u)' /\ Kept(u)
  BY <1>1, <1>2 DEF CopyAt, Sound, Kept, Matching, Present, WriteKnown, WriteEntry, WriteProxy,
     At, TypeOK, world
<1> QED BY <1>4, <1>5, <1>6, <1>7 DEF Works

LEMMA ListSavedWorks ==
  ASSUME LInv, TypeOK', NEW p \in Procs, NEW u, u = mem[p].sandbox, ListSaved(p)
  PROVE  Works(p, u)
<1> DEFINE m == mem[p]
           n == [m EXCEPT !.machine = m.copy.profile]
<1>1. pc[p] = "list" /\ TypeOK /\ UNCHANGED <<record, files, machines, gone>>
  BY DEF ListSaved, LInv, world
<1>2. CASE Return(p)
  BY <1>1, <1>2, ReturnWorks
<1>3. CASE ~Return(p)
  <2>1. /\ At(p, "list", "enable") /\ Keep(p, n) /\ m.copy.phase = "connected"
        /\ m.copy.profile \in Matching(u)
    BY <1>3 DEF ListSaved
  <2>2. u \in Sandboxes /\ CopyAt(p) /\ FilesAt(p) /\ m \in Memory
    BY <1>1, Given
  <2>3. n \in Memory /\ n.sandbox = u /\ n.copy = m.copy /\ n.machine = m.copy.profile
    BY <1>1, <2>1, <2>2, MemoryParts DEF Memory
  <2>4. Moves(p) /\ pc'[p] = "enable"
    BY <1>1, <2>1, <2>3, AtMoves
  <2>5. mem'[p] = n
    BY <1>1, <2>1 DEF Keep, TypeOK
  <2>6. Working(p)'
    BY <1>1, <2>1, <2>2, <2>3, <2>4, <2>5
       DEF Working, CopyAt, FilesAt, MachinesAt, DetachPcs, RemovePcs, Matching, Present, files
  <2> QED BY <1>1, <2>4, <2>6, QuietWorks
<1> QED BY <1>2, <1>3

LEMMA ListMatchingWorks ==
  ASSUME LInv, TypeOK', NEW p \in Procs, NEW u, u = mem[p].sandbox, ListMatching(p)
  PROVE  Works(p, u)
<1> DEFINE m == mem[p]
<1>1. /\ pc[p] \in {"list", "relist"} /\ TypeOK /\ m.copy.phase = "prepared"
      /\ UNCHANGED <<record, files, machines, gone>>
  BY DEF ListMatching, LInv, world
<1>2. u \in Sandboxes /\ CopyAt(p) /\ FilesAt(p) /\ m \in Memory
  BY <1>1, Given
<1>3. ASSUME NEW k \in Matching(u), Keep(p, [m EXCEPT !.machine = k]),
             NEW next \in {"save", "enable"}, At(p, pc[p], next)
      PROVE  Works(p, u)
  <2> DEFINE n == [m EXCEPT !.machine = k]
  <2>1. n \in Memory /\ n.sandbox = u /\ n.copy = m.copy /\ n.machine = k
    BY <1>1, <1>2, MatchingParts DEF Memory
  <2>2. Moves(p) /\ pc'[p] = next
    BY <1>1, <1>3, <2>1, AtMoves
  <2>3. mem'[p] = n
    BY <1>1, <1>3 DEF Keep, TypeOK
  <2>4. Working(p)'
    BY <1>1, <1>2, <2>1, <2>2, <2>3
       DEF Working, CopyAt, FilesAt, MachinesAt, DetachPcs, RemovePcs, Matching, Present, files
  <2> QED BY <1>1, <2>2, <2>4, QuietWorks
<1>4. ASSUME Matching(u) = {}, At(p, "list", "add"), UNCHANGED mem
      PROVE  Works(p, u)
  <2>1. Moves(p) /\ pc'[p] = "add" /\ pc[p] = "list"
    BY <1>1, <1>4, AtMoves
  <2>2. Working(p)'
    BY <1>1, <1>2, <1>4, <2>1
       DEF Working, CopyAt, FilesAt, MachinesAt, DetachPcs, RemovePcs, Matching, Present, files
  <2> QED BY <1>1, <2>1, <2>2, QuietWorks
<1> QED BY <1>3, <1>4 DEF ListMatching

\* Changing the state of a Sandbox's own machine concerns no other Sandbox.
LEMMA OwnMachine ==
  ASSUME TypeOK, NEW u \in Sandboxes, NEW m \in DOMAIN machines, machines[m].of = u,
         NEW st \in {"enabled", "disabled", "removed"}, Set(m, st),
         UNCHANGED <<record, files, gone>>
  PROVE  Aside(u)
BY Setting, MachineParts DEF Aside, Same, files

\* A machine that was in Herdr and is not removed matches as before.
LEMMA StillMatching ==
  ASSUME TypeOK, NEW u, NEW m, Present(m), NEW st \in {"enabled", "disabled"}, Set(m, st)
  PROVE  Matching(u)' = Matching(u)
BY Setting DEF Matching, Present

LEMMA AddWorks ==
  ASSUME LInv, TypeOK', NEW p \in Procs, NEW u, u = mem[p].sandbox, AddMachine(p)
  PROVE  Works(p, u)
<1>1. pc[p] = "add" /\ TypeOK /\ UNCHANGED mem
  BY DEF AddMachine, At, LInv
<1>2. u \in Sandboxes /\ Sound(u) /\ CopyAt(p) /\ FilesAt(p) /\ MachinesAt(p)
  BY <1>1, Given
<1>3. Moves(p) /\ pc'[p] = "relist"
  BY <1>1, AtMoves DEF AddMachine
<1>4. UNCHANGED <<record, files, gone>>
  BY DEF AddMachine, world
<1>5. /\ DOMAIN machines' = DOMAIN machines \cup {Len(machines) + 1}
      /\ Len(machines) + 1 \notin DOMAIN machines
      /\ machines'[Len(machines) + 1] = [of |-> u, st |-> "enabled"]
      /\ \A n \in DOMAIN machines : machines'[n] = machines[n]
  BY <1>1, <1>2, Adding DEF AddMachine
<1>6. Aside(u)
  BY <1>4, <1>5 DEF Aside, Same, files
<1>7. Working(p)'
  BY <1>1, <1>2, <1>3, <1>4
     DEF Working, CopyAt, FilesAt, MachinesAt, DetachPcs, RemovePcs, files
<1>8. \A k \in Matching(u)' : k = Len(machines) + 1
  BY <1>1, <1>2, <1>5 DEF MachinesAt, Matching, Present
<1>9. record[u].phase = "prepared" /\ record'[u] = record[u]
  BY <1>1, <1>2, <1>4 DEF CopyAt
<1>10. Sound(u)' /\ Kept(u)
  BY <1>8, <1>9 DEF Sound, Kept
<1> QED BY <1>3, <1>6, <1>7, <1>10 DEF Works

LEMMA EnableWorks ==
  ASSUME LInv, TypeOK', NEW p \in Procs, NEW u, u = mem[p].sandbox, EnableMachine(p)
  PROVE  Works(p, u)
<1> DEFINE k == mem[p].machine
<1>1. /\ pc[p] = "enable" /\ TypeOK /\ UNCHANGED <<record, files, gone>>
      /\ Set(k, "enabled") /\ Present(k)
  BY DEF EnableMachine, LInv, world
<1>2. /\ u \in Sandboxes /\ Sound(u) /\ CopyAt(p) /\ FilesAt(p) /\ MachinesAt(p)
  BY <1>1, Given
<1>3. k \in DOMAIN machines /\ machines[k].of = u
  BY <1>1, <1>2 DEF MachinesAt, Matching
<1>4. Aside(u)
  BY <1>1, <1>2, <1>3, OwnMachine
<1>5. Matching(u)' = Matching(u)
  BY <1>1, StillMatching
<1>6. Sound(u)' /\ Kept(u)
  BY <1>1, <1>2, <1>3, <1>5, Setting DEF Sound, Kept, files
<1>7. CASE Return(p)
  BY <1>1, <1>4, <1>6, <1>7, ReturnMoves, IdleWorking DEF Works
<1>8. CASE ~Return(p)
  <2>1. At(p, "enable", "save") /\ UNCHANGED mem /\ mem[p].copy.phase # "connected"
    BY <1>8 DEF EnableMachine
  <2>2. Moves(p) /\ pc'[p] = "save"
    BY <1>1, <2>1, AtMoves
  <2>3. mem[p].copy.phase = "prepared"
    BY <1>1, <1>2, <2>1, MemoryParts DEF CopyAt, Record
  <2>4. Working(p)'
    BY <1>1, <1>2, <1>5, <2>1, <2>2, <2>3
       DEF Working, CopyAt, FilesAt, MachinesAt, DetachPcs, RemovePcs, files
  <2> QED BY <1>4, <1>6, <2>2, <2>4 DEF Works
<1> QED BY <1>7, <1>8

LEMMA SaveWorks ==
  ASSUME LInv, TypeOK', NEW p \in Procs, NEW u, u = mem[p].sandbox, SaveConnected(p)
  PROVE  Works(p, u)
<1> DEFINE c == [mem[p].copy EXCEPT !.phase = "connected", !.profile = mem[p].machine]
<1>1. /\ pc[p] = "save" /\ TypeOK /\ Return(p)
      /\ record' = [record EXCEPT ![u] = c] /\ UNCHANGED <<files, machines, gone>>
  BY DEF SaveConnected, LInv, world
<1>2. /\ u \in Sandboxes /\ Sound(u) /\ CopyAt(p) /\ FilesAt(p) /\ MachinesAt(p)
      /\ mem[p].copy \in Record
  BY <1>1, Given
<1>3. /\ c.phase = "connected" /\ c.profile = mem[p].machine
      /\ c.pin = record[u].pin /\ c.identity = record[u].identity
      /\ record[u] = mem[p].copy /\ record[u].phase = "prepared"
  BY <1>1, <1>2 DEF CopyAt, Record
<1>4. record'[u] = c
  BY <1>1, <1>2 DEF TypeOK
<1>5. Aside(u)
  BY <1>1 DEF Aside, Same, TypeOK, files
<1>6. Matching(u)' = Matching(u)
  BY <1>1 DEF Matching, Present
<1>7. mem[p].machine \in Matching(u) /\ mem[p].machine \in DOMAIN machines /\ machines[mem[p].machine].of = u
  BY <1>1, <1>2 DEF MachinesAt, Matching
<1>8. Sound(u)' /\ Kept(u)
  BY <1>1, <1>2, <1>3, <1>4, <1>6, <1>7 DEF FilesAt, Sound, Kept, files
<1> QED BY <1>1, <1>5, <1>8, ReturnMoves, IdleWorking DEF Works

\* Once the machine is disabled: disconnect returns, delete goes on.
LEMMA DetachedWorks ==
  ASSUME LInv, TypeOK', NEW p \in Procs, NEW u, u = mem[p].sandbox, pc[p] \in DetachPcs,
         Detached(p), UNCHANGED <<record, files, gone>>
  PROVE  Moves(p) /\ Working(p)'
<1>1. TypeOK
  BY DEF LInv
<1>2. CASE Return(p)
  BY <1>1, <1>2, ReturnMoves, IdleWorking
<1>3. CASE ~Return(p)
  <2>1. At(p, pc[p], "orphan") /\ UNCHANGED mem
    BY <1>3 DEF Detached
  <2>2. pc[p] # "idle" /\ CopyAt(p)
    BY Given DEF DetachPcs
  <2>3. Moves(p) /\ pc'[p] = "orphan"
    BY <1>1, <2>1, <2>2, AtMoves
  <2>4. Working(p)'
    BY <2>1, <2>2, <2>3 DEF Working, CopyAt, FilesAt, MachinesAt, DetachPcs, RemovePcs
  <2> QED BY <2>3, <2>4
<1> QED BY <1>2, <1>3

LEMMA DetachWorks ==
  ASSUME LInv, TypeOK', NEW p \in Procs, NEW u, u = mem[p].sandbox, DetachStep(p)
  PROVE  Works(p, u)
<1>1. pc[p] \in DetachPcs /\ TypeOK /\ UNCHANGED <<record, files, gone>> /\ pc[p] # "idle"
  BY DEF DetachStep, ListToDisable, DisableMachine, DetachPcs, LInv, world
<1>2. u \in Sandboxes /\ Sound(u) /\ CopyAt(p) /\ mem[p].copy.phase = "connected"
  BY <1>1, Given DEF CopyAt
<1>3. CASE ListToDisable(p)
  <2>1. CASE Detached(p)
    BY <1>1, <1>3, <2>1, DetachedWorks, QuietWorks DEF ListToDisable
  <2>2. CASE ~Detached(p)
    <3>1. At(p, "listToDisable", "disable") /\ UNCHANGED <<machines, mem>>
      BY <1>3, <2>2 DEF ListToDisable
    <3>2. Moves(p) /\ pc'[p] = "disable"
      BY <1>1, <3>1, AtMoves
    <3>3. Working(p)'
      BY <1>1, <1>2, <3>1, <3>2 DEF Working, CopyAt, FilesAt, MachinesAt, DetachPcs, RemovePcs
    <3> QED BY <1>1, <3>1, <3>2, <3>3, QuietWorks
  <2> QED BY <2>1, <2>2
<1>4. CASE DisableMachine(p)
  <2> DEFINE k == record[u].profile
  <2>1. Set(k, "disabled") /\ Present(k) /\ Detached(p)
    BY <1>2, <1>4 DEF DisableMachine, CopyAt
  <2>2. k \in DOMAIN machines /\ machines[k].of = u /\ record[u].phase = "connected"
    BY <1>2 DEF CopyAt, Sound
  <2>3. Aside(u)
    BY <1>1, <1>2, <2>1, <2>2, OwnMachine
  <2>4. Matching(u)' = Matching(u)
    BY <1>1, <2>1, StillMatching
  <2>5. Sound(u)' /\ Kept(u)
    BY <1>1, <1>2, <2>1, <2>2, <2>4, Setting DEF Sound, Kept, files
  <2> QED BY <1>1, <2>1, <2>3, <2>5, DetachedWorks DEF Works
<1> QED BY <1>3, <1>4 DEF DetachStep

LEMMA OrphanWorks ==
  ASSUME LInv, TypeOK', NEW p \in Procs, NEW u, u = mem[p].sandbox, Orphan(p)
  PROVE  Works(p, u)
<1>1. /\ pc[p] = "orphan" /\ TypeOK /\ UNCHANGED <<record, files, machines>>
      /\ gone' = gone \cup {u}
  BY DEF Orphan, LInv
<1>2. u \in Sandboxes /\ Sound(u) /\ CopyAt(p) /\ mem[p].copy \in Record
  BY <1>1, Given
<1>3. Aside(u)
  BY <1>1 DEF Aside, Same, files
<1>4. Sound(u)' /\ Kept(u)
  BY <1>1, <1>2 DEF Sound, Kept, Matching, Present, files
<1>5. CASE Return(p)
  BY <1>1, <1>3, <1>4, <1>5, ReturnMoves, IdleWorking DEF Works
<1>6. CASE ~Return(p)
  <2> DEFINE next == AfterSandbox(mem[p].copy)
  <2>1. At(p, "orphan", next) /\ UNCHANGED mem
    BY <1>6 DEF Orphan
  <2>2. next \in {"listToRemove", "readLines"}
    BY DEF AfterSandbox
  <2>3. Moves(p) /\ pc'[p] = next
    BY <1>1, <2>1, <2>2, AtMoves
  <2>4. next = "listToRemove" <=> mem[p].copy.phase = "connected"
    BY DEF AfterSandbox
  <2>5. CopyAt(p)'
    BY <1>1, <1>2, <2>1, <2>2, <2>3, <2>4 DEF CopyAt, DetachPcs
  <2>6. FilesAt(p)' /\ MachinesAt(p)'
    BY <1>1, <1>2, <2>1, <2>2, <2>3, <2>4 DEF FilesAt, MachinesAt, RemovePcs
  <2> QED BY <1>3, <1>4, <2>3, <2>5, <2>6 DEF Works, Working
<1> QED BY <1>5, <1>6

LEMMA ListToRemoveWorks ==
  ASSUME LInv, TypeOK', NEW p \in Procs, NEW u, u = mem[p].sandbox, ListToRemove(p)
  PROVE  Works(p, u)
<1>1. /\ pc[p] = "listToRemove" /\ TypeOK /\ UNCHANGED <<record, files, machines, gone, mem>>
  BY DEF ListToRemove, At, LInv, world
<1>2. u \in Sandboxes /\ CopyAt(p) /\ MachinesAt(p)
  BY <1>1, Given
<1>3. PICK next \in {"remove", "readLines"} :
        At(p, "listToRemove", next) /\ (next = "readLines" => ~Present(mem[p].copy.profile))
  BY DEF ListToRemove
<1>4. Moves(p) /\ pc'[p] = next
  BY <1>1, <1>3, AtMoves
<1>5. Working(p)'
  BY <1>1, <1>2, <1>3, <1>4
     DEF Working, CopyAt, FilesAt, MachinesAt, DetachPcs, RemovePcs, Present
<1> QED BY <1>1, <1>4, <1>5, QuietWorks

LEMMA RemoveMachineWorks ==
  ASSUME LInv, TypeOK', NEW p \in Procs, NEW u, u = mem[p].sandbox, RemoveMachine(p)
  PROVE  Works(p, u)
<1> DEFINE k == record[u].profile
<1>1. /\ pc[p] = "remove" /\ TypeOK /\ UNCHANGED <<record, files, gone, mem>>
      /\ At(p, "remove", "readLines")
  BY DEF RemoveMachine, At, LInv, world
<1>2. /\ u \in Sandboxes /\ Sound(u) /\ CopyAt(p) /\ MachinesAt(p)
  BY <1>1, Given
<1>3. Set(k, "removed") /\ mem[p].copy = record[u] /\ record[u].phase = "connected" /\ u \in gone
  BY <1>1, <1>2 DEF RemoveMachine, CopyAt, MachinesAt, RemovePcs
<1>4. k \in DOMAIN machines /\ machines[k].of = u
  BY <1>2, <1>3 DEF Sound
<1>5. Aside(u)
  BY <1>1, <1>2, <1>3, <1>4, OwnMachine
<1>6. /\ DOMAIN machines' = DOMAIN machines /\ machines'[k].of = u /\ machines'[k].st = "removed"
      /\ \A n \in DOMAIN machines : n # k => machines'[n] = machines[n]
  BY <1>1, <1>3, <1>4, Setting
<1>7. Matching(u)' \subseteq Matching(u)
  BY <1>6 DEF Matching, Present
<1>8. Sound(u)' /\ Kept(u)
  BY <1>1, <1>2, <1>3, <1>4, <1>6, <1>7 DEF Sound, Kept, files
<1>9. Moves(p) /\ pc'[p] = "readLines"
  BY <1>1, AtMoves
<1>10. ~Present(k)'
  BY <1>1, <1>6 DEF Present
<1>11. Working(p)'
  BY <1>1, <1>2, <1>3, <1>6, <1>9
     DEF Working, CopyAt, FilesAt, MachinesAt, DetachPcs, RemovePcs, Present
<1> QED BY <1>5, <1>8, <1>9, <1>11 DEF Works

LEMMA LinesWorks ==
  ASSUME LInv, TypeOK', NEW p \in Procs, NEW u, u = mem[p].sandbox, ReadLines(p) \/ WriteLines(p)
  PROVE  Works(p, u)
<1> DEFINE m == mem[p]
<1>1. pc[p] \in {"readLines", "writeLines"} /\ TypeOK
  BY DEF ReadLines, WriteLines, At, LInv
<1>2. u \in Sandboxes /\ CopyAt(p) /\ MachinesAt(p) /\ m \in Memory
  BY <1>1, Given
<1>3. PICK config \in SUBSET Sandboxes : Keep(p, [m EXCEPT !.config = config])
  BY <1>1 DEF ReadLines, WriteLines, TypeOK
<1>4. /\ [m EXCEPT !.config = config] \in Memory
      /\ [m EXCEPT !.config = config].sandbox = m.sandbox
      /\ [m EXCEPT !.config = config].copy = m.copy
  BY <1>2 DEF Memory
<1>5. PICK next \in {"writeLines", "rmKnown"} : At(p, pc[p], next)
  BY DEF ReadLines, WriteLines, At
<1>6. Moves(p) /\ pc'[p] = next
  BY <1>1, <1>3, <1>4, <1>5, AtMoves
<1>7. mem'[p] = [m EXCEPT !.config = config] /\ UNCHANGED <<record, files, machines, gone>>
  BY <1>1, <1>3 DEF ReadLines, WriteLines, Keep, TypeOK, world
<1>8. Working(p)'
  BY <1>1, <1>2, <1>4, <1>6, <1>7
     DEF Working, CopyAt, FilesAt, MachinesAt, DetachPcs, RemovePcs, Present
<1> QED BY <1>1, <1>6, <1>7, <1>8, QuietWorks

\* The files of a Sandbox that is gone are removed.
LEMMA RemoveFilesWorks ==
  ASSUME LInv, TypeOK', NEW p \in Procs, NEW u, u = mem[p].sandbox,
         RemoveKnown(p) \/ RemoveEntry(p) \/ RemoveProxy(p)
  PROVE  Works(p, u)
<1>1. pc[p] \in {"rmKnown", "rmEntry", "rmProxy"} /\ TypeOK
  BY DEF RemoveKnown, RemoveEntry, RemoveProxy, At, LInv
<1>2. u \in Sandboxes /\ Sound(u) /\ CopyAt(p) /\ FilesAt(p) /\ MachinesAt(p)
  BY <1>1, Given
<1>3. PICK next \in {"rmEntry", "rmProxy", "rmRecord"} : At(p, pc[p], next) /\ UNCHANGED mem
  BY DEF RemoveKnown, RemoveEntry, RemoveProxy, At
<1>4. Moves(p) /\ pc'[p] = next
  BY <1>1, <1>3, AtMoves
<1>5. Aside(u)
  BY <1>1 DEF Aside, Same, RemoveKnown, RemoveEntry, RemoveProxy, TypeOK, world
<1>6. UNCHANGED <<record, machines, gone>> /\ u \in gone
  BY <1>1, <1>2 DEF RemoveKnown, RemoveEntry, RemoveProxy, MachinesAt, RemovePcs, world
<1>7. Working(p)'
  <2>1. CopyAt(p)'
    BY <1>1, <1>2, <1>3, <1>4, <1>6 DEF CopyAt, DetachPcs
  <2>2. FilesAt(p)'
    BY <1>1, <1>2, <1>3, <1>4, <1>6 DEF FilesAt, RemoveKnown, RemoveEntry, RemoveProxy, At, TypeOK
  <2>3. MachinesAt(p)'
    BY <1>1, <1>2, <1>3, <1>4, <1>6 DEF MachinesAt, RemovePcs, Present, Matching
  <2> QED BY <2>1, <2>2, <2>3 DEF Working
<1>8. Sound(u)' /\ Kept(u)
  BY <1>1, <1>2, <1>6 DEF CopyAt, Sound, Kept, Matching, Present,
     RemoveKnown, RemoveEntry, RemoveProxy, At, TypeOK
<1> QED BY <1>4, <1>5, <1>7, <1>8 DEF Works

LEMMA RemoveRecordWorks ==
  ASSUME LInv, TypeOK', NEW p \in Procs, NEW u, u = mem[p].sandbox, RemoveRecord(p)
  PROVE  Works(p, u)
<1>1. /\ pc[p] = "rmRecord" /\ TypeOK /\ Return(p)
      /\ record' = [record EXCEPT ![u] = NoRecord] /\ UNCHANGED <<files, machines, gone>>
  BY DEF RemoveRecord, LInv, world
<1>2. /\ u \in Sandboxes /\ Sound(u) /\ CopyAt(p) /\ FilesAt(p) /\ MachinesAt(p)
  BY <1>1, Given
<1>3. Aside(u)
  BY <1>1 DEF Aside, Same, TypeOK, files
<1>4. record'[u] = NoRecord
  BY <1>1, <1>2 DEF TypeOK
<1>5. record[u].phase = "connected" => ~Present(record[u].profile)
  BY <1>1, <1>2 DEF CopyAt, MachinesAt, RemovePcs
<1>6. Sound(u)' /\ Kept(u)
  BY <1>1, <1>2, <1>4, <1>5 DEF FilesAt, Sound, Kept, NoRecord, Matching, Present, files
<1> QED BY <1>1, <1>3, <1>6, ReturnMoves, IdleWorking DEF Works

LEMMA StepWorks ==
  ASSUME LInv, TypeOK', NEW p \in Procs, NEW u, u = mem[p].sandbox, Step(p) \/ Interrupt(p)
  PROVE  Works(p, u)
<1>1. ASSUME Interrupt(p)
      PROVE  Works(p, u)
  BY <1>1, ReturnWorks DEF Interrupt, world
<1> QED BY <1>1, AdoptWorks, ReachWorks, PrepareWorks, ConfigWorks, FilesWorks, ListSavedWorks,
           ListMatchingWorks, AddWorks, EnableWorks, SaveWorks, DetachWorks, OrphanWorks,
           ListToRemoveWorks, RemoveMachineWorks, LinesWorks, RemoveFilesWorks, RemoveRecordWorks
        DEF Step, ConnectStep, RemoveStep

-----------------------------------------------------------------------------
(* The inductive invariant *)

LEMMA StartBusy ==
  ASSUME TypeOK, Busy, NEW p \in Procs, NEW u \in Sandboxes,
         NEW next \in Pcs \ {"idle"}, At(p, "idle", next),
         NEW cmd, NEW i, Open(p, cmd, u, i)
  PROVE  /\ Busy' /\ pc[p] = "idle" /\ pc'[p] = next
         /\ mem'[p].sandbox = u /\ mem'[p].copy = record[u] /\ mem[p].sandbox = Nil
         /\ \A q \in Procs \ {p} : pc'[q] = pc[q] /\ mem'[q] = mem[q]
<1>1. /\ pc[p] = "idle" /\ pc'[p] = next /\ next # "idle"
      /\ \A q \in Procs \ {p} : pc'[q] = pc[q] /\ mem'[q] = mem[q]
  BY DEF TypeOK, At, Open, Keep
<1>2. mem'[p].sandbox = u /\ mem'[p].copy = record[u]
  BY DEF TypeOK, Open, Keep, NoMemory
<1> QED BY <1>1, <1>2, NilAssumption DEF Busy

\* A command begins where its record says, with its copy of the record.
LEMMA StartParts ==
  ASSUME TypeOK, NEW p \in Procs, NEW u \in Sandboxes,
         \/ StartDisconnect(p, u) \/ StartDelete(p, u)
         \/ \E i \in Identities \cup {Nil} : StartConnect(p, u, i)
  PROVE  /\ UNCHANGED <<record, files, machines, gone>>
         /\ \E next \in {"reach", "adopt", "listToDisable", "orphan", "listToRemove", "readLines"} :
              /\ At(p, "idle", next)
              /\ next = "adopt" => record[u].phase = "prepared"
              /\ next \in {"listToDisable", "listToRemove"} => record[u].phase = "connected"
              /\ next \in {"listToRemove", "readLines"} => u \in gone
              /\ next = "readLines" => record[u].phase # "connected"
         /\ \E cmd, i : Open(p, cmd, u, i)
<1>1. CASE StartDisconnect(p, u)
  BY <1>1 DEF StartDisconnect, world
<1>2. CASE StartDelete(p, u)
  BY <1>2 DEF StartDelete, AfterSandbox, world
<1>3. CASE \E i \in Identities \cup {Nil} : StartConnect(p, u, i)
  BY <1>3 DEF StartConnect, world
<1> QED BY <1>1, <1>2, <1>3

LEMMA StartInductive ==
  ASSUME ~Overlap, LInv, NEW p \in Procs, Start(p)
  PROVE  LInv' /\ \A u \in Sandboxes : Kept(u)
<1>1. TypeOK /\ TypeOK' /\ Busy /\ Alone
  BY StartTypes DEF LInv
<1>2. PICK u \in Sandboxes :
        \/ StartDisconnect(p, u) \/ StartDelete(p, u)
        \/ \E i \in Identities \cup {Nil} : StartConnect(p, u, i)
  BY DEF Start
<1>3. UNCHANGED <<record, files, machines, gone>>
  BY <1>1, <1>2, StartParts
<1>4. PICK next \in {"reach", "adopt", "listToDisable", "orphan", "listToRemove", "readLines"} :
        /\ At(p, "idle", next)
        /\ next = "adopt" => record[u].phase = "prepared"
        /\ next \in {"listToDisable", "listToRemove"} => record[u].phase = "connected"
        /\ next \in {"listToRemove", "readLines"} => u \in gone
        /\ next = "readLines" => record[u].phase # "connected"
  BY <1>1, <1>2, StartParts
<1>5. PICK cmd, i : Open(p, cmd, u, i)
  BY <1>1, <1>2, StartParts
<1>6. next \in Pcs \ {"idle"}
  BY DEF Pcs, ConnectPcs, DetachPcs, RemovePcs
<1>7. /\ Busy' /\ pc[p] = "idle" /\ pc'[p] = next
      /\ mem'[p].sandbox = u /\ mem'[p].copy = record[u]
      /\ \A q \in Procs \ {p} : pc'[q] = pc[q] /\ mem'[q] = mem[q]
  BY <1>1, <1>4, <1>5, <1>6, StartBusy
<1>8. \A q \in Procs : mem[q].sandbox # u
  BY <1>5 DEF Open, Free
<1>9. Alone'
  BY <1>1, <1>7, <1>8 DEF Alone
<1>10. \A v \in Sandboxes : Same(v)
  BY <1>3, Quiet
<1>11. \A v \in Sandboxes : Sound(v)' /\ Kept(v)
  BY <1>1, <1>10, SameSound DEF LInv
<1>12. Working(p)'
  BY <1>3, <1>4, <1>7 DEF Working, CopyAt, FilesAt, MachinesAt, DetachPcs, RemovePcs
<1>13. ASSUME NEW q \in Procs \ {p}
       PROVE  Working(q)'
  <2>1. CASE pc[q] = "idle"
    BY <1>7, <2>1 DEF Working
  <2>2. CASE pc[q] # "idle"
    <3>1. mem[q].sandbox \in Sandboxes
      BY <1>1, <2>2, MemoryParts DEF Busy
    <3> QED BY <1>1, <1>7, <1>10, <3>1, SameWorking DEF LInv
  <2> QED BY <2>1, <2>2
<1> QED BY <1>1, <1>7, <1>9, <1>11, <1>12, <1>13 DEF LInv

LEMMA StepInductive ==
  ASSUME LInv, NEW p \in Procs, Step(p) \/ Interrupt(p)
  PROVE  LInv' /\ \A u \in Sandboxes : Kept(u)
<1>1. PICK u : u = mem[p].sandbox
  OBVIOUS
<1>2. TypeOK /\ TypeOK' /\ Busy /\ Alone
  BY ConnectTypes, DetachTypes, RemoveTypes, WorldTypes DEF LInv, Step
<1>3. Moves(p) /\ Aside(u) /\ Working(p)' /\ Sound(u)' /\ Kept(u)
  BY <1>1, <1>2, StepWorks DEF Works
<1>4. Busy'
  BY <1>2, <1>3, StepBusy
<1>5. Alone'
  <2>1. mem'[p].sandbox \in {Nil, mem[p].sandbox}
    BY <1>2, <1>3, <1>4 DEF Moves, Busy
  <2> QED BY <1>2, <1>3, <2>1 DEF Alone, Moves
<1>6. \A v \in Sandboxes : Sound(v)' /\ Kept(v)
  BY <1>2, <1>3, SameSound DEF Aside, LInv
<1>7. ASSUME NEW q \in Procs \ {p}
      PROVE  Working(q)'
  <2>1. pc'[q] = pc[q] /\ mem'[q] = mem[q]
    BY <1>3 DEF Moves
  <2>2. CASE pc[q] = "idle"
    BY <2>1, <2>2 DEF Working
  <2>3. CASE pc[q] # "idle"
    <3>1. mem[q].sandbox \in Sandboxes /\ mem[q].sandbox # Nil
      BY <1>2, <2>3, MemoryParts, NilAssumption DEF Busy
    <3>2. mem[q].sandbox # u
      BY <1>1, <1>2, <3>1 DEF Alone
    <3> QED BY <1>2, <1>3, <2>1, <3>1, <3>2, SameWorking DEF LInv, Aside
  <2> QED BY <2>2, <2>3
<1> QED BY <1>2, <1>3, <1>4, <1>5, <1>6, <1>7 DEF LInv

\* Steps outside the processes, and steps in which nothing happens.
LEMMA WorldInductive ==
  ASSUME LInv, (\E u \in Sandboxes : ChangeHostKey(u)) \/ UNCHANGED vars
  PROVE  LInv' /\ \A u \in Sandboxes : Kept(u)
<1>1. TypeOK /\ TypeOK' /\ Busy /\ Alone
  BY WorldTypes DEF LInv, TypeOK, vars, files, world
<1>2. UNCHANGED <<record, files, machines, gone>> /\ UNCHANGED <<pc, mem>>
  BY DEF ChangeHostKey, vars, files, world
<1>3. \A v \in Sandboxes : Same(v)
  BY <1>2, Quiet
<1>4. \A v \in Sandboxes : Sound(v)' /\ Kept(v)
  BY <1>1, <1>3, SameSound DEF LInv
<1>5. Busy' /\ Alone'
  BY <1>1, <1>2 DEF Busy, Alone
<1>6. ASSUME NEW q \in Procs
      PROVE  Working(q)'
  <2>1. CASE pc[q] = "idle"
    BY <1>2, <2>1 DEF Working
  <2>2. CASE pc[q] # "idle"
    <3>1. mem[q].sandbox \in Sandboxes
      BY <1>1, <2>2, MemoryParts DEF Busy
    <3> QED BY <1>1, <1>2, <1>3, <3>1, SameWorking DEF LInv
  <2> QED BY <2>1, <2>2
<1> QED BY <1>1, <1>4, <1>5, <1>6 DEF LInv

LEMMA InitInductive ==
  ASSUME Init
  PROVE  LInv
<1>1. TypeOK
  BY MachinesAssumption DEF Init, TypeOK, NoRecord, NoMemory, Record, Memory
<1>2. Busy /\ Alone /\ \A p \in Procs : Working(p)
  BY DEF Init, Busy, Alone, Working, NoMemory
<1>3. \A u \in Sandboxes : Sound(u)
  BY DEF Init, Sound, NoRecord, Matching
<1> QED BY <1>1, <1>2, <1>3 DEF LInv

LEMMA NextInductive ==
  ASSUME ~Overlap, LInv, [Next]_vars
  PROVE  LInv' /\ \A u \in Sandboxes : Kept(u)
BY StartInductive, StepInductive, WorldInductive DEF Next

-----------------------------------------------------------------------------
(* Results *)

\* Variables keep their types whichever commands overlap: no record, file, machine or
\* memory of a process ever takes a value outside the ones named.
THEOREM ConnectionsTypeCorrect == Spec => []TypeOK
<1>1. Init => TypeOK /\ Busy
  BY InitInductive DEF LInv
<1>2. TypeOK /\ Busy /\ [Next]_vars => (TypeOK /\ Busy)'
  <2> SUFFICES ASSUME TypeOK, Busy, [Next]_vars
               PROVE  TypeOK' /\ Busy'
    OBVIOUS
  <2>1. ASSUME NEW p \in Procs, Start(p)
        PROVE  TypeOK' /\ Busy'
    <3>1. PICK u \in Sandboxes :
            \/ StartDisconnect(p, u) \/ StartDelete(p, u)
            \/ \E i \in Identities \cup {Nil} : StartConnect(p, u, i)
      BY <2>1 DEF Start
    <3>2. PICK next \in Pcs \ {"idle"} : At(p, "idle", next)
      BY <3>1, StartParts DEF Pcs, ConnectPcs, DetachPcs, RemovePcs
    <3>3. PICK cmd, i : Open(p, cmd, u, i)
      BY <3>1, StartParts
    <3> QED BY <2>1, <3>2, <3>3, StartBusy, StartTypes
  <2>2. ASSUME NEW p \in Procs, Step(p) \/ Interrupt(p)
        PROVE  TypeOK' /\ Busy'
    <3>1. TypeOK'
      BY <2>2, ConnectTypes, DetachTypes, RemoveTypes, WorldTypes DEF Step
    <3> QED BY <2>2, <3>1, StepMoves, StepBusy
  <2>3. ASSUME (\E u \in Sandboxes : ChangeHostKey(u)) \/ UNCHANGED vars
        PROVE  TypeOK' /\ Busy'
    <3>1. UNCHANGED <<pc, mem>>
      BY <2>3 DEF ChangeHostKey, vars
    <3>2. TypeOK'
      BY <2>3, WorldTypes DEF TypeOK, vars
    <3> QED BY <3>1, <3>2 DEF Busy
  <2> QED BY <2>1, <2>2, <2>3 DEF Next
<1> QED BY <1>1, <1>2, PTL DEF Spec

\* With commands on one Sandbox apart, the inductive invariant holds.
LEMMA ConnectionsInvariant ==
  ASSUME ~Overlap
  PROVE  Spec => []LInv
<1>1. LInv /\ [Next]_vars => LInv'
  BY NextInductive
<1> QED BY <1>1, InitInductive, PTL DEF Spec

\* A connected Sandbox that still exists has the files its record asks for and the
\* machine its record names, wherever commands on it stopped.
THEOREM Connected ==
  ASSUME ~Overlap
  PROVE  Spec => []ConnectedIsComplete
<1>1. LInv => ConnectedIsComplete
  BY DEF LInv, Sound, ConnectedIsComplete
<1> QED BY <1>1, ConnectionsInvariant, PTL

\* Herdr has at most one machine for a Sandbox.
THEOREM MachinesAreUnique ==
  ASSUME ~Overlap
  PROVE  Spec => []OneMachine
<1>1. LInv => OneMachine
  BY DEF LInv, Sound, OneMachine
<1> QED BY <1>1, ConnectionsInvariant, PTL

\* No file of a connection outlives its record.
THEOREM FilesHaveRecords ==
  ASSUME ~Overlap
  PROVE  Spec => []NoStrayFiles
<1>1. LInv => NoStrayFiles
  BY DEF LInv, Sound, NoStrayFiles
<1> QED BY <1>1, ConnectionsInvariant, PTL

\* A pin is never replaced, only forgotten with its record.
THEOREM PinsKept ==
  ASSUME ~Overlap
  PROVE  Spec => PinKept
<1>1. LInv /\ [Next]_vars =>
        [\A u \in Sandboxes : record[u].phase # "none" =>
           record'[u].phase = "none" \/ record'[u].pin = record[u].pin]_vars
  BY NextInductive DEF Kept
<1> QED BY <1>1, ConnectionsInvariant, PTL DEF Spec, PinKept

\* A connected record never changes until it is removed.
THEOREM ConnectionsKept ==
  ASSUME ~Overlap
  PROVE  Spec => ConnectedKept
<1>1. LInv /\ [Next]_vars =>
        [\A u \in Sandboxes : record[u].phase = "connected" =>
           record'[u] \in {record[u], NoRecord}]_vars
  BY NextInductive DEF Kept
<1> QED BY <1>1, ConnectionsInvariant, PTL DEF Spec, ConnectedKept

\* The record of a connected Sandbox goes only after the machine it names.
THEOREM MachinesGoFirst ==
  ASSUME ~Overlap
  PROVE  Spec => MachineGoesFirst
<1>1. LInv /\ [Next]_vars =>
        [\A u \in Sandboxes : record[u].phase = "connected" /\ record'[u].phase = "none" =>
           ~Present(record[u].profile)]_vars
  BY NextInductive DEF Kept
<1> QED BY <1>1, ConnectionsInvariant, PTL DEF Spec, MachineGoesFirst

-----------------------------------------------------------------------------
(* The user's SSH configuration, when commands run one after another *)

Serial == \A p, q \in Procs : p = q

\* Calls that leave the SSH configuration and the connection record alone.
LEMMA IncludeQuiet ==
  ASSUME IncludeInv, Serial, NEW p \in Procs, UNCHANGED <<record, include>>,
         gone \subseteq gone', IncludeAt(p)'
  PROVE  IncludeFollowsRecord' /\ \A q \in Procs : IncludeAt(q)'
<1>1. \A q \in Procs : q = p
  BY DEF Serial
<1> QED BY <1>1 DEF IncludeInv, IncludeFollowsRecord

LEMMA IncludeIdle ==
  ASSUME NEW p \in Procs, pc'[p] = "idle"
  PROVE  IncludeAt(p)'
BY DEF IncludeAt

LEMMA IncludeConnect ==
  ASSUME IncludeInv, TypeOK', Serial, NEW p \in Procs, NEW u, u = mem[p].sandbox, ConnectStep(p)
  PROVE  IncludeFollowsRecord' /\ \A q \in Procs : IncludeAt(q)'
<1>1. /\ TypeOK /\ LInv /\ IncludeAt(p) /\ IncludeFollowsRecord /\ \A q \in Procs : q = p
      /\ Works(p, u) /\ pc[p] # "idle" /\ UNCHANGED gone
  <2>1. Works(p, u)
    BY StepWorks DEF IncludeInv, Step
  <2>2. pc[p] # "idle" /\ UNCHANGED gone
    BY DEF ConnectStep, Adopt, Reach, Prepare, ReadConfig, WriteInclude, WriteKnown,
     WriteEntry, WriteProxy, ListSaved, ListMatching, AddMachine, EnableMachine, SaveConnected, At, world
  <2> QED BY <2>1, <2>2 DEF IncludeInv, LInv, Serial
<1>2. u \in Sandboxes /\ CopyAt(p) /\ MachinesAt(p) /\ mem[p] \in Memory /\ mem[p].copy \in Record
  BY <1>1, Given
<1>3. mem'[p].sandbox = u \/ pc'[p] = "idle"
  BY <1>1 DEF Works, Moves
<1>4. CASE UNCHANGED <<record, include>> /\ pc'[p] = "idle"
  BY <1>1, <1>4, IncludeIdle, IncludeQuiet
<1>5. CASE Adopt(p) \/ Prepare(p)
  <2>1. /\ record'[u].phase = "prepared" /\ \A v \in Sandboxes \ {u} : record'[v] = record[v]
        /\ UNCHANGED include
    BY <1>1, <1>2, <1>5 DEF Adopt, Prepare, CopyAt, At, TypeOK, Record
  <2>2. pc'[p] \in {"reach", "readConfig"}
    BY <1>1, <1>5 DEF Adopt, Prepare, At, TypeOK
  <2>3. IncludeAt(p)'
    BY <2>2 DEF IncludeAt
  <2>4. IncludeFollowsRecord'
    BY <1>1, <2>1 DEF IncludeFollowsRecord
  <2> QED BY <1>1, <2>3, <2>4
<1>6. CASE Reach(p)
  <2>1. pc'[p] \in {"prepare", "readConfig"} /\ UNCHANGED <<record, include>>
    BY <1>1, <1>6 DEF Reach, At, TypeOK
  <2>2. IncludeAt(p)'
    BY <2>1 DEF IncludeAt
  <2> QED BY <1>1, <2>1, <2>2, IncludeQuiet
<1>7. CASE ReadConfig(p)
  <2>1. /\ pc'[p] = IF u \in include THEN "known" ELSE "include"
        /\ mem'[p] = [mem[p] EXCEPT !.config = IF u \in include THEN {} ELSE include]
        /\ UNCHANGED <<record, include>>
    BY <1>1, <1>7 DEF ReadConfig, At, Keep, TypeOK
  <2>2. mem'[p].sandbox = u /\ (u \notin include => mem'[p].config = include)
    BY <1>2, <2>1 DEF Memory
  <2>3. IncludeAt(p)'
    BY <2>1, <2>2 DEF IncludeAt
  <2> QED BY <1>1, <2>1, <2>3, IncludeQuiet
<1>8. CASE WriteInclude(p)
  <2>1. /\ pc[p] = "include" /\ pc'[p] = "known" /\ UNCHANGED record
        /\ include' = mem[p].config \cup {u}
    BY <1>1, <1>8 DEF WriteInclude, At, TypeOK
  <2>2. include' = include \cup {u} /\ record[u].phase # "none"
    BY <1>1, <1>2, <2>1 DEF IncludeAt, CopyAt
  <2>3. IncludeAt(p)'
    BY <1>3, <2>1, <2>2 DEF IncludeAt
  <2>4. IncludeFollowsRecord'
    BY <1>1, <1>2, <2>1, <2>2 DEF IncludeFollowsRecord
  <2> QED BY <1>1, <2>3, <2>4
<1>9. CASE SaveConnected(p)
  <2>1. /\ pc[p] = "save" /\ pc'[p] = "idle" /\ UNCHANGED include
        /\ record'[u].phase = "connected" /\ \A v \in Sandboxes \ {u} : record'[v] = record[v]
    BY <1>1, <1>2, <1>9 DEF SaveConnected, Return, TypeOK, Record
  <2>2. u \in include
    BY <1>1, <2>1 DEF IncludeAt
  <2>3. IncludeFollowsRecord'
    BY <1>1, <1>2, <2>1, <2>2 DEF IncludeFollowsRecord
  <2> QED BY <1>1, <2>1, <2>3, IncludeIdle
<1>10. CASE \/ WriteKnown(p) \/ WriteEntry(p) \/ WriteProxy(p)
            \/ ListSaved(p) \/ ListMatching(p) \/ AddMachine(p) \/ EnableMachine(p)
  <2>1. /\ pc[p] \in {"known", "entry", "proxy", "list", "add", "relist", "enable"}
        /\ UNCHANGED <<record, include>>
    BY <1>10 DEF WriteKnown, WriteEntry, WriteProxy, ListSaved, ListMatching, AddMachine,
       EnableMachine, At
  <2>2. pc'[p] \in {"idle", "entry", "proxy", "list", "add", "relist", "enable", "save"}
    BY <1>1, <1>10 DEF WriteKnown, WriteEntry, WriteProxy, ListSaved, ListMatching, AddMachine,
       EnableMachine, At, Return, TypeOK
  <2>3. u \in include
    BY <1>1, <2>1 DEF IncludeAt
  <2>4. IncludeAt(p)'
    BY <1>3, <2>1, <2>2, <2>3 DEF IncludeAt
  <2> QED BY <1>1, <2>1, <2>4, IncludeQuiet
<1> QED BY <1>5, <1>6, <1>7, <1>8, <1>9, <1>10 DEF ConnectStep

LEMMA IncludeRemove ==
  ASSUME IncludeInv, TypeOK', Serial, NEW p \in Procs, NEW u, u = mem[p].sandbox,
         DetachStep(p) \/ RemoveStep(p) \/ Interrupt(p)
  PROVE  IncludeFollowsRecord' /\ \A q \in Procs : IncludeAt(q)'
<1>1. /\ TypeOK /\ LInv /\ IncludeAt(p) /\ IncludeFollowsRecord /\ \A q \in Procs : q = p
      /\ Works(p, u) /\ pc[p] # "idle"
  <2>1. Works(p, u)
    BY StepWorks DEF IncludeInv, Step
  <2>2. pc[p] # "idle"
    BY DEF DetachStep, ListToDisable, DisableMachine, RemoveStep, Orphan, ListToRemove,
     RemoveMachine, ReadLines, WriteLines, RemoveKnown, RemoveEntry, RemoveProxy, RemoveRecord,
     Interrupt, At
  <2> QED BY <2>1, <2>2 DEF IncludeInv, LInv, Serial
<1>2. u \in Sandboxes /\ CopyAt(p) /\ MachinesAt(p) /\ mem[p] \in Memory /\ mem[p].copy \in Record
  BY <1>1, Given
<1>3. mem'[p].sandbox = u \/ pc'[p] = "idle"
  BY <1>1 DEF Works, Moves
<1>4. CASE DetachStep(p) \/ Orphan(p) \/ ListToRemove(p) \/ RemoveMachine(p) \/ Interrupt(p)
  <2>1. UNCHANGED <<record, include>> /\ gone \subseteq gone'
    BY <1>4 DEF DetachStep, ListToDisable, DisableMachine, Orphan, ListToRemove, RemoveMachine,
       Interrupt, world
  <2>2. pc'[p] \in {"idle", "disable", "orphan", "listToRemove", "remove", "readLines"}
    BY <1>1, <1>4 DEF DetachStep, ListToDisable, DisableMachine, Detached, Orphan, AfterSandbox,
       ListToRemove, RemoveMachine, Interrupt, At, Return, TypeOK
  <2>3. IncludeAt(p)'
    BY <2>2 DEF IncludeAt
  <2> QED BY <1>1, <2>1, <2>3, IncludeQuiet
<1>5. CASE ReadLines(p)
  <2>1. /\ pc'[p] = IF u \in include THEN "writeLines" ELSE "rmKnown"
        /\ mem'[p] = [mem[p] EXCEPT !.config = IF u \in include THEN include \ {u} ELSE {}]
        /\ UNCHANGED <<record, include, gone>>
    BY <1>1, <1>5 DEF ReadLines, At, Keep, TypeOK, world
  <2>2. mem'[p].sandbox = u /\ (u \in include => mem'[p].config = include \ {u})
    BY <1>2, <2>1 DEF Memory
  <2>3. IncludeAt(p)'
    BY <2>1, <2>2 DEF IncludeAt
  <2> QED BY <1>1, <2>1, <2>3, IncludeQuiet
<1>6. CASE WriteLines(p)
  <2>1. /\ pc[p] = "writeLines" /\ pc'[p] = "rmKnown" /\ UNCHANGED <<record, gone>>
        /\ include' = mem[p].config
    BY <1>1, <1>6 DEF WriteLines, At, TypeOK, world
  <2>2. include' = include \ {u} /\ u \in gone
    BY <1>1, <1>2, <2>1 DEF IncludeAt, MachinesAt, RemovePcs
  <2>3. IncludeAt(p)'
    BY <1>3, <2>1, <2>2 DEF IncludeAt
  <2>4. IncludeFollowsRecord'
    BY <1>1, <2>1, <2>2 DEF IncludeFollowsRecord
  <2> QED BY <1>1, <2>3, <2>4
<1>7. CASE RemoveKnown(p) \/ RemoveEntry(p) \/ RemoveProxy(p)
  <2>1. /\ pc[p] \in {"rmKnown", "rmEntry", "rmProxy"} /\ UNCHANGED <<record, include, gone>>
        /\ pc'[p] \in {"rmEntry", "rmProxy", "rmRecord"}
    BY <1>1, <1>7 DEF RemoveKnown, RemoveEntry, RemoveProxy, At, TypeOK, world
  <2>2. IncludeAt(p)'
    BY <1>1, <1>3, <2>1 DEF IncludeAt
  <2> QED BY <1>1, <2>1, <2>2, IncludeQuiet
<1>8. CASE RemoveRecord(p)
  <2>1. /\ pc[p] = "rmRecord" /\ pc'[p] = "idle" /\ UNCHANGED <<include, gone>>
        /\ record'[u].phase = "none" /\ \A v \in Sandboxes \ {u} : record'[v] = record[v]
    BY <1>1, <1>2, <1>8 DEF RemoveRecord, Return, NoRecord, TypeOK, world
  <2>2. u \notin include
    BY <1>1, <2>1 DEF IncludeAt
  <2>3. IncludeFollowsRecord'
    BY <1>1, <1>2, <2>1, <2>2 DEF IncludeFollowsRecord
  <2> QED BY <1>1, <2>1, <2>3, IncludeIdle
<1> QED BY <1>4, <1>5, <1>6, <1>7, <1>8 DEF RemoveStep

LEMMA IncludeStart ==
  ASSUME IncludeInv, Serial, NEW p \in Procs, Start(p)
  PROVE  IncludeFollowsRecord' /\ \A q \in Procs : IncludeAt(q)'
<1>1. TypeOK
  BY DEF IncludeInv, LInv
<1>2. PICK u \in Sandboxes :
        \/ StartDisconnect(p, u) \/ StartDelete(p, u)
        \/ \E i \in Identities \cup {Nil} : StartConnect(p, u, i)
  BY DEF Start
<1>3. UNCHANGED <<record, gone>>
  BY <1>1, <1>2, StartParts
<1>4. UNCHANGED include
  BY <1>2 DEF StartDisconnect, StartDelete, StartConnect
<1>5. PICK next \in {"reach", "adopt", "listToDisable", "orphan", "listToRemove", "readLines"} :
        At(p, "idle", next)
  BY <1>1, <1>2, StartParts
<1>6. pc'[p] = next
  BY <1>1, <1>5 DEF At, TypeOK
<1>7. IncludeAt(p)'
  BY <1>6 DEF IncludeAt
<1> QED BY <1>3, <1>4, <1>7, IncludeQuiet

\* What a command that runs alone finds of the SSH configuration at each of its calls stays
\* true from there to its next write (installInclude, removeIncludeLines).
THEOREM IncludeInductive ==
  ASSUME ~Overlap, Serial
  PROVE  Spec => []IncludeInv
<1>1. Init => IncludeInv
  BY InitInductive DEF IncludeInv, Init, IncludeFollowsRecord, IncludeAt, NoRecord
<1>2. IncludeInv /\ [Next]_vars => IncludeInv'
  <2> SUFFICES ASSUME IncludeInv, [Next]_vars
               PROVE  IncludeInv'
    OBVIOUS
  <2>1. LInv' /\ TypeOK'
    BY NextInductive DEF IncludeInv, LInv
  <2>2. ASSUME NEW p \in Procs, Start(p)
        PROVE  IncludeInv'
    BY <2>1, <2>2, IncludeStart DEF IncludeInv
  <2>3. ASSUME NEW p \in Procs, Step(p) \/ Interrupt(p)
        PROVE  IncludeInv'
    BY <2>1, <2>3, IncludeConnect, IncludeRemove DEF IncludeInv, Step
  <2>4. ASSUME (\E u \in Sandboxes : ChangeHostKey(u)) \/ UNCHANGED vars
        PROVE  IncludeInv'
    <3>1. UNCHANGED <<record, include, gone, pc, mem>>
      BY <2>4 DEF ChangeHostKey, vars, world
    <3> QED BY <2>1, <3>1 DEF IncludeInv, IncludeFollowsRecord, IncludeAt
  <2> QED BY <2>2, <2>3, <2>4 DEF Next
<1> QED BY <1>1, <1>2, PTL DEF Spec

\* With commands run one after another, wherever each stopped, the SSH configuration
\* includes every connected Sandbox that exists, and none without a record.
THEOREM IncludesFollow ==
  ASSUME ~Overlap, Serial
  PROVE  Spec => []IncludeFollowsRecord
<1>1. IncludeInv => IncludeFollowsRecord
  BY DEF IncludeInv
<1> QED BY <1>1, IncludeInductive, PTL
=============================================================================
