--------------------------- MODULE SandboxStatus ---------------------------
(***************************************************************************)
(* sandbox list: one more process, which changes nothing and reads it all, *)
(* one call after the other, while the commands of Workspace and the       *)
(* controllers go on.  Its answers are put together from what was true at  *)
(* different moments; this module says what they can be trusted for.       *)
(***************************************************************************)
EXTENDS Workspace

VARIABLES
  step,    \* the next call of the listing, "start" between listings
  todo,    \* files of the listed directory, or Sandboxes, still to be read
  got,     \* what has been read
  report,  \* the answers of the last listing, by claim UID, until the next one begins
  up,      \* allocations that were attached at some moment of this listing
  calm     \* since this listing began no command has made a step and no claim has gone

reading == <<step, todo, got, report>>
history == <<up, calm>>
allVars == <<vars, reading, history>>

AnswerSet == {"claim missing", "stopped", "waiting", "unbound", "unregistered", "incomplete",
            "machine missing", "ready", "detached"}

Reading == [managed : [Uid -> Managed], claims : [Uid -> {"none", "waiting", "ready"}],
            conns : [Uid -> Links], machines : [Uid -> {"absent", "enabled", "disabled"}],
            suspended : SUBSET Uid]

NoReport == [i \in Uid |-> "none"]
NothingRead == [managed |-> [i \in Uid |-> NoManaged], claims |-> [i \in Uid |-> "none"],
                conns |-> [u \in Uid |-> "none"], machines |-> [u \in Uid |-> "absent"],
                suspended |-> {}]

StatusTypeOK ==
  /\ TypeOK
  /\ step \in {"start", "records", "readRecords", "claims", "connections", "readConnections",
             "machines", "modes"}
  /\ todo \subseteq Uid /\ got \in Reading
  /\ report \in [Uid -> AnswerSet \cup {"none"}]
  /\ up \subseteq Uid /\ calm \in BOOLEAN

StatusInit ==
  /\ Init
  /\ step = "start" /\ todo = {} /\ got = NothingRead
  /\ report = NoReport
  /\ up = {} /\ calm = FALSE

ListedSandboxes == {got.managed[i].sandbox : i \in {j \in Uid : got.managed[j].phase = "bound"}}

\* What the API server says of the claim of each UID, which is what was last reported of it.
ClaimsNow == [i \in Uid |-> CASE claim # i -> "none"
                              [] claim = i /\ claimReady -> "ready"
                              [] claim = i /\ ~claimReady -> "waiting"]

-----------------------------------------------------------------------------
(* Faults, as in Workspace. *)

\* MissingIsReal: the claims are listed before the records.
AfterClaimsFirst(call) ==
  CASE call = "start" -> "claims"
    [] call = "claims" -> "records"
    [] call = "records" -> "connections"
    [] call = "connections" -> "machines"

\* ReadyWasAttached: a connection that is only prepared is taken for a connected one.
AnswerOfAnyPhase(g, i) ==
  LET m == g.managed[i]
      u == m.sandbox IN
  CASE g.claims[i] = "none" -> "claim missing"
    [] g.claims[i] = "waiting" -> "waiting"
    [] g.claims[i] = "ready" -> IF m.phase = "bound" /\ g.conns[u] # "none" THEN "ready" ELSE "unbound"

\* StoppedCanResume: a suspended Sandbox is reported before its claim is looked for.
AnswerStoppedFirst(g, i) ==
  LET u == g.managed[i].sandbox IN
  CASE u \in g.suspended -> "stopped"
    [] u \notin g.suspended /\ g.claims[i] = "none" -> "claim missing"
    [] u \notin g.suspended /\ g.claims[i] # "none" -> "waiting"

-----------------------------------------------------------------------------
\* The order of the calls.
After(call) ==
  CASE call = "start" -> "records"
    [] call = "records" -> "claims"
    [] call = "claims" -> "connections"
    [] call = "connections" -> "machines"

\* The answer for one record: the first thing that is not as it should be.
Answer(g, i) ==
  LET m == g.managed[i]
      u == m.sandbox
      stopped == m.phase = "bound" /\ u \in g.suspended IN
  CASE g.claims[i] = "none" -> "claim missing"
    [] g.claims[i] # "none" /\ stopped -> "stopped"
    [] g.claims[i] = "waiting" /\ ~stopped -> "waiting"
    [] g.claims[i] = "ready" /\ m.phase = "claimed" -> "unbound"
    [] g.claims[i] = "ready" /\ m.phase = "bound" /\ ~stopped ->
         CASE g.conns[u] = "none" -> "unregistered"
           [] g.conns[u] = "prepared" -> "incomplete"
           [] g.conns[u] = "connected" ->
                CASE g.machines[u] = "absent" -> "machine missing"
                  [] g.machines[u] = "enabled" -> "ready"
                  [] g.machines[u] = "disabled" -> "detached"

Answers(g) == [i \in Uid |-> IF g.managed[i].phase = "none" THEN "none" ELSE Answer(g, i)]

GiveAnswers(g) ==
  /\ step' = "start" /\ got' = NothingRead
  /\ report' = Answers(g)

-----------------------------------------------------------------------------
\* ListSettles: only the claims that are ready are listed.
ReadClaimsReady ==
  /\ step = "claims" /\ step' = After("claims")
  /\ got' = [got EXCEPT !.claims = [i \in Uid |-> IF ClaimsNow[i] = "ready" THEN "ready" ELSE "none"]]
  /\ UNCHANGED <<todo, report>>

\* StatusTypeOK: a connection is put down under a phase of the managed records.
ReadConnectionAsBound(u) ==
  /\ step = "readConnections" /\ u \in todo
  /\ conn[u] # "none"
  /\ todo' = todo \ {u}
  /\ step' = IF todo' = {} THEN After("connections") ELSE step
  /\ got' = [got EXCEPT !.conns[u] = "bound"]
  /\ UNCHANGED report

-----------------------------------------------------------------------------
StartListing ==
  /\ step = "start" /\ step' = After("start")
  /\ report' = NoReport
  /\ UNCHANGED <<todo, got>>

ListRecords ==
  /\ step = "records"
  /\ todo' = Saved
  /\ step' = IF todo' = {} THEN After("records") ELSE "readRecords"
  /\ UNCHANGED <<got, report>>

ReadRecord(i) ==
  /\ step = "readRecords" /\ i \in todo
  /\ managed[i].phase # "none"
  /\ todo' = todo \ {i}
  /\ step' = IF todo' = {} THEN After("records") ELSE step
  /\ got' = [got EXCEPT !.managed[i] = managed[i]]
  /\ UNCHANGED report

ReadClaims ==
  /\ step = "claims" /\ step' = After("claims")
  /\ got' = [got EXCEPT !.claims = ClaimsNow]
  /\ UNCHANGED <<todo, report>>

ListConnections ==
  /\ step = "connections"
  /\ todo' = {u \in Uid : conn[u] # "none"}
  /\ step' = IF todo' = {} THEN After("connections") ELSE "readConnections"
  /\ UNCHANGED <<got, report>>

ReadConnection(u) ==
  /\ step = "readConnections" /\ u \in todo
  /\ conn[u] # "none"
  /\ todo' = todo \ {u}
  /\ step' = IF todo' = {} THEN After("connections") ELSE step
  /\ got' = [got EXCEPT !.conns[u] = conn[u]]
  /\ UNCHANGED report

\* Herdr is asked only when some connection was read as connected.
ReadMachines ==
  /\ step = "machines"
  /\ todo' = ListedSandboxes
  /\ LET g == IF \E u \in Uid : got.conns[u] = "connected" THEN [got EXCEPT !.machines = machine]
              ELSE got IN
     IF todo' = {} THEN GiveAnswers(g) ELSE step' = "modes" /\ got' = g /\ UNCHANGED report

AskMode(u) ==
  /\ step = "modes" /\ u \in todo
  /\ todo' = todo \ {u}
  /\ LET g == IF Present(u) /\ sandbox[u].mode = "Suspended"
              THEN [got EXCEPT !.suspended = @ \cup {u}] ELSE got IN
     IF todo' = {} THEN GiveAnswers(g) ELSE step' = "modes" /\ got' = g /\ UNCHANGED report

\* A request fails, or a file is gone by the time it is read.
ListFails ==
  /\ step # "start" /\ step' = "start"
  /\ todo' = {} /\ got' = NothingRead
  /\ UNCHANGED report

ListStep ==
  \/ StartListing \/ ListRecords \/ ReadClaims \/ ListConnections \/ ReadMachines
  \/ \E i \in Uid : ReadRecord(i) \/ ReadConnection(i) \/ AskMode(i)

-----------------------------------------------------------------------------
(* The listing next to everything else. *)

Attached(i) ==
  LET u == managed[i].sandbox IN
  /\ managed[i].phase = "bound" /\ sandbox[u].st = "live"
  /\ conn[u] = "connected" /\ machine[u] = "enabled"

AttachedNow == {i \in Uid : Attached(i)}

Meanwhile(A) ==
  /\ A
  /\ up' = up \cup AttachedNow'
  /\ calm' = (calm /\ UNCHANGED <<claim, pc, mem>>)
  /\ UNCHANGED reading

Lister ==
  /\ ListStep \/ ListFails
  /\ IF step = "start" THEN up' = AttachedNow /\ calm' = (\A p \in Procs : pc[p] = "idle")
     ELSE UNCHANGED history
  /\ UNCHANGED vars

StatusSpec == StatusInit /\ [][Meanwhile(Next) \/ Lister]_allVars

-----------------------------------------------------------------------------
\* "saved SandboxClaim is missing" is never said of a claim that exists, not even of one
\* that a create makes and records during the listing: the records are read before the
\* claims are listed, and a claim exists before its record does.
MissingIsReal == \A i \in Uid : report[i] = "claim missing" => claim # i

\* "ready" is put together from five reads at five moments.  Still, whatever connect, stop,
\* resume and delete do meanwhile, there was a moment of the listing at which the record was
\* bound, its Sandbox not being deleted, and Herdr attached to it, all at once.  (The claim
\* said Ready at a moment of its own, and may have said so of an earlier mode.)
ReadyWasAttached == step = "start" => \A i \in Uid : report[i] = "ready" => i \in up

\* "sandbox is stopped; run kubeflock sandbox resume": as long as no command has made a
\* step and no claim has gone since, whatever state interrupted commands left, resume
\* gets past every check it makes before it changes the mode.
StoppedCanResume ==
  step = "start" => \A i \in Uid : report[i] = "stopped" /\ calm =>
    LET u == managed[i].sandbox IN
    /\ Saved = {i} /\ managed[i].phase = "bound" /\ claim = i /\ Present(u)
    /\ LinksNamed(sandbox[u].name) \subseteq {u} /\ OwnedHome(managed[i].home, u)

-----------------------------------------------------------------------------
(* Progress: a listing that can go on does, and requests fail only for a while. *)

FileGone ==
  \/ step = "readRecords" /\ \E i \in todo : managed[i].phase = "none"
  \/ step = "readConnections" /\ \E u \in todo : conn[u] = "none"

GoesOn == ListStep \/ (ListFails /\ FileGone)

ListingGoesOn ==
  /\ WF_allVars(Lister /\ GoesOn)
  /\ <>[][Lister => GoesOn]_allVars
  /\ <>[][\A u \in Uid : ~PodFails(u)]_allVars

FairStatusSpec == StatusSpec /\ ListingGoesOn /\ WF_allVars(Meanwhile(Controllers))

Now == [managed |-> managed, claims |-> ClaimsNow, conns |-> conn, machines |-> machine,
        suspended |-> {u \in Uid : Present(u) /\ sandbox[u].mode = "Suspended"}]

\* A listing that meets a record another command is just removing fails.  That passes:
\* once the commands come to rest, the repeated listing answers, and answers what is so.
ListSettles ==
  <>[](\A p \in Procs : pc[p] = "idle") =>
    []<>(step = "start" /\ report = Answers(Now))
=============================================================================
