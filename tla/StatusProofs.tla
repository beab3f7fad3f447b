---------------------------- MODULE StatusProofs ----------------------------
(***************************************************************************)
(* What the answers of sandbox list can be trusted for, for any number of  *)
(* claims, wherever the commands are and were interrupted.  The listing    *)
(* changes nothing, so whatever is proved of Workspace holds beside it.    *)
(***************************************************************************)
EXTENDS StatusInductive, SerialProofs

StatusNext == Meanwhile(Next) \/ Lister

\* The listing takes turns with the system and leaves it alone.
LEMMA Beside ==
  ASSUME [StatusNext]_allVars
  PROVE  /\ [Next]_vars
         /\ Meanwhile(Next) \/ Lister \/ UNCHANGED allVars
         /\ Lister => UNCHANGED vars
  BY DEF StatusNext, Meanwhile, Lister, allVars, vars

LEMMA BesideSpec == StatusSpec => Spec
<1>1. StatusInit => Init
  BY DEF StatusInit
<1>2. [StatusNext]_allVars => [Next]_vars
  BY Beside
<1> QED
  BY <1>1, <1>2, PTL DEF StatusSpec, Spec, StatusNext

\* The steps of the listing.
LEMMA ListSteps ==
  ASSUME Lister
  PROVE  \/ StartListing \/ ListRecords \/ ReadClaims \/ ListConnections \/ ReadMachines \/ ListFails
         \/ \E i \in Uid : ReadRecord(i) \/ ReadConnection(i) \/ AskMode(i)
  BY DEF Lister, ListStep

-----------------------------------------------------------------------------
(* What is read, and what is made of it. *)

LEMMA NothingReadIsReading == NothingRead \in Reading
  BY UidFacts DEF NothingRead, Reading, NoManaged, Managed, Phases, Links, Uid0

\* Whatever is read is put down where it belongs.
LEMMA ReadingEdits ==
  ASSUME NEW g \in Reading
  PROVE  /\ \A i \in Uid, m \in Managed : [g EXCEPT !.managed[i] = m] \in Reading
         /\ \A c \in [Uid -> {"none", "waiting", "ready"}] : [g EXCEPT !.claims = c] \in Reading
         /\ \A u \in Uid, l \in Links : [g EXCEPT !.conns[u] = l] \in Reading
         /\ \A m \in [Uid -> {"absent", "enabled", "disabled"}] : [g EXCEPT !.machines = m] \in Reading
         /\ \A u \in Uid : [g EXCEPT !.suspended = @ \cup {u}] \in Reading
  BY DEF Reading

\* Each answer says what was read for it.
LEMMA AnswerMeans ==
  ASSUME NEW g \in Reading, NEW i \in Uid,
         g.managed[i].phase = "bound" => g.managed[i].sandbox # 0
  PROVE  /\ Answers(g)[i] \in AnswerSet \cup {"none"}
         /\ Answers(g)[i] = "claim missing" =>
              g.managed[i].phase # "none" /\ g.claims[i] = "none"
         /\ Answers(g)[i] = "stopped" =>
              g.managed[i].phase = "bound" /\ g.claims[i] # "none"
         /\ Answers(g)[i] = "ready" =>
              /\ g.managed[i].phase = "bound" /\ g.claims[i] = "ready"
              /\ g.conns[g.managed[i].sandbox] = "connected"
              /\ g.machines[g.managed[i].sandbox] = "enabled"
<1> DEFINE m == g.managed[i]
           u == m.sandbox
           stopped == m.phase = "bound" /\ u \in g.suspended
<1>1. /\ g.claims[i] \in {"none", "waiting", "ready"} /\ m.phase \in Phases
      /\ m.phase = "bound" => u \in Uid
  BY UidFacts DEF Reading, Managed
<1>2. m.phase = "bound" =>
        /\ g.conns[u] \in Links /\ g.machines[u] \in {"absent", "enabled", "disabled"}
  BY <1>1 DEF Reading
<1>3. Answers(g)[i] = IF m.phase = "none" THEN "none" ELSE Answer(g, i)
  BY DEF Answers
<1>4. CASE m.phase = "none"
  BY <1>3, <1>4 DEF AnswerSet
<1>5. CASE m.phase # "none" /\ g.claims[i] = "none"
  <2>1. Answer(g, i) = "claim missing"
    BY <1>5 DEF Answer
  <2> QED
    BY <1>3, <1>5, <2>1 DEF AnswerSet
<1>6. CASE m.phase # "none" /\ g.claims[i] # "none" /\ stopped
  <2>1. Answer(g, i) = "stopped"
    BY <1>6 DEF Answer
  <2> QED
    BY <1>3, <1>6, <2>1 DEF AnswerSet
<1>7. CASE m.phase # "none" /\ g.claims[i] = "waiting" /\ ~stopped
  <2>1. Answer(g, i) = "waiting"
    BY <1>7 DEF Answer
  <2> QED
    BY <1>3, <1>7, <2>1 DEF AnswerSet
<1>8. CASE m.phase = "claimed" /\ g.claims[i] = "ready"
  <2>1. Answer(g, i) = "unbound"
    BY <1>8 DEF Answer
  <2> QED
    BY <1>3, <1>8, <2>1 DEF AnswerSet
<1>9. CASE m.phase = "bound" /\ g.claims[i] = "ready" /\ ~stopped
  <2>1. Answer(g, i) = CASE g.conns[u] = "none" -> "unregistered"
           [] g.conns[u] = "prepared" -> "incomplete"
           [] g.conns[u] = "connected" ->
                CASE g.machines[u] = "absent" -> "machine missing"
                  [] g.machines[u] = "enabled" -> "ready"
                  [] g.machines[u] = "disabled" -> "detached"
    BY <1>9 DEF Answer
  <2>2. CASE g.conns[u] # "connected"
    <3>1. Answer(g, i) \in {"unregistered", "incomplete"}
      BY <1>2, <1>9, <2>1, <2>2 DEF Links
    <3> QED
      BY <1>3, <1>9, <3>1 DEF AnswerSet
  <2>3. CASE g.conns[u] = "connected"
    <3>1. /\ Answer(g, i) \in {"machine missing", "ready", "detached"}
          /\ Answer(g, i) = "ready" => g.machines[u] = "enabled"
      BY <1>2, <1>9, <2>1, <2>3
    <3> QED
      BY <1>3, <1>9, <2>3, <3>1 DEF AnswerSet
  <2> QED
    BY <2>2, <2>3
<1> QED
  BY <1>1, <1>4, <1>5, <1>6, <1>7, <1>8, <1>9 DEF Phases

\* The last read of a listing, of the machines or of a mode, completes it.
LEMMA AnswersGiven ==
  ASSUME StatusTypeOK, ReadMachines \/ \E v \in Uid : AskMode(v)
  PROVE  \E g \in Reading :
           /\ g.managed = got.managed /\ g.claims = got.claims /\ g.conns = got.conns
           /\ \/ g.machines = got.machines
              \/ step = "machines" /\ g.machines = machine
           /\ \/ GiveAnswers(g)
              \/ step' = "modes" /\ got' = g /\ UNCHANGED report
<1> got \in Reading /\ machine \in [Uid -> {"absent", "enabled", "disabled"}]
  BY DEF StatusTypeOK, TypeOK
<1>1. CASE ReadMachines
  <2> DEFINE g == IF \E u \in Uid : got.conns[u] = "connected" THEN [got EXCEPT !.machines = machine]
                  ELSE got
  <2>1. g \in Reading /\ g.managed = got.managed /\ g.claims = got.claims /\ g.conns = got.conns
        /\ g.machines \in {got.machines, machine}
    BY DEF Reading
  <2>2. step = "machines" /\ (GiveAnswers(g) \/ (step' = "modes" /\ got' = g /\ UNCHANGED report))
    BY <1>1 DEF ReadMachines
  <2> HIDE DEF g
  <2> QED
    BY <2>1, <2>2
<1>2. ASSUME NEW v \in Uid, AskMode(v)
      PROVE  \E g \in Reading :
           /\ g.managed = got.managed /\ g.claims = got.claims /\ g.conns = got.conns
           /\ g.machines = got.machines
           /\ \/ GiveAnswers(g)
              \/ step' = "modes" /\ got' = g /\ UNCHANGED report
  <2> DEFINE g == IF Present(v) /\ sandbox[v].mode = "Suspended"
                  THEN [got EXCEPT !.suspended = @ \cup {v}] ELSE got
  <2>1. g \in Reading /\ g.managed = got.managed /\ g.claims = got.claims /\ g.conns = got.conns
        /\ g.machines = got.machines
    BY DEF Reading
  <2>2. GiveAnswers(g) \/ (step' = "modes" /\ got' = g /\ UNCHANGED report)
    BY <1>2 DEF AskMode
  <2> HIDE DEF g
  <2> QED
    BY <2>1, <2>2
<1> QED
  BY <1>1, <1>2

-----------------------------------------------------------------------------
(* Types. *)

\* What the cluster says of the claims is one word for each.
LEMMA ClaimsNowType == ClaimsNow \in [Uid -> {"none", "waiting", "ready"}]
  BY DEF ClaimsNow

\* A reading of bound records knows their Sandboxes.
Whole(g) == \A i \in Uid : g.managed[i].phase = "bound" => g.managed[i].sandbox # 0

LEMMA NothingIsWhole == Whole(NothingRead)
  BY DEF Whole, NothingRead, NoManaged

\* A step of the listing puts down what it reads, or answers.
LEMMA ListTypes ==
  ASSUME StatusTypeOK, ReadWhole, CompleteCopies, Lister
  PROVE  /\ step' \in {"start", "records", "readRecords", "claims", "connections",
                       "readConnections", "machines", "modes"}
         /\ todo' \subseteq Uid /\ got' \in Reading /\ Whole(got')
         /\ report' \in [Uid -> AnswerSet \cup {"none"}]
<1> /\ got \in Reading /\ todo \subseteq Uid /\ report \in [Uid -> AnswerSet \cup {"none"}]
    /\ TypeOK /\ Whole(got)
  BY DEF StatusTypeOK, ReadWhole, Whole
<1> USE DEF After
<1>1. CASE StartListing
  BY <1>1 DEF StartListing, NoReport
<1>2. CASE ListRecords
  BY <1>2 DEF ListRecords, Saved
<1>3. ASSUME NEW i \in Uid, ReadRecord(i)
      PROVE  /\ step' \in {"readRecords", "claims"} /\ UNCHANGED report
             /\ todo' \subseteq Uid /\ got' \in Reading /\ Whole(got')
  <2>1. got' = [got EXCEPT !.managed[i] = managed[i]] /\ managed[i] \in Managed
    BY <1>3 DEF ReadRecord, TypeOK
  <2>2. got' \in Reading
    BY <2>1, ReadingEdits
  <2>3. Whole(got')
    BY <2>1 DEF Whole, CompleteCopies, Reading
  <2> QED
    BY <1>3, <2>2, <2>3 DEF ReadRecord
<1>4. CASE ReadClaims
  <2>1. got' = [got EXCEPT !.claims = ClaimsNow]
    BY <1>4 DEF ReadClaims
  <2>2. got' \in Reading
    BY <2>1, ReadingEdits, ClaimsNowType
  <2>3. Whole(got')
    BY <2>1 DEF Whole, Reading
  <2> QED
    BY <1>4, <2>2, <2>3 DEF ReadClaims
<1>5. CASE ListConnections
  BY <1>5 DEF ListConnections
<1>6. ASSUME NEW u \in Uid, ReadConnection(u)
      PROVE  /\ step' \in {"readConnections", "machines"} /\ UNCHANGED report
             /\ todo' \subseteq Uid /\ got' \in Reading /\ Whole(got')
  <2>1. got' = [got EXCEPT !.conns[u] = conn[u]] /\ conn[u] \in Links
    BY <1>6 DEF ReadConnection, TypeOK
  <2>2. got' \in Reading
    BY <2>1, ReadingEdits
  <2>3. Whole(got')
    BY <2>1 DEF Whole, Reading
  <2> QED
    BY <1>6, <2>2, <2>3 DEF ReadConnection
<1>7. CASE ReadMachines \/ \E v \in Uid : AskMode(v)
  <2>1. todo' \subseteq Uid
    <3>1. ListedSandboxes \subseteq Uid
      BY UidFacts DEF ListedSandboxes, Whole, Reading, Managed
    <3> QED
      BY <1>7, <3>1 DEF ReadMachines, AskMode
  <2>2. PICK g \in Reading :
           /\ g.managed = got.managed
           /\ \/ GiveAnswers(g)
              \/ step' = "modes" /\ got' = g /\ UNCHANGED report
    BY <1>7, AnswersGiven
  <2>3. Whole(g)
    BY <2>2 DEF Whole
  <2>4. CASE GiveAnswers(g)
    <3>1. step' = "start" /\ got' = NothingRead /\ report' = Answers(g)
      BY <2>4 DEF GiveAnswers
    <3>2. \A i \in Uid : Answers(g)[i] \in AnswerSet \cup {"none"}
      BY <2>3, AnswerMeans DEF Whole
    <3>3. report' \in [Uid -> AnswerSet \cup {"none"}]
      BY <3>1, <3>2 DEF Answers
    <3> QED
      BY <2>1, <3>1, <3>3, NothingReadIsReading, NothingIsWhole
  <2>5. CASE step' = "modes" /\ got' = g /\ UNCHANGED report
    BY <2>1, <2>3, <2>5
  <2> QED
    BY <2>2, <2>4, <2>5
<1>8. CASE ListFails
  BY <1>8, NothingReadIsReading, NothingIsWhole DEF ListFails
<1> QED
  BY <1>1, <1>2, <1>3, <1>4, <1>5, <1>6, <1>7, <1>8, ListSteps

LEMMA StatusTypesKept ==
  ASSUME IInv, StatusTypeOK, ReadWhole, [StatusNext]_allVars
  PROVE  StatusTypeOK' /\ ReadWhole'
<1> USE DEF IInv, Bookkeeping
<1>1. TypeOK'
  BY Beside, NextTypes
<1>2. CASE Lister
  <2>1. up' \subseteq Uid /\ calm' \in BOOLEAN
    BY <1>2 DEF Lister, AttachedNow, history, StatusTypeOK
  <2> QED
    BY <1>1, <1>2, <2>1, ListTypes DEF StatusTypeOK, ReadWhole, Whole
<1>3. CASE Meanwhile(Next)
  <2>1. UNCHANGED reading /\ up' \subseteq Uid /\ calm' \in BOOLEAN
    <3>1. up' = up \cup AttachedNow' /\ AttachedNow' \subseteq Uid
      BY <1>3 DEF Meanwhile, AttachedNow
    <3>2. calm' \in BOOLEAN
      BY <1>3, Zenon DEF Meanwhile
    <3> QED
      BY <1>3, <3>1, <3>2 DEF Meanwhile, StatusTypeOK
  <2> QED
    BY <1>1, <2>1 DEF StatusTypeOK, ReadWhole, reading
<1>4. CASE UNCHANGED allVars
  BY <1>1, <1>4 DEF allVars, reading, history, StatusTypeOK, ReadWhole
<1> QED
  BY <1>2, <1>3, <1>4, Beside

LEMMA InitStatusTypes == StatusInit => StatusTypeOK /\ ReadWhole
<1>1. StatusInit => TypeOK
  BY InitTypes DEF StatusInit
<1>2. StatusInit => ReadWhole
  BY NothingIsWhole DEF StatusInit, ReadWhole, Whole
<1>3. NoReport \in [Uid -> AnswerSet \cup {"none"}]
  BY DEF NoReport
<1> QED
  BY <1>1, <1>2, <1>3, NothingReadIsReading DEF StatusInit, StatusTypeOK

LEMMA StatusTypesHold == StatusSpec => [](IInv /\ StatusTypeOK /\ ReadWhole)
<1>1. StatusInit => StatusTypeOK /\ ReadWhole
  BY InitStatusTypes
<1>2. IInv /\ StatusTypeOK /\ ReadWhole /\ [StatusNext]_allVars => StatusTypeOK' /\ ReadWhole'
  BY StatusTypesKept
<1> QED
  BY <1>1, <1>2, BesideSpec, Inductive, PTL DEF StatusSpec, StatusNext

\* What a listing has read is what the files, the API server and Herdr may say, and its
\* answers are among those of the code (commandSandboxList, sandboxStatus).
THEOREM StatusTypeCorrect == StatusSpec => []StatusTypeOK
  BY StatusTypesHold, PTL

-----------------------------------------------------------------------------
(* Missing claims: whatever the commands do and however many there are. *)

\* A UID that has been handed out and is not the claim's does not become the claim's again.
LEMMA ClaimGoneForGood ==
  ASSUME IInv, [Next]_vars, NEW i \in Uid, i <= lastUid
  PROVE  i <= lastUid' /\ (claim # i => claim' # i)
<1> TypeOK /\ CompleteCopies
  BY DEF IInv, Bookkeeping
<1>1. lastUid \in Nat /\ i \in Nat /\ i # 0
  BY ClaimsAssumption DEF TypeOK, Uid, Uid0
<1> QED
  BY <1>1, ClaimMoves

Missing(i) ==
  /\ got.managed[i].phase # "none" => i <= lastUid
  /\ step \in ClaimsRead /\ got.managed[i].phase # "none" /\ got.claims[i] = "none" => claim # i
  /\ report[i] = "claim missing" => i <= lastUid /\ claim # i

\* A record that is read has a claim, or had one.
LEMMA ListMissing ==
  ASSUME IInv, StatusTypeOK, ReadWhole, MissingInv, Lister, NEW i \in Uid
  PROVE  Missing(i)'
<1> /\ got \in Reading /\ TypeOK /\ UNCHANGED vars
  BY DEF StatusTypeOK, Lister
<1>0. Missing(i)
  BY DEF MissingInv, Missing
<1>1. UNCHANGED <<claim, lastUid>>
  BY DEF vars
<1> USE DEF After, Missing, ClaimsRead
<1>2. CASE StartListing
  BY <1>0, <1>1, <1>2 DEF StartListing, NoReport
<1>3. CASE ListRecords
  BY <1>0, <1>1, <1>3 DEF ListRecords
<1>4. ASSUME NEW j \in Uid, ReadRecord(j)
      PROVE  Missing(i)'
  <2>1. /\ got' = [got EXCEPT !.managed[j] = managed[j]] /\ managed[j].phase # "none"
        /\ step' \in {"readRecords", "claims"} /\ UNCHANGED report
    BY <1>4 DEF ReadRecord
  <2>2. got'.managed[i] = IF i = j THEN managed[i] ELSE got.managed[i]
    BY <2>1 DEF Reading
  <2>3. managed[i].phase # "none" => i <= lastUid
    BY DEF IInv, Bookkeeping, Issued, Saved
  <2> QED
    BY <1>0, <1>1, <2>1, <2>2, <2>3
<1>5. CASE ReadClaims
  <2>1. got' = [got EXCEPT !.claims = ClaimsNow] /\ UNCHANGED report
    BY <1>5 DEF ReadClaims
  <2>2. got'.managed = got.managed /\ got'.claims[i] = ClaimsNow[i]
    BY <2>1 DEF Reading
  <2>3. ClaimsNow[i] = "none" => claim # i
    BY DEF ClaimsNow
  <2> QED
    BY <1>0, <1>1, <2>1, <2>2, <2>3
<1>6. CASE ListConnections
  BY <1>0, <1>1, <1>6 DEF ListConnections
<1>7. ASSUME NEW u \in Uid, ReadConnection(u)
      PROVE  Missing(i)'
  <2>1. got' = [got EXCEPT !.conns[u] = conn[u]] /\ UNCHANGED report /\ step \in ClaimsRead
    BY <1>7 DEF ReadConnection
  <2>2. got'.managed = got.managed /\ got'.claims = got.claims
    BY <2>1 DEF Reading
  <2> QED
    BY <1>0, <1>1, <2>1, <2>2
<1>8. CASE ReadMachines \/ \E v \in Uid : AskMode(v)
  <2>1. step \in ClaimsRead
    BY <1>8 DEF ReadMachines, AskMode
  <2>2. PICK g \in Reading :
           /\ g.managed = got.managed /\ g.claims = got.claims
           /\ \/ GiveAnswers(g)
              \/ step' = "modes" /\ got' = g /\ UNCHANGED report
    BY <1>8, AnswersGiven
  <2>3. CASE GiveAnswers(g)
    <3>1. step' = "start" /\ got' = NothingRead /\ report' = Answers(g)
      BY <2>3 DEF GiveAnswers
    <3>2. Answers(g)[i] = "claim missing" => g.managed[i].phase # "none" /\ g.claims[i] = "none"
      BY <2>2, AnswerMeans DEF ReadWhole
    <3>3. got'.managed[i].phase = "none"
      BY <3>1 DEF NothingRead, NoManaged
    <3> QED
      BY <1>0, <1>1, <2>1, <2>2, <3>1, <3>2, <3>3
  <2>4. CASE step' = "modes" /\ got' = g /\ UNCHANGED report
    BY <1>0, <1>1, <2>1, <2>2, <2>4
  <2> QED
    BY <2>2, <2>3, <2>4
<1>9. CASE ListFails
  <2>1. got'.managed[i].phase = "none" /\ UNCHANGED report
    BY <1>9 DEF ListFails, NothingRead, NoManaged
  <2> QED
    BY <1>0, <1>1, <2>1
<1> QED
  BY <1>2, <1>3, <1>4, <1>5, <1>6, <1>7, <1>8, <1>9, ListSteps

LEMMA MissingKept ==
  ASSUME IInv, StatusTypeOK, ReadWhole, MissingInv, [StatusNext]_allVars
  PROVE  MissingInv'
<1> SUFFICES ASSUME NEW i \in Uid
             PROVE  Missing(i)'
  BY DEF MissingInv, Missing
<1>1. CASE Lister
  BY <1>1, ListMissing
<1>2. CASE UNCHANGED reading
  <2>1. Missing(i)
    BY DEF MissingInv, Missing
  <2>2. i <= lastUid => i <= lastUid' /\ (claim # i => claim' # i)
    BY Beside, ClaimGoneForGood
  <2> QED
    BY <1>2, <2>1, <2>2 DEF Missing, reading
<1> QED
  BY <1>1, <1>2, Beside DEF Meanwhile, allVars

\* The claim of a saved record is reported missing only when it is (sandboxStatus reads
\* the records before it lists the claims).
THEOREM MissingClaimsAreMissing == StatusSpec => []MissingIsReal
<1>1. StatusInit => MissingInv
  BY DEF StatusInit, MissingInv, NothingRead, NoManaged, NoReport
<1>2. IInv /\ StatusTypeOK /\ ReadWhole /\ MissingInv /\ [StatusNext]_allVars => MissingInv'
  BY MissingKept
<1>3. MissingInv => MissingIsReal
  BY DEF MissingInv, MissingIsReal
<1> QED
  BY <1>1, <1>2, <1>3, StatusTypesHold, PTL DEF StatusSpec, StatusNext

-----------------------------------------------------------------------------
(* The other answers, when commands run one after another. *)

\* What a step of the listing changes of what has been read.
Turned ==
  /\ got' = got
  /\ \/ step = "start" /\ step' = "records" /\ report' = NoReport
     \/ step = "records" /\ step' \in {"readRecords", "claims"} /\ report' = report
     \/ step = "connections" /\ step' \in {"readConnections", "machines"} /\ report' = report

RecordRead(j) ==
  /\ step = "readRecords" /\ step' \in {"readRecords", "claims"} /\ report' = report
  /\ got'.managed = [got.managed EXCEPT ![j] = managed[j]]
  /\ got'.claims = got.claims /\ got'.conns = got.conns /\ got'.machines = got.machines

ClaimsListed ==
  /\ step = "claims" /\ step' = "connections" /\ report' = report
  /\ got'.claims = ClaimsNow
  /\ got'.managed = got.managed /\ got'.conns = got.conns /\ got'.machines = got.machines

ConnectionRead(u) ==
  /\ step = "readConnections" /\ step' \in {"readConnections", "machines"} /\ report' = report
  /\ got'.conns = [got.conns EXCEPT ![u] = conn[u]]
  /\ got'.managed = got.managed /\ got'.claims = got.claims /\ got'.machines = got.machines

\* From reading g, which knows the machines too, the answers are given or will be.
Completed(g) ==
  /\ step \in {"machines", "modes"}
  /\ g.managed = got.managed /\ g.claims = got.claims /\ g.conns = got.conns
  /\ g.machines = got.machines \/ (step = "machines" /\ g.machines = machine)
  /\ \/ step' = "modes" /\ got' = g /\ report' = report
     \/ step' = "start" /\ got' = NothingRead /\ report' = Answers(g)

Dropped == step # "start" /\ step' = "start" /\ got' = NothingRead /\ report' = report

LEMMA ListKinds ==
  ASSUME StatusTypeOK, Lister
  PROVE  \/ Turned \/ ClaimsListed \/ Dropped
         \/ \E j \in Uid : RecordRead(j) \/ ConnectionRead(j)
         \/ \E g \in Reading : Completed(g)
<1> got \in Reading
  BY DEF StatusTypeOK
<1> USE DEF After
<1>1. StartListing \/ ListRecords \/ ListConnections => Turned
  BY DEF Turned, StartListing, ListRecords, ListConnections
<1>2. \A j \in Uid : ReadRecord(j) => RecordRead(j)
  BY DEF ReadRecord, RecordRead, Reading
<1>3. ReadClaims => ClaimsListed
  BY DEF ReadClaims, ClaimsListed, Reading
<1>4. \A u \in Uid : ReadConnection(u) => ConnectionRead(u)
  BY DEF ReadConnection, ConnectionRead, Reading
<1>5. ListFails => Dropped
  BY DEF ListFails, Dropped
<1>6. ASSUME ReadMachines \/ \E v \in Uid : AskMode(v)
      PROVE  \E g \in Reading : Completed(g)
  <2>1. step \in {"machines", "modes"}
    BY <1>6 DEF ReadMachines, AskMode
  <2>2. PICK g \in Reading :
           /\ g.managed = got.managed /\ g.claims = got.claims /\ g.conns = got.conns
           /\ \/ g.machines = got.machines
              \/ step = "machines" /\ g.machines = machine
           /\ \/ GiveAnswers(g)
              \/ step' = "modes" /\ got' = g /\ UNCHANGED report
    BY <1>6, AnswersGiven
  <2>3. Completed(g)
    BY <2>1, <2>2 DEF Completed, GiveAnswers
  <2> QED
    BY <2>3
<1> QED
  BY <1>1, <1>2, <1>3, <1>4, <1>5, <1>6, ListSteps

\* Nothing is read before its time.
LEMMA UnreadKept ==
  ASSUME StatusTypeOK, Unread, [StatusNext]_allVars
  PROVE  Unread'
<1> USE DEF Unread, ClaimsRead
<1>1. CASE UNCHANGED reading
  BY <1>1 DEF reading
<1>2. CASE Turned
  BY <1>2 DEF Turned
<1>3. CASE ClaimsListed
  BY <1>3 DEF ClaimsListed
<1>4. CASE Dropped
  BY <1>4 DEF Dropped
<1>5. ASSUME NEW j \in Uid, RecordRead(j)
      PROVE  Unread'
  BY <1>5 DEF RecordRead
<1>6. ASSUME NEW j \in Uid, ConnectionRead(j)
      PROVE  Unread'
  BY <1>6 DEF ConnectionRead
<1>7. ASSUME NEW g, Completed(g)
      PROVE  Unread'
  BY <1>7 DEF Completed
<1> QED
  BY <1>1, <1>2, <1>3, <1>4, <1>5, <1>6, <1>7, ListKinds, Beside DEF Meanwhile, allVars

\* The record of a claim or Sandbox that is there does not change once it is bound.
LEMMA RecordsReadKept ==
  ASSUME SInv, Serial, StatusTypeOK, MissingInv, RecordsRead, [StatusNext]_allVars
  PROVE  RecordsRead'
<1> SUFFICES ASSUME NEW i \in Uid, got'.managed[i].phase = "bound"
             PROVE  /\ got'.managed[i].sandbox = i
                    /\ managed'[i] = got'.managed[i] \/ (claim' # i /\ sandbox'[i].st = "gone")
  BY DEF RecordsRead
<1> USE Grounds
<1> got \in Reading
  BY DEF StatusTypeOK
<1>1. CASE got'.managed[i] = got.managed[i]
  <2>1. /\ got.managed[i].sandbox = i /\ i <= lastUid
        /\ managed[i] = got.managed[i] \/ (claim # i /\ sandbox[i].st = "gone")
    BY <1>1 DEF RecordsRead, MissingInv
  <2>2. /\ claim # i => claim' # i
        /\ sandbox[i].st = "gone" => sandbox'[i].st = "gone"
    BY <2>1, Beside, ClaimGoneForGood, SandboxMoves DEF SInv, CustodyInv, SandboxMoved
  <2>3. ASSUME managed[i] = got.managed[i], managed'[i] # managed[i]
        PROVE  claim' # i /\ sandbox'[i].st = "gone"
    <3>1. managed'[i] = NoManaged
      BY <1>1, <2>3, Beside, RecordsKept DEF SInv, CustodyInv
    <3>2. PICK p \in Procs : Forget(p) /\ mem[p].rec = i
      <4>1. ASSUME NEW p \in Procs, RecordClaim(p)
            PROVE  managed'[i] = managed[i] \/ managed'[i].phase = "claimed"
        BY <4>1 DEF RecordClaim, TypeOK, NoManaged
      <4>2. ASSUME NEW p \in Procs, SaveBinding(p)
            PROVE  managed'[i] = managed[i] \/ managed'[i].phase = "bound"
        BY <4>2 DEF SaveBinding, TypeOK
      <4>3. ASSUME NEW p \in Procs, Forget(p)
            PROVE  managed'[i] = managed[i] \/ mem[p].rec = i
        BY <4>3 DEF Forget, TypeOK
      <4> QED
        BY <2>3, <3>1, <4>1, <4>2, <4>3, Beside, ManagedWriters DEF SInv, CustodyInv, NoManaged
    <3>3. pc[p] = "forget" /\ mem[p].phase = "bound"
      BY <3>2, AtMoves DEF Forget, CompleteCopies, CleanupPcs
    <3>4. claim # i
      BY <3>2, <3>3 DEF ClaimLeftBehind, CleanupPcs
    <3>5. sandbox[i].st = "gone"
      BY <3>2, <3>3, InHand DEF Reached, CleanupPcs
    <3> QED
      BY <2>2, <3>4, <3>5
  <2> QED
    BY <1>1, <2>1, <2>2, <2>3
<1>2. CASE got'.managed[i] = managed[i] /\ UNCHANGED vars
  BY <1>2 DEF vars, ClaimResolved
<1>3. CASE got' = NothingRead
  BY <1>3 DEF NothingRead, NoManaged
<1>4. ASSUME NEW j \in Uid, RecordRead(j)
      PROVE  got'.managed[i] \in {got.managed[i], managed[i]}
  BY <1>4 DEF RecordRead, Reading
<1> QED
  BY <1>1, <1>2, <1>3, <1>4, ListKinds, Beside
  DEF Meanwhile, allVars, reading, Turned, ClaimsListed, Dropped, ConnectionRead, Completed

\* What a listing that found the claim of record i ready may still take it for.
Ready(i) ==
  got.managed[i].phase = "bound" /\ got.claims[i] = "ready" /\ i \notin up =>
    /\ ~(conn[i] = "connected" /\ machine[i] = "enabled")
    /\ got.conns[i] = "connected" =>
         /\ machine[i] # "enabled" /\ got.machines[i] # "enabled"
         /\ conn[i] = "connected" \/ sandbox[i].st = "gone"

\* A Sandbox whose claim says Ready was attached if its connection and its machine say so.
LEMMA ListReady ==
  ASSUME SInv, StatusTypeOK, Unread, RecordsRead, ReadyInv, Lister, NEW i \in Uid
  PROVE  Ready(i)' /\ (report'[i] = "ready" => i \in up')
<1> USE Grounds
<1> got \in Reading /\ UNCHANGED <<claim, sandbox, managed, conn, machine>>
  BY DEF StatusTypeOK, Lister, vars
<1>1. Ready(i) /\ (report[i] = "ready" => i \in up)
  BY DEF ReadyInv, Ready
<1>2. step # "start" => up' = up
  BY DEF Lister, history
<1> USE DEF Ready
<1>3. CASE Turned
  <2>1. CASE step = "start"
    <3>1. got'.claims[i] = "none" /\ report'[i] = "none"
      BY <1>3, <2>1 DEF Turned, Unread, ClaimsRead, NothingRead, NoReport
    <3> QED
      BY <3>1
  <2>2. CASE step # "start"
    BY <1>1, <1>2, <1>3, <2>2 DEF Turned
  <2> QED
    BY <2>1, <2>2
<1>4. ASSUME NEW j \in Uid, RecordRead(j)
      PROVE  Ready(i)' /\ (report'[i] = "ready" => i \in up')
  <2>1. got'.claims[i] = "none" /\ report' = report /\ step # "start"
    BY <1>4 DEF RecordRead, Unread, ClaimsRead, NothingRead
  <2> QED
    BY <1>1, <1>2, <2>1
<1>5. CASE ClaimsListed
  <2>1. /\ got'.claims[i] = ClaimsNow[i] /\ got'.managed = got.managed /\ got'.conns[i] = "none"
        /\ report' = report /\ up' = up
    BY <1>2, <1>5 DEF ClaimsListed, Unread, ClaimsRead, NothingRead
  <2>2. ASSUME got.managed[i].phase = "bound", ClaimsNow[i] = "ready", i \notin up
        PROVE  ~(conn[i] = "connected" /\ machine[i] = "enabled")
    <3>1. claim = i /\ sandbox[i].st = "live"
      BY <2>2 DEF ClaimsNow, ClaimResolved, Live
    <3>2. managed[i].phase = "bound" /\ managed[i].sandbox = i
      BY <2>2, <3>1 DEF RecordsRead
    <3>3. ~Attached(i)
      BY <2>2 DEF ReadyInv, AttachedNow
    <3> QED
      BY <3>1, <3>2, <3>3 DEF Attached
  <2> QED
    BY <1>1, <2>1, <2>2
<1>6. ASSUME NEW u \in Uid, ConnectionRead(u)
      PROVE  Ready(i)' /\ (report'[i] = "ready" => i \in up')
  <2>1. /\ got'.managed = got.managed /\ got'.claims = got.claims /\ got'.machines[i] = "absent"
        /\ report' = report /\ up' = up
    BY <1>2, <1>6 DEF ConnectionRead, Unread, NothingRead
  <2>2. got'.conns[i] \in {got.conns[i], conn[i]}
    BY <1>6 DEF ConnectionRead, Reading
  <2> QED
    BY <1>1, <2>1, <2>2
<1>7. ASSUME NEW g \in Reading, Completed(g)
      PROVE  Ready(i)' /\ (report'[i] = "ready" => i \in up')
  <2>1. /\ g.managed = got.managed /\ g.claims = got.claims /\ g.conns = got.conns
        /\ g.machines[i] \in {got.machines[i], machine[i]} /\ up' = up
    BY <1>2, <1>7 DEF Completed
  <2>2. CASE got' = g /\ report' = report
    BY <1>1, <2>1, <2>2
  <2>3. CASE got' = NothingRead /\ report' = Answers(g)
    <3>1. got'.claims[i] = "none"
      BY <2>3 DEF NothingRead
    <3>2. g.managed[i].phase = "bound" => g.managed[i].sandbox = i
      BY <2>1 DEF RecordsRead
    <3>3. g.managed[i].phase = "bound" => g.managed[i].sandbox # 0
      BY <3>2 DEF Uid
    <3>4. Answers(g)[i] = "ready" =>
              /\ g.managed[i].phase = "bound" /\ g.claims[i] = "ready"
              /\ g.conns[i] = "connected" /\ g.machines[i] = "enabled"
      BY <3>2, <3>3, AnswerMeans
    <3> QED
      BY <1>1, <2>1, <2>3, <3>1, <3>4
  <2> QED
    BY <1>7, <2>2, <2>3 DEF Completed
<1>8. CASE Dropped
  <2>1. got'.claims[i] = "none" /\ report' = report
    BY <1>8 DEF Dropped, NothingRead
  <2> QED
    BY <1>1, <1>2, <1>8, <2>1 DEF Dropped
<1> QED
  BY <1>3, <1>4, <1>5, <1>6, <1>7, <1>8, ListKinds

\* A command that attaches a Sandbox does so while that is there.
LEMMA AttachesLive ==
  ASSUME SInv, NEW p \in Procs, Attach(p) \/ SaveLink(p)
  PROVE  Live(mem[p].sandbox) /\ UNCHANGED <<managed, sandbox>>
<1>1. pc[p] \in {"attach", "save"} /\ UNCHANGED <<managed, sandbox>>
  BY Grounds, AtMoves DEF Attach, SaveLink, records, cluster
<1> QED
  BY <1>1, Grounds DEF Reached

\* What a command saves of a connection it has read, it saves as it is.
LEMMA AdoptedAsRead ==
  ASSUME SInv, NEW p \in Procs, AdoptIdentity(p)
  PROVE  conn' = conn
<1> USE Grounds
<1>1. pc[p] = "adopt" /\ conn' = [conn EXCEPT ![mem[p].sandbox] = mem[p].link]
  BY AtMoves DEF AdoptIdentity
<1>2. conn[mem[p].sandbox] = mem[p].link
  BY <1>1 DEF LinksCurrent, LinkPcs, LinkKnown
<1> QED
  BY <1>1, <1>2 DEF TypeOK

\* While the listing waits, an allocation that gets attached is seen to be.
LEMMA MeanwhileReady ==
  ASSUME SInv, Serial, RecordsRead, ReadyInv, Meanwhile(Next), NEW i \in Uid
  PROVE  Ready(i)' /\ (report'[i] = "ready" => i \in up')
<1> USE Grounds
<1>1. Ready(i) /\ (report[i] = "ready" => i \in up)
  BY DEF ReadyInv, Ready
<1>2. up' = up \cup AttachedNow' /\ got' = got /\ report' = report /\ [Next]_vars
  BY DEF Meanwhile, reading
<1>3. CASE i \in up'
  BY <1>3 DEF Ready
<1>4. CASE i \notin up'
  <2>1. i \notin up /\ ~Attached(i)'
    BY <1>2, <1>4 DEF AttachedNow
  <2>2. ASSUME NEW p \in Procs, Attach(p) \/ SaveLink(p), mem[p].sandbox = i,
               got.managed[i].phase = "bound"
        PROVE  /\ ~(conn'[i] = "connected" /\ machine'[i] = "enabled")
               /\ sandbox[i].st = "live"
    <3>1. sandbox[i].st = "live" /\ UNCHANGED <<managed, sandbox>>
      BY <2>2, AttachesLive DEF Live
    <3>2. managed[i].phase = "bound" /\ managed[i].sandbox = i
      BY <2>2, <3>1 DEF RecordsRead
    <3> QED
      BY <2>1, <3>1, <3>2 DEF Attached
  <2>3. ASSUME conn'[i] = "connected", conn[i] # "connected"
        PROVE  \E p \in Procs : SaveLink(p) /\ mem[p].sandbox = i
    BY <1>2, <2>3, LinkWriters, AdoptedAsRead DEF PrepareLink, SaveLink, RemoveFiles, TypeOK
  <2>4. ASSUME machine'[i] = "enabled", machine[i] # "enabled"
        PROVE  \E p \in Procs : Attach(p) /\ mem[p].sandbox = i
    BY <1>2, <2>4, LinkWriters DEF Attach, Disconnect, Disable, Released, RemoveMachine, TypeOK
  <2>5. ASSUME conn[i] = "connected", conn'[i] # "connected"
        PROVE  sandbox[i].st = "gone"
    <3>1. PICK p \in Procs : (PrepareLink(p) \/ RemoveFiles(p)) /\ mem[p].sandbox = i
      BY <1>2, <2>5, LinkWriters, AdoptedAsRead DEF PrepareLink, SaveLink, RemoveFiles, TypeOK
    <3>2. PrepareLink(p) => pc[p] = "prepare"
      BY AtMoves DEF PrepareLink
    <3>3. RemoveFiles(p) => pc[p] = "removeFiles"
      BY AtMoves DEF RemoveFiles
    <3>4. pc[p] # "prepare"
      BY <2>5, <3>1 DEF LinksCurrent, LinkPcs, LinkKnown
    <3> QED
      BY <3>1, <3>2, <3>3, <3>4 DEF Reached, CleanupPcs
  <2>6. sandbox[i].st = "gone" => sandbox'[i].st = "gone"
    BY <1>2, SandboxMoves DEF SandboxMoved
  <2>7. ASSUME got.managed[i].phase = "bound", conn'[i] = "connected", machine'[i] = "enabled"
        PROVE  conn[i] = "connected" /\ machine[i] = "enabled"
    BY <2>2, <2>3, <2>4, <2>7
  <2>8. ASSUME got.managed[i].phase = "bound", machine[i] # "enabled",
               conn[i] = "connected" \/ sandbox[i].st = "gone"
        PROVE  machine'[i] # "enabled" /\ (conn'[i] = "connected" \/ sandbox'[i].st = "gone")
    <3>1. ASSUME machine'[i] = "enabled"
          PROVE  FALSE
      <4>1. PICK p \in Procs : Attach(p) /\ mem[p].sandbox = i
        BY <2>4, <2>8, <3>1
      <4>2. conn' = conn
        BY <4>1 DEF Attach
      <4>3. sandbox[i].st = "live" /\ conn'[i] # "connected"
        BY <2>2, <2>8, <3>1, <4>1
      <4> QED
        BY <2>8, <4>2, <4>3
    <3> QED
      BY <2>5, <2>6, <2>8, <3>1
  <2>9. Ready(i)'
    BY <1>1, <1>2, <2>1, <2>7, <2>8 DEF Ready
  <2> QED
    BY <1>1, <1>2, <2>1, <2>9
<1> QED
  BY <1>2, <1>3, <1>4

LEMMA ReadyKept ==
  ASSUME SInv, Serial, StatusTypeOK, Unread, RecordsRead, ReadyInv, [StatusNext]_allVars
  PROVE  ReadyInv'
<1>1. CASE Lister
  <2>1. AttachedNow' = AttachedNow
    BY <1>1, Beside DEF vars, AttachedNow, Attached
  <2>2. AttachedNow' \subseteq up'
    BY <1>1, <2>1 DEF Lister, history, ReadyInv
  <2> QED
    BY <1>1, <2>2, ListReady DEF ReadyInv, Ready
<1>2. CASE Meanwhile(Next)
  <2>1. AttachedNow' \subseteq up'
    BY <1>2 DEF Meanwhile
  <2> QED
    BY <1>2, <2>1, MeanwhileReady DEF ReadyInv, Ready
<1>3. CASE UNCHANGED allVars
  BY <1>3 DEF allVars, vars, reading, history, ReadyInv, AttachedNow, Attached
<1> QED
  BY <1>1, <1>2, <1>3, Beside

\* Nothing but the cluster moves while every command is idle and stays so.
LEMMA CalmSteps ==
  ASSUME TypeOK, [Next]_vars, \A p \in Procs : pc[p] = "idle", UNCHANGED pc
  PROVE  UNCHANGED managed
<1>1. ASSUME NEW p \in Procs
      PROVE  ~Start(p) /\ ~Step(p) /\ ~Interrupt(p)
  <2>1. ~Start(p)
    BY StageMoves
  <2>2. ~Interrupt(p)
    BY DEF Interrupt
  <2>3. ~CreateStep(p)
    BY AtMoves DEF CreateStep, CheckOrigin, SelectSaved, GetClaim, CreateClaim, RecordClaim,
       WaitReady, ResolveSandbox, ResolveHome, SaveBinding
  <2>4. ~ConnectStep(p)
    BY DEF At, ConnectStep, SelectLink, FirstLink, AdoptIdentity, Reach, PrepareLink, Attach,
       SaveLink, Disconnect
  <2>5. ~ModeStep(p)
    BY AtMoves DEF ModeStep, ReadClaim, ReadSandbox, ReadHome, Disable, PatchMode, WaitMode,
       HomeAgain
  <2>6. ~RetainStep(p)
    BY AtMoves DEF RetainStep, OrphanClaim, ClaimGone, Recheck, StripLabels, OrphanSandbox,
       SandboxGone, VerifyRetained, SaveRetained, RemoveMachine, RemoveFiles, Forget
  <2>7. ~EraseStep(p)
    BY AtMoves DEF EraseStep, LockRetained, Reselect, CheckPending, InspectHome,
       InspectAllocation, InspectMounts, InspectVolume, MarkDeleting, DeletePVC, StorageGone,
       DropRetained
  <2> QED
    BY <2>1, <2>2, <2>3, <2>4, <2>5, <2>6, <2>7 DEF Step
<1> QED
  BY <1>1, ClusterMoving DEF Next, ClusterMoves, vars, records

\* What a listing has read of record i during which nothing but the cluster moved.
Settled(i) ==
  /\ got.managed[i].phase # "none" => managed[i] = got.managed[i]
  /\ got.claims[i] # "none" => claim = i
  /\ report[i] = "stopped" => managed[i].phase = "bound" /\ claim = i

LEMMA ListSettled ==
  ASSUME StatusTypeOK, ReadWhole, Unread, CalmInv, Lister, calm', NEW i \in Uid
  PROVE  Settled(i)'
<1> got \in Reading /\ UNCHANGED <<claim, managed>>
  BY DEF StatusTypeOK, Lister, vars
<1>1. step # "start" => Settled(i)
  BY DEF Lister, history, CalmInv, Settled
<1> USE DEF Settled
<1>2. CASE Turned
  <2>1. CASE step = "start"
    <3>1. got'.managed[i].phase = "none" /\ got'.claims[i] = "none" /\ report'[i] = "none"
      BY <1>2, <2>1 DEF Turned, Unread, ClaimsRead, NothingRead, NoReport, NoManaged
    <3> QED
      BY <3>1
  <2>2. CASE step # "start"
    BY <1>1, <1>2, <2>2 DEF Turned
  <2> QED
    BY <2>1, <2>2
<1>3. ASSUME NEW j \in Uid, RecordRead(j)
      PROVE  Settled(i)'
  <2>1. got'.managed[i] \in {got.managed[i], managed[i]} /\ got'.claims = got.claims
        /\ report' = report /\ step # "start"
    BY <1>3 DEF RecordRead, Reading
  <2> QED
    BY <1>1, <2>1
<1>4. CASE ClaimsListed
  <2>1. got'.claims[i] # "none" => claim = i
    BY <1>4 DEF ClaimsListed, ClaimsNow
  <2> QED
    BY <1>1, <1>4, <2>1 DEF ClaimsListed
<1>5. ASSUME NEW u \in Uid, ConnectionRead(u)
      PROVE  Settled(i)'
  BY <1>1, <1>5 DEF ConnectionRead
<1>6. ASSUME NEW g \in Reading, Completed(g)
      PROVE  Settled(i)'
  <2>1. g.managed = got.managed /\ g.claims = got.claims /\ step # "start"
    BY <1>6 DEF Completed
  <2>2. CASE got' = g /\ report' = report
    BY <1>1, <2>1, <2>2
  <2>3. CASE got' = NothingRead /\ report' = Answers(g)
    <3>1. got'.managed[i].phase = "none" /\ got'.claims[i] = "none"
      BY <2>3 DEF NothingRead, NoManaged
    <3>2. Answers(g)[i] = "stopped" => g.managed[i].phase = "bound" /\ g.claims[i] # "none"
      BY <2>1, AnswerMeans DEF ReadWhole
    <3> QED
      BY <1>1, <2>1, <2>3, <3>1, <3>2
  <2> QED
    BY <1>6, <2>2, <2>3 DEF Completed
<1>7. CASE Dropped
  <2>1. got'.managed[i].phase = "none" /\ got'.claims[i] = "none" /\ report' = report
    BY <1>7 DEF Dropped, NothingRead, NoManaged
  <2> QED
    BY <1>1, <1>7, <2>1 DEF Dropped
<1> QED
  BY <1>2, <1>3, <1>4, <1>5, <1>6, <1>7, ListKinds

LEMMA CalmKept ==
  ASSUME TypeOK, StatusTypeOK, ReadWhole, Unread, CalmInv, [StatusNext]_allVars
  PROVE  CalmInv'
<1> SUFFICES ASSUME calm'
             PROVE  /\ \A p \in Procs : pc'[p] = "idle"
                    /\ \A i \in Uid : Settled(i)'
  BY DEF CalmInv, Settled
<1>1. CASE Lister
  <2>1. \A p \in Procs : pc[p] = "idle"
    BY <1>1 DEF Lister, history, CalmInv
  <2> QED
    BY <1>1, <2>1, ListSettled, Beside DEF vars
<1>2. CASE Meanwhile(Next)
  <2>1. calm /\ UNCHANGED <<claim, pc, mem>> /\ UNCHANGED reading
    BY <1>2 DEF Meanwhile
  <2>2. \A p \in Procs : pc[p] = "idle"
    BY <2>1 DEF CalmInv
  <2>3. UNCHANGED managed
    BY <2>1, <2>2, Beside, CalmSteps
  <2> QED
    BY <2>1, <2>2, <2>3 DEF CalmInv, Settled, reading
<1>3. CASE UNCHANGED allVars
  BY <1>3 DEF allVars, vars, reading, history, CalmInv, Settled
<1> QED
  BY <1>1, <1>2, <1>3, Beside

-----------------------------------------------------------------------------
LEMMA InitStatus == StatusInit => StatusInv
<1> SUFFICES ASSUME StatusInit
             PROVE  StatusInv
  OBVIOUS
<1> USE DEF StatusInit
<1>1. \A i \in Uid : /\ got.managed[i].phase = "none" /\ report[i] = "none"
                     /\ got.claims[i] = "none"
  BY DEF NothingRead, NoManaged, NoReport
<1>2. AttachedNow = {}
  <2>1. \A i \in Uid : managed[i].phase = "none"
    BY DEF Init, Beginning, NoManaged
  <2> QED
    BY <2>1 DEF AttachedNow, Attached
<1>3. MissingInv /\ ReadWhole /\ RecordsRead
  BY <1>1 DEF MissingInv, ReadWhole, RecordsRead
<1>4. ReadyInv
  BY <1>1, <1>2 DEF ReadyInv
<1>5. Unread /\ CalmInv
  BY DEF Unread, CalmInv, ClaimsRead
<1> QED
  BY <1>3, <1>4, <1>5 DEF StatusInv

LEMMA NextStatus ==
  ASSUME SInv, Serial, StatusTypeOK, StatusInv, [StatusNext]_allVars
  PROVE  StatusInv'
<1>1. IInv /\ TypeOK
  BY DEF SInv, CustodyInv, IInv
<1> QED
  BY <1>1, MissingKept, UnreadKept, StatusTypesKept, RecordsReadKept, ReadyKept, CalmKept
  DEF StatusInv

\* What a listing has read of commands that run one after another, and what may have
\* changed since.
THEOREM StatusHolds == ASSUME Serial PROVE StatusSpec => []StatusInv
<1>1. StatusInit => StatusInv
  BY InitStatus
<1>2. SInv /\ StatusTypeOK /\ StatusInv /\ [StatusNext]_allVars => StatusInv'
  BY NextStatus
<1> QED
  BY <1>1, <1>2, BesideSpec, SInvHolds, StatusTypesHold, PTL DEF StatusSpec, StatusNext

\* An allocation reported ready was bound, its Sandbox there and attached to Herdr, at one
\* moment of the listing (sandboxStatus).
THEOREM ReadyWereAttached == ASSUME Serial PROVE StatusSpec => []ReadyWasAttached
<1>1. StatusInv => ReadyWasAttached
  BY DEF StatusInv, ReadyInv, ReadyWasAttached
<1> QED
  BY <1>1, StatusHolds, PTL

\* A sandbox reported stopped passes the checks of resume (applyOperatingMode).
THEOREM StoppedCanBeResumed == ASSUME Serial PROVE StatusSpec => []StoppedCanResume
<1>1. SInv /\ StatusInv => StoppedCanResume
  <2> SUFFICES ASSUME SInv, StatusInv, NEW i \in Uid, report[i] = "stopped", calm
               PROVE  LET u == managed[i].sandbox IN
                      /\ Saved = {i} /\ managed[i].phase = "bound" /\ claim = i /\ Present(u)
                      /\ LinksNamed(sandbox[u].name) \subseteq {u} /\ OwnedHome(managed[i].home, u)
    BY DEF StoppedCanResume
  <2> USE Grounds
  <2>1. managed[i].phase = "bound" /\ claim = i /\ managed[i].sandbox = i
    BY DEF StatusInv, CalmInv, ClaimResolved
  <2>2. Saved = {i}
    BY <2>1 DEF Saved, OneManagedRecord
  <2>3. Mates(i, managed[i].home)
    BY <2>1, MatesNow DEF SInv
  <2>4. sandbox[i].st = "live"
    BY <2>1, <2>3 DEF Mates, Pair, SandboxesFollow, TypeOK, Sandbox
  <2>5. LinksNamed(sandbox[i].name) \subseteq {i}
    <3>1. ASSUME NEW v \in LinksNamed(sandbox[i].name)
          PROVE  v = i
      <4>1. v \in Uid /\ conn[v] # "none" /\ sandbox[v].name = sandbox[i].name
        BY DEF LinksNamed
      <4>2. CASE Live(v)
        BY <2>4, <4>1, <4>2 DEF NamesApart, Live, Present
      <4>3. CASE managed[v].phase = "bound"
        BY <2>2, <4>1, <4>3 DEF Saved
      <4> QED
        BY <4>1, <4>2, <4>3 DEF LinksCurrent
    <3> QED
      BY <3>1
  <2> QED
    BY <2>1, <2>2, <2>3, <2>4, <2>5 DEF Mates, Pair, Present
<1> QED
  BY <1>1, StatusHolds, SInvHolds, BesideSpec, PTL
=============================================================================
