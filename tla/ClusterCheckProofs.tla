------------------------- MODULE ClusterCheckProofs -------------------------
(***************************************************************************)
(* What a verdict of cluster check means, for any list of probes, any set  *)
(* of permissions and any number of slots.                                 *)
(*                                                                         *)
(* Neither promise is inductive: a verdict is only as good as the results, *)
(* and those only as good as the answers.  Ledger says what results and    *)
(* answers have to do with each other; Progress, that nothing is left out  *)
(* or still under way when the report is made, nor changes after it.       *)
(***************************************************************************)
EXTENDS ClusterCheck, TLAPS

Ledger ==
  \A c \in Checks :
    /\ result[c] = "ok" <=> answer[c] = "good"
    /\ result[c] = "none" <=> answer[c] = "none"
    /\ answer[c] = "cut" => expired

Progress ==
  /\ next > 0 => result["connection"] # "none"
  /\ \A n \in DOMAIN Probes : n < next => result[Probes[n]] # "none"
  /\ \A c \in running : result[c] = "none"
  /\ running # {} => next > LastProbe
  /\ verdict # "none" => next > LastProbe /\ \A c \in Permissions : result[c] # "none"

CInv == CheckTypeOK /\ Ledger /\ Progress /\ PassedIsTrue /\ RefusalIsReal

-----------------------------------------------------------------------------
\* The length of the list is a number and its places are the numbers up to it.
LEMMA LastIsNat == LastProbe \in Nat
BY ProbesAssumption DEF LastProbe

LEMMA Places == \A n : n \in DOMAIN Probes <=> n \in Nat /\ 1 <= n /\ n <= LastProbe
BY ProbesAssumption DEF LastProbe

\* Where no verdict has been given, nothing has been promised.
LEMMA NoVerdict == verdict' = "none" => PassedIsTrue' /\ RefusalIsReal'
BY DEF PassedIsTrue, RefusalIsReal

LEMMA NextInRange == CheckTypeOK => next \in 0 .. LastProbe + 1
BY DEF CheckTypeOK

\* Learning something about one check keeps types and the ledger.
LEMMA Learning ==
  ASSUME CheckTypeOK, Ledger, NEW c \in Checks, NEW a \in Outcomes \cup {"bad"}, Learn(c, a),
         expired' = expired
  PROVE  /\ result' \in [Checks -> {"none", "ok", "failed"}]
         /\ answer' \in [Checks -> {"none", "good", "bad", "failed", "cut"}]
         /\ Ledger'
         /\ result'[c] # "none"
         /\ \A d \in Checks : result[d] # "none" => result'[d] # "none"
         /\ \A d \in Checks \ {c} : result'[d] = result[d]
<1>1. a \in {"good", "bad", "failed", "cut"} /\ (a = "cut" => expired)
  BY DEF Outcomes, CheckTypeOK
<1>2. /\ answer' = [answer EXCEPT ![c] = a]
      /\ result' = [result EXCEPT ![c] = IF a = "good" THEN "ok" ELSE "failed"]
  BY DEF Learn
<1>3. /\ result' \in [Checks -> {"none", "ok", "failed"}]
      /\ answer' \in [Checks -> {"none", "good", "bad", "failed", "cut"}]
      /\ result'[c] # "none"
      /\ \A d \in Checks \ {c} : result'[d] = result[d] /\ answer'[d] = answer[d]
      /\ answer'[c] = a /\ result'[c] = IF a = "good" THEN "ok" ELSE "failed"
  BY <1>1, <1>2 DEF CheckTypeOK
<1>4. Ledger'
  <2>1. ASSUME NEW d \in Checks
        PROVE  /\ result'[d] = "ok" <=> answer'[d] = "good"
               /\ result'[d] = "none" <=> answer'[d] = "none"
               /\ answer'[d] = "cut" => expired'
    <3>1. CASE d = c
      BY <1>1, <1>3, <3>1
    <3>2. CASE d # c
      BY <1>3, <3>2 DEF Ledger
    <3>3. QED
      BY <3>1, <3>2
  <2>2. QED
    BY <2>1 DEF Ledger
<1>5. QED
  BY <1>3, <1>4

LEMMA InitCInv == Init => CInv
<1> SUFFICES ASSUME Init PROVE CInv
  OBVIOUS
<1>1. CheckTypeOK
  <2>1. next \in 0 .. LastProbe + 1
    BY LastIsNat DEF Init
  <2>2. QED
    BY <2>1 DEF Init, CheckTypeOK
<1>2. Ledger
  BY DEF Init, Ledger
<1>3. Progress
  BY LastIsNat, Places DEF Init, Progress
<1>4. PassedIsTrue /\ RefusalIsReal
  BY DEF Init, PassedIsTrue, RefusalIsReal
<1>5. QED
  BY <1>1, <1>2, <1>3, <1>4 DEF CInv

LEMMA ConnectCInv == CInv /\ Connect => CInv'
<1> SUFFICES ASSUME CInv, Connect PROVE CInv'
  OBVIOUS
<1>1. PICK a \in Outcomes : Learn("connection", a) /\ online' = (a = "good")
  BY DEF Connect
<1>2. /\ next = 0 /\ next' = 1 /\ expired' = expired /\ running' = running /\ verdict' = verdict
      /\ CheckTypeOK /\ Ledger /\ Progress /\ "connection" \in Checks
  BY DEF Connect, CInv, Checks
<1>3. /\ result' \in [Checks -> {"none", "ok", "failed"}]
      /\ answer' \in [Checks -> {"none", "good", "bad", "failed", "cut"}]
      /\ Ledger' /\ result'["connection"] # "none"
  BY <1>1, <1>2, Learning
<1>4. verdict = "none" /\ running = {}
  BY <1>2, LastIsNat DEF Progress
<1>5. CheckTypeOK'
  <2>1. next' \in 0 .. LastProbe + 1
    BY <1>2, LastIsNat
  <2>2. QED
    BY <1>1, <1>2, <1>3, <2>1 DEF CheckTypeOK
<1>6. Progress'
  BY <1>2, <1>3, <1>4, LastIsNat, Places DEF Progress
<1>7. QED
  BY <1>2, <1>3, <1>4, <1>5, <1>6, NoVerdict DEF CInv

LEMMA ProbeCInv == CInv /\ Probe => CInv'
<1> SUFFICES ASSUME CInv, Probe PROVE CInv'
  OBVIOUS
<1>1. PICK a \in Outcomes \cup {"bad"} : Learn(Probes[next], a)
  BY DEF Probe
<1>2. /\ next \in DOMAIN Probes /\ next' = next + 1 /\ expired' = expired /\ online' = online
      /\ running' = running /\ verdict' = verdict
      /\ CheckTypeOK /\ Ledger /\ Progress /\ Probes[next] \in Checks
  BY DEF Probe, CInv, Checks, Calls
<1>3. /\ result' \in [Checks -> {"none", "ok", "failed"}]
      /\ answer' \in [Checks -> {"none", "good", "bad", "failed", "cut"}]
      /\ Ledger' /\ result'[Probes[next]] # "none"
      /\ \A d \in Checks : result[d] # "none" => result'[d] # "none"
  BY <1>1, <1>2, Learning
<1>4. verdict = "none" /\ running = {}
  BY <1>2, LastIsNat, Places DEF Progress
<1>5. CheckTypeOK'
  <2>1. next' \in 0 .. LastProbe + 1
    BY <1>2, LastIsNat, Places
  <2>2. QED
    BY <1>2, <1>3, <2>1 DEF CheckTypeOK
<1>6. \A n \in DOMAIN Probes : n < next' => result'[Probes[n]] # "none"
  <2> TAKE n \in DOMAIN Probes
  <2>1. Probes[n] \in Checks
    BY DEF Checks, Calls
  <2>2. CASE n = next
    BY <1>3, <2>2
  <2>3. CASE n < next
    BY <1>2, <1>3, <2>1, <2>3 DEF Progress
  <2>4. QED
    BY <1>2, <2>2, <2>3, LastIsNat, Places
<1>7. next > 0 /\ "connection" \in Checks /\ result["connection"] # "none"
  BY <1>2, LastIsNat, Places DEF Progress, Checks
<1>8. Progress'
  BY <1>2, <1>3, <1>4, <1>6, <1>7, LastIsNat, Places DEF Progress
<1>9. QED
  BY <1>2, <1>3, <1>4, <1>5, <1>8, NoVerdict DEF CInv

LEMMA AskCInv == ASSUME NEW c \in Permissions PROVE CInv /\ AskPermission(c) => CInv'
<1> SUFFICES ASSUME CInv, AskPermission(c) PROVE CInv'
  OBVIOUS
<1>1. /\ next > LastProbe /\ running' = running \cup {c}
      /\ UNCHANGED <<expired, online, next, result, answer, verdict>>
      /\ CheckTypeOK /\ Ledger /\ Progress /\ c \in Checks
  BY DEF AskPermission, CInv, Checks, Calls
<1>2. result[c] = "none"
  BY <1>1 DEF AskPermission, Asked, CheckTypeOK
<1>3. verdict = "none"
  BY <1>1, <1>2 DEF Progress
<1>4. CheckTypeOK' /\ Ledger'
  BY <1>1 DEF CheckTypeOK, Ledger
<1>5. Progress'
  BY <1>1, <1>2, <1>3 DEF Progress
<1>6. QED
  BY <1>1, <1>3, <1>4, <1>5, NoVerdict DEF CInv

LEMMA FinishCInv == ASSUME NEW c \in Permissions PROVE CInv /\ FinishPermission(c) => CInv'
<1> SUFFICES ASSUME CInv, FinishPermission(c) PROVE CInv'
  OBVIOUS
<1>1. PICK a \in Outcomes : Learn(c, a)
  BY DEF FinishPermission
<1>2. /\ c \in running /\ running' = running \ {c}
      /\ UNCHANGED <<expired, online, next, verdict>>
      /\ CheckTypeOK /\ Ledger /\ Progress /\ c \in Checks /\ "connection" \in Checks
  BY DEF FinishPermission, CInv, Checks, Calls
<1>3. /\ result' \in [Checks -> {"none", "ok", "failed"}]
      /\ answer' \in [Checks -> {"none", "good", "bad", "failed", "cut"}]
      /\ Ledger'
      /\ \A d \in Checks : result[d] # "none" => result'[d] # "none"
      /\ \A d \in Checks \ {c} : result'[d] = result[d]
  BY <1>1, <1>2, Learning
<1>4. verdict = "none" /\ next > LastProbe
  BY <1>2 DEF Progress
<1>5. CheckTypeOK'
  BY <1>2, <1>3 DEF CheckTypeOK
<1>6. \A n \in DOMAIN Probes : Probes[n] \in Checks
  BY DEF Checks, Calls
<1>7. \A d \in running \ {c} : d \in Checks \ {c}
  BY <1>2 DEF CheckTypeOK, Checks, Calls
<1>8. Progress'
  BY <1>2, <1>3, <1>4, <1>6, <1>7 DEF Progress
<1>9. QED
  BY <1>2, <1>3, <1>4, <1>5, <1>8, NoVerdict DEF CInv

LEMMA ReportCInv == CInv /\ Report => CInv'
<1> SUFFICES ASSUME CInv, Report PROVE CInv'
  OBVIOUS
<1>1. /\ next > LastProbe /\ verdict = "none"
      /\ \A c \in Permissions : result[c] # "none"
      /\ verdict' = IF expired THEN "timed out"
                    ELSE IF \E c \in Required : result[c] # "ok" THEN "refused" ELSE "passed"
      /\ UNCHANGED <<expired, online, next, running, result, answer>>
      /\ CheckTypeOK /\ Ledger /\ Progress
  BY DEF Report, CInv
<1>2. \A c \in Checks : result[c] # "none"
  <2>0. next > 0 /\ \A n \in DOMAIN Probes : n < next
    <3>1. next > LastProbe
      BY <1>1
    <3>2. next \in 0 .. LastProbe + 1
      BY <1>1, NextInRange
    <3>3. QED
      BY <3>1, <3>2, LastIsNat, Places
  <2>1. \A n \in DOMAIN Probes : result[Probes[n]] # "none"
    BY <1>1, <2>0 DEF Progress
  <2>2. result["connection"] # "none"
    BY <1>1, <2>0 DEF Progress
  <2>3. QED
    BY <1>1, <2>1, <2>2 DEF Checks, Calls
<1>3. Required \subseteq Checks
  BY DEF Required
<1>4. CheckTypeOK' /\ Ledger' /\ Progress'
  BY <1>1 DEF CheckTypeOK, Ledger, Progress
<1>5. PassedIsTrue'
  BY <1>1, <1>3 DEF PassedIsTrue, Ledger
<1>6. RefusalIsReal'
  <2> SUFFICES ASSUME verdict' = "refused"
               PROVE  /\ \A c \in Checks : answer[c] # "cut"
                      /\ \E c \in Required : answer[c] \in {"bad", "failed"}
    BY <1>1 DEF RefusalIsReal
  <2>1. ~expired /\ \E c \in Required : result[c] # "ok"
    BY <1>1
  <2>2. \A c \in Checks : answer[c] # "cut" /\ answer[c] # "none"
    BY <1>1, <1>2, <2>1 DEF Ledger
  <2>3. PICK c \in Required : result[c] # "ok"
    BY <2>1
  <2>4. answer[c] \in {"bad", "failed"}
    BY <1>1, <1>3, <2>2, <2>3 DEF CheckTypeOK, Ledger
  <2>5. QED
    BY <2>2, <2>4
<1>7. QED
  BY <1>4, <1>5, <1>6 DEF CInv

LEMMA ExpireCInv == CInv /\ Expire => CInv'
<1> SUFFICES ASSUME CInv, Expire PROVE CInv'
  OBVIOUS
<1>1. CheckTypeOK' /\ Ledger' /\ Progress'
  BY DEF CInv, Expire, CheckTypeOK, Ledger, Progress
<1>2. QED
  BY <1>1, NoVerdict DEF CInv, Expire

LEMMA StepCInv == CInv /\ [Step \/ Expire]_vars => CInv'
<1> SUFFICES ASSUME CInv, [Step \/ Expire]_vars PROVE CInv'
  OBVIOUS
<1>1. CASE Step
  BY <1>1, ConnectCInv, ProbeCInv, AskCInv, FinishCInv, ReportCInv DEF Step
<1>2. CASE Expire
  BY <1>2, ExpireCInv
<1>3. CASE UNCHANGED vars
  BY <1>3 DEF vars, CInv, CheckTypeOK, Ledger, Progress, PassedIsTrue, RefusalIsReal
<1>4. QED
  BY <1>1, <1>2, <1>3

\* The state of a check keeps its type, the report is made of every answer, and nothing
\* changes after it (runCheck, checkAccess and checkCommand).
THEOREM CheckInductive == Spec => []CInv
BY InitCInv, StepCInv, PTL DEF Spec

\* The state of a check is well typed: the permissions under way are ones asked for, and
\* a check has one result and one answer behind it.
THEOREM ChecksTypeCorrect == Spec => []CheckTypeOK
<1>1. CInv => CheckTypeOK
  BY DEF CInv
<1>2. QED
  BY <1>1, CheckInductive, PTL

\* cluster check says that everything is in place only when each required probe and
\* permission was answered well, however their calls overlap.
THEOREM PassedChecks == Spec => []PassedIsTrue
<1>1. CInv => PassedIsTrue
  BY DEF CInv
<1>2. QED
  BY <1>1, CheckInductive, PTL

\* cluster check refuses only for what the cluster or a call of its own got wrong, never
\* for calls that the overall deadline cut short.
THEOREM RefusedChecks == Spec => []RefusalIsReal
<1>1. CInv => RefusalIsReal
  BY DEF CInv
<1>2. QED
  BY <1>1, CheckInductive, PTL
=============================================================================
