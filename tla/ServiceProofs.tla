----------------------------- MODULE ServiceProofs -----------------------------
(***************************************************************************)
(* What a running service rests on: at most one readiness probe, for any   *)
(* number of requests; what serve leaves behind, reports and answers,      *)
(* whatever its two servers do; and the committed schema below it, for any *)
(* number of processes of any releases from 0007 on.                       *)
(***************************************************************************)
EXTENDS Serve, SchemaMigration, TLAPS

(* Who stands for the 1 in _active_count: a request that will start its thread,
   or a thread that has not released yet. *)
Holds(c) == check[c].stage = "admitted" \/ Asking(c)

OneHolder ==
  /\ \A c \in Checks : check[c].stage \in {"none", "admitted"} => probe[c].thread = "none"
  /\ \A c \in Checks : Holds(c) => active = 1
  /\ \A c, d \in Checks : Holds(c) /\ Holds(d) => c = d

ProbeInv ==
  /\ active \in {0, 1} /\ closed \in BOOLEAN
  /\ check \in [Checks -> CheckType]
  /\ probe \in [Checks -> ProbeType]
  /\ OneHolder

(* The empty runner holds nothing. *)
LEMMA InitProbeInv == ProbeInit => ProbeInv
<1> SUFFICES ASSUME ProbeInit PROVE ProbeInv
  OBVIOUS
<1>1. [stage |-> "none", outcome |-> "failed", wasUp |-> FALSE] \in CheckType
  BY DEF CheckType, Stages, Outcomes
<1>2. [thread |-> "none", outcome |-> "failed"] \in ProbeType
  BY DEF ProbeType, Threads, Outcomes
<1>3. \A c \in Checks : check[c].stage = "none" /\ probe[c].thread = "none"
  BY DEF ProbeInit
<1>4. OneHolder
  BY <1>3 DEF OneHolder, Holds, Asking
<1> QED
  BY <1>1, <1>2, <1>4 DEF ProbeInit, ProbeInv

(* What Step and Thread do: one request moves on, the others stay. *)
LEMMA StepMoves ==
  ASSUME check \in [Checks -> CheckType], NEW c \in Checks,
         NEW stage \in Stages \cup Answers, Step(c, stage)
  PROVE  /\ check' \in [Checks -> CheckType]
         /\ check'[c].stage = stage
         /\ \A d \in Checks \ {c} : check'[d] = check[d]
BY DEF Step, CheckType

LEMMA ThreadMoves ==
  ASSUME probe \in [Checks -> ProbeType], NEW c \in Checks,
         NEW thread \in Threads, Thread(c, thread)
  PROVE  /\ probe' \in [Checks -> ProbeType]
         /\ probe'[c].thread = thread
         /\ \A d \in Checks \ {c} : probe'[d] = probe[d]
BY DEF Thread, ProbeType

(* A request takes the slot only when nobody holds it, and hands it to its own
   thread; answers do not touch it. *)
LEMMA RequestStep ==
  ASSUME ProbeInv, NEW c \in Checks, Request(c)
  PROVE  ProbeInv'
<1> USE DEF ProbeInv
<1>1. CASE Arrive(c) /\ Admitted
  <2>1. check' = [check EXCEPT ![c] = [stage |-> "admitted", outcome |-> check[c].outcome,
                                       wasUp |-> check'[c].wasUp]]
    BY <1>1 DEF Arrive, CheckType
  <2>2. check' \in [Checks -> CheckType]
    <3>1. [stage |-> "admitted", outcome |-> check[c].outcome,
           wasUp |-> check'[c].wasUp] \in CheckType
      BY <1>1 DEF Arrive, CheckType, Stages
    <3> QED
      BY <2>1, <3>1
  <2>3. check'[c].stage = "admitted" /\ \A d \in Checks \ {c} : check'[d] = check[d]
    BY <2>1
  <2>4. active = 0 /\ active' = 1 /\ probe' = probe /\ closed' = closed
    BY <1>1 DEF Arrive, Admitted
  <2>5. check[c].stage = "none"
    BY <1>1 DEF Arrive
  <2>6. OneHolder'
    BY <2>3, <2>4, <2>5 DEF OneHolder, Holds, Asking
  <2> QED
    BY <2>2, <2>4, <2>6
<1>2. CASE Arrive(c) /\ ~Admitted
  <2>1. Step(c, "busy") /\ UNCHANGED <<active, closed, probe>>
    BY <1>2 DEF Arrive
  <2>2. check' \in [Checks -> CheckType] /\ check'[c].stage = "busy"
        /\ \A d \in Checks \ {c} : check'[d] = check[d]
    BY <2>1, StepMoves DEF Answers
  <2>3. OneHolder'
    BY <2>1, <2>2 DEF OneHolder, Holds, Asking
  <2> QED
    BY <2>1, <2>2, <2>3
<1>3. CASE Start(c)
  <2>1. check[c].stage = "admitted" /\ UNCHANGED runner
    BY <1>3 DEF Start
  <2>2. CASE Step(c, "waiting") /\ Thread(c, "running")
    <3>1. check' \in [Checks -> CheckType] /\ check'[c].stage = "waiting"
          /\ \A d \in Checks \ {c} : check'[d] = check[d]
      BY <2>2, StepMoves DEF Stages
    <3>2. probe' \in [Checks -> ProbeType]
          /\ \A d \in Checks \ {c} : probe'[d] = probe[d]
      BY <2>2, ThreadMoves DEF Threads
    <3>3. OneHolder'
      BY <2>1, <3>1, <3>2 DEF OneHolder, Holds, Asking, runner
    <3> QED
      BY <2>1, <3>1, <3>2, <3>3 DEF runner
  <2>3. CASE Step(c, "error") /\ UNCHANGED probe
    <3>1. check' \in [Checks -> CheckType] /\ check'[c].stage = "error"
          /\ \A d \in Checks \ {c} : check'[d] = check[d]
      BY <2>3, StepMoves DEF Answers
    <3>2. OneHolder'
      BY <2>1, <2>3, <3>1 DEF OneHolder, Holds, Asking, runner
    <3> QED
      BY <2>1, <2>3, <3>1, <3>2 DEF runner
  <2> QED
    BY <1>3, <2>2, <2>3 DEF Start
<1>4. CASE Respond(c) \/ TimeOut(c)
  <2>1. PICK answer \in Answers : Step(c, answer)
    <3>1. check[c].outcome \in Answers
      BY DEF CheckType, Outcomes, Answers
    <3> QED
      BY <1>4, <3>1 DEF Respond, TimeOut, Answers
  <2>2. check[c].stage \in {"waiting", "resumed"} /\ UNCHANGED <<runner, probe>>
    BY <1>4 DEF Respond, TimeOut
  <2>3. check' \in [Checks -> CheckType] /\ check'[c].stage = answer
        /\ \A d \in Checks \ {c} : check'[d] = check[d]
    BY <2>1, StepMoves
  <2>4. answer \notin {"none", "admitted"}
    BY DEF Answers
  <2>5. OneHolder'
    BY <2>2, <2>3, <2>4 DEF OneHolder, Holds, Asking, runner
  <2> QED
    BY <2>2, <2>3, <2>5 DEF runner
<1> QED
  BY <1>1, <1>2, <1>3, <1>4 DEF Request

(* A thread gives the slot back once, after its query. *)
LEMMA DaemonStep ==
  ASSUME ProbeInv, NEW c \in Checks, Daemon(c)
  PROVE  ProbeInv'
<1> USE DEF ProbeInv
<1>1. CASE AskDatabase(c)
  <2>1. PICK o \in Outcomes :
          probe' = [probe EXCEPT ![c] = [thread |-> "asked", outcome |-> o]]
    BY <1>1 DEF AskDatabase, Outcomes
  <2>2. [thread |-> "asked", outcome |-> o] \in ProbeType
    BY DEF ProbeType, Threads
  <2>3. probe' \in [Checks -> ProbeType] /\ probe'[c].thread = "asked"
        /\ \A d \in Checks \ {c} : probe'[d] = probe[d]
    BY <2>1, <2>2
  <2>4. probe[c].thread = "running" /\ UNCHANGED <<runner, check>>
    BY <1>1 DEF AskDatabase
  <2>5. OneHolder'
    BY <2>3, <2>4 DEF OneHolder, Holds, Asking, runner
  <2> QED
    BY <2>3, <2>4, <2>5 DEF runner
<1>2. CASE Release(c)
  <2>1. probe[c].thread = "asked" /\ UNCHANGED <<closed, check>>
    BY <1>2 DEF Release
  <2>2. active = 1 /\ \A d \in Checks : Holds(d) => d = c
    BY <2>1 DEF OneHolder, Holds, Asking
  <2>3. active' = 0
    BY <1>2, <2>2 DEF Release, Released
  <2>4. probe' \in [Checks -> ProbeType] /\ probe'[c].thread = "released"
        /\ \A d \in Checks \ {c} : probe'[d] = probe[d]
    BY <1>2, ThreadMoves DEF Release, Threads
  <2>5. \A d \in Checks : ~Holds(d)'
    BY <2>1, <2>2, <2>4 DEF OneHolder, Holds, Asking
  <2>6. OneHolder'
    BY <2>1, <2>4, <2>5 DEF OneHolder
  <2> QED
    BY <2>1, <2>3, <2>4, <2>6
<1>3. CASE Deliver(c)
  <2> DEFINE Resumed(d) == [check[d] EXCEPT !.stage = "resumed",
                                            !.outcome = probe[c].outcome]
  <2>1. \A d \in Checks : Resumed(d) \in CheckType /\ Resumed(d).stage = "resumed"
    BY DEF CheckType, ProbeType, Stages
  <2> HIDE DEF Resumed
  <2>2. check' = [d \in Checks |-> IF d \in Recipients(c) /\ ~stopped
                                   THEN Resumed(d) ELSE check[d]]
    BY <1>3 DEF Deliver, Resumed
  <2>3. check' \in [Checks -> CheckType]
    BY <2>1, <2>2
  <2>4. \A d \in Checks : \/ check'[d].stage = check[d].stage
                          \/ check[d].stage = "waiting" /\ check'[d].stage = "resumed"
    BY <2>1, <2>2 DEF Recipients
  <2>5. probe[c].thread = "released" /\ UNCHANGED runner
    BY <1>3 DEF Deliver
  <2>6. probe' \in [Checks -> ProbeType] /\ probe'[c].thread = "ended"
        /\ \A d \in Checks \ {c} : probe'[d] = probe[d]
    BY <1>3, ThreadMoves DEF Deliver, Threads
  <2>7. OneHolder'
    BY <2>4, <2>5, <2>6 DEF OneHolder, Holds, Asking, runner
  <2> QED
    BY <2>3, <2>5, <2>6, <2>7 DEF runner
<1> QED
  BY <1>1, <1>2, <1>3 DEF Daemon

(* Shutdown and the database leave the slot alone. *)
LEMMA OtherStep ==
  ASSUME ProbeInv, Close \/ Stop \/ DatabaseChanges \/ UNCHANGED probeVars
  PROVE  ProbeInv'
<1> USE DEF ProbeInv
<1>1. CASE Close \/ Stop \/ UNCHANGED probeVars
  BY <1>1 DEF Close, Stop, probeVars, runner, OneHolder, Holds, Asking
<1>2. CASE DatabaseChanges
  <2> DEFINE Seen(c) == [check[c] EXCEPT !.wasUp = TRUE]
  <2>1. \A c \in Checks : Seen(c) \in CheckType /\ Seen(c).stage = check[c].stage
    BY DEF CheckType
  <2> HIDE DEF Seen
  <2>2. check' = [c \in Checks |-> IF check[c].stage \in Stages \ {"none"}
                                   THEN Seen(c) ELSE check[c]]
    BY <1>2 DEF DatabaseChanges, Seen
  <2>3. check' \in [Checks -> CheckType]
        /\ \A c \in Checks : check'[c].stage = check[c].stage
    BY <2>1, <2>2
  <2>4. UNCHANGED <<active, closed, probe>>
    BY <1>2 DEF DatabaseChanges, runner
  <2>5. OneHolder'
    BY <2>3, <2>4 DEF OneHolder, Holds, Asking
  <2> QED
    BY <2>3, <2>4, <2>5
<1> QED
  BY <1>1, <1>2

(* ProbeInv is inductive. *)
LEMMA ProbeInvariance == ProbeSpec => []ProbeInv
<1>1. ProbeInv /\ [ProbeNext]_probeVars => ProbeInv'
  BY RequestStep, DaemonStep, OtherStep DEF ProbeNext
<1> QED
  BY InitProbeInv, <1>1, PTL DEF ProbeSpec

(* For any number of requests, at most one thread asks the database. *)
THEOREM AtMostOneProbe == ProbeSpec => []OneProbe
<1>1. ProbeInv => OneProbe
  BY DEF ProbeInv, OneHolder, OneProbe, Holds
<1> QED
  BY ProbeInvariance, <1>1, PTL

(* A closed runner admits no request. *)
THEOREM NothingAfterClose == ProbeSpec => ClosedAdmitsNothing
<1>1. ProbeInv /\ [ProbeNext]_probeVars => (closed => active' <= active)
  <2> SUFFICES ASSUME ProbeInv, [ProbeNext]_probeVars, closed PROVE active' <= active
    OBVIOUS
  <2>1. ~Admitted
    BY DEF Admitted
  <2>2. ASSUME NEW c \in Checks, Request(c) PROVE active' = active
    BY <2>1, <2>2 DEF Request, Arrive, Start, Respond, TimeOut, runner
  <2>3. ASSUME NEW c \in Checks, Daemon(c) PROVE active' \in {active, active - 1}
    BY <2>3 DEF Daemon, AskDatabase, Release, Released, Deliver, runner
  <2>4. ASSUME Close \/ Stop \/ DatabaseChanges \/ UNCHANGED probeVars PROVE active' = active
    BY <2>4 DEF Close, Stop, DatabaseChanges, probeVars, runner
  <2>5. active' \in {active, active - 1}
    BY <2>2, <2>3, <2>4 DEF ProbeNext
  <2>6. active \in {0, 1}
    BY DEF ProbeInv
  <2> QED
    BY <2>5, <2>6
<1> QED
  BY ProbeInvariance, <1>1, PTL DEF ProbeSpec, ClosedAdmitsNothing
-----------------------------------------------------------------------------
(* Where a "ready" comes from: a query that the database answered after the
   request was admitted.  An outcome is the request's own (a thread delivers to
   the request that started it, or to nobody). *)
Honest ==
  \A c \in Checks :
    /\ probe[c].thread = "none" => probe[c].outcome = "failed"
    /\ check[c].stage = "none" => check[c].outcome = "failed"
    /\ check[c].stage \in Stages \ {"none"} =>
         \/ check[c].wasUp
         \/ ~up /\ probe[c].outcome = "failed" /\ check[c].outcome = "failed"
    /\ check[c].stage = "ready" => check[c].wasUp

LEMMA HonestInit == ProbeInit => Honest
BY DEF ProbeInit, Honest, Stages

LEMMA HonestRequest ==
  ASSUME ProbeInv, Honest, NEW c \in Checks, Request(c)
  PROVE  Honest'
<1>1. check \in [Checks -> CheckType] /\ probe \in [Checks -> ProbeType]
      /\ (check[c].stage = "none" => probe[c].thread = "none")
  BY DEF ProbeInv, OneHolder
<1>2. CASE Arrive(c) /\ Admitted
  <2>1. /\ check'[c].stage = "admitted" /\ check'[c].outcome = "failed"
        /\ check'[c].wasUp = up
        /\ \A d \in Checks \ {c} : check'[d] = check[d]
        /\ probe[c].outcome = "failed" /\ UNCHANGED <<probe, up>>
    BY <1>1, <1>2 DEF Arrive, CheckType, Honest
  <2>2. up \/ ~up
    OBVIOUS
  <2> QED
    BY <2>1, <1>1, <1>2 DEF Honest, Stages, Arrive
<1>3. CASE ~(Arrive(c) /\ Admitted)
  <2>1. UNCHANGED up
    BY <1>3 DEF Request, Arrive, Start, Respond, TimeOut
  <2>2. /\ \A d \in Checks : probe'[d].outcome = probe[d].outcome
        /\ \A d \in Checks : probe[d].thread # "none" => probe'[d].thread # "none"
    BY <1>1 DEF Request, Arrive, Start, Respond, TimeOut, Thread, ProbeType
  <2>3. /\ \A d \in Checks \ {c} : check'[d] = check[d]
        /\ check'[c].outcome = check[c].outcome /\ check'[c].wasUp = check[c].wasUp
    BY <1>1, <1>3 DEF Request, Arrive, Start, Respond, TimeOut, Step, CheckType
  <2>4. /\ check'[c].stage \in Stages =>
             check[c].stage \in Stages \ {"none"} /\ check'[c].stage # "none"
        /\ check'[c].stage = "ready" =>
             check[c].stage = "resumed" /\ check[c].outcome = "ready"
    BY <1>1, <1>3 DEF Request, Arrive, Start, Respond, TimeOut, Step, CheckType,
                      Stages, Outcomes
  <2> QED
    BY <2>1, <2>2, <2>3, <2>4 DEF Honest, Stages
<1> QED
  BY <1>2, <1>3

LEMMA HonestDaemon ==
  ASSUME ProbeInv, Honest, NEW c \in Checks, Daemon(c)
  PROVE  Honest'
<1>1. check \in [Checks -> CheckType] /\ probe \in [Checks -> ProbeType]
      /\ probe[c].outcome \in Outcomes
      /\ (check[c].stage = "none" => probe[c].thread = "none")
  BY DEF ProbeInv, OneHolder, ProbeType
<1>2. CASE AskDatabase(c)
  <2>1. /\ probe'[c].thread = "asked" /\ probe'[c].outcome \in Outcomes
        /\ ~up => probe'[c].outcome = "failed"
        /\ \A d \in Checks \ {c} : probe'[d] = probe[d]
        /\ UNCHANGED <<check, up>> /\ probe[c].thread = "running"
    BY <1>1, <1>2 DEF AskDatabase, Outcomes
  <2> QED
    BY <1>1, <2>1 DEF Honest, Stages
<1>3. CASE Release(c)
  <2>1. /\ \A d \in Checks : probe'[d].outcome = probe[d].outcome
        /\ \A d \in Checks : probe'[d].thread = "none" => probe[d].thread = "none"
        /\ UNCHANGED <<check, up>>
    BY <1>1, <1>3 DEF Release, Thread, ProbeType
  <2> QED
    BY <2>1 DEF Honest
<1>4. CASE Deliver(c)
  <2>1. /\ \A d \in Checks : probe'[d].outcome = probe[d].outcome
        /\ \A d \in Checks : probe'[d].thread = "none" => probe[d].thread = "none"
        /\ UNCHANGED up
    BY <1>1, <1>4 DEF Deliver, Thread, ProbeType
  <2>2. \A d \in Checks \ {c} : check'[d] = check[d]
    BY <1>4 DEF Deliver, Recipients
  <2>3. \/ check'[c] = check[c]
        \/ /\ check[c].stage = "waiting" /\ check'[c].stage = "resumed"
           /\ check'[c].outcome = probe[c].outcome /\ check'[c].wasUp = check[c].wasUp
    BY <1>1, <1>4 DEF Deliver, Recipients, CheckType
  <2> QED
    BY <1>1, <2>1, <2>2, <2>3 DEF Honest, Stages
<1> QED
  BY <1>2, <1>3, <1>4 DEF Daemon

LEMMA HonestOther ==
  ASSUME ProbeInv, Honest, Close \/ Stop \/ DatabaseChanges \/ UNCHANGED probeVars
  PROVE  Honest'
<1>1. CASE Close \/ Stop \/ UNCHANGED probeVars
  BY <1>1 DEF Close, Stop, probeVars, runner, Honest
<1>2. CASE DatabaseChanges
  <2>1. check \in [Checks -> CheckType]
    BY DEF ProbeInv
  <2>2. /\ UNCHANGED probe
        /\ \A c \in Checks : /\ check'[c].stage = check[c].stage
                             /\ check'[c].outcome = check[c].outcome
                             /\ check[c].stage \in Stages \ {"none"} => check'[c].wasUp
                             /\ check[c].stage = "ready" => check'[c].wasUp = check[c].wasUp
    BY <1>2, <2>1 DEF DatabaseChanges, CheckType, Stages
  <2> QED
    BY <2>2 DEF Honest
<1> QED
  BY <1>1, <1>2

(* The end of the loop, when the server fails, is one more way to answer. *)
LEMMA FailureStep ==
  ASSUME ProbeInv, Honest, ApiFails
  PROVE  ProbeInv' /\ Honest'
<1>1. check \in [Checks -> CheckType] /\ UNCHANGED <<active, closed, up, probe>>
  BY DEF ProbeInv, ApiFails, runner
<1> DEFINE Failed(c) == [check[c] EXCEPT !.stage = "error"]
<1>2. \A c \in Checks : /\ Failed(c) \in CheckType /\ Failed(c).stage = "error"
                        /\ Failed(c).outcome = check[c].outcome
                        /\ Failed(c).wasUp = check[c].wasUp
  BY <1>1 DEF CheckType, Answers
<1> HIDE DEF Failed
<1>3. check' = [c \in Checks |-> IF check[c].stage \in Stages \ {"none"}
                                 THEN Failed(c) ELSE check[c]]
  BY DEF ApiFails, Failed
<1>4. /\ check' \in [Checks -> CheckType]
      /\ \A c \in Checks : check'[c].stage = "error" \/ check'[c] = check[c]
      /\ \A c \in Checks : check'[c].stage \notin Stages \ {"none"}
  BY <1>1, <1>2, <1>3 DEF Stages
<1>5. OneHolder'
  BY <1>1, <1>4 DEF ProbeInv, OneHolder, Holds, Asking, Stages
<1>6. Honest'
  BY <1>1, <1>4 DEF Honest, Stages
<1> QED
  BY <1>1, <1>4, <1>5, <1>6 DEF ProbeInv

(* What a step of serve is to the runner. *)
LEMMA ServeStepsOfTheRunner == [ServeNext]_allVars => [ProbeNext]_probeVars \/ ApiFails
<1> SUFFICES ASSUME [ServeNext]_allVars, ~ApiFails PROVE [ProbeNext]_probeVars
  OBVIOUS
<1>1. CASE MainSteps \/ Interrupt \/ InterruptAgain \/ FrontEnds \/ UNCHANGED allVars
  BY <1>1 DEF MainSteps, Prepare, Unpack, StartFront, StartApi, Watch, Judge,
              StopServers, Terminated, KillFront, Killed, Join, Report, Leave,
              EndProcess, Interrupt, InterruptAgain, FrontEnds, allVars
<1>2. CASE ApiCloses \/ ApiStops
  BY <1>2 DEF ApiCloses, ApiStops, ProbeNext
<1>3. CASE Probes
  BY <1>3 DEF Probes, ProbeNext, Request
<1> QED
  BY <1>1, <1>2, <1>3 DEF ServeNext

LEMMA ServedRunner == ServeSpec => [](ProbeInv /\ Honest)
<1>1. ServeInit => ProbeInv /\ Honest
  BY InitProbeInv, HonestInit DEF ServeInit
<1>2. ProbeInv /\ Honest /\ [ProbeNext]_probeVars => ProbeInv' /\ Honest'
  BY RequestStep, DaemonStep, OtherStep, HonestRequest, HonestDaemon, HonestOther DEF ProbeNext
<1>3. ProbeInv /\ Honest /\ [ServeNext]_allVars => ProbeInv' /\ Honest'
  BY <1>2, FailureStep, ServeStepsOfTheRunner
<1> QED
  BY <1>1, <1>3, PTL DEF ServeSpec

(* Served by serve, a probe is still alone, and "ready" is never the outcome of a
   probe that an earlier, abandoned request left behind. *)
THEOREM ReadyIsTrue == ServeSpec => [](OneProbe /\ ReadyWasTrue)
<1>1. ProbeInv /\ Honest => OneProbe /\ ReadyWasTrue
  BY DEF ProbeInv, OneHolder, OneProbe, Holds, Honest, ReadyWasTrue
<1> QED
  BY ServedRunner, <1>1, PTL
-----------------------------------------------------------------------------
(* How far serve is. *)
Starting == {"prepare", "unpack", "start", "attach"}
Watching == {"watch", "judge"}
Stopping == {"stop", "terminate", "kill", "join", "report"}
Over == {"leave", "left", "ended"}

(* The shutdown of the API is the doing of the main thread: the loop closes its
   runner only when asked, asked is set once serve stops, and an API that ended
   without being asked has failed. *)
ApiInv ==
  /\ main.stage \in Starting => api = "none"
  /\ main.stage \in Watching \cup {"stop"} => ~asked
  /\ main.stage \in Starting => ~asked
  /\ closed => asked
  /\ api = "ended" => closed
  /\ main.stage \in Watching \cup Stopping => api \in {"running", "failed", "ended"}

(* The dashboard is dead once serve has come past the stages that stop it. *)
FrontInv ==
  /\ main.stage \in {"prepare", "unpack", "start"} => front = "none"
  /\ main.stage \in {"kill", "join", "report"} => ~FrontAlive
  /\ main.stage \in Over => (FrontAlive => "cut" \in events)
  /\ Left => ~runtime

(* Nobody stops without a cause, and a cause other than the user is not forgotten:
   a dead dashboard was judged a failure, a dead API stays one. *)
CauseInv ==
  /\ main.stage = "judge" => ~ApiAlive \/ ~FrontAlive
  /\ main.stage \in Stopping =>
       "interrupted" \in events \/ main.frontFailed \/ api = "failed"
  /\ main.stage \in Over => main.code = 1 \/ "interrupted" \in events

ServeType ==
  /\ main \in [stage : Starting \cup Watching \cup Stopping \cup Over,
               code : {0, 1}, frontFailed : BOOLEAN]
  /\ events \subseteq {"cut", "interrupted"}

ServeInv == ServeType /\ ApiInv /\ FrontInv /\ CauseInv

LEMMA ServeInit_Inv == ServeInit => ServeInv
BY DEF ServeInit, ProbeInit, ServeInv, ServeType, ApiInv, FrontInv, CauseInv, FrontAlive,
       Starting, Watching, Stopping, Over, Left

(* What Main and Exit do to the main thread's record. *)
LEMMA MainMoves ==
  ASSUME ServeType, NEW stage \in Starting \cup Watching \cup Stopping \cup Over,
         Main(stage)
  PROVE  /\ main' \in [stage : Starting \cup Watching \cup Stopping \cup Over,
                       code : {0, 1}, frontFailed : BOOLEAN]
         /\ main'.stage = stage /\ main'.code = main.code
         /\ main'.frontFailed = main.frontFailed
BY DEF ServeType, Main

LEMMA ExitMoves ==
  ASSUME ServeType, NEW code \in {0, 1}, Exit(code)
  PROVE  /\ main' \in [stage : Starting \cup Watching \cup Stopping \cup Over,
                       code : {0, 1}, frontFailed : BOOLEAN]
         /\ main'.stage = "leave" /\ main'.code = code
         /\ main'.frontFailed = main.frontFailed
BY DEF ServeType, Exit, Over

(* From the first checks to the two servers running. *)
LEMMA StartingSteps ==
  ASSUME ServeInv, Prepare \/ Unpack \/ StartFront \/ StartApi
  PROVE  ServeInv'
<1> USE DEF ServeInv, ApiInv, FrontInv, CauseInv, FrontAlive, ApiAlive,
            Starting, Watching, Stopping, Over, Left
<1>1. UNCHANGED <<closed, asked>> /\ main.stage \in Starting
  BY DEF Prepare, Unpack, StartFront, StartApi, probeVars, runner
<1>2. CASE main'.stage = "leave"
  <2>1. Exit(1)
    BY <1>2, MainMoves DEF Prepare, Unpack, StartFront, StartApi
  <2>2. ServeType'
    BY <2>1, ExitMoves DEF ServeType, Prepare, Unpack, StartFront, StartApi
  <2>3. UNCHANGED <<api, front>> /\ (FrontAlive => "cut" \in events')
    BY <1>2, <2>1 DEF Prepare, Unpack, StartFront, StartApi, Main, ServeType
  <2> QED
    BY <1>1, <1>2, <2>1, <2>2, <2>3, ExitMoves
<1>3. CASE main'.stage # "leave"
  <2>1. ~Exit(1)
    BY <1>3, ExitMoves
  <2>2. PICK stage \in {"unpack", "start", "attach", "watch"} : Main(stage)
    BY <2>1 DEF Prepare, Unpack, StartFront, StartApi
  <2>3. ServeType' /\ main'.stage = stage
    BY <2>1, <2>2, MainMoves DEF ServeType, Prepare, Unpack, StartFront, StartApi
  <2>4. /\ stage \in {"unpack", "start"} => front' = "none"
        /\ stage # "watch" => api' = "none"
        /\ stage = "watch" => api' = "running"
    BY <2>1, <2>2, <2>3, MainMoves DEF Prepare, Unpack, StartFront, StartApi, Main, ServeType
  <2> QED
    BY <1>1, <2>3, <2>4
<1> QED
  BY <1>2, <1>3

(* The watch ends with a cause. *)
LEMMA WatchingSteps ==
  ASSUME ServeInv, Watch \/ Judge \/ Interrupt
  PROVE  ServeInv'
<1> USE DEF ServeInv, ApiInv, FrontInv, CauseInv, FrontAlive, ApiAlive,
            Starting, Watching, Stopping, Over, Left
<1>1. UNCHANGED <<closed, api, front, runtime, asked>> /\ main.stage \in Watching
  BY DEF Watch, Judge, Interrupt, probeVars, runner
<1>2. CASE Watch
  <2>1. ServeType' /\ main'.stage = "judge"
    BY <1>2, MainMoves DEF Watch, ServeType
  <2> QED
    BY <1>1, <1>2, <2>1 DEF Watch
<1>3. CASE Judge
  <2>1. ServeType' /\ main'.stage = "stop" /\ main'.frontFailed = FrontFailed
    BY <1>3 DEF Judge, ServeType, FrontFailed
  <2>2. FrontFailed \/ api = "failed"
    BY <1>1, <1>3 DEF Judge, FrontFailed
  <2>3. CauseInv'
    BY <1>1, <2>1, <2>2
  <2> QED
    BY <1>1, <2>1, <2>3
<1>4. CASE Interrupt
  <2>1. ServeType' /\ main'.stage = "stop" /\ "interrupted" \in events'
    BY <1>4, MainMoves DEF Interrupt, ServeType
  <2> QED
    BY <1>1, <2>1
<1> QED
  BY <1>2, <1>3, <1>4

(* The dashboard is terminated, killed, waited for; a cut clean-up is marked. *)
LEMMA StoppingSteps ==
  ASSUME ServeInv,
         StopServers \/ Terminated \/ KillFront \/ Killed \/ Join \/ InterruptAgain
  PROVE  ServeInv'
<1> USE DEF ServeInv, ApiInv, FrontInv, CauseInv, FrontAlive, ApiAlive,
            Starting, Watching, Stopping, Over, Left
<1>1. /\ UNCHANGED <<closed, api, runtime>> /\ main.stage \in Stopping
      /\ events \subseteq events' /\ (asked => asked')
  BY DEF StopServers, Terminated, KillFront, Killed, Join, InterruptAgain, Ignored,
         probeVars, runner
<1>2. CASE Exit(1)
  <2>1. main'.stage = "leave" /\ main'.code = 1
    BY <1>2, ExitMoves
  <2>2. InterruptAgain \/ (Killed /\ "cut" \in events')
    <3>1. ASSUME NEW stage \in {"terminate", "kill", "join", "report"} PROVE ~Main(stage)
      BY <2>1, <3>1, MainMoves
    <3> QED
      BY <3>1 DEF StopServers, Stops, Terminated, KillFront, Killed, Join
  <2>3. ServeType' /\ "cut" \in events'
    BY <1>2, <2>2, ExitMoves DEF InterruptAgain, Killed, ServeType
  <2> QED
    BY <1>1, <2>1, <2>3
<1>3. CASE ~Exit(1)
  <2>1. PICK stage \in {"terminate", "kill", "join", "report"} : Main(stage)
    BY <1>3 DEF StopServers, Stops, Terminated, KillFront, Killed, Join, InterruptAgain
  <2>2. /\ ServeType' /\ main'.stage = stage /\ main'.frontFailed = main.frontFailed
        /\ UNCHANGED events
    BY <1>3, <2>1, MainMoves
       DEF StopServers, Terminated, KillFront, Killed, Join, InterruptAgain, ServeType
  <2>3. stage \in {"kill", "join", "report"} => front' \notin {"running", "terminated"}
    BY <1>3, <2>2, MainMoves
       DEF StopServers, Stops, Terminated, KillFront, Killed, Join, InterruptAgain
  <2> QED
    BY <1>1, <2>2, <2>3
<1> QED
  BY <1>2, <1>3

(* The exit code: 0 only when no failure is known, and then the user asked. *)
LEMMA LastSteps ==
  ASSUME ServeInv, Report \/ Leave \/ EndProcess
  PROVE  ServeInv'
<1> USE DEF ServeInv, ApiInv, FrontInv, CauseInv, FrontAlive, ApiAlive,
            Starting, Watching, Stopping, Over, Left
<1>1. UNCHANGED <<closed, api, front, asked, events>>
  BY DEF Report, Leave, EndProcess, probeVars, runner
<1>2. CASE Report
  <2>1. ServeType' /\ main'.stage = "leave"
        /\ (main'.code = 1 \/ (~ApiFailed /\ ~main.frontFailed))
    BY <1>2, ExitMoves DEF Report, ServeType
  <2> QED
    BY <1>1, <1>2, <2>1 DEF Report, ApiFailed
<1>3. CASE Leave
  <2>1. ServeType' /\ main'.stage = "left" /\ main'.code = main.code /\ runtime' = FALSE
    BY <1>3, MainMoves DEF Leave, ServeType
  <2> QED
    BY <1>1, <1>3, <2>1 DEF Leave
<1>4. CASE EndProcess
  <2>1. ServeType' /\ main'.stage = "ended" /\ main'.code = main.code /\ runtime' = runtime
    BY <1>4, MainMoves DEF EndProcess, ServeType
  <2> QED
    BY <1>1, <1>4, <2>1 DEF EndProcess
<1> QED
  BY <1>2, <1>3, <1>4

(* The two servers end when they like; the API closes its loop when asked. *)
LEMMA ServerSteps ==
  ASSUME ServeInv, FrontEnds \/ ApiFails \/ ApiCloses \/ ApiStops \/ Probes \/ UNCHANGED allVars
  PROVE  ServeInv'
<1> USE DEF ServeInv, ServeType, ApiInv, FrontInv, CauseInv, FrontAlive, ApiAlive, Left
<1>1. CASE FrontEnds
  BY <1>1 DEF FrontEnds, probeVars, runner
<1>2. CASE ApiFails
  <2>1. api = "running" /\ api' = "failed" /\ UNCHANGED <<closed, main, front, runtime, asked, events>>
    BY <1>2 DEF ApiFails, runner
  <2> QED
    BY <2>1 DEF Starting, Watching, Stopping
<1>3. CASE ApiCloses
  BY <1>3 DEF ApiCloses, Close, served
<1>4. CASE ApiStops
  <2>1. closed /\ api = "running" /\ api' = "ended"
        /\ UNCHANGED <<closed, main, front, runtime, asked, events>>
    BY <1>4 DEF ApiStops, Stop, runner
  <2> QED
    BY <2>1 DEF Starting, Watching, Stopping
<1>5. CASE Probes \/ UNCHANGED allVars
  <2>1. UNCHANGED <<closed, served>>
    BY <1>5 DEF Probes, Arrive, Start, Respond, TimeOut, Daemon, AskDatabase, Release, Deliver,
                DatabaseChanges, allVars, probeVars, runner
  <2> QED
    BY <2>1 DEF served
<1> QED
  BY <1>1, <1>2, <1>3, <1>4, <1>5

LEMMA ServeInvariant == ServeSpec => []ServeInv
<1>1. ServeInv /\ [ServeNext]_allVars => ServeInv'
  BY StartingSteps, WatchingSteps, StoppingSteps, LastSteps, ServerSteps
     DEF ServeNext, MainSteps
<1> QED
  BY ServeInit_Inv, <1>1, PTL DEF ServeSpec

(* Serve leaves no unpacked directory and, unless its clean-up was cut short, no
   dashboard process behind. *)
THEOREM ServeCleansUp == ServeSpec => []NothingOutlivesServe
<1>1. ServeInv => NothingOutlivesServe
  BY DEF ServeInv, FrontInv, NothingOutlivesServe, Over, Left
<1> QED
  BY ServeInvariant, <1>1, PTL

(* Exit code 0 means that the user asked for the end: the death of a server is
   reported. *)
THEOREM ServeReports == ServeSpec => []SuccessWasAsked
<1>1. ServeInv => SuccessWasAsked
  BY DEF ServeInv, CauseInv, SuccessWasAsked, Over, Left
<1> QED
  BY ServeInvariant, <1>1, PTL
-----------------------------------------------------------------------------
Calls ==
  [stage : {"idle", "waiting", "begun", "moving", "ready", "refused", "failed"},
   down : BOOLEAN, target : Nat]

Types ==
  /\ db \in Databases /\ work \in Databases /\ first \in Started
  /\ lock \in Processes \cup {Unset}
  /\ call \in [Processes -> Calls]

(* What is committed: a database no command has finished with is as it was found,
   and nobody has opened it; any other is the published one of its revision. *)
Settled ==
  IF db.revision = Unset
  THEN db = first /\ \A p \in Processes : call[p].stage # "ready"
  ELSE Published(db, db.revision)

(* What the transaction of an upgrade or a downgrade has come to.  An unversioned
   database may show more than its revision until the upgrade is over. *)
Version(d) == IF d.revision = Unset THEN 0 ELSE d.revision

Upgrading(p) ==
  /\ Version(work) <= HeadOf[p]
  /\ Layout(Version(work)) \subseteq work.schema
  /\ work.schema \subseteq Layout(HeadOf[p])
  /\ Converted(work, Version(work))

Downgrading(p) ==
  /\ call[p].target \in 1..HeadOf[p]
  /\ work.revision \in Nat /\ call[p].target <= work.revision
  /\ Published(work, work.revision)

(* The plan was made for a database that the release of p knows. *)
PlannedFor(p) ==
  IF db.revision = Unset THEN ~db.altered /\ db.schema \subseteq Layout(HeadOf[p])
  ELSE db.revision <= HeadOf[p]

Holding(p) == call[p].stage \in {"begun", "moving"}
Progress(p) ==
  /\ Holding(p) => lock = p
  /\ call[p].stage = "begun" => work = db
  /\ call[p].stage = "moving" =>
       PlannedFor(p) /\ IF call[p].down THEN Downgrading(p) ELSE Upgrading(p)

IInv == Types /\ Settled /\ \A p \in Processes : Progress(p)
-----------------------------------------------------------------------------
(* A converted row stays what it is otherwise. *)
LEMMA CanonicalRow ==
  ASSUME NEW row \in TableRows
  PROVE  LET made == [row EXCEPT !.form = "canonical"]
         IN  /\ made \in TableRows /\ made.form = "canonical"
             /\ made.table = row.table /\ made.scope = row.scope
<1>1. CASE row \in [table : {"conversations"}, scope : Nat,
                    form : {"canonical", "legacy", "invalid"}]
  BY <1>1 DEF TableRows
<1>2. CASE row \in [table : {"subagents"}, scope : Nat, form : {"canonical", "legacy"}]
  BY <1>2 DEF TableRows
<1> QED BY <1>1, <1>2 DEF TableRows

LEMMA MadeCanonicalRows ==
  ASSUME NEW rows \in SUBSET TableRows, NEW table \in {"conversations", "subagents"}
  PROVE  /\ MadeCanonical(rows, table) \in SUBSET TableRows
         /\ Canonical(In(MadeCanonical(rows, table), table))
         /\ \A other :
              Canonical(In(rows, other)) => Canonical(In(MadeCanonical(rows, table), other))
<1> DEFINE Made(row) == IF row.table = table THEN [row EXCEPT !.form = "canonical"] ELSE row
<1>1. ASSUME NEW row \in rows
      PROVE  /\ Made(row) \in TableRows /\ Made(row).table = row.table
             /\ row.table = table => Made(row).form = "canonical"
             /\ row.form = "canonical" => Made(row).form = "canonical"
  <2>1. row \in TableRows OBVIOUS
  <2> QED BY <2>1, CanonicalRow
<1>2. MadeCanonical(rows, table) = {Made(row) : row \in rows}
  BY DEF MadeCanonical
<1> HIDE DEF Made
<1> QED BY <1>1, <1>2 DEF In, Canonical

(* From 0004 on, later migrations convert nothing. *)
LEMMA ConvertedBeyond ==
  ASSUME NEW d, NEW r \in Nat, r >= 4, Converted(d, 4)
  PROVE  Converted(d, r)
BY DEF Converted

LEMMA LayoutStep ==
  ASSUME NEW r \in Nat
  PROVE  /\ Layout(r + 1) = Layout(r) \cup {r + 1} /\ r + 1 \notin Layout(r)
         /\ Layout(r + 1) \ {r + 1} = Layout(r)
BY DEF Layout

(* What the record of a database is after some of its fields were changed. *)
LEMMA Rewritten ==
  ASSUME NEW d \in Databases, NEW rows \in SUBSET TableRows
  PROVE  LET e == [d EXCEPT !.rows = rows]
         IN  e \in Databases /\ e.schema = d.schema /\ e.scopes = d.scopes /\ e.rows = rows
BY DEF Databases

LEMMA Rescoped ==
  ASSUME NEW d \in Databases, NEW scopes \in SUBSET Nat
  PROVE  LET e == [d EXCEPT !.scopes = scopes]
         IN  e \in Databases /\ e.schema = d.schema /\ e.scopes = scopes /\ e.rows = d.rows
BY DEF Databases

(* One upgrade() keeps what the migrations before it made, and adds its own. *)
LEMMA UpgradedDatabase ==
  ASSUME NEW d \in Databases, NEW v \in Nat, Converted(d, v)
  PROVE  /\ Upgraded(d, v + 1) \in Databases
         /\ Upgraded(d, v + 1).revision = v + 1
         /\ Upgraded(d, v + 1).schema = d.schema \cup {v + 1}
         /\ Converted(Upgraded(d, v + 1), v + 1)
<1> DEFINE r == v + 1
           u == Upgraded(d, r)
           made == CASE r = 2 -> Minimized(d)
                     [] r = 3 -> Timestamped(d) [] r = 4 -> Seeded(d) [] OTHER -> d
<1>1. /\ d.rows \in SUBSET TableRows /\ d.schema \in SUBSET (Nat \ {0}) /\ r \in Nat /\ r > 0
      /\ Seeds(d) \in SUBSET Nat
  BY DEF Databases, Seeds, TableRows
<1>2. made \in Databases /\ made.schema = d.schema
  <2>1. CASE r = 2
    BY <1>1, <2>1, MadeCanonicalRows, Rewritten DEF Minimized
  <2>2. CASE r = 3
    BY <1>1, <2>2, MadeCanonicalRows, Rewritten DEF Timestamped
  <2>3. CASE r = 4
    <3>1. made = [d EXCEPT !.scopes = Seeds(d)]
      BY <2>3 DEF Seeded
    <3> HIDE DEF made, r
    <3> QED BY <1>1, <3>1, Rescoped
  <2>4. CASE r \notin {2, 3, 4}
    BY <2>4
  <2> QED BY <2>1, <2>2, <2>3, <2>4
<1>3. u = [made EXCEPT !.revision = r, !.schema = made.schema \cup {r}]
  BY DEF Upgraded
<1>4. d.schema \cup {r} \in SUBSET (Nat \ {0})
  BY <1>1
<1>5. /\ u \in Databases /\ u.revision = r /\ u.schema = d.schema \cup {r}
      /\ u.scopes = made.scopes /\ u.rows = made.rows
  <2> DEFINE schema == made.schema \cup {r}
  <2>1. /\ schema \in SUBSET (Nat \ {0}) /\ schema = d.schema \cup {r}
        /\ u = [made EXCEPT !.revision = r, !.schema = schema]
    BY <1>2, <1>3, <1>4
  <2> HIDE DEF made, u, r, schema
  <2> QED BY <1>1, <1>2, <2>1 DEF Databases
<1>6. Converted(made, r)
  <2>1. CASE r = 2
    <3>1. made.rows = MadeCanonical(d.rows, "subagents")
      BY <1>1, <2>1, MadeCanonicalRows, Rewritten DEF Minimized
    <3> QED BY <1>1, <2>1, <3>1, MadeCanonicalRows DEF Converted
  <2>2. CASE r = 3
    <3>1. made.rows = MadeCanonical(d.rows, "conversations")
      BY <1>1, <2>2, MadeCanonicalRows, Rewritten DEF Timestamped
    <3>2. Canonical(In(d.rows, "subagents"))
      BY <2>2 DEF Converted
    <3> QED BY <1>1, <2>2, <3>1, <3>2, MadeCanonicalRows DEF Converted
  <2>3. CASE r = 4
    <3>1. made = [d EXCEPT !.scopes = Seeds(d)]
      BY <2>3 DEF Seeded
    <3>2. made.rows = d.rows /\ made.scopes = Seeds(d)
      <4> HIDE DEF made, r
      <4> QED BY <1>1, <3>1, Rescoped
    <3> QED BY <1>1, <2>3, <3>2 DEF Converted, Scoped, Seeds
  <2>4. CASE r \notin {2, 3, 4}
    BY <1>1, <2>4 DEF Converted
  <2> QED BY <2>1, <2>2, <2>3, <2>4
<1> QED BY <1>5, <1>6 DEF Converted, Scoped

LEMMA DowngradedDatabase ==
  ASSUME NEW d \in Databases, NEW r \in Nat, r > 0, Published(d, r)
  PROVE  /\ Downgraded(d, r) \in Databases
         /\ Downgraded(d, r).revision = r - 1
         /\ Published(Downgraded(d, r), r - 1)
<1> DEFINE u == Downgraded(d, r)
           schema == d.schema \ {r}
           scopes == IF r = 4 THEN {} ELSE d.scopes
<1>1. schema \in SUBSET (Nat \ {0}) /\ scopes \in SUBSET Nat /\ r - 1 \in Nat
  BY DEF Databases
<1>2. u = [d EXCEPT !.revision = r - 1, !.schema = schema, !.scopes = scopes]
  BY DEF Downgraded
<1>3. /\ u \in Databases /\ u.revision = r - 1 /\ u.schema = schema
      /\ u.rows = d.rows /\ u.scopes = scopes
  <2> DEFINE s == r - 1
  <2>1. s \in Nat /\ u = [d EXCEPT !.revision = s, !.schema = schema, !.scopes = scopes]
    BY <1>1, <1>2
  <2>2. u.revision = s => u.revision = r - 1
    OBVIOUS
  <2> HIDE DEF u, s, schema, scopes
  <2>3. u \in Databases /\ u.revision = s /\ u.schema = schema
        /\ u.rows = d.rows /\ u.scopes = scopes
    BY <1>1, <2>1 DEF Databases
  <2> QED BY <2>2, <2>3
<1>4. u.schema = Layout(r - 1)
  BY <1>1, <1>3, LayoutStep DEF Published
<1>5. Converted(u, r - 1)
  BY <1>3 DEF Published, Converted, Scoped
<1> QED BY <1>3, <1>4, <1>5 DEF Published

-----------------------------------------------------------------------------
(* What the steps have in common.  The holder of the lock is the only one that  *)
(* has a transaction.                                                           *)
LEMMA OthersWait ==
  ASSUME IInv, NEW p \in Processes, lock \in {p, Unset}
  PROVE  \A q \in Processes : q # p => ~Holding(q)
BY UnsetAssumption DEF IInv, Progress

LEMMA StageOf ==
  ASSUME call \in [Processes -> Calls], NEW p \in Processes,
         NEW stage \in {"idle", "waiting", "begun", "moving", "ready", "refused", "failed"},
         Stage(p, stage)
  PROVE  /\ call' \in [Processes -> Calls]
         /\ call'[p].stage = stage /\ call'[p].down = call[p].down
         /\ call'[p].target = call[p].target
         /\ \A q \in Processes : q # p => call'[q] = call[q]
BY DEF Stage, Calls

(* A command that waits or has ended owes nothing. *)
LEMMA OwesNothing ==
  ASSUME NEW q \in Processes, call'[q].stage \notin {"begun", "moving"}
  PROVE  Progress(q)'
BY DEF Progress, Holding

(* A transaction that is rolled back leaves the committed database alone. *)
LEMMA RollbackStep ==
  ASSUME IInv, NEW p \in Processes, lock = p,
         NEW stage \in {"refused", "failed"}, Rollback(p, stage)
  PROVE  IInv'
<1>1. /\ call \in [Processes -> Calls] /\ Stage(p, stage)
      /\ db' = db /\ first' = first /\ work' = db /\ lock' = Unset
  BY DEF IInv, Types, Rollback, Unlocked
<1>2. /\ call' \in [Processes -> Calls] /\ call'[p].stage = stage
      /\ \A q \in Processes : q # p => call'[q] = call[q]
  BY <1>1, StageOf
<1>3. Types'
  BY <1>1, <1>2 DEF IInv, Types
<1>4. Settled'
  BY <1>1, <1>2 DEF IInv, Settled
<1>5. \A q \in Processes : Progress(q)'
  BY <1>2, OthersWait, OwesNothing DEF Holding
<1> QED BY <1>3, <1>4, <1>5 DEF IInv

(* A transaction may be committed when it holds the published schema of its      *)
(* revision.                                                                    *)
LEMMA CommitStep ==
  ASSUME IInv, NEW p \in Processes, lock = p, Commit(p),
         work.revision # Unset, Published(work, work.revision)
  PROVE  IInv'
<1>1. /\ call \in [Processes -> Calls] /\ Stage(p, "ready")
      /\ db' = work /\ first' = first /\ work' = work /\ lock' = Unset
  BY DEF IInv, Types, Commit, Unlocked
<1>2. /\ call' \in [Processes -> Calls] /\ call'[p].stage = "ready"
      /\ \A q \in Processes : q # p => call'[q] = call[q]
  BY <1>1, StageOf
<1>3. Types'
  BY <1>1, <1>2 DEF IInv, Types
<1>4. Settled'
  BY <1>1 DEF Settled
<1>5. \A q \in Processes : Progress(q)'
  BY <1>2, OthersWait, OwesNothing DEF Holding
<1> QED BY <1>3, <1>4, <1>5 DEF IInv

(* The transaction goes on: the plan was made, or a migration was run. *)
LEMMA MovingStep ==
  ASSUME IInv, NEW p \in Processes, lock = p, lock' = p, db' = db, first' = first,
         work' \in Databases, call' \in [Processes -> Calls],
         \A q \in Processes : q # p => call'[q] = call[q],
         call'[p].stage = "moving", PlannedFor(p),
         IF call'[p].down THEN Downgrading(p)' ELSE Upgrading(p)'
  PROVE  IInv'
<1>1. Types'
  BY DEF IInv, Types
<1>2. Settled'
  BY DEF IInv, Settled
<1>3. Progress(p)'
  BY DEF Progress, Holding, PlannedFor
<1>4. \A q \in Processes : q # p => Progress(q)'
  BY OthersWait, OwesNothing DEF Holding
<1> QED BY <1>1, <1>2, <1>3, <1>4 DEF IInv
-----------------------------------------------------------------------------
(* One lemma for each action. *)
LEMMA AskStep ==
  ASSUME IInv, NEW p \in Processes, NEW down \in BOOLEAN, NEW target \in Nat,
         Ask(p, down, target)
  PROVE  IInv'
<1>1. /\ call \in [Processes -> Calls]
      /\ call' = [call EXCEPT ![p] = [stage |-> "waiting", down |-> down, target |-> target]]
      /\ db' = db /\ first' = first /\ work' = work /\ lock' = lock
  BY DEF IInv, Types, Ask
<1>2. /\ call' \in [Processes -> Calls] /\ call'[p].stage = "waiting"
      /\ \A q \in Processes : q # p => call'[q] = call[q]
  BY <1>1 DEF Calls
<1>3. Types'
  BY <1>1, <1>2 DEF IInv, Types
<1>4. Settled'
  BY <1>1, <1>2 DEF IInv, Settled
<1>5. \A q \in Processes : q # p => Progress(q)'
  BY <1>1, <1>2 DEF IInv, Progress, Holding, PlannedFor, Upgrading, Downgrading
<1>6. Progress(p)'
  BY <1>2, OwesNothing
<1> QED BY <1>3, <1>4, <1>5, <1>6 DEF IInv

LEMMA GiveUpStep ==
  ASSUME IInv, NEW p \in Processes, GiveUp(p)
  PROVE  IInv'
<1>1. /\ call \in [Processes -> Calls] /\ Stage(p, "failed")
      /\ db' = db /\ first' = first /\ work' = work /\ lock' = lock
  BY DEF IInv, Types, GiveUp
<1>2. /\ call' \in [Processes -> Calls] /\ call'[p].stage = "failed"
      /\ \A q \in Processes : q # p => call'[q] = call[q]
  BY <1>1, StageOf
<1>3. Types'
  BY <1>1, <1>2 DEF IInv, Types
<1>4. Settled'
  BY <1>1, <1>2 DEF IInv, Settled
<1>5. \A q \in Processes : q # p => Progress(q)'
  BY <1>1, <1>2 DEF IInv, Progress, Holding, PlannedFor, Upgrading, Downgrading
<1>6. Progress(p)'
  BY <1>2, OwesNothing
<1> QED BY <1>3, <1>4, <1>5, <1>6 DEF IInv

LEMMA BeginStep ==
  ASSUME IInv, NEW p \in Processes, Begin(p)
  PROVE  IInv'
<1>1. /\ call \in [Processes -> Calls] /\ Stage(p, "begun") /\ lock = Unset
      /\ db' = db /\ first' = first /\ work' = db /\ lock' = p
  BY DEF IInv, Types, Begin
<1>2. /\ call' \in [Processes -> Calls] /\ call'[p].stage = "begun"
      /\ \A q \in Processes : q # p => call'[q] = call[q]
  BY <1>1, StageOf
<1>3. Types'
  BY <1>1, <1>2 DEF IInv, Types
<1>4. Settled'
  BY <1>1, <1>2 DEF IInv, Settled
<1>5. Progress(p)'
  BY <1>1, <1>2 DEF Progress, Holding
<1>6. \A q \in Processes : q # p => Progress(q)'
  BY <1>1, <1>2, OthersWait, OwesNothing DEF Holding
<1> QED BY <1>3, <1>4, <1>5, <1>6 DEF IInv

(* An unversioned database that is adopted is as it was found, and its rows were *)
(* converted by the release that made it.                                       *)
LEMMA AdoptStep ==
  ASSUME IInv, NEW p \in Processes, call[p].stage = "begun", ~call[p].down, Adopt(p)
  PROVE  IInv'
<1>1. /\ lock = p /\ work = db /\ db \in Databases /\ call \in [Processes -> Calls]
      /\ HeadOf[p] \in Nat /\ HeadOf[p] >= 7
  BY HeadAssumption DEF IInv, Types, Progress, Holding
<1>2. /\ work.revision = Unset /\ ~work.altered /\ work \in Started
      /\ db' = db /\ first' = first /\ lock' = p /\ Stage(p, "moving")
  BY <1>1 DEF Adopt, Unpublished, IInv, Types, Settled
<1>3. /\ call' \in [Processes -> Calls] /\ call'[p].stage = "moving" /\ ~call'[p].down
      /\ \A q \in Processes : q # p => call'[q] = call[q]
  BY <1>1, <1>2, StageOf
<1>4. PlannedFor(p)
  <2>1. work.schema \subseteq Layout(HeadOf[p])
    <3>1. CASE Adoptable(p, work.schema) = {}
      BY <3>1 DEF Adopt, Unpublished, Ahead
    <3>2. ASSUME NEW r \in Adoptable(p, work.schema) PROVE work.schema \subseteq Layout(HeadOf[p])
      <4>1. r <= HeadOf[p] /\ r \in Nat
        BY <1>1, <3>2 DEF Adoptable
      <4>2. CASE r = 4
        <5>1. work.schema \ {6, 7} = Layout(4)
          BY <3>2, <4>2 DEF Adoptable
        <5> QED BY <1>1, <5>1 DEF Layout
      <4>3. CASE r # 4
        <5>1. work.schema = Layout(r)
          BY <3>2, <4>3 DEF Adoptable
        <5> QED BY <1>1, <4>1, <5>1 DEF Layout
      <4> QED BY <4>2, <4>3
    <3> QED BY <3>1, <3>2
  <2> QED BY <1>1, <1>2, <2>1 DEF PlannedFor
<1>5. CASE Adoptable(p, work.schema) = {}
  <2>1. work' = work /\ work.schema \subseteq Layout(HeadOf[p])
    BY <1>5 DEF Adopt, Unpublished, Ahead
  <2>2. Layout(0) = {} /\ Converted(work, 0)
    BY DEF Layout, Converted
  <2>3. Upgrading(p)'
    BY <1>1, <1>2, <2>1, <2>2 DEF Upgrading, Version
  <2> QED BY <1>1, <1>2, <1>3, <1>4, <2>1, <2>3, MovingStep
<1>6. CASE Adoptable(p, work.schema) # {}
  <2>1. PICK r \in Adoptable(p, work.schema) : work' = [work EXCEPT !.revision = r]
    BY <1>6 DEF Adopt
  <2>2. /\ r \in Nat /\ r >= 4 /\ r <= HeadOf[p] /\ r # Unset
        /\ work' \in Databases /\ work'.revision = r
        /\ work'.schema = work.schema /\ work'.rows = work.rows /\ work'.scopes = work.scopes
    BY <1>1, <2>1, UnsetAssumption DEF Adoptable, Databases
  <2>3. Layout(r) \subseteq work.schema /\ work.schema \subseteq Layout(HeadOf[p])
    <3>1. CASE r = 4
      <4>1. work.schema \ {6, 7} = Layout(4)
        BY <2>1, <3>1 DEF Adoptable
      <4> QED BY <1>1, <3>1, <4>1 DEF Layout
    <3>2. CASE r # 4
      <4>1. work.schema = Layout(r)
        BY <2>1, <3>2 DEF Adoptable
      <4> QED BY <1>1, <2>2, <4>1 DEF Layout
    <3> QED BY <3>1, <3>2
  <2>4. Layout(4) \subseteq work.schema
    BY <2>2, <2>3 DEF Layout
  <2>5. Converted(work, r)
    BY <1>2, <2>2, <2>4, ConvertedBeyond, StartedAssumption
  <2>6. Converted(work', r)
    BY <2>2, <2>5 DEF Converted, Scoped
  <2>7. Upgrading(p)'
    BY <2>2, <2>3, <2>6 DEF Upgrading, Version
  <2> QED BY <1>1, <1>2, <1>3, <1>4, <2>2, <2>7, MovingStep
<1> QED BY <1>5, <1>6

LEMMA PlanUpgradeStep ==
  ASSUME IInv, NEW p \in Processes, PlanUpgrade(p)
  PROVE  IInv'
<1>1. /\ lock = p /\ work = db /\ db \in Databases /\ call \in [Processes -> Calls]
      /\ call[p].stage = "begun" /\ ~call[p].down
  BY DEF IInv, Types, Progress, Holding, PlanUpgrade
<1>2. CASE Adopt(p)
  BY <1>1, <1>2, AdoptStep
<1>3. CASE Rollback(p, "refused")
  BY <1>1, <1>3, RollbackStep
<1>4. CASE work.revision # Unset /\ Commit(p)
  BY <1>1, <1>4, CommitStep DEF IInv, Settled
<1>5. CASE /\ work.revision # Unset /\ Known(p, work.revision)
           /\ Stage(p, "moving") /\ UNCHANGED <<db, first, lock, work>>
  <2>1. /\ call' \in [Processes -> Calls] /\ call'[p].stage = "moving" /\ ~call'[p].down
        /\ \A q \in Processes : q # p => call'[q] = call[q]
    BY <1>1, <1>5, StageOf
  <2>2. work.revision \in Nat /\ work.revision <= HeadOf[p] /\ Published(work, work.revision)
    BY <1>1, <1>5, HeadAssumption DEF IInv, Settled, Known
  <2>3. Upgrading(p)'
    BY <1>5, <2>2, HeadAssumption DEF Upgrading, Version, Published, Layout
  <2>4. PlannedFor(p)
    BY <1>1, <1>5, <2>2 DEF PlannedFor
  <2> QED BY <1>1, <1>5, <2>1, <2>3, <2>4, MovingStep
<1> QED BY <1>2, <1>3, <1>4, <1>5 DEF PlanUpgrade

LEMMA PlanDowngradeStep ==
  ASSUME IInv, NEW p \in Processes, PlanDowngrade(p)
  PROVE  IInv'
<1>1. /\ lock = p /\ work = db /\ db \in Databases /\ call \in [Processes -> Calls]
      /\ call[p].stage = "begun" /\ call[p].down
  BY DEF IInv, Types, Progress, Holding, PlanDowngrade
<1>2. CASE Rollback(p, "refused") \/ Rollback(p, "failed")
  BY <1>1, <1>2, RollbackStep
<1>3. CASE /\ Known(p, call[p].target) /\ work.revision # Unset /\ Known(p, work.revision)
           /\ ~(call[p].target > work.revision)
           /\ Stage(p, "moving") /\ UNCHANGED <<db, first, lock, work>>
  <2>1. /\ call' \in [Processes -> Calls] /\ call'[p].stage = "moving" /\ call'[p].down
        /\ call'[p].target = call[p].target
        /\ \A q \in Processes : q # p => call'[q] = call[q]
    BY <1>1, <1>3, StageOf
  <2>2. work.revision \in Nat /\ work.revision <= HeadOf[p] /\ Published(work, work.revision)
    BY <1>1, <1>3, HeadAssumption DEF IInv, Settled, Known
  <2>3. Downgrading(p)'
    BY <1>3, <2>1, <2>2, HeadAssumption DEF Downgrading, Known
  <2>4. PlannedFor(p)
    BY <1>1, <1>3, <2>2 DEF PlannedFor
  <2> QED BY <1>1, <1>3, <2>1, <2>3, <2>4, MovingStep
<1> QED BY <1>2, <1>3 DEF PlanDowngrade

LEMMA MigrateUpStep ==
  ASSUME IInv, NEW p \in Processes, MigrateUp(p)
  PROVE  IInv'
<1> DEFINE v == Version(work)
<1>1. /\ lock = p /\ work \in Databases /\ call \in [Processes -> Calls]
      /\ call[p].stage = "moving" /\ ~call[p].down /\ work.revision # HeadOf[p]
      /\ Upgrading(p) /\ PlannedFor(p) /\ HeadOf[p] \in Nat /\ HeadOf[p] >= 7
  BY HeadAssumption DEF IInv, Types, Progress, Holding, MigrateUp
<1>2. v \in Nat /\ v + 1 <= HeadOf[p] /\ Next1(work.revision) = v + 1
  BY <1>1 DEF Upgrading, Version, Next1, Databases
<1>3. CASE Rollback(p, "failed")
  BY <1>1, <1>3, RollbackStep
<1>4. CASE work' = Upgraded(work, v + 1) /\ UNCHANGED <<db, first, lock, call>>
  <2>1. /\ Converted(work, v)
        /\ Layout(v) \subseteq work.schema /\ work.schema \subseteq Layout(HeadOf[p])
    BY <1>1 DEF Upgrading
  <2> HIDE DEF v
  <2>2. /\ work' \in Databases /\ work'.revision = v + 1
        /\ work'.schema = work.schema \cup {v + 1} /\ Converted(work', v + 1)
    BY <1>1, <1>2, <1>4, <2>1, UpgradedDatabase
  <2>3. /\ Layout(v + 1) \subseteq work'.schema /\ work'.schema \subseteq Layout(HeadOf[p])
    BY <1>1, <1>2, <2>1, <2>2 DEF Layout
  <2>4. v + 1 # Unset
    BY <1>2, UnsetAssumption
  <2>5. Upgrading(p)'
    BY <1>1, <1>2, <2>2, <2>3, <2>4 DEF Upgrading, Version
  <2> QED BY <1>1, <1>4, <2>2, <2>5, MovingStep
<1> QED BY <1>2, <1>3, <1>4 DEF MigrateUp

LEMMA MigrateDownStep ==
  ASSUME IInv, NEW p \in Processes, MigrateDown(p)
  PROVE  IInv'
<1>1. /\ lock = p /\ work \in Databases /\ call \in [Processes -> Calls]
      /\ call[p].stage = "moving" /\ call[p].down /\ work.revision # call[p].target
      /\ Downgrading(p) /\ PlannedFor(p)
      /\ work' = Downgraded(work, work.revision) /\ UNCHANGED <<db, first, lock, call>>
  BY DEF IInv, Types, Progress, Holding, MigrateDown
<1>2. /\ work.revision \in Nat /\ call[p].target \in Nat /\ call[p].target > 0
      /\ call[p].target < work.revision /\ Published(work, work.revision)
  BY <1>1, HeadAssumption DEF Downgrading
<1>3. /\ work' \in Databases /\ work'.revision = work.revision - 1
      /\ Published(work', work.revision - 1)
  BY <1>1, <1>2, DowngradedDatabase
<1>4. Downgrading(p)'
  BY <1>1, <1>2, <1>3 DEF Downgrading
<1> QED BY <1>1, <1>3, <1>4, MovingStep

(* Every migration was run, and the layout has nothing else. *)
LEMMA FinishStep ==
  ASSUME IInv, NEW p \in Processes, Verify(p)
  PROVE  IInv'
<1>1. /\ lock = p /\ work.revision = Wanted(p) /\ Commit(p)
      /\ IF call[p].down THEN Downgrading(p) ELSE Upgrading(p)
  BY DEF IInv, Progress, Holding, Verify
<1>2. work.revision # Unset /\ Published(work, work.revision)
  <2>1. CASE call[p].down
    BY <1>1, <2>1, UnsetAssumption DEF Downgrading
  <2>2. CASE ~call[p].down
    BY <1>1, <2>2, HeadAssumption, UnsetAssumption DEF Upgrading, Version, Wanted, Published
  <2> QED BY <2>1, <2>2
<1> QED BY <1>1, <1>2, CommitStep

LEMMA InterruptedStep ==
  ASSUME IInv, NEW p \in Processes, Interrupted(p)
  PROVE  IInv'
BY RollbackStep DEF Interrupted

(* What is ingested is canonical and brings its scope. *)
LEMMA WriteStep ==
  ASSUME IInv, NEW p \in Processes, NEW row \in Arrivals, WriteRow(p, row)
  PROVE  IInv'
<1> DEFINE rows == db.rows \cup {row}
           scopes == db.scopes \cup {row.scope}
<1>1. /\ call[p].stage = "ready" /\ lock = Unset /\ db \in Databases
      /\ db' = [db EXCEPT !.rows = rows, !.scopes = scopes] /\ work' = db'
      /\ UNCHANGED <<first, lock, call>>
  BY DEF IInv, Types, WriteRow
<1>2. row \in TableRows /\ row.form = "canonical" /\ row.scope \in Nat
  BY ArrivalsAssumption DEF TableRows
<1>3. rows \in SUBSET TableRows /\ scopes \in SUBSET Nat
  BY <1>1, <1>2 DEF Databases
<1>4. /\ db' \in Databases /\ db'.rows = rows /\ db'.scopes = scopes
      /\ db'.revision = db.revision /\ db'.schema = db.schema
  <2> HIDE DEF rows, scopes
  <2> QED BY <1>1, <1>3 DEF Databases
<1>5. Types'
  BY <1>1, <1>4 DEF IInv, Types
<1>6. db.revision # Unset /\ Published(db, db.revision)
  BY <1>1 DEF IInv, Settled
<1>7. Converted(db', db.revision)
  BY <1>2, <1>4, <1>6 DEF Published, Converted, Canonical, In, Scoped
<1>8. Settled'
  BY <1>4, <1>6, <1>7 DEF Settled, Published
<1>9. \A q \in Processes : Progress(q)'
  BY <1>1, OthersWait, OwesNothing, UnsetAssumption DEF IInv, Progress, Holding
<1> QED BY <1>5, <1>8, <1>9 DEF IInv
-----------------------------------------------------------------------------
LEMMA InitIInv == SchemaInit => IInv
<1> SUFFICES ASSUME SchemaInit PROVE IInv
  OBVIOUS
<1>1. call = [p \in Processes |-> Idle] /\ Idle \in Calls /\ Idle.stage = "idle"
  BY DEF SchemaInit, Idle, Calls
<1>2. Types
  BY <1>1, StartedAssumption DEF SchemaInit, Types
<1>3. Settled
  BY <1>1, StartedAssumption DEF SchemaInit, Settled
<1>4. \A p \in Processes : Progress(p)
  BY <1>1 DEF Progress, Holding
<1> QED BY <1>2, <1>3, <1>4 DEF IInv

LEMMA NextIInv == IInv /\ [SchemaNext]_schemaVars => IInv'
<1> SUFFICES ASSUME IInv, [SchemaNext]_schemaVars PROVE IInv'
  OBVIOUS
<1>1. CASE UNCHANGED schemaVars
  BY <1>1 DEF schemaVars, IInv, Types, Settled, Progress, Holding, PlannedFor, Upgrading, Downgrading
<1>2. ASSUME NEW p \in Processes, Proceed(p) PROVE IInv'
  BY <1>2, BeginStep, PlanUpgradeStep, PlanDowngradeStep, MigrateUpStep, MigrateDownStep,
     FinishStep DEF Proceed
<1>3. ASSUME NEW p \in Processes, GiveUp(p) PROVE IInv'
  BY <1>3, GiveUpStep
<1>4. ASSUME NEW p \in Processes, Interrupted(p) PROVE IInv'
  BY <1>4, InterruptedStep
<1>5. ASSUME NEW p \in Processes, Ask(p, FALSE, HeadOf[p]) PROVE IInv'
  BY <1>5, AskStep, HeadAssumption
<1>6. ASSUME NEW p \in Processes, NEW target \in Targets, Ask(p, TRUE, target) PROVE IInv'
  BY <1>6, AskStep, TargetsAssumption
<1>7. ASSUME NEW p \in Processes, NEW row \in Arrivals, WriteRow(p, row) PROVE IInv'
  BY <1>7, WriteStep
<1> QED BY <1>1, <1>2, <1>3, <1>4, <1>5, <1>6, <1>7 DEF SchemaNext

LEMMA Invariance == SchemaSpec => []IInv
BY InitIInv, NextIInv, PTL DEF SchemaSpec

(* Whatever the releases, their commands and the failures in between, what is    *)
(* committed is a published schema or the database as it was found: upgrades and *)
(* downgrades are all or nothing.                                                *)
THEOREM SchemaIsPublished == SchemaSpec => []NeverHalfMigrated
<1>1. IInv => NeverHalfMigrated
  BY DEF IInv, Settled, Published, NeverHalfMigrated
<1> QED BY <1>1, Invariance, PTL

(* Whatever was ingested before, between and after the migrations, all rows of a *)
(* database have the form of its revision.                                       *)
THEOREM RowsAreConverted == SchemaSpec => []HistoryIsConverted
<1>1. IInv => HistoryIsConverted
  BY DEF IInv, Settled, Published, HistoryIsConverted
<1> QED BY <1>1, Invariance, PTL

(* Only a release that knows the recorded revision and the new one changes it,   *)
(* under the lock.  A database that has none is left alone where a table of the  *)
(* releases is modified or shows a migration the release does not know; foreign  *)
(* tables are not looked at.                                                     *)
THEOREM StrangersAreUntouched == SchemaSpec => UnknownIsUntouched
<1> DEFINE Claim == db'.revision # db.revision =>
             /\ lock # Unset /\ db'.revision = Wanted(lock)
             /\ db.revision # Unset => db.revision <= HeadOf[lock]
             /\ db.revision = Unset => ~db.altered /\ db.schema \subseteq Layout(HeadOf[lock])
<1>1. ASSUME IInv, [SchemaNext]_schemaVars, db'.revision # db.revision PROVE Claim
  <2>1. PICK p \in Processes : Verify(p)
    <3>1. ASSUME NEW p \in Processes, PlanUpgrade(p) PROVE db'.revision = db.revision
      BY <1>1, <3>1 DEF IInv, Progress, PlanUpgrade, Adopt, Rollback, Commit
    <3>2. ASSUME NEW p \in Processes, NEW row \in Arrivals, WriteRow(p, row)
          PROVE  db'.revision = db.revision
      BY <1>1, <3>2 DEF IInv, Types, Databases, WriteRow
    <3> QED BY <1>1, <3>1, <3>2 DEF SchemaNext, schemaVars, Proceed, Begin, PlanDowngrade, MigrateUp,
            MigrateDown, GiveUp, Interrupted, Ask, Rollback
  <2>2. lock = p /\ p # Unset /\ db' = work /\ work.revision = Wanted(p) /\ PlannedFor(p)
    BY <1>1, <2>1, UnsetAssumption DEF IInv, Progress, Holding, Verify, Commit
  <2> QED BY <2>2 DEF PlannedFor
<1>2. IInv /\ [SchemaNext]_schemaVars => [Claim]_schemaVars
  BY <1>1
<1>3. SchemaSpec => [][Claim]_schemaVars
  BY <1>2, Invariance, PTL DEF SchemaSpec
<1> QED BY <1>3 DEF UnknownIsUntouched
=============================================================================
