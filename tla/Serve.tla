-------------------------------- MODULE Serve --------------------------------
(***************************************************************************)
(* serve --front (cli.py, frontend.py): the main thread starts the bundled *)
(* dashboard as a child process and the API on a thread, watches both, and *)
(* stops both when one of them ends or the user interrupts.  The API       *)
(* thread runs the loop of Readiness, whose shutdown is the end of it.     *)
(***************************************************************************)
EXTENDS Readiness

VARIABLES
  main,     \* the main thread: its stage, and the exit code
  api,      \* the API thread
  front,    \* the dashboard process
  runtime,  \* the directory of the unpacked dashboard exists
  asked,    \* server.should_exit
  events    \* what happened to the command from outside

served == <<main, api, front, runtime, asked, events>>
allVars == <<probeVars, served>>

ServeInit ==
  /\ ProbeInit
  /\ main = [stage |-> "prepare", code |-> 0, frontFailed |-> FALSE]
  /\ api = "none" /\ front = "none" /\ runtime = FALSE /\ asked = FALSE
  /\ events = {}

Main(stage) == main' = [main EXCEPT !.stage = stage]
Exit(code) == main' = [main EXCEPT !.stage = "leave", !.code = code]
FrontAlive == front \in {"running", "terminated"}
ApiAlive == api = "running"
-----------------------------------------------------------------------------
(* Node, its version, the password and the secrets may be refused. *)
Prepare ==
  /\ main.stage = "prepare"
  /\ Main("unpack") \/ Exit(1)
  /\ UNCHANGED <<probeVars, api, front, runtime, asked, events>>

(* materialize_frontend_runtime: the directory is made before its contents are
   checked. *)
Unpack ==
  /\ main.stage = "unpack"
  /\ \/ Main("start") /\ runtime' = TRUE
     \/ Exit(1) /\ runtime' \in BOOLEAN
  /\ UNCHANGED <<probeVars, api, front, asked, events>>

StartFront ==
  /\ main.stage = "start"
  /\ \/ Main("attach") /\ front' = "running"
     \/ Exit(1) /\ UNCHANGED front
  /\ UNCHANGED <<probeVars, api, runtime, asked, events>>

(* The address is printed, the server configured and its thread started, before
   the block that stops the dashboard is entered. *)
StartApi ==
  /\ main.stage = "attach"
  /\ \/ Main("watch") /\ api' = "running" /\ UNCHANGED events
     \/ Exit(1) /\ events' = events \cup {"cut"} /\ UNCHANGED api
  /\ UNCHANGED <<probeVars, front, runtime, asked>>

(* The loop ends when either is seen to have ended, and looks again. *)
Watch ==
  /\ main.stage = "watch" /\ (~ApiAlive \/ ~FrontAlive)
  /\ Main("judge")
  /\ UNCHANGED <<probeVars, api, front, runtime, asked, events>>

FrontFailed == ~FrontAlive /\ ApiAlive
Judge ==
  /\ main.stage = "judge"
  /\ main' = [main EXCEPT !.stage = "stop", !.frontFailed = FrontFailed]
  /\ UNCHANGED <<probeVars, api, front, runtime, asked, events>>

Interrupt ==
  /\ main.stage \in {"watch", "judge"}
  /\ Main("stop") /\ events' = events \cup {"interrupted"}
  /\ UNCHANGED <<probeVars, api, front, runtime, asked>>

(* A second interrupt leaves the block that stops the two. *)
InterruptAgain ==
  /\ main.stage \in {"stop", "terminate", "kill", "join"}
  /\ Exit(1) /\ events' = events \cup {"cut"}
  /\ UNCHANGED <<probeVars, api, front, runtime, asked>>
-----------------------------------------------------------------------------
(* stop_frontend: terminate, wait five seconds, kill, wait five seconds. *)
Stops_WhileApiRuns == IF FrontAlive /\ ApiAlive THEN "terminate" ELSE "join"
Stops == IF FrontAlive THEN "terminate" ELSE "join"
StopServers ==
  /\ main.stage = "stop"
  /\ asked' = TRUE /\ Main(Stops)
  /\ front' = IF Stops = "terminate" THEN "terminated" ELSE front
  /\ UNCHANGED <<probeVars, api, runtime, events>>

Terminated ==
  /\ main.stage = "terminate" /\ ~FrontAlive
  /\ Main("join")
  /\ UNCHANGED <<probeVars, api, front, runtime, asked, events>>

Ignored_WaitsOn == main.stage = "terminate" /\ ~FrontAlive
Ignored == main.stage = "terminate"
KillFront ==
  /\ Ignored
  /\ Main("kill") /\ front' = "gone"
  /\ UNCHANGED <<probeVars, api, runtime, asked, events>>

(* The killed process is waited for, unless it does not end (or an operating
   system call fails): frontend_stop_failed skips the join. *)
Killed ==
  /\ main.stage = "kill"
  /\ \/ Main("join") /\ UNCHANGED <<front, events>>
     \/ Exit(1) /\ front' = "terminated" /\ events' = events \cup {"cut"}
  /\ UNCHANGED <<probeVars, api, runtime, asked>>

(* backend.join(timeout=10) *)
Join ==
  /\ main.stage = "join"
  /\ Main("report")
  /\ UNCHANGED <<probeVars, api, front, runtime, asked, events>>

ApiFailed_Alive == ApiAlive
ApiFailed == ApiAlive \/ api = "failed"
Report ==
  /\ main.stage = "report"
  /\ Exit(IF ApiFailed \/ main.frontFailed THEN 1 ELSE 0)
  /\ UNCHANGED <<probeVars, api, front, runtime, asked, events>>

(* The directory is removed and the engine disposed. *)
Leave ==
  /\ main.stage = "leave"
  /\ Main("left") /\ runtime' = FALSE
  /\ UNCHANGED <<probeVars, api, front, asked, events>>

(* The API thread is no daemon: the process does not end before it. *)
EndProcess ==
  /\ main.stage = "left" /\ ~ApiAlive
  /\ Main("ended")
  /\ UNCHANGED <<probeVars, api, front, runtime, asked, events>>
-----------------------------------------------------------------------------
FrontEnds ==
  /\ FrontAlive /\ front' = "gone"
  /\ UNCHANGED <<probeVars, main, api, runtime, asked, events>>

(* The address is taken, or the server raises. *)
ApiFails ==
  /\ ApiAlive /\ api' = "failed" /\ stopped' = TRUE
  /\ check' = [c \in Checks |-> IF check[c].stage \in Stages \ {"none"}
                                THEN [check[c] EXCEPT !.stage = "error"] ELSE check[c]]
  /\ UNCHANGED <<runner, up, probe, main, front, runtime, asked, events>>

(* A server asked to exit answers what it has, then closes the probe runner and
   its loop. *)
Answered == \A c \in Checks : check[c].stage \in {"none"} \cup Answers
ApiCloses ==
  /\ ApiAlive /\ asked /\ Answered
  /\ Close
  /\ UNCHANGED served
ApiStops ==
  /\ ApiAlive /\ Stop
  /\ api' = "ended"
  /\ UNCHANGED <<main, front, runtime, asked, events>>

(* Requests reach a server that runs; daemon threads go on without it. *)
Probes ==
  /\ \/ \E c \in Checks : (ApiAlive /\ ~asked /\ Arrive(c)) \/ Daemon(c)
     \/ \E c \in Checks : ApiAlive /\ (Start(c) \/ Respond(c) \/ TimeOut(c))
     \/ DatabaseChanges
  /\ UNCHANGED served

MainSteps ==
  \/ Prepare \/ Unpack \/ StartFront \/ StartApi \/ Watch \/ Judge
  \/ StopServers \/ Terminated \/ KillFront \/ Killed \/ Join \/ Report \/ Leave
  \/ EndProcess

ServeNext ==
  \/ MainSteps \/ Interrupt \/ InterruptAgain
  \/ FrontEnds \/ ApiFails \/ ApiCloses \/ ApiStops \/ Probes

ServeSpec == ServeInit /\ [][ServeNext]_allVars

(* Every wait of the main thread before its last has a timeout.  The loop goes on
   while the API runs; a server that is asked to exit, and whose requests are
   answered, closes and stops.  Nobody has to end, obey a signal or answer. *)
ServeFairSpec ==
  /\ ServeSpec
  /\ WF_allVars(MainSteps) /\ WF_allVars(ApiCloses) /\ WF_allVars(ApiStops)
  /\ \A c \in Checks :
       /\ WF_allVars(ApiAlive /\ (Start(c) \/ Respond(c) \/ TimeOut(c)) /\ UNCHANGED served)
       /\ WF_allVars((Release(c) \/ Deliver(c)) /\ UNCHANGED served)
-----------------------------------------------------------------------------
(* The command is over: its exit code is decided, its clean-up done. *)
Left == main.stage \in {"left", "ended"}

(* When one server has ended, or the user interrupts, the command gets over all
   its own waits, also when the dashboard ignores SIGTERM, the API thread outlasts
   its join or a probe hangs.  The process then waits for the API thread alone, and
   ends if that was asked to exit; a second interrupt before should_exit is set
   leaves a server nobody asks. *)
ServeEnds ==
  /\ (main.stage = "watch" /\ (~ApiAlive \/ ~FrontAlive)) \/ "interrupted" \in events
       ~> Left
  /\ Left /\ (asked \/ ~ApiAlive) ~> main.stage = "ended"

(* Serve leaves no dashboard behind, unless its own clean-up was cut short: by a
   failure before the watched block, by a second interrupt, by a failing kill. *)
NothingOutlivesServe == Left => ~runtime /\ (FrontAlive => "cut" \in events)

(* Exit code 0 means that the user asked for the end: the death of either server
   is reported, also when the other one dies before the first is judged. *)
SuccessWasAsked == Left /\ main.code = 0 => "interrupted" \in events
=============================================================================
