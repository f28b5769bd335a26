------------------------------- MODULE MCService -------------------------------
(***************************************************************************)
(* The collector and what is sent to it: serve with its readiness probes,  *)
(* and the uploads of other machines.  They share no state here, so one of *)
(* them runs and the other waits.                                          *)
(*                                                                         *)
(* Two readiness requests at a time; two pairs of upload commands: a sync  *)
(* with the newer conversations of a provider next to a strict upload-db   *)
(* of older ones, and two upload-db commands that send one snapshot both.  *)
(***************************************************************************)
EXTENDS Serve, SyncUpload, TLC

CONSTANTS c1, c2

VARIABLE part

all == <<part, allVars, uploadVars>>

ServiceInit ==
  /\ part \in {"serve", "uploads"}
  /\ ServeInit /\ UploadInit
  \* Uploads that wait are in one of their initial states, whichever.
  /\ part # "uploads" => supports /\ plan = CHOOSE p \in Plans : TRUE

InServe(A) == part = "serve" /\ A /\ UNCHANGED <<part, uploadVars>>
InUploads(A) == part = "uploads" /\ A /\ UNCHANGED <<part, allVars>>

ServiceNext == InServe(ServeNext) \/ InUploads(UploadNext)

(* Each part as it is scheduled by itself (ServeFairSpec, UploadFairSpec). *)
ServiceSpec ==
  /\ ServiceInit /\ [][ServiceNext]_all
  /\ WF_all(InServe(MainSteps)) /\ WF_all(InServe(ApiCloses)) /\ WF_all(InServe(ApiStops))
  /\ \A c \in Checks :
       /\ WF_all(InServe(ApiAlive /\ (Start(c) \/ Respond(c) \/ TimeOut(c)) /\ UNCHANGED served))
       /\ WF_all(InServe((Release(c) \/ Deliver(c)) /\ UNCHANGED served))
  /\ \A c \in Commands : WF_all(InUploads(Client(c)))
-----------------------------------------------------------------------------
(* As stated in Readiness, Serve and SyncUpload, of the part that runs. *)
EveryCheckAnswered == part = "serve" => ChecksAnswered
EverySlotComesBack == part = "serve" => SlotComesBack
EveryServeEnds == part = "serve" => ServeEnds
EveryUploadEnds == part = "uploads" => UploadsEnd

Claude(v) == [provider |-> "claude", version |-> v]
Codex(v) == [provider |-> "codex", version |-> v]

Mixed ==
  (c1 :> [database |-> FALSE, strict |-> FALSE, snapshots |-> <<Claude(2)>>]) @@
  (c2 :> [database |-> TRUE, strict |-> TRUE,
          snapshots |-> <<Claude(1), Codex(1)>>])

Repeated ==
  (c1 :> [database |-> TRUE, strict |-> FALSE,
          snapshots |-> <<Claude(1), Codex(1)>>]) @@
  (c2 :> [database |-> TRUE, strict |-> TRUE, snapshots |-> <<Claude(1)>>])

Pairs == {Mixed, Repeated}
=============================================================================
