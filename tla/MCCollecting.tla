----------------------------- MODULE MCCollecting -----------------------------
(***************************************************************************)
(* Collecting on one machine: opening the database, which brings it to the *)
(* release's schema; the log of one session of any coding tool, and what   *)
(* collections make of it; the command that reads providers in batches.    *)
(* They share no state here, so one of them runs and the others wait.      *)
(*                                                                         *)
(* Databases are those of MCSchemaMigration, sessions those of             *)
(* MCProviderLogs.  Stores of the command: a session with a subagent,      *)
(* copied to a second source where it went on; single-file providers with  *)
(* a copy in each source; flawed, oversized and missing files.             *)
(***************************************************************************)
EXTENDS MCSchemaMigration, MCProviderLogs, Collection

CONSTANTS c1, c2

VARIABLE part

all == <<part, schemaVars, vars, collectVars>>

CollectingInit ==
  /\ part \in {"schema", "logs", "command"}
  \* A part that waits is in one of its initial states, whichever.
  /\ SchemaInit /\ (part # "schema" => db = CHOOSE d \in Started : TRUE)
  /\ Init /\ (part # "logs" => provider = CHOOSE tool \in Providers : TRUE)
  /\ CollectInit
  /\ part # "command" => \A c \in Commands : command[c].options = CHOOSE o \in Options[c] : TRUE
  /\ part # "command" => input = CHOOSE list \in Inputs : TRUE

InSchema(A) == part = "schema" /\ A /\ UNCHANGED <<part, vars, collectVars>>
InLogs(A) == part = "logs" /\ A /\ UNCHANGED <<part, schemaVars, collectVars>>
InCommand(A) == part = "command" /\ A /\ UNCHANGED <<part, schemaVars, vars>>

CollectingNext == InSchema(SchemaNext) \/ InLogs(Next) \/ InCommand(CollectNext)

(* Each part as it is scheduled by itself (SchemaFairSpec, CollectFairSpec); logs
   may stay. *)
CollectingSpec ==
  /\ CollectingInit /\ [][CollectingNext]_all
  /\ \A p \in Processes : WF_all(InSchema(Proceed(p))) /\ SF_all(InSchema(Begin(p)))
  /\ \A c \in Commands : WF_all(InCommand(Work(c)))

(* As stated in SchemaMigration and Collection, of the part that runs. *)
EveryCommandEnds == part = "schema" => CommandsEnd
EveryCollectionEnds == part = "command" => CollectionsEnd
-----------------------------------------------------------------------------
Keys == {"p", "p:agent:a", "q", "x", "y"}

File(key, rank, records) ==
  [key |-> key, parent |-> None, rank |-> rank, records |-> records, flaw |-> "none"]
Agent(rank) == [File("p:agent:a", rank, 1) EXCEPT !.parent = "p"]
Flawed(file, flaw) == [file EXCEPT !.flaw = flaw]

Listed(adapter) == adapter @@ ("streams" :> Streams(adapter))
Claude(home, copy) ==
  Listed([capable |-> TRUE, grouped |-> TRUE, sources |-> <<home, copy>>])
Single(capable, home, copy) ==
  Listed([capable |-> capable, grouped |-> FALSE, sources |-> <<home, copy>>])

Home == <<Agent(1), File("p", 1, 1), File("q", 1, 1)>>
Wholes(files, more) == <<Single(FALSE, files, <<>>), Single(FALSE, more, <<>>)>>

Stores == {
  \* a session that went on in the copied source
  <<Claude(Home, <<File("p", 2, 1)>>), Single(FALSE, <<File("x", 1, 1)>>, <<>>)>>,
  <<Claude(Home, <<Agent(1), File("p", 2, 1)>>)>>,
  \* a subagent without its session, and one without an identity
  <<Claude(<<Agent(2), File("q", 1, 2)>>, <<[File(None, 1, 1) EXCEPT !.parent = "p"]>>)>>,
  \* copies of one conversation that fall into two batches
  <<Single(TRUE, <<File("x", 2, 2), File("y", 1, 2)>>, <<File("x", 1, 1)>>)>>,
  <<Single(TRUE, <<File("x", 1, 2)>>, <<File("x", 3, 2), File("y", 1, 1)>>),
    Single(FALSE, <<File("q", 1, 1)>>, <<>>)>>,
  \* a provider that fits next to one that does not; flaws in either
  <<Single(FALSE, <<Flawed(File("q", 1, 1), "malformed")>>, <<>>),
    Single(TRUE, <<File("x", 1, 2)>>, <<File("y", 1, 2)>>)>>,
  <<Single(TRUE, <<File("x", 1, 2), Flawed(File("y", 1, 2), "invalid")>>, <<>>),
    Single(FALSE, <<File("q", 1, 1)>>, <<>>)>>,
  \* an older copy that validation refuses, alone in its batch
  <<Single(TRUE, <<File("x", 2, 2)>>, <<Flawed(File("x", 1, 2), "invalid")>>)>>,
  \* only whole snapshots
  Wholes(<<File("x", 1, 1)>>, <<Flawed(File("y", 1, 1), "invalid")>>),
  Wholes(<<File("x", 1, 1)>>, <<Flawed(File("y", 1, 1), "malformed")>>),
  Wholes(<<File("x", 1, 1)>>, <<File("y", 1, 4)>>),
  \* one batch more than MaxBatches, and one file larger than a budget
  <<Single(TRUE, <<File("x", 1, 2), File("y", 1, 2)>>, <<File("p", 1, 2), File("q", 1, 2)>>),
    Single(TRUE, <<>>, <<>>)>>,
  <<Single(TRUE, <<File("x", 1, 1)>>, <<File("y", 1, 4)>>)>>}

Calls ==
  (c1 :> {[mode |-> m, strict |-> FALSE] : m \in {"forced", "automatic", "never"}}) @@
  (c2 :> {[mode |-> m, strict |-> TRUE] : m \in {"forced", "automatic"}})
=============================================================================
