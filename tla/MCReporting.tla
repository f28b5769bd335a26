------------------------------ MODULE MCReporting ------------------------------
(***************************************************************************)
(* What serves and writes reports: the lists that are read page by page,   *)
(* the permits and temporaries of requests, the files that commands        *)
(* install, the statements that a report is made of.  They share no state  *)
(* here, so one of them runs and the others wait.                          *)
(*                                                                         *)
(* Lists of two and three conversations, read one per page while ingestion *)
(* changes what they would select; more requests than permits of each      *)
(* kind; attempts that overlap on one output; one reader of every kind at  *)
(* a time while two stored conversations are replaced and deleted.         *)
(***************************************************************************)
EXTENDS ReportingSlots, ReportReads, TLC

CONSTANTS
  Clients, Queries, Selections, MaxSessions, Idle, MaxAge, PageSize, EndOfTime, MaxHandles, None,
  Writers, Old, Output

VARIABLES
  part, clock, database, handles, sessions, cursors, references, client,
  fsync, dirs, data, synced, pc

Lists == INSTANCE Pagination
Files == INSTANCE ReportFiles

(* Limits are numbers, a page has a row, a list selects conversations, and no temporary is named like
   the output or the file that was there. *)
ASSUME ReportingAssumption ==
  /\ MaxSessions \in Nat /\ Idle \in Nat /\ MaxAge \in Nat
  /\ PageSize \in Nat \ {0} /\ \A s \in Selections : s \in Seq(Nat)
  /\ Output \notin Writers /\ Old \notin Writers

listed == <<clock, database, handles, sessions, cursors, references, client>>
written == <<fsync, dirs, data, synced, pc>>
all == <<part, listed, vars, written, readVars>>

ReportingInit ==
  /\ part \in {"lists", "slots", "files", "reads"}
  /\ Lists!Init /\ Init /\ Files!Init /\ ReadInit
  \* A part that waits is in one of its initial states, whichever.
  /\ part # "lists" => database = CHOOSE s \in Selections : TRUE
  /\ part # "files" => fsync /\ Output \notin DOMAIN Files!Dir
  /\ part # "reads" => tables = [c \in Stored |-> 0]

ReportingNext ==
  /\ UNCHANGED part
  /\ \/ part = "lists" /\ Lists!Next /\ UNCHANGED <<vars, written, readVars>>
     \/ part = "slots" /\ Next /\ UNCHANGED <<listed, written, readVars>>
     \/ part = "files" /\ Files!Next /\ UNCHANGED <<listed, vars, readVars>>
     \/ part = "reads" /\ ReadNext /\ UNCHANGED <<listed, vars, written>>

ReportingSpec == ReportingInit /\ [][ReportingNext]_all
-----------------------------------------------------------------------------
(* Nobody is turned away early: busy is answered only while the ceiling that it is
   about is reached, to a report or an export by requests under way, to a list by
   sessions that have not expired, finished and abandoned ones among them; and a
   list expires only by its reader's own pause or its age. *)
RefusedWithCause == Lists!BusyMeansBusy /\ Lists!ReadersAreKept /\ BusyMeansBusy

(* As stated in Pagination and ReportFiles. *)
ListsAreWhole == Lists!ListsAreWhole
OutputIsWhole == Files!OutputIsWhole
DoneIsDurable == Files!DoneIsDurable

Changing == {<<1, 2>>, <<3, 1, 2>>}
ClientSymmetry == Permutations(Clients)
=============================================================================
