------------------------------ MODULE ReportFiles ------------------------------
(***************************************************************************)
(* Dashboards, CSV tables and snapshot files are installed by              *)
(* _atomic_write (dashboard.py, exporting.py, snapshot_files.py): a        *)
(* temporary file is written, synchronized and renamed over the output,    *)
(* then the directory is synchronized.                                     *)
(*                                                                         *)
(* A file system may write file data and directory entries back at any     *)
(* time: directory operations in their order, data without any.            *)
(***************************************************************************)
EXTENDS Integers, Sequences, SequencesExt

CONSTANTS
  Writers,  \* attempts to write one output, each with a temporary of its own
  Old,      \* the file that may be there before
  Output    \* the name of the output

VARIABLES
  fsync,   \* whether the file system can synchronize a directory
  dirs,    \* the directory, as it was after each operation since its last sync
  data,    \* content of each file
  synced,  \* content of each file that a power loss cannot take
  pc       \* how far each attempt is

vars == <<fsync, dirs, data, synced, pc>>

Files == Writers \cup {Old}  \* a temporary is named for its writer
Running == {"writing", "written", "flushed", "replaced"}

Dir == Last(dirs)
Change(d) == dirs' = Append(dirs, d)

Init ==
  /\ fsync \in BOOLEAN
  /\ dirs \in {<< <<>> >>, << [n \in {Output} |-> Old] >>}
  /\ data = [f \in Files |-> IF f = Old THEN 3 ELSE 1]
  /\ synced = data
  /\ pc = [w \in Writers |-> "start"]

Linked(d, name, f) == [n \in DOMAIN d \cup {name} |-> IF n = name THEN f ELSE d[n]]
Unlinked(d, name) == [n \in DOMAIN d \ {name} |-> d[n]]
Go(w, stage) == pc' = [pc EXCEPT ![w] = stage]
-----------------------------------------------------------------------------
Create(w) ==
  /\ pc[w] = "start"
  /\ Change(Linked(Dir, w, w))
  /\ Go(w, "writing")
  /\ UNCHANGED <<fsync, data, synced>>

(* The writer streams into the temporary. *)
Write(w) ==
  /\ pc[w] = "writing"
  /\ data' = [data EXCEPT ![w] = @ + 1]
  /\ IF data[w] = 2 THEN Go(w, "written") ELSE UNCHANGED pc
  /\ UNCHANGED <<fsync, dirs, synced>>

Synced_NoFsync(w) == synced
Synced(w) == [synced EXCEPT ![w] = data[w]]

Flush(w) ==
  /\ pc[w] = "written"
  /\ synced' = Synced(w)
  /\ Go(w, "flushed")
  /\ UNCHANGED <<fsync, dirs, data>>

Replace(w) ==
  /\ pc[w] = "flushed"
  /\ Change(Linked(Unlinked(Dir, w), Output, w))
  /\ Go(w, "replaced")
  /\ UNCHANGED <<fsync, data, synced>>

(* _fsync_directory: where it is not supported the rename alone must do. *)
DirsAfterSync_NoFsync == dirs
DirsAfterSync == IF fsync THEN <<Dir>> ELSE dirs

SyncDirectory(w) ==
  /\ pc[w] = "replaced"
  /\ dirs' = DirsAfterSync
  /\ Go(w, "done")
  /\ UNCHANGED <<fsync, data, synced>>

(* Any exception, an interrupt included, of any of these calls. *)
CleanUp(w) == IF w \in DOMAIN Dir THEN Change(Unlinked(Dir, w)) ELSE UNCHANGED dirs

Fail(w) ==
  /\ pc[w] \in Running
  /\ CleanUp(w)
  /\ Go(w, "failed")
  /\ UNCHANGED <<fsync, data, synced>>

(* The process is killed: no handler runs. *)
Kill(w) ==
  /\ pc[w] \in Running
  /\ Go(w, "killed")
  /\ UNCHANGED <<fsync, dirs, data, synced>>

(* What survives: some earlier directory, and of every file what was synchronized
   and perhaps more of what was written. *)
PowerLoss ==
  /\ \E i \in DOMAIN dirs : dirs' = <<dirs[i]>>
  /\ data' \in {d \in [Files -> 1..3] : \A f \in Files : d[f] \in synced[f]..data[f]}
  /\ synced' = data'
  /\ pc' = [w \in Writers |-> IF pc[w] \in Running THEN "killed" ELSE pc[w]]
  /\ UNCHANGED fsync

Next ==
  \/ \E w \in Writers : \/ Create(w) \/ Write(w) \/ Flush(w) \/ Replace(w)
                        \/ SyncDirectory(w) \/ Fail(w) \/ Kill(w)
  \/ PowerLoss
Spec == Init /\ [][Next]_vars
-----------------------------------------------------------------------------

(* Whoever opens the output, at any time and after any crash, finds the old file
   or a complete new one ("atomic replacement", docs/usage.md). *)
OutputIsWhole == Output \in DOMAIN Dir => data[Dir[Output]] = 3

(* What a command reported as written is there, complete and not older, after a
   power loss too; without directory synchronization only the replacement is
   promised. *)
DoneIsDurable ==
  (fsync /\ \E w \in Writers : pc[w] = "done") =>
    \A i \in DOMAIN dirs :
      /\ Output \in DOMAIN dirs[i]
      /\ dirs[i][Output] # Old /\ synced[dirs[i][Output]] = 3
=============================================================================
