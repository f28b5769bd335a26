--------------------------- MODULE DashboardLayouts ---------------------------
(***************************************************************************)
(* The collector's one dashboard layout (dashboard_layouts.py): a row with *)
(* a bounded revision, read and conditionally written by single SQL        *)
(* statements.  The opaque ETag of the HTTP routes encodes a revision and  *)
(* decodes to it, so an entity tag is its revision here.                   *)
(***************************************************************************)
EXTENDS Integers, Sequences

CONSTANTS
  Layouts,      \* valid layouts
  Default,      \* the canonical one
  Unreadable,   \* a stored value that no longer resolves
  MaxRevision,  \* MAX_DASHBOARD_LAYOUT_REVISION
  None          \* "no value"

ASSUME DefaultAssumption == Default \in Layouts
ASSUME UnreadableAssumption == Unreadable \notin Layouts
ASSUME MaxRevisionAssumption == MaxRevision \in Nat /\ MaxRevision >= 1
ASSUME NoneAssumption ==
  /\ None \notin Layouts \cup {Unreadable} \cup Nat
  /\ None \notin [layout : Layouts \cup {Unreadable}, revision : Nat]

VARIABLES
  row,     \* the row of dashboard_layouts, or None
  history  \* what each revision resolved to; no code keeps it

Revision == IF row = None THEN 0 ELSE row.revision

(* load_dashboard_layout_state: a missing or unresolvable layout is the default. *)
Resolved(v) == IF v \in Layouts THEN v ELSE Default
Layout == IF row = None THEN Default ELSE Resolved(row.layout)

(* The layout an entity tag names. *)
Named(r) == IF r = 0 THEN Default ELSE history[r]

(* A new database, or one upgraded by revision 0007: its legacy row becomes
   revision 1 whatever it holds. *)
InitLayout ==
  \/ row = None /\ history = <<>>
  \/ \E v \in Layouts \cup {Unreadable} :
       row = [layout |-> v, revision |-> 1] /\ history = <<Resolved(v)>>

(* save_dashboard_layout and reset_dashboard_layout: one conditional INSERT or
   UPDATE, whose row count decides. *)
Accepts_Unconditionally(expected) == expected < MaxRevision
Accepts(expected) == expected < MaxRevision /\ expected = Revision

Write(v) ==
  /\ row' = [layout |-> v, revision |-> Revision + 1]
  /\ history' = Append(history, v)

LayoutTypeOK ==
  /\ row \in [layout : Layouts \cup {Unreadable}, revision : 1..MaxRevision] \cup {None}
  /\ history \in Seq(Layouts)
=============================================================================
