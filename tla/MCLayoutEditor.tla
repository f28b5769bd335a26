---------------------------- MODULE MCLayoutEditor ----------------------------
(***************************************************************************)
(* Two settings of LayoutEditor: pages with one request each under way,    *)
(* the second of which never discards its draft, and one page whose        *)
(* requests overtake each other while the other page never hears from the  *)
(* collector.  In the third the pages wait and one draft is edited         *)
(* (LayoutHistory): two types of widgets, one of which is as wide as the   *)
(* grid, and less room and less history than edits would take.             *)
(***************************************************************************)
EXTENDS LayoutEditor

CONSTANTS
  tab1, tab2,
  Types, Limits, Columns, Rows, MaxWidgets, HistoryLimit, DefaultDraft, Reach

VARIABLES setting, draft

History == INSTANCE LayoutHistory

ASSUME SizesAssumption == History!Sizes

SmallInit ==
  /\ Init
  /\ \A b \in Tabs : calls[b][2] = None
  /\ setting \in {"pages", "requests", "drafts"}
  /\ setting = "drafts" => row = None
  /\ History!Init

Small ==
  /\ setting # "drafts"
  /\ setting = "pages" =>
       /\ \A b \in Tabs : calls'[b][2] = None
       /\ calls'[tab2][1] # None => calls'[tab2][1].kind # "discard"
  /\ setting = "requests" => tab'[tab2] = tab[tab2] /\ calls'[tab2] = calls[tab2]
  /\ UNCHANGED <<setting, draft>>

EditDraft == setting = "drafts" /\ History!Next /\ UNCHANGED <<vars, setting>>

SmallNext == (Next /\ Small) \/ EditDraft
SmallSpec ==
  /\ SmallInit /\ [][SmallNext]_<<vars, setting, draft>>
  /\ WF_<<vars, setting, draft>>(Arrival(tab1, 1) /\ Small)
  /\ WF_<<vars, setting, draft>>(Arrival(tab1, 2) /\ Small)
  /\ WF_<<vars, setting, draft>>(Arrival(tab2, 1) /\ Small)
-----------------------------------------------------------------------------
(* As stated in LayoutHistory. *)
DraftsAreKept == History!DraftsAreKept

SmallLimits ==
  [narrow |-> [minWidth |-> 1, maxWidth |-> 2, minHeight |-> 1, maxHeight |-> 2],
   wide |-> [minWidth |-> 2, maxWidth |-> 2, minHeight |-> 1, maxHeight |-> 1]]
OneWide == <<[id |-> <<"wide", 0>>, x |-> 0, y |-> 0, width |-> 2, height |-> 1]>>
=============================================================================
