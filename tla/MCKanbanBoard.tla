--------------------------- MODULE MCKanbanBoard ---------------------------
\* A chain of three cards: a parent that is archived and reopened, a time-boxed child whose
\* workers may survive a kill, and a grandchild.
EXTENDS KanbanBoard, TLC

CONSTANTS parent, child, grand

Family == parent :> {} @@ child :> {parent} @@ grand :> {child}

Calls ==
  parent :> {"archive", "schedule", "to_ready"} @@
  child :> {"complete", "block", "unblock", "review", "changes", "reclaim", "to_ready",
            "promote", "specify"} @@
  grand :> {"complete"}
=============================================================================
