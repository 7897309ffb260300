--------------------------- MODULE MCDeferredSave ---------------------------
(* DeferredSave on two pages, with a save that may replace another. *)
EXTENDS DeferredSave
=============================================================================
