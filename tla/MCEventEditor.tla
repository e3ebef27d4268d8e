--------------------------- MODULE MCEventEditor ---------------------------
(* Instance of EventEditor: a top-level category, its child, and a child of *)
(* that child, which the combobox does not offer.                           *)
EXTENDS EventEditor
MCParent == <<0, 1, 2>>
=============================================================================
