----------------------------- MODULE MCArtNode -----------------------------
(* One node with six possible bytes: every growth up to INNER_256 happens. *)
EXTENDS ArtNodeSpec
=============================================================================
