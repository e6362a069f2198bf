------------------------------ MODULE Pipeline ------------------------------
(***************************************************************************)
(* generate.WriteFiles: how init and join decide what to do with each      *)
(* generated file, given what already lies at its path.                    *)
(***************************************************************************)
EXTENDS Ledger

\* What WriteFiles may do with one file.  "merge" may still fail.
InitDecisions == {"write", "keep", "sidecar", "merge", "fail"}

\* fileWriter.partnerHeld: a partner this run wrote, or one that is no part of
\* the run, holds nothing back.
PartnerHeld(p, generated, written) ==
    /\ HeldWith[p] \in generated
    /\ HeldWith[p] \notin written

\* fileWriter.existingContent, and the plain create of a missing file.
InitDecision(p, existing, recorded, v, forced, held) ==
    LET own == existing \in {Gen(v), recorded.hash}
        s   == Strategy[p]
    IN  CASE existing = Absent -> "write"
          [] existing # Absent /\ held ->
                IF existing = Gen(v) THEN "write" ELSE "sidecar"
          [] existing # Absent /\ ~held /\ s \in {"overwrite", "libraryManaged"} -> "write"
          [] existing # Absent /\ ~held /\ s = "skip" ->
                IF own THEN "write" ELSE "keep"
          [] existing # Absent /\ ~held /\ s = "manualMerge" ->
                IF own \/ forced THEN "write" ELSE "sidecar"
          [] existing # Absent /\ ~held /\ Mergeable(s) ->
                IF existing = Gen(v) THEN "write" ELSE "merge"
          [] OTHER -> "fail"
=============================================================================
