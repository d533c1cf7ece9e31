------------------------- MODULE PipelineRefinement -------------------------
(***************************************************************************)
(* Pipeline implements AtomicPublish: while a run is under way the store   *)
(* is what the run found, and what the disk holds appears with its report. *)
(***************************************************************************)
EXTENDS Pipeline

\* The contents a behaviour can produce.
Contents == (0..MaxRuns) \cup {Absent, Torn}

SavedNow == {<<p, bak[p]>> : p \in {q \in Parts : bak[q] # Absent}}

storeBar  == IF pc = "idle" THEN live ELSE before
savedBar  == IF pc = "idle" THEN kept \cup SavedNow ELSE kept
scopeBar  == IF input.site THEN Parts ELSE Parts \ {"site"}
reportBar ==
  IF pc # "idle" THEN "running"
  ELSE CASE outcome \in {"none", "ok"} -> outcome
         [] outcome \in {"refused", "error"} -> "failed"
         [] OTHER -> "unknown"

Abstract ==
  INSTANCE AtomicPublish
    WITH Content <- Contents, Nothing <- Absent,
         store <- storeBar, saved <- savedBar, scope <- scopeBar, report <- reportBar

\* Every behaviour of the pipeline, with all its failing awaits, rollbacks
\* and crashes, is one of the abstract store: a caller told "ok" sees mission
\* and index of the same run, one told of an error sees the old store, and
\* one told nothing finds every old part live or in a backup directory.
ImplementsAtomicPublish == Abstract!Spec
=============================================================================
