------------------------------- MODULE MCSink -------------------------------
(* A program writes with a Writer, or with a WriterEmitter; never the one  *)
(* through the other.                                                      *)
EXTENDS Writer, Emitter

VARIABLE using   \* "writer" or "emitter"

MCInit ==
  /\ Init /\ EmitterInit
  /\ using \in {"writer", "emitter"}

MCNext ==
  \/ using = "writer"  /\ Next        /\ UNCHANGED <<emitterVars, using>>
  \/ using = "emitter" /\ EmitterNext /\ UNCHANGED <<vars, using>>

MCSpec == MCInit /\ [][MCNext]_<<vars, emitterVars, using>>
=============================================================================
