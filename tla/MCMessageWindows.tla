-------------------------- MODULE MCMessageWindows --------------------------
(* Values for the constants of MessageWindows: one ordinary tag besides    *)
(* the two that open and close a message.                                  *)
EXTENDS MessageWindows

MCTags == {"UNH", "UNT", "BGM"}
=============================================================================
