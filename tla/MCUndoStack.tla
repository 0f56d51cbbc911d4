---------------------------- MODULE MCUndoStack -----------------------------
(***************************************************************************)
(* Instance of UndoStack for TLC: MCUndoStack.cfg.  The assumptions of     *)
(* UndoStack on its constants are evaluated here.  Init allows any         *)
(* contents, so that every key starts both absent and present.             *)
(***************************************************************************)
EXTENDS UndoStack
=============================================================================
