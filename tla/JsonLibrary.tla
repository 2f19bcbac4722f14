---------------------------- MODULE JsonLibrary ----------------------------
(***************************************************************************)
(* engine/json.hpp as a program uses it: a value comes from a text or is   *)
(* made, is written and destroyed (JsonSession), is sent in one of the     *)
(* binary formats (JsonTransfer), or is edited (JsonPatch).                *)
(***************************************************************************)
EXTENDS JsonRoundTrip, JsonTransfer, JsonPatch

libraryVars == <<sessionVars, transferVars, editVars>>

LibraryInit ==
  \/ SessionInit /\ NoTransfer /\ NoEdit
  \/ NoSession /\ TransferInit /\ NoEdit
  \/ NoSession /\ NoTransfer /\ EditInit

LibraryNext ==
  \/ SessionNext /\ UNCHANGED <<transferVars, editVars>>
  \/ TransferNext /\ UNCHANGED <<sessionVars, editVars>>
  \/ EditNext /\ UNCHANGED <<sessionVars, transferVars>>

LibrarySpec == LibraryInit /\ [][LibraryNext]_libraryVars /\ WF_sessionVars(SessionNext)

-----------------------------------------------------------------------------
(* Parsing, writing and destroying end, whatever the text and the strings. *)
JsonEnds == <>(stage = "done")
=============================================================================
