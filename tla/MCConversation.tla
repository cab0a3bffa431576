--------------------------- MODULE MCConversation ---------------------------
(***************************************************************************)
(* Small instances of Conversation for TLC: what the user sends, in order. *)
(***************************************************************************)
EXTENDS Conversation

JustFiles    == <<"files">>
FileDocFile  == <<"files", "bigdoc", "files">>
FileNoteFile == <<"files", "doc", "files">>
=============================================================================
