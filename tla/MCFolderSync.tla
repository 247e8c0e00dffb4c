---------------------------- MODULE MCFolderSync ----------------------------
(* FolderSync for TLC: the first file is a Google document, the second grows too
   large: the gates refuse it when it is listed so, the download when it grew after. *)
EXTENDS FolderSync

MCFiles == {1, 2}
MCExported == {1}
MCTooLarge == {<<2, 2>>}
=============================================================================
