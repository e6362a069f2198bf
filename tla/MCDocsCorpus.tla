---------------------------- MODULE MCDocsCorpus ----------------------------
(***************************************************************************)
(* Two processes, one with two workers, a DevDocs set and two releases of  *)
(* one ZIM archive.                                                        *)
(***************************************************************************)
EXTENDS DocsCorpus

MCArchive == [go |-> "go", wiki6 |-> "wiki", wiki7 |-> "wiki"]
MCProcOf  == [a1 |-> "a", a2 |-> "a", b1 |-> "b"]
=============================================================================
