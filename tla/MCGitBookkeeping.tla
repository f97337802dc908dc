-------------------------- MODULE MCGitBookkeeping --------------------------
(***************************************************************************)
(* One library folder over three invocations, with paths of up to three  *)
(* parts over two names for the working directory and parent_src_dir.   *)
(***************************************************************************)
EXTENDS GitBookkeeping

MCParts == {"a", "b"}

=============================================================================
