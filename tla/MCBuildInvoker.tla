--------------------------- MODULE MCBuildInvoker ---------------------------
(***************************************************************************)
(* The build invoker on the repository's own registry and templates.      *)
(***************************************************************************)
EXTENDS BuildInvoker, Registry

MCRegistries == {RepoInfo}

\* OpenSSL's default build, zlib's CMakeLists and krb5's first configure
\* install shared libraries, which is why their templates remove them.
MCSharedInstalls == {"openssl", "zlib", "krb5"}

=============================================================================
