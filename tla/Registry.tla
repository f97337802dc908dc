------------------------------ MODULE Registry ------------------------------
(***************************************************************************)
(* The tables of scripts/builddeps.py that the orchestration reads: the   *)
(* repo_info registry, the Libs enum, and which libraries have a build_*  *)
(* function.  URLs, branches and recurse_submodules only change the text  *)
(* of git/curl commands, whose outcome the model chooses, and are left out.*)
(***************************************************************************)

\* The values of the Libs enum, in declaration order (list(Libs)).
RepoLibEnum ==
    <<"openssl", "awssdkcpp", "cares", "googletest", "curl", "nghttp2",
      "zlib", "krb5", "python", "perl", "nasm">>

\* repo_info, in dict order, with absent fields at the defaults the code
\* reads them with: platform "all", dependency lists [], source_type "git".
RepoInfo ==
    [order   |-> <<"krb5", "openssl", "awssdkcpp", "cares", "googletest",
                   "nghttp2", "curl", "zlib", "python", "perl", "nasm">>,
     plat    |-> [krb5 |-> "unix", openssl |-> "all", awssdkcpp |-> "all",
                  cares |-> "all", googletest |-> "all", nghttp2 |-> "unix",
                  curl |-> "unix", zlib |-> "unix", python |-> "windows",
                  perl |-> "windows", nasm |-> "windows"],
     deps    |-> [krb5 |-> {}, openssl |-> {}, awssdkcpp |-> {"curl", "openssl"},
                  cares |-> {}, googletest |-> {}, nghttp2 |-> {"openssl"},
                  curl |-> {"openssl", "zlib", "cares", "nghttp2", "krb5"},
                  zlib |-> {}, python |-> {}, perl |-> {}, nasm |-> {}],
     windeps |-> [krb5 |-> {}, openssl |-> {}, awssdkcpp |-> {"openssl"},
                  cares |-> {}, googletest |-> {}, nghttp2 |-> {}, curl |-> {},
                  zlib |-> {}, python |-> {}, perl |-> {}, nasm |-> {}],
     source  |-> [krb5 |-> "git", openssl |-> "git", awssdkcpp |-> "git",
                  cares |-> "git", googletest |-> "git", nghttp2 |-> "git",
                  curl |-> "git", zlib |-> "git", python |-> "compressed",
                  perl |-> "compressed", nasm |-> "compressed"]]

\* get_build_function: the libraries with a build_<name> function.
RepoBuildFunctions ==
    {"python", "cares", "nghttp2", "zlib", "krb5", "openssl", "curl",
     "googletest", "awssdkcpp"}

\* build_python returns 0 without running a command.
RepoNoOpBuilds == {"python"}

=============================================================================
