--------------------------- MODULE BuildTemplates ---------------------------
(***************************************************************************)
(* The build command templates of scripts/builddeps.py and the way a      *)
(* build_<name> function turns them into the argument lists build_dep     *)
(* runs: get_repo_build_commands formats each template with the           *)
(* function's keyword arguments, and build_dep splits the result with     *)
(* shlex and runs it without a shell.                                      *)
(*                                                                         *)
(* Data abstraction.  Paths are sequences of components relative to the   *)
(* parent source directory (so <<"install", "openssl">> is                 *)
(* parent_src_dir/install/openssl, the default install_dir_cfg).  A       *)
(* command keeps its program, as the kind of effect it has, and the words *)
(* that carry a placeholder or a path; option flags are left out.  Paths  *)
(* under a sibling's install tree keep the sibling's name and drop the    *)
(* include/ and lib/ file names below it, except where a step acts on a   *)
(* file name (the rm patterns and the ln target).                          *)
(*                                                                         *)
(* A word is [kind, key, sub]:                                             *)
(*   "ph"  -- {key}/sub, a placeholder left by an f-string's {{key}}       *)
(*   "esc" -- {{key}}/sub, written in a plain string, which format turns  *)
(*            into the literal text {key}                                  *)
(***************************************************************************)
EXTENDS Integers, Sequences, FiniteSets

LOCAL SX == INSTANCE SequencesExt

Ph(k, sub) == [kind |-> "ph", key |-> k, sub |-> sub]
W(k)       == Ph(k, <<>>)
Esc(k)     == [kind |-> "esc", key |-> k, sub |-> <<>>]
Cmd(prog, words) == [prog |-> prog, words |-> words]

\* Program kinds: "autoreconf", "configure" (./configure, ./Configure,
\* perl Configure), "cmake" (configure into -B dir), "make" (make, nmake,
\* cmake --build), "install", "clean", "mkdir", "rm", "ln".

\* unix_build_commands (Linux and macOS).
UnixBuildCommands ==
  [curl |-> <<
     Cmd("autoreconf", <<>>),
     Cmd("configure", <<W("CPPFLAGS_"), W("LDFLAGS_"), W("LIBS_"), W("EXTRAS_"),
          W("install_dir"), Ph("install_dir_parent", <<"cares">>),
          Ph("install_dir_parent", <<"openssl">>), Ph("install_dir_parent", <<"zlib">>),
          Ph("install_dir_parent", <<"nghttp2">>), Ph("install_dir_parent", <<"krb5">>)>>),
     Cmd("make", <<>>), Cmd("install", <<>>), Cmd("clean", <<>>)>>,
   openssl |-> <<
     Cmd("configure", <<W("install_dir"), W("openssl_platform")>>),
     Cmd("make", <<>>), Cmd("install", <<>>), Cmd("clean", <<>>),
     Cmd("rm", <<Ph("install_dir", <<"lib", "*.dylib">>), Ph("install_dir", <<"lib", "*.so">>)>>)>>,
   awssdkcpp |-> <<
     Cmd("rm", <<W("build_dir")>>),
     Cmd("mkdir", <<W("build_dir")>>),
     Cmd("cmake", <<W("cmake_command"), W("build_dir"), W("install_dir"),
          Ph("install_dir_parent", <<"openssl">>), Ph("install_dir_parent", <<"curl">>),
          Ph("install_dir_parent", <<"care">>), Ph("install_dir_parent", <<"krb5">>),
          Ph("install_dir_parent", <<"nghttp2">>)>>),
     Cmd("make", <<W("build_dir")>>), Cmd("install", <<W("build_dir")>>),
     Cmd("rm", <<W("build_dir")>>)>>,
   cares |-> <<
     Cmd("mkdir", <<W("build_dir")>>),
     Cmd("cmake", <<W("cmake_command"), W("build_dir"), W("install_dir")>>),
     Cmd("make", <<W("build_dir")>>), Cmd("install", <<W("build_dir")>>),
     Cmd("rm", <<W("build_dir")>>)>>,
   nghttp2 |-> <<
     Cmd("mkdir", <<W("build_dir")>>),
     Cmd("cmake", <<W("cmake_command"), W("build_dir"),
          Ph("install_dir_parent", <<"openssl">>), W("install_dir")>>),
     Cmd("make", <<W("build_dir")>>), Cmd("install", <<W("build_dir")>>),
     Cmd("rm", <<W("build_dir")>>)>>,
   zlib |-> <<
     Cmd("mkdir", <<Esc("build_dir")>>),
     Cmd("cmake", <<W("cmake_command"), W("build_dir"), W("install_dir")>>),
     Cmd("make", <<W("build_dir")>>), Cmd("install", <<W("build_dir")>>),
     Cmd("rm", <<W("build_dir")>>),
     Cmd("rm", <<Ph("install_dir", <<"lib", "*.dylib">>), Ph("install_dir", <<"lib", "*.so">>)>>)>>,
   googletest |-> <<
     Cmd("mkdir", <<W("build_dir")>>),
     Cmd("cmake", <<W("cmake_command"), W("build_dir"), W("install_dir")>>),
     Cmd("make", <<W("build_dir")>>), Cmd("install", <<W("build_dir")>>),
     Cmd("rm", <<W("build_dir")>>)>>,
   krb5 |-> <<
     Cmd("autoreconf", <<>>), Cmd("configure", <<W("options")>>),
     Cmd("make", <<>>), Cmd("install", <<>>),
     Cmd("configure", <<W("options")>>),
     Cmd("make", <<>>), Cmd("install", <<>>),
     Cmd("rm", <<Ph("install_dir", <<"lib", "*.dylib">>)>>),
     Cmd("ln", <<Ph("install_dir", <<"lib", "libgssapi_krb5.a">>),
                 Ph("install_dir", <<"lib", "libgssapi.a">>)>>)>>,
   python |-> <<>>]

\* windows_build_commands; the "if exist ... rmdir" and "if not exist ...
\* mkdir" lines run through cmd /c, so they act as rm and mkdir.
WindowsBuildCommands ==
  [openssl |-> <<
     Cmd("configure", <<W("openssl_platform"), W("install_dir"), Ph("install_dir", <<"ssl">>)>>),
     Cmd("make", <<>>), Cmd("install", <<>>), Cmd("clean", <<>>)>>,
   awssdkcpp |-> <<
     Cmd("rm", <<W("build_dir")>>), Cmd("mkdir", <<W("build_dir")>>),
     Cmd("cmake", <<W("cmake_command"), W("build_dir"), W("install_dir")>>),
     Cmd("make", <<W("cmake_command"), W("build_dir")>>),
     Cmd("install", <<W("cmake_command"), W("build_dir")>>),
     Cmd("rm", <<W("build_dir")>>)>>,
   cares |-> <<
     Cmd("rm", <<W("build_dir")>>), Cmd("mkdir", <<W("build_dir")>>),
     Cmd("cmake", <<W("cmake_command"), W("build_dir"), W("install_dir")>>),
     Cmd("make", <<W("cmake_command"), W("build_dir")>>),
     Cmd("install", <<W("cmake_command"), W("build_dir")>>),
     Cmd("rm", <<W("build_dir")>>)>>,
   googletest |-> <<
     Cmd("rm", <<W("build_dir")>>), Cmd("mkdir", <<W("build_dir")>>),
     Cmd("cmake", <<W("cmake_command"), W("build_dir"), W("install_dir")>>),
     Cmd("make", <<W("cmake_command"), W("build_dir")>>),
     Cmd("install", <<W("cmake_command"), W("build_dir")>>),
     Cmd("rm", <<W("build_dir")>>)>>,
   python |-> <<>>]

\* get_build_commands
GetBuildCommands(host) ==
    IF host = "Windows" THEN WindowsBuildCommands ELSE UnixBuildCommands

\* get_install_dir: install_dir_cfg/<lib>, with the build type below it on
\* Windows ("Release" unless --build-type says otherwise).
InstallDir(l, host) ==
    IF host = "Windows" THEN <<"install", l, "Release">> ELSE <<"install", l>>

\* get_build_dir with no --build-dir: parent_src_dir/<lib>/build.
BuildDir(l) == <<l, "build">>

\* os.path.dirname(install_dir), computed by the build functions that pass
\* install_dir_parent.
InstallDirParent(l, host) == SX!Front(InstallDir(l, host))

\* Mutant: build_nghttp2 forgets to pass install_dir_parent.
KwArgsNoParent(l, host) ==
    LET id  == {InstallDir(l, host)}
        bd  == {BuildDir(l)}
        idp == InstallDirParent(l, host)
        sib(xs) == {idp \o <<x>> : x \in xs}
    IN  CASE l \in {"cares", "zlib", "googletest"} ->
               [build_dir |-> bd, install_dir |-> id, cmake_command |-> {}]
          [] l = "nghttp2" ->
               [build_dir |-> bd, install_dir |-> id, cmake_command |-> {}]
          [] l = "krb5" ->
               [build_dir |-> bd, install_dir |-> id, cmake_command |-> {}, options |-> id]
          [] l = "openssl" ->
               [build_dir |-> bd, install_dir |-> id, openssl_platform |-> {}]
          [] l = "curl" ->
               [install_dir |-> id, cmake_command |-> {}, build_dir |-> bd,
                install_dir_parent |-> {idp},
                LIBS_ |-> IF host = "Linux"
                            THEN sib({"krb5", "nghttp2", "openssl", "zlib"}) ELSE {},
                CPPFLAGS_ |-> sib({"nghttp2", "openssl", "cares", "zlib", "krb5"}),
                LDFLAGS_ |-> {}, EXTRAS_ |-> {}]
          [] l = "awssdkcpp" ->
               [build_dir |-> bd, install_dir |-> id, cmake_command |-> {},
                install_dir_parent |-> {idp}]

\* The keyword arguments of build_<l>, each as the set of paths its value
\* names.  cmake_command and openssl_platform name none.  build_curl's
\* CPPFLAGS_ names the include directories of its five dependencies, and
\* on Linux its LIBS_ names their static libraries; on macOS LIBS_ is a
\* list of -l flags.  build_krb5's options carries --prefix=install_dir.
KwArgs(l, host) ==
    LET id  == {InstallDir(l, host)}
        bd  == {BuildDir(l)}
        idp == InstallDirParent(l, host)
        sib(xs) == {idp \o <<x>> : x \in xs}
    IN  CASE l \in {"cares", "zlib", "googletest"} ->
               [build_dir |-> bd, install_dir |-> id, cmake_command |-> {}]
          [] l = "nghttp2" ->
               [install_dir_parent |-> {idp}, build_dir |-> bd, install_dir |-> id,
                cmake_command |-> {}]
          [] l = "krb5" ->
               [build_dir |-> bd, install_dir |-> id, cmake_command |-> {}, options |-> id]
          [] l = "openssl" ->
               [build_dir |-> bd, install_dir |-> id, openssl_platform |-> {}]
          [] l = "curl" ->
               [install_dir |-> id, cmake_command |-> {}, build_dir |-> bd,
                install_dir_parent |-> {idp},
                LIBS_ |-> IF host = "Linux"
                            THEN sib({"krb5", "nghttp2", "openssl", "zlib"}) ELSE {},
                CPPFLAGS_ |-> sib({"nghttp2", "openssl", "cares", "zlib", "krb5"}),
                LDFLAGS_ |-> {}, EXTRAS_ |-> {}]
          [] l = "awssdkcpp" ->
               [build_dir |-> bd, install_dir |-> id, cmake_command |-> {},
                install_dir_parent |-> {idp}]

\* The literal text a placeholder leaves when format does not replace it.
Braced(k)  == "{" \o k \o "}"
Braced2(k) == "{{" \o k \o "}}"

\* get_repo_build_commands' format_command: cmd.format(**kwargs) replaces
\* every {key} and turns every {{key}} into {key}; if some key is missing,
\* format raises KeyError and the whole command is returned unformatted.
\* The result is the set of paths among build_dep's shlex-split arguments;
\* a word that is no absolute path is relative to cwd, and a pattern such
\* as *.so stays a literal file name because no shell expands it.
FormatCommand(cmd, kw, cwd) ==
    LET ws == SX!ToSet(cmd.words)
        ok == \A w \in ws : w.kind = "ph" => w.key \in DOMAIN kw
        Expand(w) ==
            IF ok
              THEN IF w.kind = "ph" THEN {p \o w.sub : p \in kw[w.key]}
                                    ELSE {cwd \o <<Braced(w.key)>> \o w.sub}
              ELSE IF w.kind = "ph" THEN {cwd \o <<Braced(w.key)>> \o w.sub}
                                    ELSE {cwd \o <<Braced2(w.key)>> \o w.sub}
    IN  [prog |-> cmd.prog, args |-> UNION {Expand(w) : w \in ws}, formatted |-> ok]

=============================================================================
