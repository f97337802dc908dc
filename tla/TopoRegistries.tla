--------------------------- MODULE TopoRegistries ---------------------------
(***************************************************************************)
(* Every registry of three libraries a, b, c: each may list any subset of  *)
(* a, b, c and the unknown name u as dependencies, and may be excluded     *)
(* from the host by its platform field.  A few registries also carry a    *)
(* key x that is no Libs value.                                            *)
(***************************************************************************)

MCLibEnum == <<"a", "b", "c">>

Names == {"a", "b", "c"}

DepChoices == SUBSET (Names \cup {"u"})

\* On Linux or macOS only the unix "dependencies" list is read; an entry
\* applies everywhere or only to Windows.
UnixRegistries ==
    [order : {<<"a", "b", "c">>}, plat : [Names -> {"all", "windows"}],
     deps : [Names -> DepChoices], windeps : [Names -> {{}}]]

\* On Windows only "win_dependencies" is read; "dependencies" is either
\* empty or lists everything, to show it is ignored.
WindowsRegistries ==
    [order : {<<"a", "b", "c">>}, plat : [Names -> {"all", "unix"}],
     deps : [Names -> {{}, Names}], windeps : [Names -> DepChoices]]

\* A registry key that has no Libs member.
InvalidKeyRegistries ==
    [order : {<<"a", "x", "b">>}, plat : [{"a", "b", "x"} -> {"all"}],
     deps : [{"a", "b", "x"} -> {{}, {"a"}}], windeps : [{"a", "b", "x"} -> {{}, {"a"}}]]

\* The registries for a host.
RegistriesFor(host) ==
    (IF host = "Windows" THEN WindowsRegistries ELSE UnixRegistries)
        \cup InvalidKeyRegistries

=============================================================================
