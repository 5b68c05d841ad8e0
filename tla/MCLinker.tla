------------------------------ MODULE MCLinker ------------------------------
(***************************************************************************)
(* An instance of Linker.  `a' needs `b' and `c', `b' needs `c', and `c'   *)
(* needs `a' again; `sys_c' is `c' behind an override; `d' needs nothing   *)
(* and its constructor calls dlopen; `g' is a glibc library; `libdl' is    *)
(* matched by the static apkenv_libdl_info.  With three soinfos for the    *)
(* four libraries the pool runs out.                                       *)
(***************************************************************************)
EXTENDS Linker

CONSTANTS t1, t2

\* The whole instance, and the part without libdl and the glibc library.
AllPaths   == {"a", "b", "c", "sys_c", "d", "g", "libdl"}
AppPaths   == {"a", "b", "c", "sys_c"}
MCOverride == [p \in Paths |-> IF p = "sys_c" THEN "c" ELSE p]
MCBname    == [p \in Paths |-> IF p = "sys_c" THEN "c" ELSE p]
MCKind     == [p \in Paths |-> IF p = "g" THEN "glibc" ELSE "bionic"]
MCNeeded   == [p \in Paths |-> CASE p = "a" -> <<"b", "sys_c">>
                                 [] p = "b" -> <<"c">>
                                 [] p = "c" -> <<"a">>
                                 [] OTHER   -> << >>]

\* `c', which the others need, may fail at every point of loading and
\* linking; `a' also after it has bound its DT_NEEDED entries.
AnyFate    == [p \in Paths |-> CASE p = "c" -> Fates \ {"load_fail", "relro_fail"}
                                 [] p = "a" -> {"ok", "relro_fail"}
                                 [] OTHER   -> {"ok"}]
OkFate     == [p \in Paths |-> {"ok"}]
=============================================================================
