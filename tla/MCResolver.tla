----------------------------- MODULE MCResolver -----------------------------
(***************************************************************************)
(* A small world for Resolver: liba needs libb (which needs liba back),    *)
(* the host's libpthread and, behind /system/lib, libs; libbad refers to a *)
(* variable nobody has and to a function nobody has.                       *)
(***************************************************************************)
EXTENDS Resolver

Undef(x, bind, func) ==
  [name |-> x, bind |-> bind, def |-> FALSE, func |-> func, value |-> 0, size |-> 0]
Def(x, bind, value, size) ==
  [name |-> x, bind |-> bind, def |-> TRUE, func |-> TRUE, value |-> value, size |-> size]

Bare(n) == [dir |-> None, name |-> n]
In(d, n) == [dir |-> d, name |-> n]

MCFs == {<<"app", "liba">>, <<"app", "libb">>, <<"sys", "libb">>, <<"sys", "libs">>,
         <<"app", "libbad">>, <<"cwd", "libn">>}

MCSysvhash == [x \in SymNames |-> CASE x = "a1" -> 3 [] x = "a2" -> 5 [] x = "b1" -> 5 [] x = "mutex_lock" -> 7 [] OTHER -> 4]
MCGnuhash == [x \in SymNames |-> CASE x = "a1" -> 4 [] x = "a2" -> 5 [] x = "b1" -> 6 [] x = "mutex_lock" -> 13 [] OTHER -> 9]

A == <<Undef("mutex_lock", "GLOBAL", TRUE), Undef("b1", "GLOBAL", TRUE), Undef("weak", "WEAK", TRUE),
       Def("a1", "GLOBAL", 0, 2), Def("b2", "LOCAL", 2, 1), Def("a2", "WEAK", 4, 2)>>
B == <<Undef("puts", "GLOBAL", TRUE), Undef("glFoo", "WEAK", TRUE),
       Def("a1", "GLOBAL", 1, 2), Def("b1", "GLOBAL", 3, 2), Def("b2", "GLOBAL", 6, 0)>>
S == <<Undef("b1", "WEAK", FALSE), Undef("dladdr", "GLOBAL", TRUE), Def("b2", "GLOBAL", 0, 3)>>
Bad == <<Undef("nofunc", "GLOBAL", TRUE), Undef("sigsetjmp", "GLOBAL", TRUE), Def("a2", "GLOBAL", 0, 8)>>

(* Sorted for the GNU table when the file has one.                         *)
SortGnu(syms) ==
  SortSeq(syms, LAMBDA s, t : \/ ~s.def /\ t.def
                              \/ s.def /\ t.def /\ gnuhash[s.name] % NBucket < gnuhash[t.name] % NBucket)
Elf(needed, syms, tags) ==
  [needed |-> needed, tags |-> tags, symtab |-> IF "DT_GNU_HASH" \in tags THEN SortGnu(syms) ELSE syms]

MCFileOf ==
  [f \in Fs |->
     CASE f = <<"app", "liba">> -> Elf(<<Bare("libb"), Bare("libpthread"), In("sys", "libs")>>, A, {"DT_GNU_HASH"})
       [] f = <<"app", "libb">> -> Elf(<<Bare("liba")>>, B, {"DT_HASH", "DT_GNU_HASH"})
       [] f = <<"sys", "libb">> -> Elf(<<Bare("libnone")>>, B, {"DT_HASH"})
       [] f = <<"sys", "libs">> -> Elf(<<Bare("libdl.so")>>, S, {"DT_HASH"})
       [] f = <<"app", "libbad">> -> Elf(<<>>, Bad, {"DT_HASH"})
       [] f = <<"cwd", "libn">> -> Elf(<<Bare("libbad")>>, B, {"DT_GNU_HASH"})]

MCHostLibs == ("libpthread" :> {<<"bionic_", "mutex_lock">>, <<"", "mutex_lock">>})
MCHostSyms == {<<"", "puts">>}

MCRequests == {Bare("libx"), In("app", "libbad"), Bare("libn"), Bare("libpthread"),
               In("sys", "libs"), Bare("liblong")}

(* The first directory's two files disagree about libx; the second one     *)
(* overrides it again and makes the map grow.                              *)
Skip == <<"skip">>
MCCfgs == {<<{<<Skip, <<"libx", "libb">>>>, <<<<"libx", "liba">>, <<"libx", "libs">>>>},
             {<<<<"libx", "libn">>, <<"liby", "libx">>>>}>>,
           <<{}, {<<Skip>>, <<<<"libx", "libb">>, <<"bad">>>>}>>}

(* BIONIC_LD_LIBRARY_PATH, with a buffer of eight characters: it fits; is  *)
(* cut inside a component, behind one, behind a delimiter; the path is     *)
(* full before the buffer is.                                              *)
Comp(d, n) == [dir |-> d, len |-> n]
App == Comp("app", 3)
Dot == Comp("cwd", 1)
Long == Comp("long", 4)
Empty == Comp("", 0)
MCPathStrings ==
  {<<Dot, Empty, App>>, <<App, Long>>, <<App, Empty, Dot, App>>, <<App, Empty, Empty, Dot, Dot>>,
   <<Dot, Dot, App, Dot>>, <<Long, Empty, Empty, App>>}

ASSUME SymbolsAreApart == \A f \in Fs : SymbolsApart(FileOf[f].symtab)
=============================================================================
