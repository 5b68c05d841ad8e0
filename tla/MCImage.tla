------------------------------ MODULE MCImage ------------------------------
(***************************************************************************)
(* Library files for model checking Image: a page is two words, a RELR     *)
(* entry has three bitmap bits.  The files vary the layout of the data     *)
(* segment and its RELRO part, the relocations, and the RELR set; the last *)
(* group is files with something odd about them.                           *)
(***************************************************************************)
EXTENDS Image

Content == [o \in {w \in 0 .. 15 : w % 2 = 0} |-> 20 + o]

Seg(off, vaddr, filesz, memsz, flags) ==
  [type |-> "LOAD", off |-> off, vaddr |-> vaddr, filesz |-> filesz, memsz |-> memsz, flags |-> flags]
Relro(vaddr, memsz) ==
  [type |-> "RELRO", off |-> 0, vaddr |-> vaddr, filesz |-> 0, memsz |-> memsz, flags |-> {"R"}]
Dynamic == [Relro(4, 2) EXCEPT !.type = "OTHER"]

Text == Seg(0, 0, 4, 4, {"R", "X"})
Data(vaddr, filesz, memsz) == Seg(vaddr, vaddr, filesz, memsz, {"R", "W"})

(* The encoder: an address entry, then bitmap entries of RelrBits - 1 bits *)
(* while they have something to say.                                       *)
RECURSIVE Encode(_, _)
Encode(S, b) ==
  IF S = {} THEN <<>>
  ELSE LET span == (RelrBits - 1) * WORD
           here == {w \in S : Within(w, b, b + span)}
       IN  IF b >= 0 /\ here # {}
           THEN <<1 + MapThenSumSet(LAMBDA w : 2 ^ ((w - b) \div WORD + 1), here)>>
                \o Encode(S \ here, b + span)
           ELSE <<Min(S)>> \o Encode(S \ {Min(S)}, Min(S) + WORD)

(* The bitmap base at each entry, and after the last one.                  *)
RECURSIVE Bases(_, _)
Bases(es, b) ==
  <<b>> \o IF es = <<>> THEN <<>>
           ELSE Bases(Tail(es), IF Head(es) % 2 = 0 THEN Head(es) + WORD ELSE b + (RelrBits - 1) * WORD)

File(hs, needed, rel0, relrs) ==
  [elf |-> TRUE, prelink |-> 0, phdr |-> hs, content |-> Content, needed |-> needed,
   rel |-> rel0, relrSet |-> relrs, relr |-> Encode(relrs, -1),
   relrBase |-> Bases(Encode(relrs, -1), 0), tables |-> TRUE, unsupported |-> FALSE,
   debug |-> NoDebug]

R(type, off, sym, add) == [type |-> type, off |-> off, sym |-> sym, S |-> 50, add |-> add]

Plain == <<Text, Dynamic, Data(4, 6, 12)>>
Base == File(Plain \o <<Relro(4, 4)>>, <<4>>, <<>>, {8, 14})

Layouts ==
  {File(<<Text, Data(v, fs, ms)>> \o r, <<>>, <<R("RELATIVE", 6, "none", 2)>>, {}) :
     v \in {4, 6}, fs \in {0, 2, 4}, ms \in {4, 6}, r \in {<<>>, <<Relro(4, 4)>>, <<Relro(4, 40)>>}}
  \cup {File(<<Text, Seg(4, 8, 4, 4, {"R"}), Data(12, 2, 4)>>, <<12>>, <<>>, {0, 8})}

Types == {"JUMP_SLOT", "GLOB_DAT", "RELATIVE", "ABS64", "ABS32", "ABS16", "PREL64", "PREL32",
          "PREL16", "TLS", "32", "64", "PC32", "REL32", "NONE", "COPY"}

Relocs ==
  {File(Plain, <<4>>, <<R("RELATIVE", 0, "none", 2), R(t, 6, s, 3)>>, {8}) :
     t \in Types, s \in {"none", "def", "weak", "undef"}}

(* What ld writes for a RELA build: the place holds zero.                  *)
ZeroPlaces ==
  {[f EXCEPT !.content[6] = 0] : f \in {g \in Relocs : g.rel[2].type \in {"ABS64", "GLOB_DAT", "64"}}}

Relrs == {File(Plain, <<>>, <<>>, S) : S \in SUBSET {0, 2, 6, 8, 12, 14}}

Odd ==
  {[Base EXCEPT !.elf = FALSE],
   [Base EXCEPT !.prelink = 8],
   [Base EXCEPT !.tables = FALSE],
   [Base EXCEPT !.unsupported = TRUE],
   [Base EXCEPT !.debug = 6],
   [Base EXCEPT !.debug = 40],
   File(<<Dynamic>>, <<>>, <<>>, {}),
   File(<<Seg(4, 4, 4, 4, {"R"}), Data(8, 2, 4)>>, <<>>, <<>>, {}),
   File(<<Text, Seg(2, 2, 2, 2, {"R"})>>, <<>>, <<>>, {}),
   File(<<Text, Data(4, 4, 4), Seg(8, 8, 4, 4, {"R"})>>, <<>>, <<>>, {}),
   File(<<Text, Data(4, 4, 4)>>, <<2>>, <<>>, {}),
   File(<<Text, Data(4, 8, 4)>>, <<>>, <<>>, {}),
   File(<<Text, Data(4, 4, 4)>>, <<>>, <<R("RELATIVE", 40, "none", 0)>>, {})}

MCFiles == Layouts \cup Relocs \cup ZeroPlaces \cup Relrs \cup Odd \cup {Base}

ASSUME FilesNameOnce == \A f \in Files : NamedOnce(f)
=============================================================================
