------------------------------ MODULE Symbols ------------------------------
(***************************************************************************)
(* Symbol tables: the two hash tables an ELF file may carry, as ld writes  *)
(* them (external) and as apkenv_link_image reads their headers, and the   *)
(* lookups of linker.c on them.                                            *)
(*                                                                         *)
(* A symbol is [name, bind, def, func, value, size]; a symbol table is a   *)
(* sequence whose index is the ELF symbol index (entry 0, STN_UNDEF, is    *)
(* left out).  Hashes are arbitrary functions of the name.                 *)
(***************************************************************************)
EXTENDS Integers, Sequences, FiniteSets, FiniteSetsExt

CONSTANTS
  SymNames,          \* names of symbols
  sysvhash,          \* [SymNames -> Nat]
  gnuhash,           \* [SymNames -> Nat]
  NBucket,           \* buckets of every table but libdl's
  BloomBits,         \* bits of a word of the bloom filter
  MaskWords,         \* words of the bloom filter, a power of two
  Shift2             \* gnu_shift2

ASSUME HashAssumption ==
  /\ sysvhash \in [SymNames -> Nat] /\ gnuhash \in [SymNames -> Nat]
  /\ {NBucket, BloomBits, MaskWords} \subseteq Nat \ {0} /\ Shift2 \in Nat

-----------------------------------------------------------------------------
(* What ld puts into a file with the symbols syms.  DT_HASH: all symbols,  *)
(* chained by index.  DT_GNU_HASH: the symbols from symndx on, which are   *)
(* the defined ones, sorted by bucket; the low bit of a chain word marks   *)
(* the last of its bucket.                                                 *)
SysvBucket(syms, b) == {n \in DOMAIN syms : sysvhash[syms[n].name] % NBucket = b}
MinOr0(S) == IF S = {} THEN 0 ELSE Min(S)

SysvTable(syms) ==
  [style |-> "sysv",
   bucket |-> [b \in 0 .. NBucket - 1 |-> MinOr0(SysvBucket(syms, b))],
   chain |-> [n \in DOMAIN syms |->
                MinOr0({k \in SysvBucket(syms, sysvhash[syms[n].name] % NBucket) : k > n})]]

BloomBit(h) == {h % BloomBits, (h \div 2 ^ Shift2) % BloomBits}
BloomWord(h) == (h \div BloomBits) % MaskWords

GnuTable(syms) ==
  LET hashed == {n \in DOMAIN syms : syms[n].def}
      at(n) == gnuhash[syms[n].name] % NBucket
      last(n) == IF n + 1 \in hashed /\ at(n + 1) = at(n) THEN 0 ELSE 1
      h(n) == gnuhash[syms[n].name]
  IN  [style |-> "gnu",
       bucket |-> [b \in 0 .. NBucket - 1 |-> MinOr0({n \in hashed : at(n) = b})],
       chain |-> [n \in hashed |-> 2 * (h(n) \div 2) + last(n)],
       bloom |-> [w \in 0 .. MaskWords - 1 |->
                    UNION {BloomBit(h(n)) : n \in {k \in hashed : BloomWord(h(k)) = w}}]]

(* A file whose symbols ld could have written: the undefined ones first,   *)
(* the others by bucket.                                                   *)
SortedForGnu(syms) ==
  \A n, k \in DOMAIN syms : n < k =>
    /\ syms[k].def \/ ~syms[n].def
    /\ syms[n].def => gnuhash[syms[n].name] % NBucket <= gnuhash[syms[k].name] % NBucket

(* The DT_HASH and DT_GNU_HASH cases of apkenv_link_image: whatever their  *)
(* order, the GNU table wins, and with it FLAG_GNU_HASH.                   *)
HashTable(syms, tags) == IF "DT_GNU_HASH" \in tags THEN GnuTable(syms) ELSE SysvTable(syms)

-----------------------------------------------------------------------------
(* Lookups.  so is a soinfo: its symtab and its table.                     *)

is_gnu_hash(so) == so.table.style = "gnu"

is_symbol_global_and_defined(s) == s.bind \in {"GLOBAL", "WEAK"} /\ s.def

Is(so, n, name) == so.symtab[n].name = name /\ is_symbol_global_and_defined(so.symtab[n])

(* The loop from bucket to chain, 0 when it ends without a match.          *)
elf_lookup_sysv(so, name) ==
  LET nb == Cardinality(DOMAIN so.table.bucket)
      walk[n \in 0 .. Len(so.symtab)] ==
        IF n = 0 THEN 0 ELSE IF Is(so, n, name) THEN n ELSE walk[so.table.chain[n]]
  IN  walk[so.table.bucket[sysvhash[name] % nb]]

\* Mutant of elf_lookup_gnu: the low bit takes part in the comparison.
elf_lookup_gnu_unshifted(so, name) ==
  LET hash == gnuhash[name]
      walk[n \in 1 .. Len(so.symtab)] ==
        IF so.table.chain[n] = hash /\ Is(so, n, name) THEN n
        ELSE IF so.table.chain[n] % 2 = 1 THEN 0 ELSE walk[n + 1]
      first == so.table.bucket[hash % Cardinality(DOMAIN so.table.bucket)]
  IN  IF ~(BloomBit(hash) \subseteq so.table.bloom[BloomWord(hash)]) \/ first = 0 THEN 0 ELSE walk[first]

elf_lookup_gnu(so, name) ==
  LET hash == gnuhash[name]
      walk[n \in 1 .. Len(so.symtab)] ==
        IF so.table.chain[n] \div 2 = hash \div 2 /\ Is(so, n, name) THEN n
        ELSE IF so.table.chain[n] % 2 = 1 THEN 0 ELSE walk[n + 1]
      first == so.table.bucket[hash % Cardinality(DOMAIN so.table.bucket)]
  IN  IF ~(BloomBit(hash) \subseteq so.table.bloom[BloomWord(hash)]) \/ first = 0 THEN 0 ELSE walk[first]

elf_lookup(so, name) == IF is_gnu_hash(so) THEN elf_lookup_gnu(so, name) ELSE elf_lookup_sysv(so, name)

\* Mutant of symbol_matches_soaddr: the end belongs to the symbol.
symbol_touches_soaddr(s, soaddr) == s.def /\ s.value <= soaddr /\ soaddr <= s.value + s.size
symbol_matches_soaddr(s, soaddr) == s.def /\ s.value <= soaddr /\ soaddr < s.value + s.size

(* Every symbol for a DT_HASH table, the hashed ones bucket by bucket for  *)
(* a DT_GNU_HASH table; 0 when none contains the address.                  *)
find_containing_symbol(so, soaddr) ==
  MinOr0({n \in (IF is_gnu_hash(so) THEN DOMAIN so.table.chain ELSE DOMAIN so.symtab) :
            symbol_matches_soaddr(so.symtab[n], soaddr)})

-----------------------------------------------------------------------------
(* The hand-made table of libdl.so (dlfcn.c).                              *)
LibdlNames == <<"dlopen", "dlclose", "dlsym", "dlerror", "dladdr", "dl_iterate_phdr">>

libdl_chains == <<2, 3, 4, 5, 6, 0>>

libdl_symtab ==
  [n \in 1 .. 6 |-> [name |-> LibdlNames[n], bind |-> "GLOBAL", def |-> TRUE, func |-> FALSE,
                     value |-> n, size |-> 0]]

libdl_info ==
  [name |-> "libdl.so", from |-> "libdl", base |-> 0, size |-> 0, flags |-> {"LINKED"},
   needed |-> <<>>, symtab |-> libdl_symtab,
   table |-> [style |-> "sysv", bucket |-> [b \in {0} |-> 1], chain |-> libdl_chains]]
=============================================================================
