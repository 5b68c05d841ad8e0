------------------------------- MODULE Image -------------------------------
(***************************************************************************)
(* The memory image of one library: linker.c from the program headers of   *)
(* the opened file to the munmap of its region.  apkenv_load_library       *)
(* reserves a region, apkenv_load_segments maps the PT_LOAD segments over  *)
(* it, apkenv_link_image stores into it (DT_NEEDED payloads, relocations,  *)
(* RELR), write-protects the text and the RELRO part, and                  *)
(* apkenv_init_library or apkenv_unload_library gives the region back.     *)
(*                                                                         *)
(* Addresses are scaled: a page is PAGE_SIZE units, a word WORD units, and *)
(* the address space has NPages pages, of which page 0 is never handed     *)
(* out.  Other threads of the application map pages of their own between   *)
(* any two steps (AppMap): apkenv_dl_lock does not stop malloc.            *)
(***************************************************************************)
EXTENDS Integers, Sequences, FiniteSets, FiniteSetsExt

CONSTANTS
  PAGE_SIZE,     \* units of a page
  WORD,          \* sizeof(ElfW(Addr)), in units; even, as RELR needs
  NPages,        \* pages of the address space
  RelrBits,      \* bits of a RELR entry (8 * sizeof(ElfW(Addr)))
  Sentinel,      \* 0xffffffff: the largest uint32_t, in units
  Archs,         \* the builds: a subset of AllArchs
  Files,         \* the library files that may be opened
  MaxApp         \* bound: pages the rest of the application maps

AllArchs == {"aarch64", "x86_64", "arm", "i386"}

ASSUME SizeAssumption ==
  /\ {PAGE_SIZE, WORD, NPages, RelrBits, Sentinel, MaxApp} \subseteq Nat \ {0}
  /\ WORD % 2 = 0 /\ PAGE_SIZE % WORD = 0
  /\ Archs \subseteq AllArchs

NoDebug == -1

Phdr == [type : {"LOAD", "RELRO", "OTHER"}, off : Nat, vaddr : Nat, filesz : Nat, memsz : Nat,
         flags : SUBSET {"R", "W", "X"}]
Rel == [type : STRING, off : Nat, sym : {"none", "def", "weak", "undef"}, S : Nat, add : Int]

(* What a file holds.  relrSet and relrBase are not in it: they are the    *)
(* words its RELR table was made from and the bitmap base at each entry.   *)
ASSUME FileAssumption ==
  \A f \in Files :
    /\ {f.elf, f.tables, f.unsupported} \subseteq BOOLEAN
    /\ f.prelink \in Nat /\ f.debug \in Nat \cup {NoDebug}
    /\ f.phdr \in Seq(Phdr) /\ f.content \in [DOMAIN f.content -> Int]
    /\ f.needed \in Seq(Nat) /\ f.rel \in Seq(Rel)
    /\ f.relr \in Seq(Nat) /\ f.relrSet \subseteq Nat /\ f.relrBase \in Seq(Int)

VARIABLES
  arch,   \* the architecture the linker was built for
  page,   \* page -> who mapped it and its protection
  word,   \* word address -> its content
  si,     \* the soinfo: file, base, size, write-protect range, RELRO, flags
  pc,     \* where the loader is
  i,      \* index of the loop it is in
  rbase   \* `base' of apkenv_relocate_relr

vars == <<arch, page, word, si, pc, i, rbase>>

PageNos == 0 .. NPages - 1
Words == {w \in 0 .. NPages * PAGE_SIZE - 1 : w % WORD = 0}
Down(a) == a - (a % PAGE_SIZE)
Up(a) == Down(a + PAGE_SIZE - 1)
PageOf(a) == a \div PAGE_SIZE
Within(a, lo, hi) == lo <= a /\ a < hi

(* The pages and the words a call on [a, a + len) touches: the kernel      *)
(* works on whole pages.                                                   *)
PagesOf(a, len) == {p \in PageNos : Within(p, PageOf(a), PageOf(Up(a + len)))}
WordsOf(a, len) == {w \in Words : PageOf(w) \in PagesOf(a, len)}

-----------------------------------------------------------------------------
(* System calls, as the linker uses them.                                  *)

Fits(a, len) == len > 0 /\ a > 0 /\ a + len <= NPages * PAGE_SIZE

(* mmap(MAP_FIXED): whatever was there is replaced.                        *)
Mapped(pg, a, len, prot) ==
  [p \in PageNos |-> IF p \in PagesOf(a, len) THEN [who |-> "lib", prot |-> prot] ELSE pg[p]]

munmap(a, len) ==
  [p \in PageNos |-> IF p \in PagesOf(a, len) THEN [who |-> "free", prot |-> {}] ELSE page[p]]

mprotect(pg, a, len, prot) ==
  [p \in PageNos |-> IF p \in PagesOf(a, len) /\ pg[p].who # "free"
                     THEN [pg[p] EXCEPT !.prot = prot] ELSE pg[p]]

Free(a, len) == Fits(a, len) /\ \A p \in PagesOf(a, len) : page[p].who = "free"

Writable(a) == a \in Words /\ "W" \in page[PageOf(a)].prot

-----------------------------------------------------------------------------
(* apkenv_get_lib_extents                                                  *)

Loads(f) == {k \in DOMAIN f.phdr : f.phdr[k].type = "LOAD"}
SegEnd(h) == h.vaddr + h.memsz
min_vaddr(f) == Min({f.phdr[k].vaddr : k \in Loads(f)})
max_vaddr(f) == Max({SegEnd(f.phdr[k]) : k \in Loads(f)})

BadExtents(f) == ~f.elf \/ Loads(f) = {}
\* Mutant of total_sz: p_filesz for p_memsz.
SizeOfFileParts(f) == Up(Max({f.phdr[k].vaddr + f.phdr[k].filesz : k \in Loads(f)})) - Down(min_vaddr(f))
total_sz(f) == Up(max_vaddr(f)) - Down(min_vaddr(f))

-----------------------------------------------------------------------------
Init ==
  /\ arch \in Archs
  /\ page = [p \in PageNos |-> [who |-> IF p = 0 THEN "app" ELSE "free", prot |-> {}]]
  /\ word = [w \in Words |-> 0]
  /\ si = <<>> /\ pc = "idle" /\ i = 0 /\ rbase = 0

(* Somewhere else in the process a page is mapped.                         *)
AppMap ==
  /\ Cardinality({p \in PageNos : page[p].who = "app"}) <= MaxApp
  /\ \E p \in PageNos :
       /\ page[p].who = "free"
       /\ page' = [page EXCEPT ![p] = [who |-> "app", prot |-> {"R", "W"}]]
  /\ UNCHANGED <<arch, word, si, pc, i, rbase>>

(* apkenv_load_library gives up before anything is mapped: a read fails,   *)
(* the file has bad extents, no soinfo is left, or mmap refuses.           *)
LoadFails ==
  /\ pc = "idle"
  /\ pc' = "rejected"
  /\ UNCHANGED <<arch, page, word, si, i, rbase>>

Reserved(f, base) ==
  /\ page' = Mapped(page, base, total_sz(f), {})
  /\ si' = [file |-> f, base |-> base, size |-> total_sz(f), flags |-> {},
            wrprotect_start |-> Sentinel, wrprotect_end |-> 0,
            relro_start |-> 0, relro_len |-> 0, total |-> 0]
  /\ pc' = "segments" /\ i' = 1
  /\ UNCHANGED <<arch, word, rbase>>

(* apkenv_reserve_mem_region: a prelinked file names its address and gets  *)
(* it with MAP_FIXED, whatever is mapped there.                            *)
reserve_mem_region ==
  /\ pc = "idle"
  /\ \E f \in Files : /\ ~BadExtents(f) /\ f.prelink # 0 /\ Fits(f.prelink, total_sz(f))
                      /\ Reserved(f, f.prelink)

(* apkenv_alloc_mem_region: anywhere the kernel likes.                     *)
alloc_mem_region ==
  /\ pc = "idle"
  /\ \E f \in Files, b \in PageNos :
       /\ ~BadExtents(f) /\ f.prelink = 0 /\ Free(b * PAGE_SIZE, total_sz(f))
       /\ Reserved(f, b * PAGE_SIZE)

-----------------------------------------------------------------------------
(* apkenv_load_segments, one program header at a time.                     *)

phdr == si.file.phdr[i]
AtPhdr(type) == pc = "segments" /\ i <= Len(si.file.phdr) /\ phdr.type = type

PFLAGS_TO_PROT(h) == h.flags
pbase(h) == si.base + Down(h.vaddr)
len(h) == h.filesz + (h.vaddr % PAGE_SIZE)
SegLen(h) == Up(si.base + SegEnd(h)) - pbase(h)

(* What mmap of the file shows at address w.                               *)
FileWord(h, w) ==
  LET o == Down(h.off) + (w - pbase(h)) IN IF o \in DOMAIN si.file.content THEN si.file.content[o] ELSE 0

(* The file's pages, the zeroed tail of the last one when the segment is   *)
(* writable, and the anonymous pages up to p_memsz.                        *)
\* Mutant of SegWords: the tail of the last file page is not zeroed.
SegWordsUnfilled(h) ==
  [w \in Words |->
     IF w \in WordsOf(pbase(h), len(h)) THEN FileWord(h, w)
     ELSE IF Within(w, Up(pbase(h) + len(h)), Up(si.base + SegEnd(h))) THEN 0 ELSE word[w]]

SegWords(h) ==
  [w \in Words |->
     IF w \in WordsOf(pbase(h), len(h))
     THEN IF w >= pbase(h) + len(h) /\ "W" \in h.flags THEN 0 ELSE FileWord(h, w)
     ELSE IF Within(w, Up(pbase(h) + len(h)), Up(si.base + SegEnd(h))) THEN 0 ELSE word[w]]

Extra(h) == si.base + SegEnd(h) - Up(pbase(h) + len(h))

SegMapped(h) ==
  LET filed == Mapped(page, pbase(h), len(h), PFLAGS_TO_PROT(h))
  IN  IF Extra(h) > 0 THEN Mapped(filed, Up(pbase(h) + len(h)), Extra(h), PFLAGS_TO_PROT(h)) ELSE filed

(* Only 32 bits of the range are kept, and 0xffffffff stands for "none".   *)
Narrow(a) == a % (Sentinel + 1)

\* Mutant of WrProtect: writable segments extend the range too.
WrProtectAll(h) ==
  [si EXCEPT !.total = @ + SegLen(h),
             !.wrprotect_start = IF pbase(h) < @ THEN Narrow(pbase(h)) ELSE @,
             !.wrprotect_end = IF pbase(h) + SegLen(h) > @ THEN Narrow(pbase(h) + SegLen(h)) ELSE @]

WrProtect(h) ==
  [si EXCEPT !.total = @ + SegLen(h),
             !.wrprotect_start = IF "W" \notin h.flags /\ pbase(h) < @ THEN Narrow(pbase(h)) ELSE @,
             !.wrprotect_end = IF "W" \notin h.flags /\ pbase(h) + SegLen(h) > @
                               THEN Narrow(pbase(h) + SegLen(h)) ELSE @]

LoadSegment ==
  /\ AtPhdr("LOAD")
  /\ len(phdr) > 0 /\ Fits(pbase(phdr), SegLen(phdr))
  /\ page' = IF "W" \in phdr.flags THEN SegMapped(phdr)
             ELSE mprotect(SegMapped(phdr), pbase(phdr), SegLen(phdr), PFLAGS_TO_PROT(phdr) \cup {"W"})
  /\ word' = SegWords(phdr)
  /\ si' = WrProtect(phdr)
  /\ i' = i + 1
  /\ UNCHANGED <<arch, pc, rbase>>

(* `fail:' of apkenv_load_segments, and apkenv_free_info in the caller.    *)
\* Mutant of LoadingFailed: the region stays mapped.
LoadingFailedMapped ==
  /\ si' = [si EXCEPT !.flags = {"ERROR"}] /\ pc' = "rejected"
  /\ UNCHANGED <<arch, page, word, i, rbase>>

LoadingFailed ==
  /\ page' = munmap(si.base, si.size)
  /\ si' = [si EXCEPT !.flags = {"ERROR"}] /\ pc' = "rejected"
  /\ UNCHANGED <<arch, word, i, rbase>>

(* mmap refuses: an empty file part, no room, or no memory.                *)
SegmentFails == AtPhdr("LOAD") /\ LoadingFailed

BadRelro(h) == h.vaddr >= si.size \/ SegEnd(h) > si.size

LoadRelro ==
  /\ AtPhdr("RELRO") /\ ~BadRelro(phdr)
  /\ si' = [si EXCEPT !.relro_start = si.base + phdr.vaddr, !.relro_len = phdr.memsz]
  /\ i' = i + 1
  /\ UNCHANGED <<arch, page, word, pc, rbase>>

(* PT_DYNAMIC, PT_ARM_EXIDX, ...: nothing of the image changes.            *)
LoadOther ==
  /\ AtPhdr("OTHER")
  /\ i' = i + 1
  /\ UNCHANGED <<arch, page, word, si, pc, rbase>>

RelroFails == AtPhdr("RELRO") /\ BadRelro(phdr) /\ LoadingFailed

SegmentsDone == pc = "segments" /\ i > Len(si.file.phdr)

(* The sanity check on the sum of the segment lengths.                     *)
TooLong == SegmentsDone /\ si.total > si.size /\ LoadingFailed

Loaded ==
  /\ SegmentsDone /\ si.total <= si.size
  /\ pc' = "dynamic" /\ i' = 1
  /\ UNCHANGED <<arch, page, word, si, rbase>>

-----------------------------------------------------------------------------
(* apkenv_link_image                                                       *)

(* A store of the linker: a page that is not writable ends the process.    *)
Store(a, v) ==
  IF Writable(a) THEN word' = [word EXCEPT ![a] = v] /\ UNCHANGED <<page, si>> ELSE FALSE

Crash == pc' = "crashed" /\ UNCHANGED <<arch, page, word, si, i, rbase>>

(* `fail:' of apkenv_link_image and the munmap of apkenv_init_library.     *)
LinkFailed(flags) ==
  /\ page' = munmap(si.base, si.size)
  /\ si' = [si EXCEPT !.flags = flags \cup {"ERROR"}] /\ pc' = "rejected"
  /\ UNCHANGED <<arch, word, i, rbase>>

(* No PT_DYNAMIC, no string table or no symbol table.                      *)
MissingTables == pc = "dynamic" /\ ~si.file.tables /\ LinkFailed({})

(* A relocation table the build does not support: `return false', which is *)
(* 0, so that apkenv_init_library returns an image nobody relocated.       *)
Unsupported ==
  /\ pc = "dynamic" /\ si.file.tables /\ si.file.unsupported
  /\ pc' = "loaded"
  /\ UNCHANGED <<arch, page, word, si, i, rbase>>

(* The scan of the dynamic section; DT_DEBUG is set for the debugger.      *)
R_DEBUG == 2
AtDynamic == pc = "dynamic" /\ si.file.tables /\ ~si.file.unsupported

ParseDynamic ==
  /\ AtDynamic
  /\ IF si.file.debug = NoDebug THEN UNCHANGED <<page, word, si>>
     ELSE Store(si.base + si.file.debug, R_DEBUG)
  /\ pc' = "needed"
  /\ UNCHANGED <<arch, i, rbase>>

(* The soinfo of each DT_NEEDED library is stored in the dynamic section.  *)
SOINFO == 1
AtNeeded == pc = "needed" /\ i <= Len(si.file.needed)
BindNeeded ==
  /\ AtNeeded /\ Store(si.base + si.file.needed[i], SOINFO)
  /\ i' = i + 1 /\ UNCHANGED <<arch, pc, rbase>>

NeededDone ==
  /\ pc = "needed" /\ i > Len(si.file.needed)
  /\ pc' = "reloc" /\ i' = 1
  /\ UNCHANGED <<arch, page, word, si, rbase>>

(* What the switch of apkenv_reloc_library adds up for each type; a type   *)
(* without a row is `unknown reloc type'.                                  *)
Rela == arch \in {"aarch64", "x86_64"}

Terms_aarch64(t) ==
  IF t \in {"JUMP_SLOT", "GLOB_DAT"} THEN {"S", "A"}
  ELSE IF t \in {"ABS64", "ABS32", "ABS16"} THEN {"old", "S", "A"}
  ELSE IF t \in {"PREL64", "PREL32", "PREL16"} THEN {"old", "S", "A", "-off"}
  ELSE IF t = "RELATIVE" THEN {"B", "A"} ELSE IF t = "TLS" THEN {"old"} ELSE {}

Terms_x86_64(t) ==
  IF t \in {"JUMP_SLOT", "GLOB_DAT", "32", "64"} THEN {"S", "A"}
  ELSE IF t = "RELATIVE" THEN {"B", "A"} ELSE IF t = "PC32" THEN {"S", "A", "-P"} ELSE {}

Terms_arm(t) ==
  IF t \in {"JUMP_SLOT", "GLOB_DAT"} THEN {"S"}
  ELSE IF t = "ABS32" THEN {"old", "S"} ELSE IF t = "REL32" THEN {"old", "S", "-off"}
  ELSE IF t = "RELATIVE" THEN {"old", "B"} ELSE IF t = "COPY" THEN {"*S"}
  ELSE IF t = "NONE" THEN {"old"} ELSE {}

Terms_i386(t) ==
  IF t \in {"JUMP_SLOT", "GLOB_DAT"} THEN {"S"}
  ELSE IF t = "RELATIVE" THEN {"old", "B"}
  ELSE IF t = "32" THEN {"old", "S"} ELSE IF t = "PC32" THEN {"old", "S", "-P"} ELSE {}

Terms(t) ==
  IF arch = "aarch64" THEN Terms_aarch64(t) ELSE IF arch = "x86_64" THEN Terms_x86_64(t)
  ELSE IF arch = "arm" THEN Terms_arm(t) ELSE Terms_i386(t)

(* Types whose sum must satisfy (Addr)INT32_MIN <= x <= UINT32_MAX: with   *)
(* unsigned 64-bit addresses no x does.                                    *)
RangeChecked(t) == arch = "aarch64" /\ t \in {"ABS32", "ABS16", "PREL32", "PREL16"}

(* The address a symbol reference resolves to; a weak reference without a  *)
(* definition is the place itself when the type is pc-relative, else 0.    *)
rel == si.file.rel[i]
reloc == si.base + rel.off
SymAddr ==
  IF rel.sym = "def" THEN rel.S ELSE IF rel.sym = "weak" /\ rel.type = "PC32" THEN reloc ELSE 0

WeakAllowed(t) ==
  t \in {"JUMP_SLOT", "GLOB_DAT", "RELATIVE"} \cup
        (IF arch = "aarch64" THEN {"ABS64", "ABS32", "ABS16"}
         ELSE IF arch = "x86_64" THEN {"32", "64", "PC32"}
         ELSE IF arch = "arm" THEN {"ABS32", "NONE"} ELSE {"32", "PC32"})

RelocRefused ==
  \/ rel.sym = "undef"
  \/ rel.sym = "weak" /\ ~WeakAllowed(rel.type)
  \/ rel.type = "RELATIVE" /\ rel.sym # "none"
  \/ Terms(rel.type) = {} \/ RangeChecked(rel.type)

(* R_ARM_COPY copies s->st_size units, here one word, from the symbol; a   *)
(* reference without a symbol has no s.                                    *)
SymContent == 7
NullSymbol == rel.type = "COPY" /\ rel.sym = "none"

RelocValue ==
  LET term(x, v) == IF x \in Terms(rel.type) THEN v ELSE 0
  IN  term("old", word[reloc]) + term("S", SymAddr) + term("A", rel.add) + term("B", si.base)
      - term("-off", rel.off) - term("-P", reloc) + term("*S", SymContent)

AtReloc == pc = "reloc" /\ i <= Len(si.file.rel)
Skipped == Rela /\ rel.type = "NONE"

reloc_library ==
  /\ AtReloc /\ ~Skipped /\ ~RelocRefused /\ ~NullSymbol
  /\ IF Terms(rel.type) = {"old"} THEN UNCHANGED <<page, word, si>> ELSE Store(reloc, RelocValue)
  /\ i' = i + 1 /\ UNCHANGED <<arch, pc, rbase>>

reloc_none == AtReloc /\ Skipped /\ i' = i + 1 /\ UNCHANGED <<arch, page, word, si, pc, rbase>>

RelocFails == AtReloc /\ ~Skipped /\ RelocRefused /\ LinkFailed({})

RelocDone ==
  /\ pc = "reloc" /\ i > Len(si.file.rel)
  /\ pc' = "relr" /\ i' = 1 /\ rbase' = 0
  /\ UNCHANGED <<arch, page, word, si>>

-----------------------------------------------------------------------------
(* apkenv_relocate_relr, one entry at a time.                              *)

entry == si.file.relr[i]
AtRelr == pc = "relr" /\ i <= Len(si.file.relr)
BitSet(e, j) == (e \div 2 ^ j) % 2 = 1

(* The words an entry adds the load address to, from the bitmap base rb.   *)
\* Mutant of EntryWords: the first bit of a bitmap stands for the next word.
EntryWordsShifted(e, rb) ==
  IF e % 2 = 0 THEN {e} ELSE {rb + j * WORD : j \in {k \in 1 .. RelrBits - 1 : BitSet(e, k)}}

EntryWords(e, rb) ==
  IF e % 2 = 0 THEN {e} ELSE {rb + (j - 1) * WORD : j \in {k \in 1 .. RelrBits - 1 : BitSet(e, k)}}

\* Mutant of NextBase: the wrong sign.
NextBaseBefore(e, rb) == IF e % 2 = 0 THEN e - WORD ELSE rb + (RelrBits - 1) * WORD
NextBase(e, rb) == IF e % 2 = 0 THEN e + WORD ELSE rb + (RelrBits - 1) * WORD

relocate_relr ==
  /\ AtRelr
  /\ LET at == {si.base + o : o \in EntryWords(entry, rbase)}
     IN  /\ \A a \in at : Writable(a)
         /\ word' = [w \in Words |-> IF w \in at THEN word[w] + si.base ELSE word[w]]
  /\ rbase' = NextBase(entry, rbase)
  /\ i' = i + 1 /\ UNCHANGED <<arch, page, si, pc>>

(* A store of the kinds above meets a page that is not writable.           *)
StoreFaults ==
  /\ \/ AtDynamic /\ si.file.debug # NoDebug /\ ~Writable(si.base + si.file.debug)
     \/ AtNeeded /\ ~Writable(si.base + si.file.needed[i])
     \/ AtReloc /\ ~Skipped /\ ~RelocRefused /\ Terms(rel.type) # {"old"} /\ (NullSymbol \/ ~Writable(reloc))
     \/ AtRelr /\ \E o \in EntryWords(entry, rbase) : ~Writable(si.base + o)
  /\ Crash

-----------------------------------------------------------------------------
(* The end of apkenv_link_image: FLAG_LINKED, the write-protected range,   *)
(* the RELRO range.                                                        *)

RelroStart == Down(si.relro_start)
RelroLen == si.relro_start - RelroStart + si.relro_len
HasRelro == si.relro_start # 0 /\ si.relro_len # 0

\* Mutant of TextRange: one page, whatever the range.
TextRangeFirstPage == PAGE_SIZE
TextRange == si.wrprotect_end - si.wrprotect_start
WriteProtected ==
  IF si.wrprotect_start # Sentinel /\ si.wrprotect_end # 0
  THEN mprotect(page, si.wrprotect_start, TextRange, {"R", "X"}) ELSE page

RelrDone == pc = "relr" /\ i > Len(si.file.relr)

LinkFinish ==
  /\ RelrDone
  /\ si' = [si EXCEPT !.flags = {"LINKED"}]
  /\ page' = IF HasRelro THEN mprotect(WriteProtected, RelroStart, RelroLen, {"R"}) ELSE WriteProtected
  /\ pc' = "loaded"
  /\ UNCHANGED <<arch, word, i, rbase>>

RelroProtectFails == RelrDone /\ HasRelro /\ LinkFailed({"LINKED"})

-----------------------------------------------------------------------------
(* apkenv_unload_library: RELRO is made writable again for the stores into *)
(* the dynamic section, then the region is given back.                     *)
\* Mutant of Unprotected: RELRO stays read-only.
UnprotectedNever == page
Unprotected ==
  IF HasRelro THEN mprotect(page, RelroStart, RelroLen, {"R", "W"}) ELSE page

UnloadStart ==
  /\ pc = "loaded"
  /\ page' = Unprotected
  /\ pc' = "unload" /\ i' = 1
  /\ UNCHANGED <<arch, word, si, rbase>>

AtClear == pc = "unload" /\ i <= Len(si.file.needed)
ClearNeeded ==
  /\ AtClear /\ Store(si.base + si.file.needed[i], 0)
  /\ i' = i + 1 /\ UNCHANGED <<arch, pc, rbase>>

ClearFaults == AtClear /\ ~Writable(si.base + si.file.needed[i]) /\ Crash

Unload ==
  /\ pc = "unload" /\ i > Len(si.file.needed)
  /\ page' = munmap(si.base, si.size)
  /\ pc' = "unloaded"
  /\ UNCHANGED <<arch, word, si, i, rbase>>

(* An image that ended in a crash, or that will never be unloaded.         *)
Rest == pc \in {"crashed", "rejected", "unloaded", "loaded"} /\ UNCHANGED vars

Next ==
  \/ AppMap \/ LoadFails \/ reserve_mem_region \/ alloc_mem_region
  \/ LoadSegment \/ SegmentFails \/ LoadRelro \/ RelroFails \/ LoadOther \/ TooLong \/ Loaded
  \/ MissingTables \/ Unsupported \/ ParseDynamic \/ BindNeeded \/ NeededDone
  \/ reloc_library \/ reloc_none \/ RelocFails \/ RelocDone
  \/ relocate_relr \/ StoreFaults \/ LinkFinish \/ RelroProtectFails
  \/ UnloadStart \/ ClearNeeded \/ ClearFaults \/ Unload \/ Rest

Spec == Init /\ [][Next]_vars
-----------------------------------------------------------------------------
(* Properties *)

Has(k, x) == x \in si.file.phdr[k].flags
SegWordsOf(f, base, k) ==
  {w \in Words : Within(w, base + f.phdr[k].vaddr, base + SegEnd(f.phdr[k]))}
SegPagesOf(k) == PagesOf(pbase(si.file.phdr[k]), SegLen(si.file.phdr[k]))

(* What the loader takes for granted of a file.  First, that its segments  *)
(* fit the region reserved for them: it is not prelinked, its first        *)
(* segment starts in page 0, no file part is longer than its segment.      *)
InRegion(f) ==
  /\ f.prelink = 0 /\ min_vaddr(f) < PAGE_SIZE
  /\ \A k \in Loads(f) : f.phdr[k].filesz <= f.phdr[k].memsz

(* Then, that file offsets are congruent to addresses, the file has what   *)
(* its headers name, segments share no page, the writable ones come last.  *)
Conventional(f) ==
  /\ InRegion(f)
  /\ \A k \in Loads(f) :
       /\ (f.phdr[k].off - f.phdr[k].vaddr) % PAGE_SIZE = 0
       /\ \A at \in 0 .. f.phdr[k].filesz - 1 :
            (f.phdr[k].vaddr + at) % WORD = 0 => f.phdr[k].off + at \in DOMAIN f.content
       /\ "W" \notin f.phdr[k].flags => f.phdr[k].filesz = f.phdr[k].memsz
       /\ \A l \in Loads(f) : k < l =>
            /\ Up(SegEnd(f.phdr[k])) <= Down(f.phdr[l].vaddr)
            /\ "W" \in f.phdr[k].flags => "W" \in f.phdr[l].flags

(* Every word the file asks to have stored lies in a segment, and the      *)
(* dynamic section in a writable one.                                      *)
Dynamics(f) == ({f.needed[n] : n \in DOMAIN f.needed} \cup {f.debug}) \ {NoDebug}
Offsets(f) == {f.rel[k].off : k \in DOMAIN f.rel} \cup f.relrSet
StoresInside(f) ==
  /\ Len(f.relrBase) = Len(f.relr) + 1 /\ f.relrBase[1] = 0
  /\ \A n \in DOMAIN f.relr : /\ EntryWords(f.relr[n], f.relrBase[n]) \subseteq f.relrSet
                             /\ f.relrBase[n + 1] = NextBase(f.relr[n], f.relrBase[n])
  /\ \A n \in DOMAIN f.rel : f.rel[n].type = "COPY" => f.rel[n].sym = "def"
  /\ \A o \in Offsets(f) : \E k \in Loads(f) : o \in SegWordsOf(f, 0, k)
  /\ \A o \in Dynamics(f) : \E k \in Loads(f) :
       o \in SegWordsOf(f, 0, k) /\ "W" \in f.phdr[k].flags

(* What the file has for the word at offset o of segment k.                *)
FileContent(f, k, o) ==
  LET h == f.phdr[k] IN IF o - h.vaddr < h.filesz THEN f.content[h.off + o - h.vaddr] ELSE 0

(* What entry n of a RELR table says: an address, after which the bitmaps  *)
(* start, or a bitmap of the next RelrBits - 1 words.                      *)
RelrWords(f, n) ==
  IF f.relr[n] % 2 = 0 THEN {f.relr[n]}
  ELSE {f.relrBase[n] + (j - 1) * WORD : j \in {b \in 1 .. RelrBits - 1 : BitSet(f.relr[n], b)}}
RelrNext(f, n) == IF f.relr[n] % 2 = 0 THEN f.relr[n] + WORD ELSE f.relrBase[n] + (RelrBits - 1) * WORD

(* Each word is named once: by one relocation, by one bit of the RELR      *)
(* table, by DT_NEEDED or by DT_DEBUG; the table encodes relrSet.          *)
NamedOnce(f) ==
  /\ Len(f.relrBase) = Len(f.relr) + 1 /\ f.relrBase[1] = 0
  /\ \A n \in DOMAIN f.relr : f.relrBase[n + 1] = RelrNext(f, n)
  /\ f.relrSet = UNION {RelrWords(f, n) : n \in DOMAIN f.relr}
  /\ \A n, m \in DOMAIN f.relr : n # m => RelrWords(f, n) \cap RelrWords(f, m) = {}
  /\ \A n, m \in DOMAIN f.rel : f.rel[n].off = f.rel[m].off => n = m
  /\ \A n \in DOMAIN f.rel : f.rel[n].off \notin f.relrSet
  /\ Dynamics(f) \cap Offsets(f) = {}

(* R_AARCH64_ABS64 adds to what its place holds (linker.c:1906), although  *)
(* its addend is in the table: right only where the place holds zero.      *)
Abs64OnZero(f) ==
  \A n \in DOMAIN f.rel, k \in Loads(f) :
    f.rel[n].type = "ABS64" /\ Within(f.rel[n].off, f.phdr[k].vaddr, SegEnd(f.phdr[k]))
      => FileContent(f, k, f.rel[n].off) = 0

TypeOK ==
  /\ arch \in Archs
  /\ page \in [PageNos -> [who : {"free", "app", "lib"}, prot : SUBSET {"R", "W", "X"}]]
  /\ word \in [Words -> Int]
  /\ pc \in {"idle", "segments", "dynamic", "needed", "reloc", "relr", "loaded", "unload", "unloaded",
             "rejected", "crashed"}
  /\ i \in Nat /\ rbase \in Nat
  /\ pc # "idle" /\ si # <<>> => /\ si.file \in Files /\ si.base > 0
                                 /\ si.flags \subseteq {"LINKED", "ERROR"}

(* MAP_FIXED never hits memory of the rest of the application: mapping the *)
(* segments of a file that starts in page 0 over the region reserved for   *)
(* them, and giving the region back on every failure path, touches no page *)
(* another thread mapped before or meanwhile (linker.c:1109-1111,          *)
(* 1166-1169, 1251-1256).                                                  *)
NoForeignClobber ==
  [][(si' # <<>> /\ InRegion(si'.file)) =>
       \A p \in PageNos : page[p].who = "app" => page'[p] = page[p]]_vars

(* When apkenv_load_segments is done, every word of every segment is the   *)
(* file's up to p_filesz and zero from there to p_memsz, also on the page  *)
(* they share and whatever follows in the file (linker.c:1120-1184).       *)
SegmentContents ==
  pc = "dynamic" /\ Conventional(si.file) =>
    \A k \in Loads(si.file) : \A w \in SegWordsOf(si.file, si.base, k) :
      LET h == si.file.phdr[k]
          at == w - si.base - h.vaddr
      IN  word[w] = IF at < h.filesz THEN si.file.content[h.off + at] ELSE 0

(* Loading and unloading never store into a page that is not writable:     *)
(* text is writable until the last relocation, and RELRO, applied after    *)
(* it, is undone before the DT_NEEDED payloads are cleared                 *)
(* (linker.c:1196-1208, 1502-1521).                                        *)
NoFault ==
  pc = "crashed" => ~(Conventional(si.file) /\ StoresInside(si.file))

(* Once linked, no page of a read-only segment can be written              *)
(* (linker.c:1196-1199: "we will remember what range of addresses should   *)
(* be write protected").                                                   *)
TextProtected ==
  pc = "loaded" /\ "LINKED" \in si.flags /\ Conventional(si.file) =>
    \A k \in Loads(si.file) : ~Has(k, "W") => \A p \in SegPagesOf(k) : "W" \notin page[p].prot

(* Once linked, the RELRO part is read-only and the rest of the writable   *)
(* segments is still writable: protecting the text, a range from the first *)
(* to the last read-only segment, takes no data page with it               *)
(* (linker.c:2955-2976).                                                   *)
DataProtected ==
  pc = "loaded" /\ "LINKED" \in si.flags /\ Conventional(si.file) =>
    \A k \in Loads(si.file) : Has(k, "W") =>
      \A p \in SegPagesOf(k) :
        ("W" \in page[p].prot) # (HasRelro /\ p \in PagesOf(RelroStart, RelroLen))

(* The value the ELF supplements give a relocated word whose content in    *)
(* the file is old: addend plus symbol, load address, or distance from the *)
(* place; a slot of a REL build has no addend.  Data types relative to the *)
(* place that the code relates to r_offset (PREL64, REL32) are left out.   *)
AbiValue(r, old) ==
  LET slot == r.type \in {"JUMP_SLOT", "GLOB_DAT"}
      A == IF Rela THEN r.add ELSE IF slot THEN 0 ELSE old
      S == IF r.sym = "def" THEN r.S ELSE 0
  IN  IF r.type = "RELATIVE" THEN A + si.base
      ELSE IF r.type = "PC32" THEN IF r.sym = "weak" THEN A ELSE A + S - (si.base + r.off)
      ELSE IF r.type \in {"TLS", "NONE"} THEN old ELSE IF r.type = "COPY" THEN SymContent ELSE A + S

AbiTypes(f) == \A k \in DOMAIN f.rel : f.rel[k].type \notin {"PREL64", "REL32"}

(* A linked image is relocated exactly once: each word holds the value the *)
(* ABI of the build gives it, a word named by the RELR bitmaps moved by    *)
(* the load address once, and no other word changed (linker.c:1885-2064,   *)
(* 2190-2335).  Left out are files with an R_AARCH64_ABS64 on a place that *)
(* is not zero, where the code departs from the ABI (linker.c:1906).       *)
RelocatedOnce ==
  (/\ pc = "loaded" /\ "LINKED" \in si.flags
   /\ Conventional(si.file) /\ AbiTypes(si.file) /\ Abs64OnZero(si.file)) =>
    \A k \in Loads(si.file) : \A w \in SegWordsOf(si.file, si.base, k) :
      LET f == si.file
          o == w - si.base
          old == FileContent(f, k, o)
          rs == {n \in DOMAIN f.rel : f.rel[n].off = o}
      IN  word[w] = IF \E n \in DOMAIN f.needed : f.needed[n] = o THEN SOINFO
                    ELSE IF o = f.debug THEN R_DEBUG
                    ELSE IF rs # {} THEN AbiValue(f.rel[Max(rs)], old)
                    ELSE IF o \in f.relrSet THEN old + si.base ELSE old

(* A library that was refused at any step, or unloaded, keeps no page:     *)
(* the blind munmap of the region covers whatever was mapped into it       *)
(* (linker.c:1250-1258, 1419-1424, 1533).                                  *)
NoPageKept ==
  pc \in {"rejected", "unloaded"} /\ si # <<>> /\ InRegion(si.file) =>
    \A p \in PageNos : page[p].who # "lib"
=============================================================================
