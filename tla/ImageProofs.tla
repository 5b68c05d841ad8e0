---------------------------- MODULE ImageProofs ----------------------------
(***************************************************************************)
(* Proofs about Image, for all page and word sizes, address spaces and     *)
(* files.                                                                  *)
(***************************************************************************)
EXTENDS Image, FiniteSetTheorems, WellFoundedInduction, TLAPS

-----------------------------------------------------------------------------
(* Pages.  Everything below is said in page numbers: a page number is a    *)
(* quotient, and rounding up is rounding down a page minus one further.    *)

(* PageOf, Down and Up are what division with remainder says.              *)
LEMMA DivFacts ==
  ASSUME NEW a \in Nat
  PROVE  /\ PageOf(a) \in Nat /\ a % PAGE_SIZE \in Nat /\ a % PAGE_SIZE < PAGE_SIZE
         /\ a = PAGE_SIZE * PageOf(a) + (a % PAGE_SIZE)
         /\ Down(a) = PAGE_SIZE * PageOf(a) /\ Down(a) \in Nat /\ Down(a) <= a
  <1>1. PAGE_SIZE \in Nat /\ PAGE_SIZE > 0
    BY SizeAssumption
  <1>2. /\ PageOf(a) \in Nat /\ a % PAGE_SIZE \in Nat /\ a % PAGE_SIZE < PAGE_SIZE
        /\ a = PAGE_SIZE * PageOf(a) + (a % PAGE_SIZE)
    BY <1>1, SMT DEF PageOf
  <1>3. PAGE_SIZE * PageOf(a) \in Nat
    BY <1>1, <1>2, SMT
  <1>. QED
    BY <1>1, <1>2, <1>3, SMT DEF Down

LEMMA PageOfUnique ==
  ASSUME NEW a \in Nat, NEW q \in Nat, NEW r \in Nat, r < PAGE_SIZE, a = PAGE_SIZE * q + r
  PROVE  PageOf(a) = q
  <1>1. PAGE_SIZE \in Nat /\ PAGE_SIZE > 0
    BY SizeAssumption
  <1>2. PICK p \in Nat : p = PageOf(a)
    BY DivFacts
  <1>3. PICK s \in Nat : s = a % PAGE_SIZE
    BY DivFacts
  <1>4. a = PAGE_SIZE * p + s /\ s < PAGE_SIZE
    BY <1>2, <1>3, DivFacts
  <1>5. ASSUME p < q PROVE FALSE
    <2>1. PAGE_SIZE * q >= PAGE_SIZE * (p + 1)
      BY <1>1, <1>5, SMT
    <2>. QED
      BY <2>1, <1>1, <1>4, SMT
  <1>6. ASSUME q < p PROVE FALSE
    <2>1. PAGE_SIZE * p >= PAGE_SIZE * (q + 1)
      BY <1>1, <1>6, SMT
    <2>. QED
      BY <2>1, <1>1, <1>4, SMT
  <1>. QED
    BY <1>2, <1>5, <1>6, SMT

LEMMA PageOfMonotone ==
  ASSUME NEW a \in Nat, NEW b \in Nat, a <= b
  PROVE  PageOf(a) <= PageOf(b)
  <1>1. PAGE_SIZE \in Nat /\ PAGE_SIZE > 0
    BY SizeAssumption
  <1>2. PICK p \in Nat : p = PageOf(a)
    BY DivFacts
  <1>3. PICK q \in Nat : q = PageOf(b)
    BY DivFacts
  <1>4. ASSUME q < p PROVE FALSE
    <2>1. PAGE_SIZE * p >= PAGE_SIZE * (q + 1)
      BY <1>1, <1>4, SMT
    <2>2. /\ a = PAGE_SIZE * p + (a % PAGE_SIZE) /\ a % PAGE_SIZE \in Nat
          /\ b = PAGE_SIZE * q + (b % PAGE_SIZE) /\ b % PAGE_SIZE \in Nat /\ b % PAGE_SIZE < PAGE_SIZE
      BY <1>2, <1>3, DivFacts
    <2>. QED
      BY <2>1, <2>2, <1>1, SMT
  <1>. QED
    BY <1>2, <1>3, <1>4, SMT

(* Moving by whole pages adds page numbers.                                *)
LEMMA PageOfShift ==
  ASSUME NEW b \in Nat, NEW a \in Nat
  PROVE  /\ PAGE_SIZE * b \in Nat
         /\ PageOf(PAGE_SIZE * b + a) = b + PageOf(a)
         /\ (PAGE_SIZE * b + a) % PAGE_SIZE = a % PAGE_SIZE
  <1>1. PAGE_SIZE \in Nat /\ PAGE_SIZE > 0
    BY SizeAssumption
  <1>2. PICK q \in Nat : q = PageOf(a)
    BY DivFacts
  <1>3. PICK r \in Nat : r = a % PAGE_SIZE
    BY DivFacts
  <1>4. a = PAGE_SIZE * q + r /\ r < PAGE_SIZE
    BY <1>2, <1>3, DivFacts
  <1>5. PAGE_SIZE * b \in Nat
    BY <1>1, SMT
  <1>6. PAGE_SIZE * b + a = PAGE_SIZE * (b + q) + r
    BY <1>1, <1>4, SMT
  <1>7. PageOf(PAGE_SIZE * b + a) = b + q
    BY <1>4, <1>5, <1>6, PageOfUnique
  <1>8. PICK x \in Nat : x = PAGE_SIZE * b + a
    BY <1>5
  <1>9. x = PAGE_SIZE * (b + q) + (x % PAGE_SIZE) /\ x % PAGE_SIZE \in Nat
    BY <1>7, <1>8, DivFacts
  <1>. QED
    BY <1>1, <1>2, <1>3, <1>5, <1>6, <1>7, <1>8, <1>9, SMT

LEMMA DownFacts ==
  ASSUME NEW a \in Nat
  PROVE  PageOf(Down(a)) = PageOf(a) /\ Down(a) % PAGE_SIZE = 0
  <1>1. PAGE_SIZE \in Nat /\ PAGE_SIZE > 0
    BY SizeAssumption
  <1>2. PICK q \in Nat : q = PageOf(a) /\ Down(a) = PAGE_SIZE * q
    BY DivFacts
  <1>3. PageOf(0) = 0 /\ 0 % PAGE_SIZE = 0
    BY <1>1, SMT DEF PageOf
  <1>4. PageOf(PAGE_SIZE * q + 0) = q + PageOf(0) /\ (PAGE_SIZE * q + 0) % PAGE_SIZE = 0
    BY <1>3, PageOfShift
  <1>. QED
    BY <1>1, <1>2, <1>3, <1>4, SMT

(* Rounding up: the least page boundary that is not below.                 *)
LEMMA UpFacts ==
  ASSUME NEW a \in Nat
  PROVE  /\ Up(a) \in Nat /\ a <= Up(a) /\ Up(a) <= a + PAGE_SIZE - 1
         /\ Up(a) = PAGE_SIZE * PageOf(Up(a)) /\ PageOf(Up(a)) \in Nat
         /\ Up(Up(a)) = Up(a)
  <1>1. PAGE_SIZE \in Nat /\ PAGE_SIZE > 0
    BY SizeAssumption
  <1>2. PICK x \in Nat : x = a + PAGE_SIZE - 1
    BY <1>1
  <1>3. Up(a) = Down(x) /\ Down(x) \in Nat /\ Down(x) <= x
    BY <1>2, DivFacts DEF Up
  <1>4. x = Down(x) + (x % PAGE_SIZE) /\ x % PAGE_SIZE < PAGE_SIZE /\ x % PAGE_SIZE \in Nat
    BY DivFacts
  <1>5. Up(a) = PAGE_SIZE * PageOf(Up(a)) /\ PageOf(Up(a)) \in Nat
    BY <1>3, DivFacts, DownFacts
  <1>6. PICK q \in Nat : q = PageOf(Up(a))
    BY <1>5
  <1>7. Up(a) + PAGE_SIZE - 1 = PAGE_SIZE * q + (PAGE_SIZE - 1)
    BY <1>5, <1>6, <1>1, <1>3, SMT
  <1>8. PageOf(Up(a) + PAGE_SIZE - 1) = q
    BY <1>1, <1>3, <1>7, PageOfUnique
  <1>9. Up(Up(a)) = PAGE_SIZE * q
    <2>1. PICK y \in Nat : y = Up(a) + PAGE_SIZE - 1
      BY <1>1, <1>3
    <2>2. Up(Up(a)) = Down(y)
      BY <2>1 DEF Up
    <2>. QED
      BY <2>1, <2>2, <1>8, DivFacts
  <1>. QED
    BY <1>1, <1>2, <1>3, <1>4, <1>5, <1>6, <1>9, SMT

LEMMA UpMonotone ==
  ASSUME NEW a \in Nat, NEW b \in Nat, a <= b
  PROVE  PageOf(Up(a)) <= PageOf(Up(b)) /\ PageOf(a) <= PageOf(Up(b))
  <1>1. PAGE_SIZE \in Nat /\ PAGE_SIZE > 0
    BY SizeAssumption
  <1>2. /\ a + PAGE_SIZE - 1 \in Nat /\ b + PAGE_SIZE - 1 \in Nat
        /\ a + PAGE_SIZE - 1 <= b + PAGE_SIZE - 1 /\ a <= b + PAGE_SIZE - 1
    BY <1>1
  <1>. QED
    BY <1>2, PageOfMonotone, DownFacts DEF Up

(* A boundary that is not below a is not below its page's end.             *)
LEMMA UpShift ==
  ASSUME NEW b \in Nat, NEW a \in Nat
  PROVE  Up(PAGE_SIZE * b + a) = PAGE_SIZE * b + Up(a)
  <1>1. PAGE_SIZE \in Nat /\ PAGE_SIZE > 0
    BY SizeAssumption
  <1>2. PICK x \in Nat : x = a + PAGE_SIZE - 1
    BY <1>1
  <1>3. (PAGE_SIZE * b + x) % PAGE_SIZE = x % PAGE_SIZE /\ PAGE_SIZE * b \in Nat
    BY PageOfShift
  <1>4. PICK y \in Nat : y = PAGE_SIZE * b
    BY <1>3
  <1>5. y + a + PAGE_SIZE - 1 = y + x
    BY <1>1, <1>2, <1>4
  <1>. QED
    BY <1>1, <1>2, <1>3, <1>4, <1>5, DivFacts, SMT DEF Up, Down

-----------------------------------------------------------------------------
(* The extents of a file.                                                  *)

(* A finite set of integers has a largest and a smallest member: of the    *)
(* sets "x and what is above it" one has no other inside it.               *)
LEMMA MaxFacts ==
  ASSUME NEW S, S \subseteq Int, IsFiniteSet(S), S # {}
  PROVE  Max(S) \in S /\ \A y \in S : y <= Max(S)
  <1>. DEFINE Above(x) == {y \in S : y >= x}
              Fam == {Above(x) : x \in S}
  <1>1. IsWellFoundedOn(StrictSubsetOrdering(S), SUBSET S)
    BY FS_StrictSubsetOrderingWellFounded, FS_FiniteSubsetsOfFinite
  <1>2. Fam \subseteq SUBSET S /\ Fam # {}
    OBVIOUS
  <1>3. PICK U \in Fam : \A V \in Fam : ~ (<<V, U>> \in StrictSubsetOrdering(S))
    <2>. HIDE DEF Fam
    <2>. QED
      BY <1>1, <1>2, WFMin
  <1>4. PICK x \in S : U = Above(x)
    OBVIOUS
  <1>5. ASSUME NEW y \in S, y > x PROVE FALSE
    <2>0. x \in Int /\ y \in Int /\ \A z \in S : z \in Int
      OBVIOUS
    <2>1. Above(y) \subseteq U /\ x \in U /\ x \notin Above(y)
      <3>1. ASSUME NEW z \in Above(y) PROVE z \in Above(x)
        BY <1>5, <2>0, <3>1
      <3>2. x \in Above(x) /\ x \notin Above(y)
        BY <1>5, <2>0
      <3>. QED
        BY <3>1, <3>2, <1>4
    <2>2. <<Above(y), U>> \in StrictSubsetOrdering(S)
      BY <2>1, <1>2 DEF StrictSubsetOrdering
    <2>. QED
      BY <2>2, <1>3
  <1>6. \A y \in S : x >= y
    BY <1>5
  <1>. QED
    BY <1>6 DEF Max

LEMMA MinFacts ==
  ASSUME NEW S, S \subseteq Int, IsFiniteSet(S), S # {}
  PROVE  Min(S) \in S /\ \A y \in S : Min(S) <= y
  <1>. DEFINE Below(x) == {y \in S : y <= x}
              Fam == {Below(x) : x \in S}
  <1>1. IsWellFoundedOn(StrictSubsetOrdering(S), SUBSET S)
    BY FS_StrictSubsetOrderingWellFounded, FS_FiniteSubsetsOfFinite
  <1>2. Fam \subseteq SUBSET S /\ Fam # {}
    OBVIOUS
  <1>3. PICK U \in Fam : \A V \in Fam : ~ (<<V, U>> \in StrictSubsetOrdering(S))
    <2>. HIDE DEF Fam
    <2>. QED
      BY <1>1, <1>2, WFMin
  <1>4. PICK x \in S : U = Below(x)
    OBVIOUS
  <1>5. ASSUME NEW y \in S, y < x PROVE FALSE
    <2>0. x \in Int /\ y \in Int /\ \A z \in S : z \in Int
      OBVIOUS
    <2>1. Below(y) \subseteq U /\ x \in U /\ x \notin Below(y)
      <3>1. ASSUME NEW z \in Below(y) PROVE z \in Below(x)
        BY <1>5, <2>0, <3>1
      <3>2. x \in Below(x) /\ x \notin Below(y)
        BY <1>5, <2>0
      <3>. QED
        BY <3>1, <3>2, <1>4
    <2>2. <<Below(y), U>> \in StrictSubsetOrdering(S)
      BY <2>1, <1>2 DEF StrictSubsetOrdering
    <2>. QED
      BY <2>2, <1>3
  <1>6. \A y \in S : x <= y
    BY <1>5
  <1>. QED
    BY <1>6 DEF Min

LEMMA FileFacts ==
  ASSUME NEW f \in Files
  PROVE  /\ f.phdr \in Seq(Phdr) /\ DOMAIN f.phdr = 1 .. Len(f.phdr) /\ Len(f.phdr) \in Nat
         /\ Loads(f) \subseteq DOMAIN f.phdr /\ IsFiniteSet(Loads(f))
         /\ \A k \in DOMAIN f.phdr :
              /\ f.phdr[k] \in Phdr
              /\ f.phdr[k].vaddr \in Nat /\ f.phdr[k].memsz \in Nat /\ f.phdr[k].filesz \in Nat
              /\ SegEnd(f.phdr[k]) \in Nat
  <1>1. f.phdr \in Seq(Phdr)
    BY FileAssumption
  <1>2. DOMAIN f.phdr = 1 .. Len(f.phdr) /\ Len(f.phdr) \in Nat
    BY <1>1
  <1>3. \A k \in DOMAIN f.phdr : f.phdr[k] \in Phdr
    BY <1>1
  <1>4. \A k \in DOMAIN f.phdr :
          /\ f.phdr[k].vaddr \in Nat /\ f.phdr[k].memsz \in Nat /\ f.phdr[k].filesz \in Nat
          /\ SegEnd(f.phdr[k]) \in Nat
    BY <1>3 DEF Phdr, SegEnd
  <1>5. Loads(f) \subseteq DOMAIN f.phdr
    BY DEF Loads
  <1>6. IsFiniteSet(Loads(f))
    <2>1. IsFiniteSet(DOMAIN f.phdr)
      BY <1>2, FS_Interval
    <2>. QED
      BY <2>1, <1>5, FS_Subset
  <1>. QED
    BY <1>1, <1>2, <1>3, <1>4, <1>5, <1>6

(* apkenv_get_lib_extents bounds every PT_LOAD segment.                    *)
LEMMA ExtentFacts ==
  ASSUME NEW f \in Files, ~BadExtents(f)
  PROVE  /\ min_vaddr(f) \in Nat /\ max_vaddr(f) \in Nat /\ total_sz(f) \in Int
         /\ \A k \in Loads(f) : min_vaddr(f) <= f.phdr[k].vaddr /\ SegEnd(f.phdr[k]) <= max_vaddr(f)
  <1>. DEFINE Starts == {f.phdr[k].vaddr : k \in Loads(f)}
              Ends == {SegEnd(f.phdr[k]) : k \in Loads(f)}
  <1>1. Loads(f) # {}
    BY DEF BadExtents
  <1>2. Starts \subseteq Nat /\ Starts # {} /\ Ends \subseteq Nat /\ Ends # {}
    BY <1>1, FileFacts
  <1>3. IsFiniteSet(Starts)
    <2>1. [k \in Loads(f) |-> f.phdr[k].vaddr] \in Surjection(Loads(f), Starts)
      BY DEF Surjection
    <2>. QED
      BY <2>1, FileFacts, FS_Surjection
  <1>4. IsFiniteSet(Ends)
    <2>1. [k \in Loads(f) |-> SegEnd(f.phdr[k])] \in Surjection(Loads(f), Ends)
      BY DEF Surjection
    <2>. QED
      BY <2>1, FileFacts, FS_Surjection
  <1>5. min_vaddr(f) \in Starts /\ \A y \in Starts : min_vaddr(f) <= y
    <2>1. min_vaddr(f) = Min(Starts) /\ Starts \subseteq Int
      BY <1>2 DEF min_vaddr
    <2>. HIDE DEF Starts
    <2>. QED
      BY <2>1, <1>2, <1>3, MinFacts
  <1>6. max_vaddr(f) \in Ends /\ \A y \in Ends : y <= max_vaddr(f)
    <2>1. max_vaddr(f) = Max(Ends) /\ Ends \subseteq Int
      BY <1>2 DEF max_vaddr
    <2>. HIDE DEF Ends
    <2>. QED
      BY <2>1, <1>2, <1>4, MaxFacts
  <1>7. min_vaddr(f) \in Nat /\ max_vaddr(f) \in Nat
    BY <1>2, <1>5, <1>6
  <1>8. total_sz(f) \in Int
    BY <1>7, UpFacts, DivFacts DEF total_sz
  <1>. QED
    BY <1>5, <1>6, <1>7, <1>8

-----------------------------------------------------------------------------
(* Types.                                                                  *)

Prots == SUBSET {"R", "W", "X"}
PageMap == [PageNos -> [who : {"free", "app", "lib"}, prot : Prots]]
Soinfo == [file : Files, base : Nat \ {0}, size : Int, flags : SUBSET {"LINKED", "ERROR"},
           wrprotect_start : Nat, wrprotect_end : Nat, relro_start : Nat, relro_len : Nat, total : Int]

(* Where there is a soinfo, it is one that apkenv_load_library filled in   *)
(* for a file with good extents.                                           *)
SiOK ==
  /\ si \in Soinfo /\ ~BadExtents(si.file) /\ si.size = total_sz(si.file)
  /\ i >= 1
TypeInv ==
  /\ TypeOK
  /\ pc = "idle" => si = <<>> /\ i = 0
  /\ pc # "idle" /\ (pc # "rejected" \/ si # <<>>) => SiOK

LEMMA MappedType ==
  ASSUME NEW pg \in PageMap, NEW a, NEW n, NEW prot \in Prots
  PROVE  Mapped(pg, a, n, prot) \in PageMap
  BY DEF Mapped, PageMap, Prots

LEMMA MunmapType ==
  ASSUME page \in PageMap, NEW a, NEW n
  PROVE  munmap(a, n) \in PageMap
  BY DEF munmap, PageMap, Prots

LEMMA MprotectType ==
  ASSUME NEW pg \in PageMap, NEW a, NEW n, NEW prot \in Prots
  PROVE  mprotect(pg, a, n, prot) \in PageMap
  BY DEF mprotect, PageMap, Prots

(* The program header the loop of apkenv_load_segments is at, and the      *)
(* addresses computed from it.                                             *)
LEMMA AtPhdrFacts ==
  ASSUME TypeInv, pc = "segments", i <= Len(si.file.phdr)
  PROVE  /\ SiOK /\ si.file \in Files /\ si.base \in Nat /\ si.base > 0
         /\ i \in DOMAIN si.file.phdr /\ phdr \in Phdr
         /\ phdr.vaddr \in Nat /\ phdr.memsz \in Nat /\ phdr.filesz \in Nat /\ SegEnd(phdr) \in Nat
         /\ phdr.flags \in Prots
  <1>1. SiOK /\ i \in Nat
    BY DEF TypeInv, TypeOK
  <1>2. si.file \in Files /\ si.base \in Nat /\ si.base > 0 /\ i >= 1
    BY <1>1 DEF SiOK, Soinfo
  <1>3. i \in DOMAIN si.file.phdr
    BY <1>1, <1>2, FileFacts
  <1>4. phdr \in Phdr /\ SegEnd(phdr) \in Nat
    BY <1>2, <1>3, FileFacts DEF phdr
  <1>5. phdr.vaddr \in Nat /\ phdr.memsz \in Nat /\ phdr.filesz \in Nat /\ phdr.flags \in Prots
    BY <1>4 DEF Phdr, Prots
  <1>. QED
    BY <1>1, <1>2, <1>3, <1>4, <1>5

LEMMA SegAddrs ==
  ASSUME NEW h \in Phdr, si.base \in Nat
  PROVE  /\ pbase(h) \in Nat /\ pbase(h) = si.base + Down(h.vaddr) /\ Down(h.vaddr) \in Nat
         /\ len(h) \in Nat /\ pbase(h) + len(h) = si.base + h.vaddr + h.filesz
         /\ si.base + SegEnd(h) \in Nat
         /\ SegLen(h) \in Int /\ pbase(h) + SegLen(h) = Up(si.base + SegEnd(h))
         /\ Up(si.base + SegEnd(h)) \in Nat
         /\ Extra(h) \in Int /\ Up(pbase(h) + len(h)) + Extra(h) = si.base + SegEnd(h)
  <1>1. h.vaddr \in Nat /\ h.memsz \in Nat /\ h.filesz \in Nat /\ SegEnd(h) \in Nat
    BY DEF Phdr, SegEnd
  <1>2. pbase(h) \in Nat /\ Down(h.vaddr) \in Nat /\ h.vaddr % PAGE_SIZE \in Nat
        /\ Down(h.vaddr) = h.vaddr - (h.vaddr % PAGE_SIZE)
    <2>1. Down(h.vaddr) \in Nat /\ h.vaddr % PAGE_SIZE \in Nat
      BY <1>1, DivFacts
    <2>. QED
      BY <2>1 DEF pbase, Down
  <1>3. len(h) \in Nat /\ pbase(h) + len(h) = si.base + h.vaddr + h.filesz
    BY <1>1, <1>2 DEF len, pbase
  <1>4. si.base + SegEnd(h) \in Nat /\ pbase(h) + len(h) \in Nat
    BY <1>1, <1>2, <1>3
  <1>5. Up(si.base + SegEnd(h)) \in Nat /\ Up(pbase(h) + len(h)) \in Nat
    BY <1>4, UpFacts
  <1>. QED
    BY <1>1, <1>2, <1>3, <1>4, <1>5 DEF SegLen, Extra, pbase

LEMMA InitType ==
  Init => TypeInv
  BY SizeAssumption DEF Init, TypeInv, TypeOK, PageNos, Words

(* Most actions leave the soinfo alone, or everything but its flags: what  *)
(* is left to show is said here once.                                      *)
LEMMA SameSoinfo ==
  ASSUME SiOK, i' \in Nat, i' >= 1,
         \/ si' = si
         \/ \E fl \in SUBSET {"LINKED", "ERROR"} : si' = [si EXCEPT !.flags = fl]
  PROVE  SiOK'
  <1>1. si' \in Soinfo /\ si'.file = si.file /\ si'.size = si.size
    BY DEF SiOK, Soinfo
  <1>. QED
    BY <1>1 DEF SiOK, BadExtents, Loads, total_sz, max_vaddr, min_vaddr

LEMMA FinishType ==
  ASSUME SiOK', arch' \in Archs, page' \in PageMap, word' \in [Words -> Int], i' \in Nat, rbase' \in Nat,
         pc' \in {"segments", "dynamic", "needed", "reloc", "relr", "loaded", "unload", "unloaded",
                 "rejected", "crashed"}
  PROVE  TypeInv'
  <1>1. si'.file \in Files /\ si'.base > 0 /\ si'.flags \subseteq {"LINKED", "ERROR"}
    BY DEF SiOK, Soinfo
  <1>. QED
    BY <1>1 DEF TypeInv, TypeOK, PageMap, Prots

LEMMA ReservedType ==
  ASSUME TypeInv, NEW f \in Files, ~BadExtents(f), NEW b \in Nat \ {0}, Reserved(f, b)
  PROVE  TypeInv'
  <1>1. si' \in Soinfo /\ si'.file = f /\ si'.size = total_sz(f) /\ i' = 1
    BY ExtentFacts, SizeAssumption DEF Reserved, Soinfo
  <1>2. SiOK'
    BY <1>1 DEF SiOK
  <1>3. page' \in PageMap
    BY MappedType DEF Reserved, TypeInv, TypeOK, PageMap, Prots
  <1>. QED
    BY <1>1, <1>2, <1>3, FinishType DEF Reserved, TypeInv, TypeOK

(* `fail:' of both functions.                                              *)
LEMMA FailedType ==
  ASSUME TypeInv, SiOK, NEW fl \in SUBSET {"LINKED", "ERROR"},
         page' = munmap(si.base, si.size), si' = [si EXCEPT !.flags = fl], pc' = "rejected",
         UNCHANGED <<arch, word, i, rbase>>
  PROVE  TypeInv'
  <1>1. SiOK'
    BY SameSoinfo DEF SiOK, TypeInv, TypeOK
  <1>2. page' \in PageMap
    BY MunmapType DEF TypeInv, TypeOK, PageMap, Prots
  <1>. QED
    BY <1>1, <1>2, FinishType DEF TypeInv, TypeOK

LEMMA SoinfoUpdate ==
  ASSUME NEW x \in Soinfo, NEW t \in Int, NEW ws \in Nat, NEW we \in Nat, NEW y,
         y = [x EXCEPT !.total = t, !.wrprotect_start = ws, !.wrprotect_end = we]
  PROVE  /\ y \in Soinfo /\ y.file = x.file /\ y.base = x.base /\ y.size = x.size /\ y.flags = x.flags
         /\ y.relro_start = x.relro_start /\ y.relro_len = x.relro_len
         /\ y.wrprotect_start = ws /\ y.wrprotect_end = we
  BY DEF Soinfo

(* A segment extends the write-protected range when it is read-only.       *)
LEMMA WrProtectFacts ==
  ASSUME si \in Soinfo, NEW h \in Phdr, si' = WrProtect(h)
  PROVE  /\ si' \in Soinfo /\ si'.file = si.file /\ si'.base = si.base /\ si'.size = si.size
         /\ si'.flags = si.flags
         /\ si'.relro_start = si.relro_start /\ si'.relro_len = si.relro_len
         /\ si'.wrprotect_start = IF "W" \notin h.flags /\ pbase(h) < si.wrprotect_start
                                  THEN Narrow(pbase(h)) ELSE si.wrprotect_start
         /\ si'.wrprotect_end = IF "W" \notin h.flags /\ pbase(h) + SegLen(h) > si.wrprotect_end
                                THEN Narrow(pbase(h) + SegLen(h)) ELSE si.wrprotect_end
  <1>0. /\ si.base \in Nat /\ si.wrprotect_start \in Nat /\ si.wrprotect_end \in Nat /\ si.total \in Int
    BY DEF Soinfo
  <1>1. pbase(h) \in Nat /\ SegLen(h) \in Int /\ pbase(h) + SegLen(h) \in Nat
    BY <1>0, SegAddrs
  <1>2. Narrow(pbase(h)) \in Nat /\ Narrow(pbase(h) + SegLen(h)) \in Nat
    BY <1>1, SizeAssumption DEF Narrow
  <1>3. PICK ws \in Nat : ws = IF "W" \notin h.flags /\ pbase(h) < si.wrprotect_start
                               THEN Narrow(pbase(h)) ELSE si.wrprotect_start
    BY <1>0, <1>2
  <1>4. PICK we \in Nat : we = IF "W" \notin h.flags /\ pbase(h) + SegLen(h) > si.wrprotect_end
                               THEN Narrow(pbase(h) + SegLen(h)) ELSE si.wrprotect_end
    BY <1>0, <1>2
  <1>5. PICK t \in Int : t = si.total + SegLen(h)
    BY <1>0, <1>1
  <1>6. si' = [si EXCEPT !.total = t, !.wrprotect_start = ws, !.wrprotect_end = we]
    BY <1>3, <1>4, <1>5, Zenon DEF WrProtect
  <1>7. /\ si' \in Soinfo /\ si'.file = si.file /\ si'.base = si.base /\ si'.size = si.size
        /\ si'.flags = si.flags
        /\ si'.relro_start = si.relro_start /\ si'.relro_len = si.relro_len
        /\ si'.wrprotect_start = ws /\ si'.wrprotect_end = we
    BY <1>6 DEF Soinfo
  <1>. QED
    BY <1>3, <1>4, <1>7, Zenon

LEMMA LoadSegmentType ==
  ASSUME TypeInv, LoadSegment
  PROVE  TypeInv'
  <1>1. pc = "segments" /\ i <= Len(si.file.phdr)
    BY DEF LoadSegment, AtPhdr
  <1>2. PICK h \in Phdr : h = phdr
    BY <1>1, AtPhdrFacts
  <1>3. SiOK /\ si.base \in Nat /\ h.flags \in Prots /\ si \in Soinfo /\ i \in Nat /\ i >= 1
    BY <1>1, <1>2, AtPhdrFacts DEF SiOK, TypeInv, TypeOK
  <1>4. page' \in PageMap
    <2>1. page \in PageMap /\ PFLAGS_TO_PROT(h) \in Prots /\ PFLAGS_TO_PROT(h) \cup {"W"} \in Prots
      BY <1>3 DEF TypeInv, TypeOK, PageMap, Prots, PFLAGS_TO_PROT
    <2>2. SegMapped(h) \in PageMap
      BY <2>1, MappedType DEF SegMapped
    <2>. QED
      BY <1>2, <2>1, <2>2, MprotectType DEF LoadSegment
  <1>5. word' \in [Words -> Int]
    <2>1. \A w \in Words : FileWord(h, w) \in Int
      <3>1. si.file \in Files
        BY <1>3 DEF Soinfo
      <3>2. si.file.content \in [DOMAIN si.file.content -> Int]
        BY <3>1, FileAssumption
      <3>. QED
        BY <3>2 DEF FileWord
    <2>2. word' = SegWords(h) /\ word \in [Words -> Int]
      BY <1>2 DEF LoadSegment, TypeInv, TypeOK
    <2>3. SegWords(h) \in [Words -> Int]
      BY <2>1, <2>2 DEF SegWords
    <2>. QED
      BY <2>2, <2>3
  <1>6. SiOK'
    <2>3. si' = WrProtect(h) /\ i' = i + 1
      BY <1>2 DEF LoadSegment
    <2>4. si' \in Soinfo /\ si'.file = si.file /\ si'.size = si.size
      BY <1>3, <2>3, WrProtectFacts
    <2>. QED
      BY <1>3, <2>3, <2>4 DEF SiOK, BadExtents, Loads, total_sz, max_vaddr, min_vaddr
  <1>. QED
    <2>1. /\ arch' = arch /\ pc' = "segments" /\ rbase' = rbase /\ i' = i + 1
      BY <1>1 DEF LoadSegment
    <2>2. arch' \in Archs /\ rbase' \in Nat /\ i' \in Nat
      BY <1>3, <2>1 DEF TypeInv, TypeOK
    <2>. QED
      BY <1>4, <1>5, <1>6, <2>1, <2>2, FinishType

LEMMA RelocValueType ==
  ASSUME TypeInv, AtReloc, reloc \in Words
  PROVE  RelocValue \in Int
  <1>1. SiOK /\ i \in Nat /\ i >= 1 /\ word \in [Words -> Int]
    BY DEF AtReloc, TypeInv, TypeOK, SiOK
  <1>2. si.file \in Files /\ si.base \in Nat
    BY <1>1 DEF SiOK, Soinfo
  <1>3. si.file.rel \in Seq(Rel) /\ i \in DOMAIN si.file.rel
    BY <1>1, <1>2, FileAssumption DEF AtReloc
  <1>4. rel \in Rel
    BY <1>3 DEF rel
  <1>5. rel.off \in Nat /\ rel.S \in Nat /\ rel.add \in Int
    BY <1>4 DEF Rel
  <1>6. reloc \in Nat /\ SymAddr \in Nat /\ SymContent \in Nat /\ word[reloc] \in Int
    BY <1>1, <1>2, <1>5 DEF reloc, SymAddr, SymContent
  <1>. QED
    BY <1>2, <1>5, <1>6 DEF RelocValue

LEMMA NextType ==
  ASSUME TypeInv, [Next]_vars
  PROVE  TypeInv'
  <1>0. /\ arch \in Archs /\ page \in PageMap /\ word \in [Words -> Int] /\ i \in Nat /\ rbase \in Nat
    BY DEF TypeInv, TypeOK, PageMap, Prots
  <1>1. CASE UNCHANGED vars
    BY <1>1 DEF vars, TypeInv, TypeOK, SiOK, BadExtents, Loads, total_sz, max_vaddr, min_vaddr
  <1>2. CASE AppMap
    <2>1. page' \in PageMap
      BY <1>0, <1>2 DEF AppMap, PageMap, Prots
    <2>2. UNCHANGED <<arch, word, si, pc, i, rbase>>
      BY <1>2 DEF AppMap
    <2>3. SiOK => SiOK'
      BY <2>2 DEF SiOK, BadExtents, Loads, total_sz, max_vaddr, min_vaddr
    <2>. QED
      BY <2>1, <2>2, <2>3 DEF TypeInv, TypeOK, PageMap, Prots
  <1>3. CASE LoadFails
    BY <1>3 DEF LoadFails, TypeInv, TypeOK
  <1>4. CASE reserve_mem_region
    <2>1. PICK f \in Files : ~BadExtents(f) /\ f.prelink # 0 /\ Reserved(f, f.prelink)
      BY <1>4 DEF reserve_mem_region
    <2>2. f.prelink \in Nat \ {0}
      BY <2>1, FileAssumption
    <2>. QED
      BY <2>1, <2>2, ReservedType
  <1>5. CASE alloc_mem_region
    <2>1. PICK f \in Files, b \in PageNos : /\ ~BadExtents(f) /\ Free(b * PAGE_SIZE, total_sz(f))
                                            /\ Reserved(f, b * PAGE_SIZE)
      BY <1>5 DEF alloc_mem_region
    <2>2. b \in Nat /\ PAGE_SIZE \in Nat
      BY <2>1, SizeAssumption DEF PageNos
    <2>3. b * PAGE_SIZE \in Nat
      BY <2>2, SMT
    <2>4. b * PAGE_SIZE \in Nat \ {0}
      BY <2>1, <2>3 DEF Free, Fits
    <2>. QED
      BY <2>1, <2>4, ReservedType
  <1>6. CASE LoadSegment
    BY <1>6, LoadSegmentType
  <1>7. CASE pc = "segments" /\ LoadingFailed
    BY <1>7, FailedType DEF LoadingFailed, TypeInv
  <1>8. CASE LoadRelro
    <2>1. /\ SiOK /\ si.base \in Nat /\ phdr.vaddr \in Nat /\ phdr.memsz \in Nat
      BY <1>8, AtPhdrFacts DEF LoadRelro, AtPhdr
    <2>2. PICK rs \in Nat, rl \in Nat : rs = si.base + phdr.vaddr /\ rl = phdr.memsz
      BY <2>1
    <2>3. si' = [si EXCEPT !.relro_start = rs, !.relro_len = rl] /\ i' = i + 1
      BY <1>8, <2>2 DEF LoadRelro
    <2>4. si' \in Soinfo /\ si'.file = si.file /\ si'.size = si.size
      BY <2>1, <2>3 DEF SiOK, Soinfo
    <2>5. SiOK'
      BY <1>0, <2>1, <2>3, <2>4 DEF SiOK, BadExtents, Loads, total_sz, max_vaddr, min_vaddr
    <2>6. UNCHANGED <<arch, page, word, rbase>> /\ pc' = "segments"
      BY <1>8 DEF LoadRelro, AtPhdr
    <2>. QED
      BY <1>0, <2>3, <2>5, <2>6, FinishType
  <1>9. pc \notin {"idle", "rejected"} => SiOK /\ i >= 1
    BY DEF TypeInv, SiOK
  <1>10. ASSUME NEW pcs \in {"segments", "dynamic", "needed", "reloc", "relr", "loaded", "unload", "unloaded",
                              "rejected", "crashed"},
                pc \notin {"idle", "rejected"}, pc' = pcs, si' = si, arch' = arch,
                i' \in Nat, i' >= 1, rbase' \in Nat, page' \in PageMap, word' \in [Words -> Int]
         PROVE  TypeInv'
    <2>1. SiOK'
      BY <1>9, <1>10, SameSoinfo
    <2>. QED
      BY <1>0, <1>10, <2>1, FinishType
  <1>11. CASE pc \notin {"idle", "rejected"} /\ (LinkFailed({}) \/ LinkFailed({"LINKED"}))
    <2>1. PICK fl \in SUBSET {"LINKED", "ERROR"} : si' = [si EXCEPT !.flags = fl]
      BY <1>11 DEF LinkFailed
    <2>. QED
      BY <1>9, <1>11, <2>1, FailedType DEF LinkFailed
  <1>12. CASE LoadOther \/ Loaded \/ Unsupported \/ NeededDone \/ reloc_none \/ RelocDone
    BY <1>0, <1>9, <1>10, <1>12
       DEF LoadOther, Loaded, Unsupported, NeededDone, reloc_none, RelocDone, AtPhdr, SegmentsDone, AtReloc
  <1>13. ASSUME NEW a, NEW v \in Int, Store(a, v) PROVE word' \in [Words -> Int] /\ page' = page /\ si' = si
    BY <1>0, <1>13 DEF Store
  <1>14. CASE ParseDynamic
    <2>1. word' \in [Words -> Int] /\ page' = page /\ si' = si
      BY <1>0, <1>13, <1>14 DEF ParseDynamic, R_DEBUG
    <2>. QED
      BY <1>0, <1>9, <1>10, <1>14, <2>1 DEF ParseDynamic, AtDynamic
  <1>15. CASE BindNeeded
    <2>1. word' \in [Words -> Int] /\ page' = page /\ si' = si
      BY <1>13, <1>15 DEF BindNeeded, SOINFO
    <2>. QED
      BY <1>0, <1>9, <1>10, <1>15, <2>1 DEF BindNeeded, AtNeeded
  <1>16. CASE ClearNeeded
    <2>1. word' \in [Words -> Int] /\ page' = page /\ si' = si
      BY <1>13, <1>16 DEF ClearNeeded
    <2>. QED
      BY <1>0, <1>9, <1>10, <1>16, <2>1 DEF ClearNeeded, AtClear
  <1>17. CASE reloc_library
    <2>1. word' \in [Words -> Int] /\ page' = page /\ si' = si
      <3>1. CASE Terms(rel.type) = {"old"}
        BY <1>0, <1>17, <3>1 DEF reloc_library
      <3>2. CASE Terms(rel.type) # {"old"}
        <4>1. Store(reloc, RelocValue) /\ AtReloc
          BY <1>17, <3>2 DEF reloc_library
        <4>2. RelocValue \in Int
          BY <4>1, RelocValueType DEF Store, Writable
        <4>. QED
          BY <4>1, <4>2, <1>13
      <3>. QED
        BY <3>1, <3>2
    <2>. QED
      BY <1>0, <1>9, <1>10, <1>17, <2>1 DEF reloc_library, AtReloc
  <1>18. CASE relocate_relr
    <2>1. SiOK /\ i >= 1 /\ pc = "relr" /\ i <= Len(si.file.relr)
      BY <1>9, <1>18 DEF relocate_relr, AtRelr
    <2>2. si.file \in Files /\ si.base \in Nat
      BY <2>1 DEF SiOK, Soinfo
    <2>3. si.file.relr \in Seq(Nat)
      BY <2>2, FileAssumption
    <2>4. entry \in Nat
      BY <1>0, <2>1, <2>3 DEF entry
    <2>5. NextBase(entry, rbase) \in Nat
      <3>1. WORD \in Nat /\ RelrBits - 1 \in Nat
        BY SizeAssumption
      <3>2. (RelrBits - 1) * WORD \in Nat
        BY <3>1, SMT
      <3>. QED
        BY <1>0, <2>4, <3>1, <3>2 DEF NextBase
    <2>6. word' \in [Words -> Int]
      BY <1>0, <1>18, <2>2 DEF relocate_relr
    <2>. QED
      BY <1>0, <1>10, <1>18, <2>1, <2>5, <2>6 DEF relocate_relr
  <1>19. CASE StoreFaults \/ ClearFaults
    BY <1>0, <1>9, <1>10, <1>19
       DEF StoreFaults, ClearFaults, Crash, AtDynamic, AtNeeded, AtReloc, AtRelr, AtClear
  <1>20. /\ WriteProtected \in PageMap
         /\ mprotect(WriteProtected, RelroStart, RelroLen, {"R"}) \in PageMap /\ Unprotected \in PageMap
    <2>1. {"R", "X"} \in Prots /\ {"R"} \in Prots /\ {"R", "W"} \in Prots
      BY DEF Prots
    <2>2. WriteProtected \in PageMap
      BY <1>0, <2>1, MprotectType DEF WriteProtected
    <2>. QED
      BY <1>0, <2>1, <2>2, MprotectType DEF Unprotected
  <1>21. CASE LinkFinish
    <2>1. SiOK /\ i >= 1 /\ i' = i
      BY <1>9, <1>21 DEF LinkFinish, RelrDone
    <2>2. SiOK'
      <3>1. \E fl \in SUBSET {"LINKED", "ERROR"} : si' = [si EXCEPT !.flags = fl]
        BY <1>21 DEF LinkFinish
      <3>. QED
        BY <1>0, <2>1, <3>1, SameSoinfo
    <2>3. page' \in PageMap
      BY <1>20, <1>21 DEF LinkFinish
    <2>4. pc' = "loaded" /\ UNCHANGED <<arch, word, rbase>>
      BY <1>21 DEF LinkFinish
    <2>. QED
      BY <1>0, <2>1, <2>2, <2>3, <2>4, FinishType
  <1>22. CASE UnloadStart
    BY <1>0, <1>9, <1>10, <1>20, <1>22 DEF UnloadStart
  <1>23. CASE Unload
    <2>1. munmap(si.base, si.size) \in PageMap
      BY <1>0, MunmapType
    <2>. QED
      BY <1>0, <1>9, <1>10, <1>23, <2>1 DEF Unload
  <1>24. CASE SegmentFails \/ RelroFails \/ TooLong
    BY <1>7, <1>24 DEF SegmentFails, RelroFails, TooLong, AtPhdr, SegmentsDone
  <1>25. CASE MissingTables \/ RelocFails \/ RelroProtectFails
    BY <1>11, <1>25 DEF MissingTables, RelocFails, RelroProtectFails, AtReloc, RelrDone
  <1>26. CASE Rest
    BY <1>1, <1>26 DEF Rest
  <1>. QED
    BY <1>1, <1>2, <1>3, <1>4, <1>5, <1>6, <1>8, <1>12, <1>14, <1>15, <1>16, <1>17, <1>18, <1>19, <1>21,
       <1>22, <1>23, <1>24, <1>25, <1>26 DEF Next

(* apkenv_load_library to apkenv_unload_library keep the page table, the   *)
(* memory and the soinfo well formed, for every file: i and rbase are      *)
(* never negative, and every soinfo that is worked on has a base address.  *)
THEOREM TypeCorrect == Spec => []TypeOK
  <1>1. TypeInv => TypeOK
    BY DEF TypeInv
  <1>. QED
    BY <1>1, InitType, NextType, PTL DEF Spec

-----------------------------------------------------------------------------
(* The region of a library.                                                *)

Active == {"segments", "dynamic", "needed", "reloc", "relr", "loaded", "unload", "crashed"}

(* The pages and the words of the linker are those of the region reserved  *)
(* for it, all of them and from the reservation to the munmap: there are   *)
(* no others, and nothing is left of them afterwards.                      *)
Aligned == \E b \in PageNos : si.base = PAGE_SIZE * b
LibPages == \A p \in PageNos : page[p].who = "lib" <=> p \in PagesOf(si.base, si.size)
NoLibPages == \A p \in PageNos : page[p].who # "lib"
RelroInside ==
  HasRelro => si.base <= si.relro_start /\ si.relro_start + si.relro_len <= si.base + si.size
(* No address is cut to 32 bits.                                           *)
NoTruncation == Sentinel >= NPages * PAGE_SIZE
WrProtectInside ==
  \/ si.wrprotect_start = Sentinel /\ si.wrprotect_end = 0
  \/ /\ si.base <= si.wrprotect_start /\ si.wrprotect_start <= si.wrprotect_end
     /\ si.wrprotect_end <= si.base + si.size
RegionOK ==
  /\ Aligned /\ si.size > 0 /\ si.base + si.size <= NPages * PAGE_SIZE
  /\ pc \in Active => LibPages
  /\ pc \in {"rejected", "unloaded"} => NoLibPages
  /\ RelroInside
  /\ NoTruncation => WrProtectInside
RegionInv ==
  /\ pc = "idle" => NoLibPages
  /\ SiOK /\ InRegion(si.file) => RegionOK

LEMMA UpLe ==
  ASSUME NEW a \in Nat, NEW b \in Nat, a <= b
  PROVE  Up(a) <= Up(b)
  <1>1. PAGE_SIZE \in Nat
    BY SizeAssumption
  <1>2. PICK p \in Nat : p = PageOf(Up(a)) /\ Up(a) = PAGE_SIZE * p
    BY UpFacts
  <1>3. PICK q \in Nat : q = PageOf(Up(b)) /\ Up(b) = PAGE_SIZE * q
    BY UpFacts
  <1>4. p <= q
    BY <1>2, <1>3, UpMonotone
  <1>5. PAGE_SIZE * p <= PAGE_SIZE * q
    BY <1>1, <1>4, SMT
  <1>. QED
    BY <1>2, <1>3, <1>5

(* A call on a part of a range touches no other pages.                     *)
LEMMA PagesInside ==
  ASSUME NEW a \in Nat, NEW n \in Int, NEW b \in Nat, NEW m \in Int, b <= a, a + n \in Nat, a + n <= b + m
  PROVE  PagesOf(a, n) \subseteq PagesOf(b, m)
  <1>1. b + m \in Nat
    OBVIOUS
  <1>2. PageOf(b) <= PageOf(a) /\ PageOf(Up(a + n)) <= PageOf(Up(b + m))
    BY <1>1, PageOfMonotone, UpMonotone
  <1>3. /\ PageOf(b) \in Nat /\ PageOf(a) \in Nat /\ PageOf(Up(a + n)) \in Nat /\ PageOf(Up(b + m)) \in Nat
    BY <1>1, DivFacts, UpFacts
  <1>4. SUFFICES ASSUME NEW p \in PagesOf(a, n) PROVE p \in PagesOf(b, m)
    OBVIOUS
  <1>5. p \in PageNos /\ PageOf(a) <= p /\ p < PageOf(Up(a + n))
    BY DEF PagesOf, Within
  <1>6. p \in Int
    BY <1>5 DEF PageNos
  <1>7. PageOf(b) <= p /\ p < PageOf(Up(b + m))
    BY <1>2, <1>3, <1>5, <1>6
  <1>. QED
    BY <1>5, <1>7 DEF PagesOf, Within

(* The region ends where the last segment does, rounded up.                *)
LEMMA RegionSize ==
  ASSUME NEW f \in Files, ~BadExtents(f), InRegion(f)
  PROVE  total_sz(f) = Up(max_vaddr(f)) /\ total_sz(f) \in Nat /\ f.prelink = 0
  <1>1. min_vaddr(f) \in Nat /\ max_vaddr(f) \in Nat /\ min_vaddr(f) < PAGE_SIZE /\ f.prelink = 0
    BY ExtentFacts DEF InRegion
  <1>2. PAGE_SIZE \in Nat
    BY SizeAssumption
  <1>3. PageOf(min_vaddr(f)) = 0
    <2>1. min_vaddr(f) = PAGE_SIZE * 0 + min_vaddr(f)
      BY <1>1, <1>2
    <2>. QED
      BY <1>1, <2>1, PageOfUnique
  <1>4. Down(min_vaddr(f)) = 0
    <2>1. Down(min_vaddr(f)) = PAGE_SIZE * PageOf(min_vaddr(f))
      BY <1>1, DivFacts
    <2>. QED
      BY <1>2, <1>3, <2>1
  <1>5. Up(max_vaddr(f)) \in Nat
    BY <1>1, UpFacts
  <1>. QED
    BY <1>1, <1>4, <1>5 DEF total_sz

(* Every segment lies in the region, file part, zeroed part and the page   *)
(* it ends in.                                                             *)
LEMMA SegInside ==
  ASSUME SiOK, InRegion(si.file), Aligned, NEW k \in Loads(si.file), NEW h, h = si.file.phdr[k]
  PROVE  /\ h \in Phdr /\ si.base \in Nat /\ si.size \in Nat
         /\ si.base <= pbase(h)
         /\ pbase(h) + len(h) <= si.base + SegEnd(h)
         /\ Up(pbase(h) + len(h)) <= Up(si.base + SegEnd(h))
         /\ si.base + SegEnd(h) <= Up(si.base + SegEnd(h))
         /\ Up(si.base + SegEnd(h)) <= si.base + si.size
  <1>1. si.file \in Files /\ si.base \in Nat /\ ~BadExtents(si.file) /\ si.size = total_sz(si.file)
    BY DEF SiOK, Soinfo
  <1>2. h \in Phdr
    BY <1>1, FileFacts
  <1>3. h.vaddr \in Nat /\ h.memsz \in Nat /\ h.filesz \in Nat /\ SegEnd(h) = h.vaddr + h.memsz
    BY <1>2 DEF Phdr, SegEnd
  <1>4. SegEnd(h) <= max_vaddr(si.file) /\ max_vaddr(si.file) \in Nat /\ h.filesz <= h.memsz
    BY <1>1, ExtentFacts DEF InRegion
  <1>5. si.size = Up(max_vaddr(si.file)) /\ si.size \in Nat
    BY <1>1, RegionSize
  <1>6. /\ pbase(h) \in Nat /\ pbase(h) = si.base + Down(h.vaddr) /\ Down(h.vaddr) \in Nat
        /\ len(h) \in Nat /\ pbase(h) + len(h) = si.base + h.vaddr + h.filesz
    BY <1>1, <1>2, SegAddrs
  <1>7. pbase(h) + len(h) <= si.base + SegEnd(h) /\ si.base <= pbase(h)
    BY <1>1, <1>3, <1>4, <1>6
  <1>8. SegEnd(h) \in Nat /\ si.base + SegEnd(h) \in Nat /\ pbase(h) + len(h) \in Nat
    BY <1>1, <1>3, <1>6
  <1>9. Up(si.base + SegEnd(h)) = si.base + Up(SegEnd(h))
    <2>1. PICK b \in Nat : si.base = PAGE_SIZE * b
      BY SizeAssumption DEF Aligned, PageNos
    <2>. QED
      BY <1>8, <2>1, UpShift
  <1>10. Up(SegEnd(h)) <= Up(max_vaddr(si.file)) /\ Up(SegEnd(h)) \in Nat
    BY <1>4, <1>8, UpLe, UpFacts
  <1>11. Up(pbase(h) + len(h)) <= Up(si.base + SegEnd(h)) /\ si.base + SegEnd(h) <= Up(si.base + SegEnd(h))
    BY <1>7, <1>8, UpLe, UpFacts
  <1>. QED
    BY <1>1, <1>2, <1>5, <1>7, <1>9, <1>10, <1>11

(* The pages a segment takes, in file pages and the anonymous ones, are in *)
(* the region.                                                             *)
LEMMA SegPagesInside ==
  ASSUME SiOK, InRegion(si.file), Aligned, NEW k \in Loads(si.file), NEW h, h = si.file.phdr[k]
  PROVE  /\ PagesOf(pbase(h), len(h)) \subseteq PagesOf(si.base, si.size)
         /\ Extra(h) > 0 => PagesOf(Up(pbase(h) + len(h)), Extra(h)) \subseteq PagesOf(si.base, si.size)
         /\ PagesOf(pbase(h), SegLen(h)) \subseteq PagesOf(si.base, si.size)
  <1>1. /\ h \in Phdr /\ si.base \in Nat /\ si.size \in Nat
        /\ si.base <= pbase(h)
        /\ pbase(h) + len(h) <= si.base + SegEnd(h)
        /\ Up(pbase(h) + len(h)) <= Up(si.base + SegEnd(h))
        /\ si.base + SegEnd(h) <= Up(si.base + SegEnd(h))
        /\ Up(si.base + SegEnd(h)) <= si.base + si.size
    BY SegInside
  <1>2. /\ pbase(h) \in Nat /\ len(h) \in Nat /\ si.base + SegEnd(h) \in Nat
        /\ SegLen(h) \in Int /\ pbase(h) + SegLen(h) = Up(si.base + SegEnd(h))
        /\ Up(si.base + SegEnd(h)) \in Nat
        /\ Extra(h) \in Int /\ Up(pbase(h) + len(h)) + Extra(h) = si.base + SegEnd(h)
    BY <1>1, SegAddrs
  <1>3. Up(pbase(h) + len(h)) \in Nat /\ pbase(h) + len(h) <= Up(pbase(h) + len(h))
    BY <1>2, UpFacts
  <1>4. PagesOf(pbase(h), len(h)) \subseteq PagesOf(si.base, si.size)
    <2>1. pbase(h) + len(h) \in Nat /\ pbase(h) + len(h) <= si.base + si.size
      BY <1>1, <1>2
    <2>. QED
      BY <1>1, <1>2, <2>1, PagesInside
  <1>5. PagesOf(Up(pbase(h) + len(h)), Extra(h)) \subseteq PagesOf(si.base, si.size)
    <2>1. si.base <= Up(pbase(h) + len(h)) /\ si.base + SegEnd(h) <= si.base + si.size
      BY <1>1, <1>2, <1>3
    <2>. QED
      BY <1>1, <1>2, <1>3, <2>1, PagesInside
  <1>6. PagesOf(pbase(h), SegLen(h)) \subseteq PagesOf(si.base, si.size)
    BY <1>1, <1>2, PagesInside
  <1>. QED
    BY <1>4, <1>5, <1>6

(* A step leaves the pages of the rest of the application alone.           *)
ForeignKept == \A p \in PageNos : page[p].who = "app" => page'[p] = page[p]

(* A step works on its region only, and maps or protects there.            *)
InsideOnly ==
  \A p \in PageNos : \/ page'[p] = page[p]
                     \/ /\ p \in PagesOf(si.base, si.size)
                        /\ page'[p].who = "lib" \/ page'[p].who = page[p].who

LEMMA InsideKeeps ==
  ASSUME LibPages, InsideOnly, si'.base = si.base, si'.size = si.size
  PROVE  LibPages' /\ ForeignKept
  <1>1. ASSUME NEW p \in PageNos
        PROVE  /\ page'[p].who = "lib" <=> page[p].who = "lib"
               /\ page[p].who = "app" => page'[p] = page[p]
    <2>1. page[p].who = "lib" <=> p \in PagesOf(si.base, si.size)
      BY DEF LibPages
    <2>. QED
      BY <2>1 DEF InsideOnly
  <1>2. PagesOf(si'.base, si'.size) = PagesOf(si.base, si.size)
    OBVIOUS
  <1>. QED
    BY <1>1, <1>2 DEF LibPages, ForeignKept

(* munmap of the region takes what LibPages says is there.                 *)
LEMMA UnmapKeeps ==
  ASSUME LibPages, page \in PageMap, page' = munmap(si.base, si.size)
  PROVE  NoLibPages' /\ ForeignKept
  <1>1. ASSUME NEW p \in PageNos
        PROVE  page'[p].who # "lib" /\ (page[p].who = "app" => page'[p] = page[p])
    <2>1. page[p].who = "lib" <=> p \in PagesOf(si.base, si.size)
      BY DEF LibPages
    <2>2. page'[p] = IF p \in PagesOf(si.base, si.size) THEN [who |-> "free", prot |-> {}] ELSE page[p]
      BY DEF munmap
    <2>. QED
      BY <2>1, <2>2
  <1>. QED
    BY <1>1 DEF NoLibPages, ForeignKept

LEMMA MprotectInside ==
  ASSUME NEW pg \in PageMap, NEW a, NEW n, NEW prot, NEW p \in PageNos
  PROVE  /\ mprotect(pg, a, n, prot)[p].who = pg[p].who
         /\ p \notin PagesOf(a, n) => mprotect(pg, a, n, prot)[p] = pg[p]
         /\ p \in PagesOf(a, n) /\ pg[p].who # "free" => mprotect(pg, a, n, prot)[p].prot = prot
  <1>1. pg[p] \in [who : {"free", "app", "lib"}, prot : Prots]
    BY DEF PageMap
  <1>2. mprotect(pg, a, n, prot)[p] = IF p \in PagesOf(a, n) /\ pg[p].who # "free"
                                      THEN [pg[p] EXCEPT !.prot = prot] ELSE pg[p]
    BY DEF mprotect
  <1>. QED
    BY <1>1, <1>2

LEMMA MappedInside ==
  ASSUME NEW pg \in PageMap, NEW a, NEW n, NEW prot, NEW p \in PageNos
  PROVE  Mapped(pg, a, n, prot)[p] = IF p \in PagesOf(a, n) THEN [who |-> "lib", prot |-> prot] ELSE pg[p]
  BY DEF Mapped

(* The soinfo keeps its address range in every step after the reservation. *)
LEMMA RegionFrame ==
  ASSUME SiOK, InRegion(si.file) => RegionOK, si' \in Soinfo, pc # "idle", pc' # "idle",
         si'.file = si.file, si'.base = si.base, si'.size = si.size,
         InRegion(si.file) => /\ pc' \in Active => LibPages'
                              /\ pc' \in {"rejected", "unloaded"} => NoLibPages'
                              /\ RelroInside' /\ (NoTruncation => WrProtectInside')
  PROVE  RegionInv'
  <1>1. SUFFICES ASSUME InRegion(si.file) PROVE RegionOK'
    BY DEF RegionInv
  <1>2. RegionOK
    BY <1>1
  <1>3. Aligned' /\ si'.size > 0 /\ si'.base + si'.size <= NPages * PAGE_SIZE
    BY <1>2 DEF RegionOK, Aligned
  <1>. QED
    BY <1>1, <1>3 DEF RegionOK

LEMMA SameRanges ==
  ASSUME RelroInside, NoTruncation => WrProtectInside,
         si'.base = si.base, si'.size = si.size, si'.relro_start = si.relro_start, si'.relro_len = si.relro_len,
         si'.wrprotect_start = si.wrprotect_start, si'.wrprotect_end = si.wrprotect_end
  PROVE  RelroInside' /\ (NoTruncation => WrProtectInside')
  BY DEF RelroInside, HasRelro, WrProtectInside

LEMMA AllocRegion ==
  ASSUME TypeInv, RegionInv, TypeInv', alloc_mem_region
  PROVE  RegionInv' /\ ForeignKept
  <1>1. PICK f \in Files, b \in PageNos : /\ ~BadExtents(f) /\ Free(b * PAGE_SIZE, total_sz(f))
                                          /\ Reserved(f, b * PAGE_SIZE)
    BY DEF alloc_mem_region
  <1>2. page \in PageMap /\ NoLibPages
    BY DEF TypeInv, TypeOK, PageMap, Prots, RegionInv, alloc_mem_region
  <1>3. PICK a : a = b * PAGE_SIZE
    OBVIOUS
  <1>4. /\ si'.file = f /\ si'.base = a /\ si'.size = total_sz(f) /\ si'.relro_start = 0
        /\ si'.wrprotect_start = Sentinel /\ si'.wrprotect_end = 0 /\ pc' = "segments"
    BY <1>1, <1>3 DEF Reserved
  <1>5. ASSUME NEW p \in PageNos
        PROVE  /\ page'[p] = IF p \in PagesOf(a, total_sz(f)) THEN [who |-> "lib", prot |-> {}] ELSE page[p]
               /\ page[p].who # "lib"
               /\ p \in PagesOf(a, total_sz(f)) => page[p].who = "free"
    BY <1>1, <1>2, <1>3, MappedInside DEF Reserved, NoLibPages, Free
  <1>6. ForeignKept
    BY <1>5 DEF ForeignKept
  <1>7. LibPages'
    BY <1>4, <1>5 DEF LibPages
  <1>8. RelroInside' /\ WrProtectInside'
    BY <1>4 DEF RelroInside, HasRelro, WrProtectInside
  <1>9. Aligned' /\ si'.size > 0 /\ si'.base + si'.size <= NPages * PAGE_SIZE
    <2>1. b * PAGE_SIZE = PAGE_SIZE * b
      BY SizeAssumption DEF PageNos
    <2>. QED
      BY <1>1, <1>3, <1>4, <2>1 DEF Aligned, Free, Fits
  <1>10. RegionInv'
    BY <1>4, <1>7, <1>8, <1>9 DEF RegionInv, RegionOK
  <1>. QED
    BY <1>6, <1>10

LEMMA UnmapRegion ==
  ASSUME TypeInv, RegionInv, TypeInv', SiOK, pc \in Active, pc' \in {"rejected", "unloaded"},
         page' = munmap(si.base, si.size),
         si' = si \/ \E fl : si' = [si EXCEPT !.flags = fl], si' \in Soinfo
  PROVE  RegionInv' /\ (InRegion(si'.file) => ForeignKept)
  <1>1. /\ si'.file = si.file /\ si'.base = si.base /\ si'.size = si.size
        /\ si'.relro_start = si.relro_start /\ si'.relro_len = si.relro_len
        /\ si'.wrprotect_start = si.wrprotect_start /\ si'.wrprotect_end = si.wrprotect_end
    BY DEF SiOK, Soinfo
  <1>2. InRegion(si.file) => RegionOK
    BY DEF RegionInv
  <1>3. InRegion(si.file) => NoLibPages' /\ ForeignKept
    <2>1. page \in PageMap
      BY DEF TypeInv, TypeOK, PageMap, Prots
    <2>. QED
      BY <1>2, <2>1, UnmapKeeps DEF RegionOK
  <1>4. InRegion(si.file) => RelroInside' /\ (NoTruncation => WrProtectInside')
    BY <1>1, <1>2, SameRanges DEF RegionOK
  <1>5. RegionInv'
    BY <1>1, <1>2, <1>3, <1>4, RegionFrame DEF Active
  <1>. QED
    BY <1>1, <1>3, <1>5

(* Steps that keep the address range and work inside the region.           *)
LEMMA WorkRegion ==
  ASSUME TypeInv, RegionInv, SiOK, pc \in Active, pc' \in Active, si' \in Soinfo,
         si'.file = si.file, si'.base = si.base, si'.size = si.size,
         InRegion(si.file) => InsideOnly /\ RelroInside' /\ (NoTruncation => WrProtectInside')
  PROVE  RegionInv' /\ (InRegion(si'.file) => ForeignKept)
  <1>1. InRegion(si.file) => RegionOK
    BY DEF RegionInv
  <1>2. InRegion(si.file) => LibPages' /\ ForeignKept
    BY <1>1, InsideKeeps DEF RegionOK
  <1>3. RegionInv'
    BY <1>1, <1>2, RegionFrame DEF Active
  <1>. QED
    BY <1>2, <1>3

LEMMA NarrowIs ==
  ASSUME NoTruncation, NEW x \in Nat, x <= NPages * PAGE_SIZE
  PROVE  Narrow(x) = x
  <1>1. NPages * PAGE_SIZE \in Nat /\ Sentinel \in Nat
    BY SizeAssumption
  <1>2. x < Sentinel + 1
    BY <1>1 DEF NoTruncation
  <1>. QED
    BY <1>1, <1>2 DEF Narrow

LEMMA LoadSegmentRegion ==
  ASSUME TypeInv, RegionInv, LoadSegment
  PROVE  RegionInv' /\ (InRegion(si'.file) => ForeignKept)
  <1>1. AtPhdr("LOAD") /\ pc = "segments" /\ pc' = "segments" /\ i <= Len(si.file.phdr)
    BY DEF LoadSegment, AtPhdr
  <1>2. PICK h \in Phdr : h = phdr
    BY <1>1, AtPhdrFacts
  <1>3. SiOK /\ si \in Soinfo /\ page \in PageMap /\ h = si.file.phdr[i] /\ i \in Loads(si.file)
    BY <1>1, <1>2, AtPhdrFacts DEF SiOK, AtPhdr, Loads, phdr, TypeInv, TypeOK, PageMap, Prots
  <1>4. si' = WrProtect(h)
    BY <1>2 DEF LoadSegment
  <1>5. /\ si' \in Soinfo /\ si'.file = si.file /\ si'.base = si.base /\ si'.size = si.size
        /\ si'.relro_start = si.relro_start /\ si'.relro_len = si.relro_len
        /\ si'.wrprotect_start = IF "W" \notin h.flags /\ pbase(h) < si.wrprotect_start
                                 THEN Narrow(pbase(h)) ELSE si.wrprotect_start
        /\ si'.wrprotect_end = IF "W" \notin h.flags /\ pbase(h) + SegLen(h) > si.wrprotect_end
                               THEN Narrow(pbase(h) + SegLen(h)) ELSE si.wrprotect_end
    BY <1>3, <1>4, WrProtectFacts
  <1>6. ASSUME InRegion(si.file)
        PROVE  InsideOnly /\ RelroInside' /\ (NoTruncation => WrProtectInside')
    <2>1. RegionOK
      BY <1>3, <1>6 DEF RegionInv
    <2>2. /\ PagesOf(pbase(h), len(h)) \subseteq PagesOf(si.base, si.size)
          /\ Extra(h) > 0 => PagesOf(Up(pbase(h) + len(h)), Extra(h)) \subseteq PagesOf(si.base, si.size)
          /\ PagesOf(pbase(h), SegLen(h)) \subseteq PagesOf(si.base, si.size)
      BY <1>3, <1>6, <2>1, SegPagesInside DEF RegionOK
    <2>3. InsideOnly
      <3>1. PFLAGS_TO_PROT(h) \in Prots /\ PFLAGS_TO_PROT(h) \cup {"W"} \in Prots
        BY DEF PFLAGS_TO_PROT, Phdr, Prots
      <3>2. PICK filed \in PageMap : filed = Mapped(page, pbase(h), len(h), PFLAGS_TO_PROT(h))
        BY <1>3, <3>1, MappedType
      <3>3. PICK seg \in PageMap : seg = SegMapped(h)
        BY <3>1, <3>2, MappedType DEF SegMapped
      <3>4. page' = IF "W" \in h.flags THEN seg
                    ELSE mprotect(seg, pbase(h), SegLen(h), PFLAGS_TO_PROT(h) \cup {"W"})
        BY <1>2, <3>3 DEF LoadSegment
      <3>5. SUFFICES ASSUME NEW p \in PageNos
                     PROVE  \/ page'[p] = page[p]
                            \/ /\ p \in PagesOf(si.base, si.size)
                               /\ page'[p].who = "lib" \/ page'[p].who = page[p].who
        BY DEF InsideOnly
      <3>6. filed[p] = page[p] \/ (p \in PagesOf(si.base, si.size) /\ filed[p].who = "lib")
        <4>1. filed[p] = IF p \in PagesOf(pbase(h), len(h))
                         THEN [who |-> "lib", prot |-> PFLAGS_TO_PROT(h)] ELSE page[p]
          BY <1>3, <3>2, MappedInside
        <4>. QED
          BY <2>2, <4>1
      <3>7. seg[p] = page[p] \/ (p \in PagesOf(si.base, si.size) /\ seg[p].who = "lib")
        <4>1. CASE Extra(h) > 0
          <5>1. seg = Mapped(filed, Up(pbase(h) + len(h)), Extra(h), PFLAGS_TO_PROT(h))
            BY <3>2, <3>3, <4>1 DEF SegMapped
          <5>2. seg[p] = IF p \in PagesOf(Up(pbase(h) + len(h)), Extra(h))
                         THEN [who |-> "lib", prot |-> PFLAGS_TO_PROT(h)] ELSE filed[p]
            BY <5>1, MappedInside
          <5>. QED
            BY <2>2, <3>6, <4>1, <5>2
        <4>2. CASE ~(Extra(h) > 0)
          BY <3>2, <3>3, <3>6, <4>2 DEF SegMapped
        <4>. QED
          BY <4>1, <4>2
      <3>8. page'[p] = seg[p] \/ (p \in PagesOf(si.base, si.size) /\ page'[p].who = seg[p].who)
        BY <2>2, <3>4, MprotectInside
      <3>. QED
        BY <3>7, <3>8
    <2>4. RelroInside'
      BY <1>5, <2>1 DEF RegionOK, RelroInside, HasRelro
    <2>5. ASSUME NoTruncation PROVE WrProtectInside'
      <3>1. /\ si.base \in Nat /\ si.size \in Nat /\ si.base <= pbase(h)
            /\ Up(si.base + SegEnd(h)) <= si.base + si.size
        BY <1>3, <1>6, <2>1, SegInside DEF RegionOK
      <3>2. /\ pbase(h) \in Nat /\ SegLen(h) \in Int /\ pbase(h) + SegLen(h) = Up(si.base + SegEnd(h))
            /\ pbase(h) + SegLen(h) \in Nat
        BY <3>1, SegAddrs
      <3>3. PICK e \in Nat : e = pbase(h) + SegLen(h)
        BY <3>2
      <3>4. PICK top \in Nat : top = NPages * PAGE_SIZE
        BY SizeAssumption
      <3>5. /\ pbase(h) < e /\ e <= si.base + si.size /\ si.base + si.size <= top /\ top <= Sentinel
        BY <1>2, <2>1, <2>5, <3>1, <3>2, <3>3, <3>4 DEF LoadSegment, Fits, RegionOK, NoTruncation
      <3>6. Narrow(pbase(h)) = pbase(h) /\ Narrow(e) = e
        BY <2>5, <3>1, <3>2, <3>3, <3>4, <3>5, NarrowIs
      <3>7. WrProtectInside /\ Sentinel \in Nat /\ si.wrprotect_start \in Nat /\ si.wrprotect_end \in Nat
        BY <1>3, <2>1, <2>5, SizeAssumption DEF RegionOK, Soinfo
      <3>8. /\ si'.wrprotect_start = IF "W" \notin h.flags /\ pbase(h) < si.wrprotect_start
                                     THEN pbase(h) ELSE si.wrprotect_start
            /\ si'.wrprotect_end = IF "W" \notin h.flags /\ e > si.wrprotect_end
                                   THEN e ELSE si.wrprotect_end
        BY <1>5, <3>3, <3>6
      <3>. QED
        BY <1>5, <3>1, <3>2, <3>5, <3>7, <3>8 DEF WrProtectInside
    <2>. QED
      BY <2>3, <2>4, <2>5
  <1>. QED
    BY <1>1, <1>3, <1>5, <1>6, WorkRegion DEF Active

LEMMA LoadRelroRegion ==
  ASSUME TypeInv, RegionInv, LoadRelro, TypeInv'
  PROVE  RegionInv' /\ (InRegion(si'.file) => ForeignKept)
  <1>1. /\ pc = "segments" /\ i <= Len(si.file.phdr) /\ ~BadRelro(phdr) /\ page' = page /\ pc' = "segments"
    BY DEF LoadRelro, AtPhdr
  <1>2. SiOK /\ si.base \in Nat /\ phdr.vaddr \in Nat /\ phdr.memsz \in Nat
    BY <1>1, AtPhdrFacts
  <1>3. PICK rs \in Nat, rl \in Nat : rs = si.base + phdr.vaddr /\ rl = phdr.memsz
    BY <1>2
  <1>4. si' = [si EXCEPT !.relro_start = rs, !.relro_len = rl] /\ si \in Soinfo
    BY <1>2, <1>3 DEF LoadRelro, SiOK
  <1>5. /\ si' \in Soinfo /\ si'.file = si.file /\ si'.base = si.base /\ si'.size = si.size
        /\ si'.relro_start = rs /\ si'.relro_len = rl /\ si.size \in Int
        /\ si'.wrprotect_start = si.wrprotect_start /\ si'.wrprotect_end = si.wrprotect_end
    BY <1>4 DEF Soinfo
  <1>6. si.base <= rs /\ rs + rl <= si.base + si.size
    BY <1>1, <1>2, <1>3, <1>5 DEF BadRelro, SegEnd
  <1>7. RelroInside'
    BY <1>5, <1>6 DEF RelroInside
  <1>8. InRegion(si.file) => (NoTruncation => WrProtectInside')
    BY <1>2, <1>5 DEF RegionInv, RegionOK, WrProtectInside
  <1>9. InsideOnly
    BY <1>1 DEF InsideOnly
  <1>. QED
    BY <1>1, <1>2, <1>5, <1>7, <1>8, <1>9, WorkRegion DEF Active

(* The RELRO part, widened to whole pages, is in the region.               *)
LEMMA RelroPages ==
  ASSUME SiOK, InRegion(si.file), RegionOK, HasRelro
  PROVE  PagesOf(RelroStart, RelroLen) \subseteq PagesOf(si.base, si.size)
  <1>1. /\ si.base \in Nat /\ si.size \in Int /\ si.relro_start \in Nat /\ si.relro_len \in Nat
        /\ si.base <= si.relro_start /\ si.relro_start + si.relro_len <= si.base + si.size
    BY DEF SiOK, Soinfo, RegionOK, RelroInside
  <1>2. RelroStart \in Nat /\ RelroLen \in Int /\ RelroStart + RelroLen = si.relro_start + si.relro_len
    <2>1. RelroStart \in Nat
      BY <1>1, DivFacts DEF RelroStart
    <2>. QED
      BY <1>1, <2>1 DEF RelroLen
  <1>3. si.base <= RelroStart
    <2>1. PICK b \in Nat : si.base = PAGE_SIZE * b
      BY SizeAssumption DEF RegionOK, Aligned, PageNos
    <2>2. PAGE_SIZE \in Nat /\ PAGE_SIZE > 0
      BY SizeAssumption
    <2>3. PageOf(si.base) = b
      <3>1. si.base = PAGE_SIZE * b + 0
        BY <1>1, <2>1
      <3>. QED
        BY <1>1, <2>2, <3>1, PageOfUnique
    <2>4. PICK q \in Nat : q = PageOf(si.relro_start) /\ RelroStart = PAGE_SIZE * q
      BY <1>1, DivFacts DEF RelroStart
    <2>5. b <= q
      BY <1>1, <2>3, <2>4, PageOfMonotone
    <2>6. PAGE_SIZE * b <= PAGE_SIZE * q
      BY <2>2, <2>5, SMT
    <2>. QED
      BY <2>1, <2>4, <2>6
  <1>. QED
    BY <1>1, <1>2, <1>3, PagesInside

(* The range to protect, when there is one and it was not cut, too.        *)
LEMMA TextPages ==
  ASSUME SiOK, InRegion(si.file), RegionOK, NoTruncation, si.wrprotect_start # Sentinel, si.wrprotect_end # 0
  PROVE  PagesOf(si.wrprotect_start, TextRange) \subseteq PagesOf(si.base, si.size)
  <1>1. /\ si.base \in Nat /\ si.size \in Int /\ si.wrprotect_start \in Nat /\ si.wrprotect_end \in Nat
        /\ si.base <= si.wrprotect_start /\ si.wrprotect_end <= si.base + si.size
    BY DEF SiOK, Soinfo, RegionOK, WrProtectInside
  <1>2. TextRange \in Int /\ si.wrprotect_start + TextRange = si.wrprotect_end
    BY <1>1 DEF TextRange
  <1>. QED
    BY <1>1, <1>2, PagesInside

LEMMA LinkFinishRegion ==
  ASSUME TypeInv, RegionInv, LinkFinish, TypeInv'
  PROVE  RegionInv' /\ (InRegion(si'.file) /\ NoTruncation => ForeignKept)
  <1>1. SiOK /\ pc = "relr" /\ pc' = "loaded" /\ page \in PageMap
    BY DEF TypeInv, TypeOK, PageMap, Prots, LinkFinish, RelrDone
  <1>2. si' = [si EXCEPT !.flags = {"LINKED"}] /\ si' \in Soinfo
    BY <1>1 DEF LinkFinish, SiOK, TypeInv
  <1>3. /\ si'.file = si.file /\ si'.base = si.base /\ si'.size = si.size
        /\ si'.relro_start = si.relro_start /\ si'.relro_len = si.relro_len
        /\ si'.wrprotect_start = si.wrprotect_start /\ si'.wrprotect_end = si.wrprotect_end
    BY <1>1, <1>2 DEF SiOK, Soinfo
  <1>4. PICK wp \in PageMap : wp = WriteProtected
    <2>1. {"R", "X"} \in Prots
      BY DEF Prots
    <2>. QED
      BY <1>1, <2>1, MprotectType DEF WriteProtected
  <1>5. page' = IF HasRelro THEN mprotect(wp, RelroStart, RelroLen, {"R"}) ELSE wp
    BY <1>4 DEF LinkFinish
  <1>6. ASSUME NEW p \in PageNos
        PROVE  /\ page'[p].who = page[p].who
               /\ InRegion(si.file) /\ RegionOK /\ NoTruncation /\ p \notin PagesOf(si.base, si.size)
                  => page'[p] = page[p]
    <2>1. /\ wp[p].who = page[p].who
          /\ InRegion(si.file) /\ RegionOK /\ NoTruncation /\ p \notin PagesOf(si.base, si.size)
             => wp[p] = page[p]
      <3>1. CASE si.wrprotect_start # Sentinel /\ si.wrprotect_end # 0
        <4>1. wp = mprotect(page, si.wrprotect_start, TextRange, {"R", "X"})
          BY <1>4, <3>1 DEF WriteProtected
        <4>. QED
          BY <1>1, <3>1, <4>1, TextPages, MprotectInside
      <3>2. CASE ~(si.wrprotect_start # Sentinel /\ si.wrprotect_end # 0)
        BY <1>4, <3>2 DEF WriteProtected
      <3>. QED
        BY <3>1, <3>2
    <2>2. /\ page'[p].who = wp[p].who
          /\ InRegion(si.file) /\ RegionOK /\ p \notin PagesOf(si.base, si.size) => page'[p] = wp[p]
      <3>1. CASE HasRelro
        <4>1. page' = mprotect(wp, RelroStart, RelroLen, {"R"})
          BY <1>5, <3>1
        <4>. QED
          BY <1>1, <1>4, <3>1, <4>1, RelroPages, MprotectInside
      <3>2. CASE ~HasRelro
        BY <1>5, <3>2
      <3>. QED
        BY <3>1, <3>2
    <2>. QED
      BY <2>1, <2>2
  <1>7. InRegion(si.file) => RegionOK
    BY <1>1 DEF RegionInv
  <1>8. InRegion(si.file) => LibPages'
    <2>1. InRegion(si.file) => LibPages
      BY <1>1, <1>7 DEF RegionOK, Active
    <2>2. PagesOf(si'.base, si'.size) = PagesOf(si.base, si.size)
      BY <1>3
    <2>. QED
      BY <1>6, <2>1, <2>2 DEF LibPages
  <1>9. InRegion(si.file) => RelroInside' /\ (NoTruncation => WrProtectInside')
    BY <1>3, <1>7, SameRanges DEF RegionOK
  <1>10. RegionInv'
    BY <1>1, <1>2, <1>3, <1>7, <1>8, <1>9, RegionFrame
  <1>11. InRegion(si.file) /\ NoTruncation => ForeignKept
    <2>1. SUFFICES ASSUME InRegion(si.file), NoTruncation, NEW p \in PageNos, page[p].who = "app"
                   PROVE  page'[p] = page[p]
      BY DEF ForeignKept
    <2>2. p \notin PagesOf(si.base, si.size)
      BY <1>1, <1>7, <2>1 DEF RegionOK, Active, LibPages
    <2>. QED
      BY <1>6, <1>7, <2>1, <2>2
  <1>. QED
    BY <1>3, <1>10, <1>11

LEMMA UnloadStartRegion ==
  ASSUME TypeInv, RegionInv, UnloadStart
  PROVE  RegionInv' /\ (InRegion(si'.file) => ForeignKept)
  <1>1. SiOK /\ pc = "loaded" /\ pc' = "unload" /\ page \in PageMap /\ si' = si /\ si \in Soinfo
    BY DEF TypeInv, TypeOK, PageMap, Prots, UnloadStart, SiOK
  <1>2. InRegion(si.file) => RegionOK
    BY <1>1 DEF RegionInv
  <1>3. ASSUME InRegion(si.file) PROVE InsideOnly
    <2>1. SUFFICES ASSUME NEW p \in PageNos
                   PROVE  \/ page'[p] = page[p]
                          \/ p \in PagesOf(si.base, si.size) /\ page'[p].who = page[p].who
      BY DEF InsideOnly
    <2>2. CASE HasRelro
      <3>1. page' = mprotect(page, RelroStart, RelroLen, {"R", "W"})
        BY <2>2 DEF UnloadStart, Unprotected
      <3>. QED
        BY <1>1, <1>2, <1>3, <2>2, <3>1, RelroPages, MprotectInside
    <2>3. CASE ~HasRelro
      BY <2>3 DEF UnloadStart, Unprotected
    <2>. QED
      BY <2>2, <2>3
  <1>4. InRegion(si.file) => RelroInside' /\ (NoTruncation => WrProtectInside')
    BY <1>1, <1>2, SameRanges DEF RegionOK
  <1>. QED
    BY <1>1, <1>3, <1>4, WorkRegion DEF Active

LEMMA InitRegion ==
  Init => RegionInv
  <1>1. SUFFICES ASSUME Init PROVE RegionInv
    OBVIOUS
  <1>2. i = 0 /\ \A p \in PageNos : page[p].who # "lib"
    BY <1>1 DEF Init
  <1>. QED
    BY <1>2 DEF RegionInv, NoLibPages, SiOK

LEMMA NextRegion ==
  ASSUME TypeInv, RegionInv, TypeInv', [Next]_vars
  PROVE  RegionInv' /\ (NoTruncation /\ si' # <<>> /\ InRegion(si'.file) => ForeignKept)
  <1>0. page \in PageMap /\ (pc \in Active \cup {"unloaded"} => SiOK /\ si \in Soinfo)
        /\ (pc' \in Active \cup {"unloaded"} => si' \in Soinfo)
    BY DEF TypeInv, TypeOK, SiOK, PageMap, Prots, Active
  <1>1. CASE page' = page /\ si' = si /\ pc \in Active /\ pc' \in Active
    <2>1. InsideOnly
      BY <1>1 DEF InsideOnly
    <2>2. InRegion(si.file) => RelroInside' /\ (NoTruncation => WrProtectInside')
      BY <1>0, <1>1, SameRanges DEF RegionInv, RegionOK
    <2>. QED
      BY <1>0, <1>1, <2>1, <2>2, WorkRegion
  <1>2. CASE UNCHANGED <<page, si, pc, i>>
    <2>1. RegionInv'
      BY <1>2 DEF RegionInv, RegionOK, Aligned, LibPages, NoLibPages, RelroInside, HasRelro, WrProtectInside, SiOK
    <2>2. ForeignKept
      BY <1>2 DEF ForeignKept
    <2>. QED
      BY <2>1, <2>2
  <1>3. CASE UNCHANGED vars \/ Rest
    BY <1>2, <1>3 DEF vars, Rest
  <1>4. CASE AppMap
    <2>1. PICK q \in PageNos : /\ page[q].who = "free"
                              /\ page' = [page EXCEPT ![q] = [who |-> "app", prot |-> {"R", "W"}]]
      BY <1>4 DEF AppMap
    <2>2. ASSUME NEW p \in PageNos
          PROVE  /\ page'[p].who = "lib" <=> page[p].who = "lib"
                 /\ page[p].who = "app" => page'[p] = page[p]
      BY <1>0, <2>1 DEF PageMap
    <2>3. si' = si /\ pc' = pc /\ i' = i
      BY <1>4 DEF AppMap
    <2>4. (LibPages => LibPages') /\ (NoLibPages => NoLibPages') /\ ForeignKept
      BY <2>2, <2>3 DEF LibPages, NoLibPages, ForeignKept
    <2>5. (SiOK' => SiOK) /\ (RelroInside => RelroInside') /\ (WrProtectInside => WrProtectInside')
          /\ (Aligned => Aligned')
      BY <2>3 DEF SiOK, RelroInside, HasRelro, WrProtectInside, Aligned
    <2>6. RegionInv'
      BY <2>3, <2>4, <2>5 DEF RegionInv, RegionOK
    <2>. QED
      BY <2>4, <2>6
  <1>5. CASE LoadFails
    <2>1. si' = si /\ page' = page /\ pc = "idle" /\ si = <<>> /\ pc' = "rejected"
      BY <1>5 DEF LoadFails, TypeInv
    <2>2. NoLibPages /\ NoLibPages'
      BY <2>1 DEF RegionInv, NoLibPages
    <2>3. i' = i /\ (pc = "idle" => i = 0)
      BY <1>5 DEF LoadFails, TypeInv
    <2>. QED
      BY <2>1, <2>2, <2>3 DEF RegionInv, SiOK, ForeignKept
  <1>6. CASE reserve_mem_region
    <2>1. si'.file.prelink # 0 /\ pc' = "segments"
      BY <1>6 DEF reserve_mem_region, Reserved
    <2>. QED
      BY <2>1 DEF InRegion, RegionInv
  <1>7. CASE alloc_mem_region
    BY <1>7, AllocRegion
  <1>8. CASE LoadSegment
    BY <1>8, LoadSegmentRegion
  <1>9. CASE LoadRelro
    BY <1>9, LoadRelroRegion
  <1>10. CASE pc \in Active /\ (LoadingFailed \/ LinkFailed({}) \/ LinkFailed({"LINKED"}))
    <2>1. /\ page' = munmap(si.base, si.size) /\ pc' = "rejected"
          /\ \E fl \in SUBSET {"LINKED", "ERROR"} : si' = [si EXCEPT !.flags = fl]
      BY <1>10 DEF LoadingFailed, LinkFailed
    <2>2. si' \in Soinfo
      BY <1>0, <1>10, <2>1 DEF Soinfo
    <2>. QED
      BY <1>0, <1>10, <2>1, <2>2, UnmapRegion
  <1>11. CASE Unload
    BY <1>0, <1>11, UnmapRegion DEF Unload, Active
  <1>12. CASE SegmentFails \/ RelroFails \/ TooLong \/ MissingTables \/ RelocFails \/ RelroProtectFails
    BY <1>10, <1>12 DEF SegmentFails, RelroFails, TooLong, MissingTables, RelocFails, RelroProtectFails,
       AtPhdr, SegmentsDone, AtReloc, RelrDone, Active
  <1>13. CASE LinkFinish
    BY <1>13, LinkFinishRegion
  <1>14. CASE UnloadStart
    BY <1>14, UnloadStartRegion
  <1>15. CASE LoadOther \/ Loaded \/ Unsupported \/ NeededDone \/ reloc_none \/ RelocDone \/ relocate_relr
              \/ StoreFaults \/ ClearFaults
    BY <1>1, <1>15
       DEF LoadOther, Loaded, Unsupported, NeededDone, reloc_none, RelocDone, relocate_relr, AtRelr, AtPhdr,
           SegmentsDone, AtReloc, StoreFaults, ClearFaults, Crash, AtDynamic, AtNeeded, AtClear, Active
  <1>16. CASE ParseDynamic \/ BindNeeded \/ reloc_library \/ ClearNeeded
    <2>1. page' = page /\ si' = si
      BY <1>16 DEF ParseDynamic, BindNeeded, reloc_library, ClearNeeded, Store
    <2>. QED
      BY <1>1, <1>16, <2>1
         DEF ParseDynamic, BindNeeded, reloc_library, ClearNeeded, AtDynamic, AtNeeded, AtReloc, AtClear, Active
  <1>. QED
    BY <1>3, <1>4, <1>5, <1>6, <1>7, <1>8, <1>9, <1>11, <1>12, <1>13, <1>14, <1>15, <1>16 DEF Next

(* The region is given back on every path, whatever the file, the failing  *)
(* step and the other threads: after a refusal or an unload no page of the *)
(* library is mapped (the munmap of apkenv_load_segments, of               *)
(* apkenv_init_library and of apkenv_unload_library).                      *)
THEOREM RegionGivenBack == Spec => []NoPageKept
  <1>1. TypeInv /\ RegionInv => NoPageKept
    <2>1. SUFFICES ASSUME TypeInv, RegionInv, pc \in {"rejected", "unloaded"}, si # <<>>, InRegion(si.file)
                   PROVE  \A p \in PageNos : page[p].who # "lib"
      BY DEF NoPageKept
    <2>2. SiOK
      BY <2>1 DEF TypeInv
    <2>. QED
      BY <2>1, <2>2 DEF RegionInv, RegionOK, NoLibPages
  <1>. QED
    BY <1>1, InitType, NextType, InitRegion, NextRegion, PTL DEF Spec

(* MAP_FIXED, mprotect and munmap never touch a page of the rest of the    *)
(* application, for every file whose segments fit their region and every   *)
(* interleaving with threads that map memory, as long as addresses fit in  *)
(* the 32 bits wrprotect_start and wrprotect_end keep.                     *)
THEOREM ForeignPagesKept ==
  ASSUME NoTruncation
  PROVE  Spec => NoForeignClobber
  <1>1. TypeInv /\ RegionInv /\ TypeInv' /\ [Next]_vars
        => [(si' # <<>> /\ InRegion(si'.file)) =>
              \A p \in PageNos : page[p].who = "app" => page'[p] = page[p]]_vars
    BY NextRegion DEF ForeignKept
  <1>. QED
    BY <1>1, InitType, NextType, InitRegion, NextRegion, PTL DEF Spec, NoForeignClobber

-----------------------------------------------------------------------------
(* Protection, for a file laid out the usual way.                          *)

(* The PT_LOAD segments that are mapped, and the pages from the start of   *)
(* one to its end.                                                         *)
MappedSegs == {k \in Loads(si.file) : pc = "segments" => k < i}
Start(k) == pbase(si.file.phdr[k])
End(k) == Start(k) + SegLen(si.file.phdr[k])

(* Until FLAG_LINKED is set every mapped segment is writable, text too;    *)
(* afterwards TextProtected and DataProtected hold, and when the unload    *)
(* begins the data is writable again.                                      *)
Unlinked ==
  \/ pc \in {"segments", "dynamic", "needed", "reloc", "relr"}
  \/ pc \in {"loaded", "unload"} /\ "LINKED" \notin si.flags
WritableSeg(k) == \A p \in SegPagesOf(k) : "W" \in page[p].prot
AllWritable == Unlinked => \A k \in MappedSegs : WritableSeg(k)
DataWritable == pc = "unload" => \A k \in Loads(si.file) : Has(k, "W") => WritableSeg(k)

(* The range to protect spans the read-only segments, and ends with one.   *)
RangeCovers ==
  \A k \in MappedSegs : ~Has(k, "W") => si.wrprotect_start <= Start(k) /\ End(k) <= si.wrprotect_end
RangeEnds ==
  \/ si.wrprotect_start = Sentinel /\ si.wrprotect_end = 0
  \/ \E k \in MappedSegs : ~Has(k, "W") /\ si.wrprotect_end = End(k)

NotYetLinked == pc \in {"segments", "dynamic", "needed", "reloc", "relr"} => si.flags = {}
ConvOK ==
  NotYetLinked /\ AllWritable /\ DataWritable /\ RangeCovers /\ RangeEnds /\ TextProtected /\ DataProtected
ConvInv == SiOK /\ Conventional(si.file) /\ pc \in Active \ {"crashed"} => ConvOK

LEMMA ConvFacts ==
  ASSUME SiOK, Conventional(si.file)
  PROVE  /\ InRegion(si.file) /\ si.file \in Files /\ si.base \in Nat
         /\ Loads(si.file) \subseteq Nat \ {0}
         /\ \A k \in Loads(si.file) :
              k \in DOMAIN si.file.phdr /\ si.file.phdr[k] \in Phdr /\ si.file.phdr[k].type = "LOAD"
  <1>1. si.file \in Files /\ si.base \in Nat /\ InRegion(si.file)
    BY DEF SiOK, Soinfo, Conventional
  <1>2. /\ DOMAIN si.file.phdr = 1 .. Len(si.file.phdr) /\ Len(si.file.phdr) \in Nat
        /\ \A k \in DOMAIN si.file.phdr : si.file.phdr[k] \in Phdr
    BY <1>1, FileFacts
  <1>. QED
    BY <1>1, <1>2 DEF Loads

(* The pages of a segment are those from its start to its end.             *)
LEMMA SegSpan ==
  ASSUME SiOK, InRegion(si.file), RegionOK, NEW k \in Loads(si.file)
  PROVE  /\ Start(k) \in Nat /\ End(k) \in Nat /\ End(k) <= si.base + si.size
         /\ PageOf(Start(k)) \in Nat /\ PageOf(End(k)) \in Nat /\ PageOf(Up(End(k))) = PageOf(End(k))
         /\ \A p : p \in SegPagesOf(k) <=> p \in PageNos /\ PageOf(Start(k)) <= p /\ p < PageOf(End(k))
         /\ SegPagesOf(k) \subseteq PagesOf(si.base, si.size)
  <1>1. PICK h : h = si.file.phdr[k]
    OBVIOUS
  <1>2. Aligned
    BY DEF RegionOK
  <1>3. /\ h \in Phdr /\ si.base \in Nat /\ Up(si.base + SegEnd(h)) <= si.base + si.size
    BY <1>1, <1>2, SegInside
  <1>4. /\ pbase(h) \in Nat /\ SegLen(h) \in Int /\ pbase(h) + SegLen(h) = Up(si.base + SegEnd(h))
        /\ si.base + SegEnd(h) \in Nat /\ Up(si.base + SegEnd(h)) \in Nat
    BY <1>3, SegAddrs
  <1>5. Start(k) = pbase(h) /\ End(k) = Up(si.base + SegEnd(h)) /\ Up(End(k)) = End(k)
    BY <1>1, <1>4, UpFacts DEF Start, End
  <1>6. PageOf(Start(k)) \in Nat /\ PageOf(End(k)) \in Nat
    BY <1>4, <1>5, DivFacts
  <1>7. SegPagesOf(k) = PagesOf(pbase(h), SegLen(h))
    BY <1>1 DEF SegPagesOf
  <1>8. \A p : p \in SegPagesOf(k) <=> p \in PageNos /\ PageOf(Start(k)) <= p /\ p < PageOf(End(k))
    BY <1>4, <1>5, <1>7 DEF PagesOf, Within
  <1>9. SegPagesOf(k) \subseteq PagesOf(si.base, si.size)
    BY <1>1, <1>2, <1>7, SegPagesInside
  <1>. QED
    BY <1>3, <1>4, <1>5, <1>6, <1>8, <1>9

(* Segments of a conventional file follow each other in memory, and no     *)
(* read-only one follows a writable one.                                   *)
LEMMA SegsApart ==
  ASSUME SiOK, Conventional(si.file), RegionOK, NEW j \in Loads(si.file), NEW k \in Loads(si.file), j < k
  PROVE  /\ End(j) <= Start(k) /\ PageOf(End(j)) <= PageOf(Start(k))
         /\ Has(j, "W") => Has(k, "W")
         /\ SegPagesOf(j) \cap SegPagesOf(k) = {}
  <1>1. InRegion(si.file)
    BY DEF Conventional
  <1>2. PICK g : g = si.file.phdr[j]
    OBVIOUS
  <1>3. PICK h : h = si.file.phdr[k]
    OBVIOUS
  <1>4. Aligned
    BY DEF RegionOK
  <1>5. g \in Phdr /\ h \in Phdr /\ si.base \in Nat
    BY <1>1, <1>2, <1>3, <1>4, SegInside
  <1>6. Up(SegEnd(g)) <= Down(h.vaddr) /\ ("W" \in g.flags => "W" \in h.flags)
    BY <1>2, <1>3 DEF Conventional
  <1>7. SegEnd(g) \in Nat /\ h.vaddr \in Nat
    BY <1>5 DEF SegEnd, Phdr
  <1>8. Up(si.base + SegEnd(g)) = si.base + Up(SegEnd(g)) /\ Up(SegEnd(g)) \in Nat
    <2>1. PICK b \in Nat : si.base = PAGE_SIZE * b
      BY <1>4, SizeAssumption DEF Aligned, PageNos
    <2>. QED
      BY <1>7, <2>1, UpShift, UpFacts
  <1>9. End(j) = Up(si.base + SegEnd(g)) /\ Start(k) = si.base + Down(h.vaddr) /\ Down(h.vaddr) \in Nat
    BY <1>2, <1>3, <1>5, SegAddrs DEF Start, End
  <1>10. End(j) <= Start(k)
    BY <1>5, <1>6, <1>8, <1>9
  <1>11. PageOf(End(j)) <= PageOf(Start(k))
    BY <1>1, <1>10, SegSpan, PageOfMonotone
  <1>12. ASSUME NEW p \in SegPagesOf(j), p \in SegPagesOf(k) PROVE FALSE
    <2>1. p \in PageNos /\ p < PageOf(End(j)) /\ PageOf(Start(k)) <= p
      BY <1>1, <1>12, SegSpan
    <2>2. p \in Int /\ PageOf(End(j)) \in Int /\ PageOf(Start(k)) \in Int
      BY <1>1, <2>1, SegSpan DEF PageNos
    <2>. QED
      BY <1>11, <2>1, <2>2
  <1>13. Has(j, "W") => Has(k, "W")
    BY <1>2, <1>3, <1>6 DEF Has
  <1>. QED
    BY <1>10, <1>11, <1>12, <1>13

LEMMA SameSegs ==
  ASSUME si'.file = si.file, si'.base = si.base, NEW k
  PROVE  /\ SegPagesOf(k)' = SegPagesOf(k) /\ Start(k)' = Start(k) /\ End(k)' = End(k)
         /\ Has(k, "W")' = Has(k, "W")
  BY DEF SegPagesOf, Start, End, Has, pbase, SegLen, SegEnd

(* A step that leaves the pages of the region, the range and the flags     *)
(* alone.                                                                  *)
LEMMA ConvSame ==
  ASSUME SiOK, Conventional(si.file), RegionOK, ConvOK,
         si'.file = si.file, si'.base = si.base, si'.flags = si.flags,
         si'.wrprotect_start = si.wrprotect_start, si'.wrprotect_end = si.wrprotect_end,
         MappedSegs' = MappedSegs,
         \A p \in PagesOf(si.base, si.size) : page'[p] = page[p],
         pc' # pc => pc \in {"segments", "dynamic", "needed", "reloc", "relr"},
         pc' # pc => pc' \in {"segments", "dynamic", "needed", "reloc", "relr", "loaded"},
         pc' = "loaded" \/ pc' = "unload" => si' = si
  PROVE  ConvOK'
  <1>1. InRegion(si.file)
    BY DEF Conventional
  <1>2. ASSUME NEW k \in Loads(si.file)
        PROVE  /\ SegPagesOf(k)' = SegPagesOf(k) /\ \A p \in SegPagesOf(k) : page'[p] = page[p]
               /\ WritableSeg(k)' <=> WritableSeg(k)
               /\ Start(k)' = Start(k) /\ End(k)' = End(k) /\ (Has(k, "W")' <=> Has(k, "W"))
    <2>1. SegPagesOf(k)' = SegPagesOf(k) /\ Start(k)' = Start(k) /\ End(k)' = End(k) /\ (Has(k, "W")' <=> Has(k, "W"))
      BY SameSegs
    <2>2. \A p \in SegPagesOf(k) : page'[p] = page[p]
      BY <1>1, SegSpan
    <2>. QED
      BY <2>1, <2>2 DEF WritableSeg
  <1>3. MappedSegs \subseteq Loads(si.file)
    BY DEF MappedSegs
  <1>4. NotYetLinked'
    BY DEF ConvOK, NotYetLinked
  <1>5. AllWritable'
    BY <1>2, <1>3 DEF ConvOK, AllWritable, Unlinked, NotYetLinked
  <1>6. DataWritable'
    BY <1>2 DEF ConvOK, DataWritable
  <1>7. RangeCovers' /\ RangeEnds'
    BY <1>2, <1>3 DEF ConvOK, RangeCovers, RangeEnds
  <1>8. TextProtected' /\ DataProtected'
    <2>1. CASE pc' = "loaded" /\ pc = "loaded"
      <3>1. si' = si
        BY <2>1
      <3>2. (RelroStart)' = RelroStart /\ (RelroLen)' = RelroLen /\ (HasRelro' <=> HasRelro)
        BY <3>1 DEF RelroStart, RelroLen, HasRelro
      <3>. QED
        BY <1>2, <2>1, <3>1, <3>2 DEF ConvOK, TextProtected, DataProtected
    <2>2. CASE pc' = "loaded" /\ pc # "loaded"
      BY <2>2 DEF ConvOK, NotYetLinked, TextProtected, DataProtected
    <2>3. CASE pc' # "loaded"
      BY <2>3 DEF TextProtected, DataProtected
    <2>. QED
      BY <2>1, <2>2, <2>3
  <1>. QED
    BY <1>4, <1>5, <1>6, <1>7, <1>8 DEF ConvOK

(* What mapping a segment does to a page: the pages of the segment become  *)
(* writable, the others are left alone.                                    *)
LEMMA LoadSegmentPages ==
  ASSUME TypeInv, LoadSegment, SiOK, InRegion(si.file), RegionOK, LibPages, NEW p \in PageNos
  PROVE  /\ p \in SegPagesOf(i) => "W" \in page'[p].prot
         /\ p \notin SegPagesOf(i) => page'[p] = page[p]
  <1>1. AtPhdr("LOAD") /\ pc = "segments" /\ i <= Len(si.file.phdr)
    BY DEF LoadSegment, AtPhdr
  <1>2. PICK h \in Phdr : h = phdr
    BY <1>1, AtPhdrFacts
  <1>3. page \in PageMap /\ h = si.file.phdr[i] /\ i \in Loads(si.file)
    BY <1>1, <1>2, AtPhdrFacts DEF AtPhdr, Loads, phdr, TypeInv, TypeOK, PageMap, Prots
  <1>4. /\ si.base \in Nat /\ si.size \in Nat /\ si.base <= pbase(h)
        /\ pbase(h) + len(h) <= si.base + SegEnd(h)
    BY <1>3, SegInside DEF RegionOK
  <1>5. /\ pbase(h) \in Nat /\ len(h) \in Nat /\ si.base + SegEnd(h) \in Nat
        /\ SegLen(h) \in Int /\ pbase(h) + SegLen(h) = Up(si.base + SegEnd(h))
        /\ Up(si.base + SegEnd(h)) \in Nat /\ Extra(h) \in Int
        /\ Up(pbase(h) + len(h)) + Extra(h) = si.base + SegEnd(h)
    BY <1>4, SegAddrs
  <1>6. PICK m \in Nat : m = Up(pbase(h) + len(h)) /\ m = Up(m)
    BY <1>5, UpFacts
  <1>7. PICK e \in Nat : e = Up(si.base + SegEnd(h)) /\ e = Up(e) /\ PageOf(e) \in Nat
    BY <1>5, UpFacts
  <1>8. PageOf(pbase(h)) \in Nat /\ PageOf(m) \in Nat /\ PageOf(pbase(h)) <= PageOf(m) /\ PageOf(m) <= PageOf(e)
    <2>1. PageOf(pbase(h)) <= PageOf(Up(pbase(h) + len(h)))
      BY <1>5, UpMonotone
    <2>2. PageOf(Up(pbase(h) + len(h))) <= PageOf(Up(si.base + SegEnd(h)))
      BY <1>4, <1>5, UpMonotone
    <2>. QED
      BY <1>5, <1>6, <1>7, <2>1, <2>2, DivFacts
  <1>9. Extra(h) <= 0 => PageOf(e) <= PageOf(m)
    <2>1. SUFFICES ASSUME Extra(h) <= 0 PROVE PageOf(e) <= PageOf(m)
      OBVIOUS
    <2>2. si.base + SegEnd(h) <= m
      BY <1>5, <1>6, <2>1
    <2>. QED
      BY <1>5, <1>6, <1>7, <2>2, UpMonotone
  <1>10. /\ p \in PagesOf(pbase(h), len(h)) <=> PageOf(pbase(h)) <= p /\ p < PageOf(m)
         /\ p \in PagesOf(m, Extra(h)) <=> PageOf(m) <= p /\ p < PageOf(e)
         /\ p \in SegPagesOf(i) <=> PageOf(pbase(h)) <= p /\ p < PageOf(e)
         /\ SegPagesOf(i) = PagesOf(pbase(h), SegLen(h))
    <2>1. SegPagesOf(i) = PagesOf(pbase(h), SegLen(h))
      BY <1>3 DEF SegPagesOf
    <2>. QED
      BY <1>5, <1>6, <1>7, <2>1 DEF PagesOf, Within
  <1>11. p \in Int
    BY DEF PageNos
  <1>12. PFLAGS_TO_PROT(h) = h.flags /\ h.flags \in Prots /\ h.flags \cup {"W"} \in Prots
    BY DEF PFLAGS_TO_PROT, Phdr, Prots
  <1>13. PICK filed \in PageMap : filed = Mapped(page, pbase(h), len(h), h.flags)
    BY <1>3, <1>12, MappedType
  <1>14. PICK seg \in PageMap : seg = SegMapped(h)
    BY <1>12, <1>13, MappedType DEF SegMapped
  <1>15. seg[p] = IF p \in SegPagesOf(i) THEN [who |-> "lib", prot |-> h.flags] ELSE page[p]
    <2>1. filed[p] = IF p \in PagesOf(pbase(h), len(h)) THEN [who |-> "lib", prot |-> h.flags] ELSE page[p]
      BY <1>3, <1>13, MappedInside
    <2>2. CASE Extra(h) > 0
      <3>1. seg = Mapped(filed, m, Extra(h), h.flags)
        BY <1>6, <1>12, <1>13, <1>14, <2>2 DEF SegMapped
      <3>2. seg[p] = IF p \in PagesOf(m, Extra(h)) THEN [who |-> "lib", prot |-> h.flags] ELSE filed[p]
        BY <3>1, MappedInside
      <3>3. p \in SegPagesOf(i) <=> p \in PagesOf(pbase(h), len(h)) \/ p \in PagesOf(m, Extra(h))
        BY <1>7, <1>8, <1>10, <1>11
      <3>. QED
        BY <2>1, <3>2, <3>3
    <2>3. CASE ~(Extra(h) > 0)
      <3>1. seg = filed
        BY <1>12, <1>13, <1>14, <2>3 DEF SegMapped
      <3>2. p \in SegPagesOf(i) <=> p \in PagesOf(pbase(h), len(h))
        BY <1>5, <1>7, <1>8, <1>9, <1>10, <1>11, <2>3
      <3>. QED
        BY <2>1, <3>1, <3>2
    <2>. QED
      BY <2>2, <2>3
  <1>16. page' = IF "W" \in h.flags THEN seg ELSE mprotect(seg, pbase(h), SegLen(h), h.flags \cup {"W"})
    BY <1>2, <1>12, <1>14 DEF LoadSegment
  <1>17. CASE "W" \in h.flags
    BY <1>15, <1>16, <1>17
  <1>18. CASE "W" \notin h.flags
    <2>1. page' = mprotect(seg, pbase(h), SegLen(h), h.flags \cup {"W"})
      BY <1>16, <1>18
    <2>2. /\ p \notin SegPagesOf(i) => page'[p] = seg[p]
          /\ p \in SegPagesOf(i) /\ seg[p].who # "free" => page'[p].prot = h.flags \cup {"W"}
      BY <1>10, <2>1, MprotectInside
    <2>. QED
      BY <1>15, <2>2
  <1>. QED
    BY <1>17, <1>18

LEMMA LoadSegmentConv ==
  ASSUME TypeInv, LoadSegment, SiOK, Conventional(si.file), RegionOK, ConvOK, NoTruncation
  PROVE  ConvOK'
  <1>0. PICK n \in Nat : n = i
    BY DEF TypeInv, TypeOK
  <1>1. AtPhdr("LOAD") /\ pc = "segments" /\ pc' = "segments" /\ i <= Len(si.file.phdr) /\ i' = i + 1 /\ i \in Nat
    BY DEF LoadSegment, AtPhdr, TypeInv, TypeOK
  <1>2. PICK h \in Phdr : h = phdr
    BY <1>1, AtPhdrFacts
  <1>3. si \in Soinfo /\ h = si.file.phdr[n] /\ n \in Loads(si.file)
    BY <1>0, <1>1, <1>2, AtPhdrFacts DEF SiOK, AtPhdr, Loads, phdr
  <1>4. InRegion(si.file) /\ LibPages
    BY <1>1 DEF Conventional, RegionOK, Active
  <1>5. si' = WrProtect(h)
    BY <1>2 DEF LoadSegment
  <1>6. /\ si'.file = si.file /\ si'.base = si.base /\ si'.flags = si.flags
        /\ si'.wrprotect_start = IF "W" \notin h.flags /\ pbase(h) < si.wrprotect_start
                                 THEN Narrow(pbase(h)) ELSE si.wrprotect_start
        /\ si'.wrprotect_end = IF "W" \notin h.flags /\ pbase(h) + SegLen(h) > si.wrprotect_end
                               THEN Narrow(pbase(h) + SegLen(h)) ELSE si.wrprotect_end
    BY <1>3, <1>5, WrProtectFacts
  <1>7. Loads(si.file) \subseteq Nat
    BY ConvFacts
  <1>8. MappedSegs' = MappedSegs \cup {n}
    BY <1>0, <1>1, <1>3, <1>6, <1>7 DEF MappedSegs
  <1>9. \A k \in MappedSegs : k \in Loads(si.file) /\ k < n
    BY <1>0, <1>1 DEF MappedSegs
  <1>10. \A k : /\ SegPagesOf(k)' = SegPagesOf(k) /\ Start(k)' = Start(k) /\ End(k)' = End(k)
                /\ Has(k, "W")' = Has(k, "W")
    BY <1>6, SameSegs
  <1>11. NotYetLinked' /\ DataWritable' /\ TextProtected' /\ DataProtected'
    BY <1>1, <1>6 DEF ConvOK, NotYetLinked, DataWritable, TextProtected, DataProtected
  <1>12. AllWritable'
    <2>1. WritableSeg(n)'
      <3>1. SUFFICES ASSUME NEW p \in SegPagesOf(n) PROVE "W" \in page'[p].prot
        BY <1>10 DEF WritableSeg
      <3>2. p \in PageNos
        BY <1>3, <1>4, SegSpan
      <3>. QED
        BY <1>0, <1>4, <3>2, LoadSegmentPages
    <2>2. ASSUME NEW k \in MappedSegs PROVE WritableSeg(k)'
      <3>1. WritableSeg(k)
        BY <1>1 DEF ConvOK, AllWritable, Unlinked
      <3>2. SegPagesOf(k) \cap SegPagesOf(n) = {}
        BY <1>3, <1>9, SegsApart
      <3>3. SUFFICES ASSUME NEW p \in SegPagesOf(k) PROVE "W" \in page'[p].prot
        BY <1>10 DEF WritableSeg
      <3>4. p \in PageNos /\ p \notin SegPagesOf(n)
        BY <1>4, <1>9, <3>2, SegSpan
      <3>5. page'[p] = page[p]
        BY <1>0, <1>4, <3>4, LoadSegmentPages
      <3>. QED
        BY <3>1, <3>5 DEF WritableSeg
    <2>. QED
      BY <1>8, <2>1, <2>2 DEF AllWritable
  <1>13. /\ Start(n) \in Nat /\ End(n) \in Nat /\ Start(n) < End(n) /\ End(n) <= NPages * PAGE_SIZE
         /\ Start(n) = pbase(h) /\ End(n) = pbase(h) + SegLen(h)
    <2>1. Start(n) = pbase(h) /\ End(n) = pbase(h) + SegLen(h)
      BY <1>3 DEF Start, End
    <2>2. Start(n) \in Nat /\ End(n) \in Nat /\ End(n) <= si.base + si.size
      BY <1>3, <1>4, SegSpan
    <2>3. si.base + si.size <= NPages * PAGE_SIZE /\ si.base \in Nat /\ si.size \in Int /\ NPages * PAGE_SIZE \in Nat
      BY <1>3, SizeAssumption DEF RegionOK, Soinfo
    <2>4. SegLen(h) > 0 /\ SegLen(h) \in Int
      BY <1>2, <2>3, SegAddrs DEF LoadSegment, Fits
    <2>. QED
      BY <2>1, <2>2, <2>3, <2>4
  <1>14. Narrow(Start(n)) = Start(n) /\ Narrow(End(n)) = End(n)
    <2>1. NPages * PAGE_SIZE \in Nat
      BY SizeAssumption
    <2>. QED
      BY <1>13, <2>1, NarrowIs
  <1>15. /\ si'.wrprotect_start = IF ~Has(n, "W") /\ Start(n) < si.wrprotect_start
                                  THEN Start(n) ELSE si.wrprotect_start
         /\ si'.wrprotect_end = IF ~Has(n, "W") /\ End(n) > si.wrprotect_end
                                THEN End(n) ELSE si.wrprotect_end
    BY <1>3, <1>6, <1>13, <1>14 DEF Has
  <1>16. si.wrprotect_start \in Nat /\ si.wrprotect_end \in Nat
    BY <1>3 DEF Soinfo
  <1>17. RangeCovers'
    <2>1. SUFFICES ASSUME NEW k \in MappedSegs \cup {n}, ~Has(k, "W")
                   PROVE  si'.wrprotect_start <= Start(k) /\ End(k) <= si'.wrprotect_end
      BY <1>8, <1>10 DEF RangeCovers
    <2>2. CASE k = n
      BY <1>13, <1>15, <1>16, <2>1, <2>2
    <2>3. CASE k \in MappedSegs
      <3>1. si.wrprotect_start <= Start(k) /\ End(k) <= si.wrprotect_end
        BY <2>1, <2>3 DEF ConvOK, RangeCovers
      <3>2. Start(k) \in Nat /\ End(k) \in Nat
        BY <1>4, <1>9, <2>3, SegSpan
      <3>. QED
        BY <1>13, <1>15, <1>16, <3>1, <3>2
    <2>. QED
      BY <2>2, <2>3
  <1>18. RangeEnds'
    <2>1. CASE Has(n, "W")
      BY <1>8, <1>10, <1>15, <2>1 DEF ConvOK, RangeEnds
    <2>2. CASE ~Has(n, "W") /\ End(n) > si.wrprotect_end
      BY <1>8, <1>10, <1>15, <2>2 DEF RangeEnds
    <2>3. CASE ~(End(n) > si.wrprotect_end)
      <3>1. PICK k \in MappedSegs : ~Has(k, "W") /\ si.wrprotect_end = End(k)
        BY <1>13, <1>16, <2>3 DEF ConvOK, RangeEnds
      <3>2. si'.wrprotect_end = End(k)
        BY <1>15, <2>3, <3>1
      <3>. QED
        BY <1>8, <1>10, <3>1, <3>2 DEF RangeEnds
    <2>. QED
      BY <2>1, <2>2, <2>3
  <1>. QED
    BY <1>11, <1>12, <1>17, <1>18 DEF ConvOK

(* The end of apkenv_link_image: a page of a read-only segment loses its   *)
(* write permission, one of a writable segment only to RELRO.              *)
LEMMA LinkFinishConv ==
  ASSUME TypeInv, LinkFinish, SiOK, Conventional(si.file), RegionOK, ConvOK, NoTruncation
  PROVE  ConvOK'
  <1>1. pc = "relr" /\ pc' = "loaded" /\ page \in PageMap /\ si \in Soinfo
    BY DEF TypeInv, TypeOK, PageMap, Prots, LinkFinish, RelrDone, SiOK
  <1>2. si' = [si EXCEPT !.flags = {"LINKED"}]
    BY DEF LinkFinish
  <1>3. /\ si'.file = si.file /\ si'.base = si.base /\ si'.flags = {"LINKED"}
        /\ si'.relro_start = si.relro_start /\ si'.relro_len = si.relro_len
        /\ si'.wrprotect_start = si.wrprotect_start /\ si'.wrprotect_end = si.wrprotect_end
    BY <1>1, <1>2 DEF Soinfo
  <1>4. InRegion(si.file) /\ LibPages /\ WrProtectInside
    BY <1>1 DEF Conventional, RegionOK, Active
  <1>5. MappedSegs = Loads(si.file) /\ MappedSegs' = Loads(si.file)
    BY <1>1, <1>3 DEF MappedSegs
  <1>6. \A k : /\ SegPagesOf(k)' = SegPagesOf(k) /\ Start(k)' = Start(k) /\ End(k)' = End(k)
               /\ Has(k, "W")' = Has(k, "W")
    BY <1>3, SameSegs
  <1>7. (RelroStart)' = RelroStart /\ (RelroLen)' = RelroLen /\ (HasRelro' <=> HasRelro)
    BY <1>3 DEF RelroStart, RelroLen, HasRelro
  <1>8. PICK ws \in Nat, we \in Nat : ws = si.wrprotect_start /\ we = si.wrprotect_end
    BY <1>1 DEF Soinfo
  <1>9. we <= Sentinel /\ Sentinel \in Nat
    <2>1. /\ si.base + si.size <= NPages * PAGE_SIZE /\ si.base \in Nat /\ si.size \in Int
          /\ NPages * PAGE_SIZE \in Nat /\ Sentinel \in Nat /\ NPages * PAGE_SIZE <= Sentinel
      BY <1>1, SizeAssumption DEF RegionOK, Soinfo, NoTruncation
    <2>. QED
      BY <1>4, <1>8, <2>1 DEF WrProtectInside
  <1>10. PICK wp \in PageMap : wp = WriteProtected
    <2>1. {"R", "X"} \in Prots
      BY DEF Prots
    <2>. QED
      BY <1>1, <2>1, MprotectType DEF WriteProtected
  <1>11. page' = IF HasRelro THEN mprotect(wp, RelroStart, RelroLen, {"R"}) ELSE wp
    BY <1>10 DEF LinkFinish
  <1>12. ASSUME NEW k \in Loads(si.file), NEW p \in SegPagesOf(k)
         PROVE  /\ p \in PageNos /\ page[p].who = "lib" /\ wp[p].who = "lib" /\ "W" \in page[p].prot
                /\ p \in Int /\ PageOf(Start(k)) <= p /\ p < PageOf(End(k))
                /\ PageOf(Start(k)) \in Nat /\ PageOf(End(k)) \in Nat
    <2>1. /\ p \in PageNos /\ p \in PagesOf(si.base, si.size)
          /\ PageOf(Start(k)) <= p /\ p < PageOf(End(k))
          /\ PageOf(Start(k)) \in Nat /\ PageOf(End(k)) \in Nat
      BY <1>4, SegSpan
    <2>2. page[p].who = "lib"
      BY <1>4, <2>1 DEF LibPages
    <2>3. wp[p].who = page[p].who
      BY <1>1, <1>10, <2>1, MprotectInside DEF WriteProtected
    <2>4. "W" \in page[p].prot
      BY <1>1, <1>5 DEF ConvOK, AllWritable, Unlinked, WritableSeg
    <2>5. p \in Int
      BY <2>1 DEF PageNos
    <2>. QED
      BY <2>1, <2>2, <2>3, <2>4, <2>5
  <1>13. ASSUME NEW k \in Loads(si.file), NEW p \in SegPagesOf(k), ~Has(k, "W")
         PROVE  "W" \notin wp[p].prot
    <2>1. ws <= Start(k) /\ End(k) <= we
      BY <1>5, <1>8, <1>13 DEF ConvOK, RangeCovers
    <2>2. Start(k) \in Nat /\ End(k) \in Nat
      BY <1>4, SegSpan
    <2>3. Start(k) < End(k)
      <3>1. SUFFICES ASSUME End(k) <= Start(k) PROVE FALSE
        BY <2>2
      <3>2. PageOf(End(k)) <= PageOf(Start(k))
        BY <2>2, <3>1, PageOfMonotone
      <3>. QED
        BY <1>12, <3>2
    <2>4. ws # Sentinel /\ we # 0 /\ TextRange \in Int /\ ws + TextRange = we
      BY <1>8, <1>9, <2>1, <2>2, <2>3 DEF TextRange
    <2>5. PageOf(ws) <= PageOf(Start(k)) /\ PageOf(End(k)) <= PageOf(Up(we))
          /\ PageOf(ws) \in Nat /\ PageOf(Up(we)) \in Nat
      BY <2>1, <2>2, PageOfMonotone, UpMonotone, UpFacts, DivFacts
    <2>6. p \in PagesOf(ws, TextRange)
      <3>1. PageOf(ws) <= p /\ p < PageOf(Up(we)) /\ p \in PageNos
        BY <1>12, <2>5
      <3>. QED
        BY <2>4, <3>1 DEF PagesOf, Within
    <2>7. wp = mprotect(page, ws, TextRange, {"R", "X"})
      BY <1>8, <1>10, <2>4 DEF WriteProtected
    <2>8. wp[p].prot = {"R", "X"}
      BY <1>1, <1>12, <2>6, <2>7, MprotectInside
    <2>. QED
      BY <2>8
  <1>14. ASSUME NEW k \in Loads(si.file), NEW p \in SegPagesOf(k), Has(k, "W")
         PROVE  "W" \in wp[p].prot
    <2>1. CASE ws # Sentinel /\ we # 0
      <3>1. PICK j \in Loads(si.file) : ~Has(j, "W") /\ we = End(j)
        BY <1>5, <1>8, <2>1 DEF ConvOK, RangeEnds
      <3>2. j < k
        <4>1. j \in Nat /\ k \in Nat /\ j # k
          BY <1>14, <3>1, ConvFacts
        <4>2. ~(k < j)
          BY <1>14, <3>1, SegsApart
        <4>. QED
          BY <4>1, <4>2
      <3>3. PageOf(Up(we)) <= PageOf(Start(k)) /\ PageOf(Up(we)) \in Nat
        BY <1>4, <3>1, <3>2, SegsApart, SegSpan
      <3>4. TextRange \in Int /\ ws + TextRange = we
        BY <1>8 DEF TextRange
      <3>5. p \notin PagesOf(ws, TextRange)
        <4>1. ~(p < PageOf(Up(we)))
          BY <1>12, <3>3
        <4>. QED
          BY <3>4, <4>1 DEF PagesOf, Within
      <3>6. wp = mprotect(page, ws, TextRange, {"R", "X"})
        BY <1>8, <1>10, <2>1 DEF WriteProtected
      <3>7. wp[p] = page[p]
        BY <1>1, <1>12, <3>5, <3>6, MprotectInside
      <3>. QED
        BY <1>12, <3>7
    <2>2. CASE ~(ws # Sentinel /\ we # 0)
      BY <1>8, <1>10, <1>12, <2>2 DEF WriteProtected
    <2>. QED
      BY <2>1, <2>2
  <1>15. ASSUME NEW k \in Loads(si.file), NEW p \in SegPagesOf(k)
         PROVE  IF HasRelro /\ p \in PagesOf(RelroStart, RelroLen) THEN page'[p].prot = {"R"} ELSE page'[p] = wp[p]
    <2>1. CASE HasRelro
      <3>1. page' = mprotect(wp, RelroStart, RelroLen, {"R"})
        BY <1>11, <2>1
      <3>. QED
        BY <1>10, <1>12, <2>1, <3>1, MprotectInside
    <2>2. CASE ~HasRelro
      BY <1>11, <2>2
    <2>. QED
      BY <2>1, <2>2
  <1>16. TextProtected'
    <2>1. SUFFICES ASSUME NEW k \in Loads(si.file), ~Has(k, "W"), NEW p \in SegPagesOf(k)
                   PROVE  "W" \notin page'[p].prot
      BY <1>3, <1>6 DEF TextProtected
    <2>. QED
      BY <1>13, <1>15, <2>1
  <1>17. DataProtected'
    <2>1. SUFFICES ASSUME NEW k \in Loads(si.file), Has(k, "W"), NEW p \in SegPagesOf(k)
                   PROVE  ("W" \in page'[p].prot) # (HasRelro /\ p \in PagesOf(RelroStart, RelroLen))
      BY <1>3, <1>6, <1>7 DEF DataProtected
    <2>. QED
      BY <1>14, <1>15, <2>1
  <1>18. NotYetLinked' /\ AllWritable' /\ DataWritable'
    BY <1>1, <1>3 DEF NotYetLinked, AllWritable, DataWritable, Unlinked
  <1>19. RangeCovers' /\ RangeEnds'
    BY <1>3, <1>5, <1>6 DEF ConvOK, RangeCovers, RangeEnds
  <1>. QED
    BY <1>16, <1>17, <1>18, <1>19 DEF ConvOK

LEMMA UnloadStartConv ==
  ASSUME TypeInv, UnloadStart, SiOK, Conventional(si.file), RegionOK, ConvOK
  PROVE  ConvOK'
  <1>1. pc = "loaded" /\ pc' = "unload" /\ page \in PageMap /\ si' = si
    BY DEF TypeInv, TypeOK, PageMap, Prots, UnloadStart
  <1>2. InRegion(si.file) /\ LibPages
    BY <1>1 DEF Conventional, RegionOK, Active
  <1>3. MappedSegs = Loads(si.file) /\ MappedSegs' = Loads(si.file)
    BY <1>1 DEF MappedSegs
  <1>4. \A k : /\ SegPagesOf(k)' = SegPagesOf(k) /\ Start(k)' = Start(k) /\ End(k)' = End(k)
               /\ Has(k, "W")' = Has(k, "W")
    BY <1>1, SameSegs
  <1>5. ASSUME NEW k \in Loads(si.file), NEW p \in SegPagesOf(k)
        PROVE  IF HasRelro /\ p \in PagesOf(RelroStart, RelroLen) THEN page'[p].prot = {"R", "W"}
               ELSE page'[p] = page[p]
    <2>1. p \in PageNos /\ page[p].who = "lib"
      BY <1>2, SegSpan DEF LibPages
    <2>2. CASE HasRelro
      <3>1. page' = mprotect(page, RelroStart, RelroLen, {"R", "W"})
        BY <2>2 DEF UnloadStart, Unprotected
      <3>. QED
        BY <1>1, <2>1, <2>2, <3>1, MprotectInside
    <2>3. CASE ~HasRelro
      BY <2>3 DEF UnloadStart, Unprotected
    <2>. QED
      BY <2>2, <2>3
  <1>6. ASSUME NEW k \in Loads(si.file), Has(k, "W") \/ "LINKED" \notin si.flags PROVE WritableSeg(k)'
    <2>1. SUFFICES ASSUME NEW p \in SegPagesOf(k) PROVE "W" \in page'[p].prot
      BY <1>4 DEF WritableSeg
    <2>2. CASE "LINKED" \in si.flags
      BY <1>1, <1>5, <1>6, <2>2 DEF ConvOK, DataProtected
    <2>3. CASE "LINKED" \notin si.flags
      BY <1>1, <1>3, <1>5, <2>3 DEF ConvOK, AllWritable, Unlinked, WritableSeg
    <2>. QED
      BY <2>2, <2>3
  <1>7. AllWritable' /\ DataWritable'
    BY <1>1, <1>3, <1>4, <1>6 DEF AllWritable, DataWritable, Unlinked
  <1>8. NotYetLinked' /\ TextProtected' /\ DataProtected'
    BY <1>1 DEF NotYetLinked, TextProtected, DataProtected
  <1>9. RangeCovers' /\ RangeEnds'
    BY <1>1, <1>3, <1>4 DEF ConvOK, RangeCovers, RangeEnds
  <1>. QED
    BY <1>7, <1>8, <1>9 DEF ConvOK

(* A program header that is not PT_LOAD maps no segment, and when the loop *)
(* ends all of them are mapped.                                            *)
LEMMA MappedSame ==
  ASSUME SiOK, Conventional(si.file), i \in Nat, si'.file = si.file, pc = "segments",
         \/ pc' = pc /\ i' = i
         \/ (AtPhdr("RELRO") \/ AtPhdr("OTHER")) /\ pc' = pc /\ i' = i + 1
         \/ pc' # "segments" /\ i > Len(si.file.phdr)
  PROVE  MappedSegs' = MappedSegs
  <1>1. Loads(si.file) \subseteq Nat /\ \A k \in Loads(si.file) : si.file.phdr[k].type = "LOAD"
    BY ConvFacts
  <1>2. CASE pc' = pc /\ i' = i
    BY <1>2 DEF MappedSegs
  <1>3. CASE (AtPhdr("RELRO") \/ AtPhdr("OTHER")) /\ pc' = pc /\ i' = i + 1
    <2>1. i \notin Loads(si.file)
      BY <1>1, <1>3 DEF AtPhdr, phdr
    <2>2. \A k \in Loads(si.file) : k < i + 1 <=> k < i
      BY <1>1, <2>1
    <2>. QED
      BY <1>3, <2>2 DEF MappedSegs
  <1>4. CASE pc' # "segments" /\ i > Len(si.file.phdr)
    <2>1. Loads(si.file) \subseteq 1 .. Len(si.file.phdr) /\ Len(si.file.phdr) \in Nat
      BY ConvFacts, FileFacts
    <2>2. \A k \in Loads(si.file) : k < i
      BY <1>4, <2>1
    <2>. QED
      BY <1>4, <2>2 DEF MappedSegs
  <1>. QED
    BY <1>2, <1>3, <1>4

LEMMA AllocSegs ==
  ASSUME TypeInv', alloc_mem_region
  PROVE  MappedSegs' = {}
  <1>1. pc' = "segments" /\ i' = 1
    BY DEF alloc_mem_region, Reserved
  <1>2. si'.file \in Files
    BY <1>1 DEF TypeInv, SiOK, Soinfo
  <1>3. Loads(si'.file) \subseteq 1 .. Len(si'.file.phdr) /\ Len(si'.file.phdr) \in Nat
    BY <1>2, FileFacts
  <1>. QED
    BY <1>1, <1>3 DEF MappedSegs

LEMMA AllocConv ==
  ASSUME TypeInv', alloc_mem_region
  PROVE  ConvOK'
  <1>1. /\ si'.flags = {} /\ si'.wrprotect_start = Sentinel /\ si'.wrprotect_end = 0 /\ pc' = "segments"
    BY DEF alloc_mem_region, Reserved
  <1>. QED
    BY <1>1, AllocSegs DEF ConvOK, NotYetLinked, AllWritable, DataWritable, RangeCovers, RangeEnds,
       TextProtected, DataProtected

LEMMA NextConv ==
  ASSUME TypeInv, RegionInv, TypeInv', ConvInv, [Next]_vars, NoTruncation
  PROVE  ConvInv'
  <1>1. SUFFICES ASSUME SiOK', Conventional(si'.file), pc' \in Active \ {"crashed"} PROVE ConvOK'
    BY DEF ConvInv
  <1>2. CASE pc = "idle"
    <2>1. si'.file.prelink = 0
      BY <1>1 DEF Conventional, InRegion
    <2>2. alloc_mem_region
      BY <1>1, <1>2, <2>1 DEF Next, vars, AppMap, LoadFails, reserve_mem_region, Reserved, AtPhdr, LoadSegment,
         SegmentFails, LoadRelro, RelroFails, LoadOther, TooLong, Loaded, SegmentsDone, MissingTables,
         Unsupported, ParseDynamic, AtDynamic, BindNeeded, AtNeeded, NeededDone, reloc_library, AtReloc,
         reloc_none, RelocFails, RelocDone, relocate_relr, AtRelr, StoreFaults, Crash, LinkFinish, RelrDone,
         RelroProtectFails, UnloadStart, ClearNeeded, AtClear, ClearFaults, Unload, Rest, Active
    <2>. QED
      BY <2>2, AllocConv
  <1>3. CASE pc # "idle"
    <2>1. /\ \/ UNCHANGED vars \/ AppMap \/ LoadSegment \/ LoadRelro \/ LoadOther \/ Loaded \/ Unsupported
             \/ ParseDynamic \/ BindNeeded \/ NeededDone \/ reloc_library \/ reloc_none \/ RelocDone
             \/ relocate_relr \/ LinkFinish \/ UnloadStart \/ ClearNeeded
          /\ pc \in Active \ {"crashed"}
      BY <1>1, <1>3 DEF Next, vars, AppMap, LoadFails, reserve_mem_region, alloc_mem_region, AtPhdr, LoadSegment,
         SegmentFails, LoadRelro, RelroFails, LoadOther, TooLong, Loaded, SegmentsDone, MissingTables,
         Unsupported, ParseDynamic, AtDynamic, BindNeeded, AtNeeded, NeededDone, reloc_library, AtReloc,
         reloc_none, RelocFails, RelocDone, relocate_relr, AtRelr, StoreFaults, Crash, LinkFinish, RelrDone,
         RelroProtectFails, UnloadStart, ClearNeeded, AtClear, ClearFaults, Unload, Rest, Active,
         LoadingFailed, LinkFailed
    <2>2. SiOK /\ si \in Soinfo /\ i \in Nat /\ page \in PageMap
      BY <2>1 DEF TypeInv, TypeOK, SiOK, Active, PageMap, Prots
    <2>3. /\ si'.file = si.file /\ si'.base = si.base
          /\ (pc = "segments" \/ LinkFinish \/ si' = si)
      <3>1. CASE LoadSegment
        <4>1. pc = "segments" /\ i <= Len(si.file.phdr) /\ si' = WrProtect(phdr)
          BY <3>1 DEF LoadSegment, AtPhdr
        <4>2. phdr \in Phdr
          BY <4>1, AtPhdrFacts
        <4>. QED
          BY <2>2, <4>1, <4>2, WrProtectFacts
      <3>2. CASE LoadRelro
        BY <2>2, <3>2 DEF LoadRelro, AtPhdr, Soinfo
      <3>3. CASE LinkFinish
        BY <2>2, <3>3 DEF LinkFinish, Soinfo
      <3>4. CASE ~(LoadSegment \/ LoadRelro \/ LinkFinish)
        BY <2>1, <3>4 DEF vars, AppMap, LoadOther, Loaded, Unsupported, ParseDynamic, BindNeeded, NeededDone,
           reloc_library, reloc_none, RelocDone, relocate_relr, UnloadStart, ClearNeeded, Store
      <3>. QED
        BY <3>1, <3>2, <3>3, <3>4
    <2>4. Conventional(si.file) /\ InRegion(si.file)
      BY <1>1, <2>3 DEF Conventional
    <2>5. RegionOK /\ LibPages /\ ConvOK
      BY <2>1, <2>2, <2>4 DEF RegionInv, RegionOK, ConvInv
    <2>6. CASE LoadSegment
      BY <2>2, <2>4, <2>5, <2>6, LoadSegmentConv
    <2>7. CASE LinkFinish
      BY <2>2, <2>4, <2>5, <2>7, LinkFinishConv
    <2>8. CASE UnloadStart
      BY <2>2, <2>4, <2>5, <2>8, UnloadStartConv
    <2>9. ASSUME ~LoadSegment, ~LinkFinish, ~UnloadStart
          PROVE  /\ \A p \in PagesOf(si.base, si.size) : page'[p] = page[p]
                 /\ si'.flags = si.flags
                 /\ si'.wrprotect_start = si.wrprotect_start /\ si'.wrprotect_end = si.wrprotect_end
                 /\ pc' # pc => pc \in {"segments", "dynamic", "needed", "reloc", "relr"}
                 /\ pc' # pc => pc' \in {"segments", "dynamic", "needed", "reloc", "relr", "loaded"}
                 /\ pc' = "loaded" \/ pc' = "unload" => si' = si
      <3>1. CASE AppMap
        <4>1. PICK q \in PageNos : /\ page[q].who = "free"
                                   /\ page' = [page EXCEPT ![q] = [who |-> "app", prot |-> {"R", "W"}]]
          BY <3>1 DEF AppMap
        <4>2. ASSUME NEW p \in PagesOf(si.base, si.size) PROVE page'[p] = page[p]
          <5>1. p \in PageNos
            BY DEF PagesOf
          <5>2. page[p].who = "lib"
            BY <2>5, <5>1 DEF LibPages
          <5>. QED
            BY <2>2, <4>1, <5>1, <5>2 DEF PageMap
        <4>. QED
          BY <3>1, <4>2 DEF AppMap
      <3>2. CASE LoadRelro
        <4>1. /\ si'.flags = si.flags /\ si'.wrprotect_start = si.wrprotect_start
              /\ si'.wrprotect_end = si.wrprotect_end
          BY <2>2, <3>2 DEF LoadRelro, Soinfo
        <4>. QED
          BY <3>2, <4>1 DEF LoadRelro, AtPhdr
      <3>3. CASE ~AppMap /\ ~LoadRelro
        BY <2>1, <2>9, <3>3 DEF vars, LoadOther, Loaded, Unsupported, ParseDynamic, BindNeeded, NeededDone,
           reloc_library, reloc_none, RelocDone, relocate_relr, ClearNeeded, Store,
           AtPhdr, SegmentsDone, AtDynamic, AtNeeded, AtReloc, AtRelr, AtClear
      <3>. QED
        BY <3>1, <3>2, <3>3
    <2>10. ASSUME ~LoadSegment PROVE MappedSegs' = MappedSegs
      <3>2. CASE pc = "segments"
        <4>1. \/ pc' = pc /\ i' = i
              \/ (AtPhdr("RELRO") \/ AtPhdr("OTHER")) /\ pc' = pc /\ i' = i + 1
              \/ pc' # "segments" /\ i > Len(si.file.phdr)
          BY <2>1, <2>10, <3>2 DEF vars, AppMap, LoadRelro, LoadOther, Loaded, Unsupported, ParseDynamic,
             BindNeeded, NeededDone, reloc_library, reloc_none, RelocDone, relocate_relr, ClearNeeded,
             LinkFinish, UnloadStart, RelrDone, SegmentsDone, AtDynamic, AtNeeded, AtReloc, AtRelr, AtClear
        <4>. QED
          BY <2>2, <2>3, <2>4, <3>2, <4>1, MappedSame
      <3>3. CASE pc # "segments"
        <4>1. pc' # "segments"
          BY <2>1, <2>10, <3>3 DEF vars, AppMap, LoadRelro, LoadOther, Loaded, Unsupported, ParseDynamic,
             BindNeeded, NeededDone, reloc_library, reloc_none, RelocDone, relocate_relr, ClearNeeded,
             LinkFinish, UnloadStart, AtPhdr
        <4>. QED
          BY <2>3, <3>3, <4>1 DEF MappedSegs
      <3>. QED
        BY <3>2, <3>3
    <2>11. CASE ~LoadSegment /\ ~LinkFinish /\ ~UnloadStart
      BY <2>2, <2>3, <2>4, <2>5, <2>9, <2>10, <2>11, ConvSame
    <2>. QED
      BY <2>6, <2>7, <2>8, <2>11
  <1>. QED
    BY <1>2, <1>3

LEMMA InitConv ==
  Init => ConvInv
  BY DEF Init, ConvInv, SiOK

LEMMA ConvImplies ==
  TypeInv /\ ConvInv => TextProtected /\ DataProtected
  <1>1. SUFFICES ASSUME TypeInv, ConvInv PROVE TextProtected /\ DataProtected
    OBVIOUS
  <1>2. CASE pc = "loaded" /\ Conventional(si.file)
    <2>1. SiOK
      BY <1>1, <1>2 DEF TypeInv
    <2>. QED
      BY <1>1, <1>2, <2>1 DEF ConvInv, ConvOK, Active
  <1>3. CASE ~(pc = "loaded" /\ Conventional(si.file))
    BY <1>3 DEF TextProtected, DataProtected
  <1>. QED
    BY <1>2, <1>3

(* Once apkenv_link_image is done no page of a read-only segment can be    *)
(* written, for every conventional file and page size, unless an address   *)
(* was cut to 32 bits on the way.                                          *)
THEOREM TextIsProtected ==
  ASSUME NoTruncation
  PROVE  Spec => []TextProtected
  BY InitType, NextType, InitRegion, NextRegion, InitConv, NextConv, ConvImplies, PTL DEF Spec

(* Under the same hypothesis RELRO, and nothing else of the data, is       *)
(* read-only then: the range mprotect is given ends before the data.       *)
THEOREM DataIsProtected ==
  ASSUME NoTruncation
  PROVE  Spec => []DataProtected
  BY InitType, NextType, InitRegion, NextRegion, InitConv, NextConv, ConvImplies, PTL DEF Spec

-----------------------------------------------------------------------------
(* What is in the segments, for a file laid out the usual way.             *)

LEMMA ModUnique ==
  ASSUME NEW m \in Nat \ {0}, NEW a \in Nat, NEW q \in Int, NEW r \in Nat, r < m, a = m * q + r
  PROVE  a % m = r
  <1>1. PICK p \in Int : p = a \div m
    BY SMT
  <1>2. PICK s \in Nat : s = a % m
    BY SMT
  <1>3. a = m * p + s /\ s < m
    BY <1>1, <1>2, SMT
  <1>4. ASSUME p < q PROVE FALSE
    <2>1. m * q >= m * (p + 1)
      BY <1>4, SMT
    <2>. QED
      BY <2>1, <1>3, SMT
  <1>5. ASSUME q < p PROVE FALSE
    <2>1. m * p >= m * (q + 1)
      BY <1>5, SMT
    <2>. QED
      BY <2>1, <1>3, SMT
  <1>6. p = q
    BY <1>4, <1>5
  <1>. QED
    BY <1>2, <1>3, <1>6, SMT

(* p_offset and p_vaddr are at the same place of their pages.              *)
LEMMA Congruent ==
  ASSUME NEW a \in Nat, NEW b \in Nat, (a - b) % PAGE_SIZE = 0
  PROVE  a % PAGE_SIZE = b % PAGE_SIZE
  <1>1. PAGE_SIZE \in Nat \ {0}
    BY SizeAssumption
  <1>2. PICK d \in Int : d = a - b
    OBVIOUS
  <1>3. PICK q \in Int : q = d \div PAGE_SIZE
    BY <1>1, <1>2, SMT
  <1>4. d = PAGE_SIZE * q
    BY <1>1, <1>2, <1>3, SMT
  <1>5. PICK p \in Nat : p = PageOf(b)
    BY DivFacts
  <1>6. b = PAGE_SIZE * p + (b % PAGE_SIZE) /\ b % PAGE_SIZE \in Nat /\ b % PAGE_SIZE < PAGE_SIZE
    BY <1>5, DivFacts
  <1>7. PICK r \in Nat : r = b % PAGE_SIZE
    BY <1>6
  <1>8. a = PAGE_SIZE * (p + q) + r
    BY <1>1, <1>2, <1>4, <1>6, <1>7, SMT
  <1>. QED
    <2>1. a % PAGE_SIZE = r
      <3>1. p + q \in Int /\ r < PAGE_SIZE
        BY <1>6, <1>7
      <3>. QED
        BY <1>1, <1>8, <3>1, ModUnique
    <2>. QED
      BY <1>7, <2>1

LEMMA WordFacts ==
  ASSUME NEW w \in Words
  PROVE  w \in Nat /\ w % WORD = 0 /\ PageOf(w) \in PageNos /\ w < NPages * PAGE_SIZE
  <1>1. PAGE_SIZE \in Nat \ {0} /\ NPages \in Nat \ {0} /\ NPages * PAGE_SIZE \in Nat
    BY SizeAssumption
  <1>2. w \in Nat /\ w % WORD = 0 /\ w < NPages * PAGE_SIZE
    BY <1>1 DEF Words
  <1>3. PICK p \in Nat : p = PageOf(w) /\ w >= PAGE_SIZE * p
    <2>1. Down(w) = PAGE_SIZE * PageOf(w) /\ Down(w) <= w /\ PageOf(w) \in Nat
      BY <1>2, DivFacts
    <2>. QED
      BY <2>1
  <1>4. ASSUME p >= NPages PROVE FALSE
    <2>1. PAGE_SIZE * p >= PAGE_SIZE * NPages
      BY <1>1, <1>4, SMT
    <2>2. PAGE_SIZE * NPages = NPages * PAGE_SIZE
      BY <1>1
    <2>. QED
      BY <1>1, <1>2, <1>3, <2>1, <2>2
  <1>. QED
    BY <1>1, <1>2, <1>3, <1>4 DEF PageNos

(* Below a page boundary is on a page below.                               *)
LEMMA BelowBoundary ==
  ASSUME NEW w \in Nat, NEW a \in Nat
  PROVE  w < Up(a) <=> PageOf(w) < PageOf(Up(a))
  <1>1. PAGE_SIZE \in Nat
    BY SizeAssumption
  <1>2. PICK q \in Nat : q = PageOf(Up(a)) /\ Up(a) = PAGE_SIZE * q
    BY UpFacts
  <1>3. PICK p \in Nat : p = PageOf(w) /\ w >= PAGE_SIZE * p
    <2>1. Down(w) = PAGE_SIZE * PageOf(w) /\ Down(w) <= w /\ PageOf(w) \in Nat
      BY DivFacts
    <2>. QED
      BY <2>1
  <1>4. ASSUME w < Up(a), p >= q PROVE FALSE
    <2>1. PAGE_SIZE * p >= PAGE_SIZE * q
      BY <1>1, <1>4, SMT
    <2>. QED
      BY <1>1, <1>2, <1>3, <1>4, <2>1
  <1>5. ASSUME Up(a) <= w PROVE q <= p
    BY <1>2, <1>3, <1>5, UpFacts, PageOfMonotone
  <1>6. Up(a) \in Nat
    BY UpFacts
  <1>. QED
    BY <1>2, <1>3, <1>4, <1>5, <1>6

(* Region addresses of words are words of the file's address space.        *)
LEMMA WordShift ==
  ASSUME NEW b \in Nat, NEW x \in Nat
  PROVE  (PAGE_SIZE * b + x) % WORD = 0 <=> x % WORD = 0
  <1>1. WORD \in Nat \ {0} /\ PAGE_SIZE \in Nat \ {0} /\ PAGE_SIZE % WORD = 0
    BY SizeAssumption
  <1>2. PICK c \in Int : PAGE_SIZE = WORD * c
    BY <1>1, SMT
  <1>3. PICK y \in Nat : y = PAGE_SIZE * b + x
    BY <1>1
  <1>4. PAGE_SIZE * b = WORD * (c * b)
    BY <1>1, <1>2, SMT
  <1>5. PICK q \in Int : q = c * b
    OBVIOUS
  <1>6. y = WORD * q + x
    BY <1>3, <1>4, <1>5
  <1>7. ASSUME x % WORD = 0 PROVE y % WORD = 0
    <2>1. PICK z \in Int : x = WORD * z
      BY <1>1, <1>7, SMT
    <2>2. y = WORD * (q + z) + 0
      BY <1>1, <1>6, <2>1, SMT
    <2>. QED
      BY <1>1, <2>2, ModUnique
  <1>8. ASSUME y % WORD = 0 PROVE x % WORD = 0
    <2>1. PICK z \in Int : y = WORD * z
      BY <1>1, <1>8, SMT
    <2>2. x = WORD * (z - q) + 0
      BY <1>1, <1>6, <2>1, SMT
    <2>. QED
      BY <1>1, <2>2, ModUnique
  <1>. QED
    BY <1>3, <1>7, <1>8

(* A word of a segment holds what the file says, or zero past p_filesz.    *)
ContentAt(h, w) ==
  LET at == w - si.base - h.vaddr
  IN  word[w] = IF at < h.filesz THEN si.file.content[h.off + at] ELSE 0
ContentSeg(k) == \A w \in SegWordsOf(si.file, si.base, k) : ContentAt(si.file.phdr[k], w)
ContentInv ==
  SiOK /\ Conventional(si.file) /\ pc \in {"segments", "dynamic"} => \A k \in MappedSegs : ContentSeg(k)

LEMMA LoadSegmentOwn ==
  ASSUME SiOK, Conventional(si.file), RegionOK, NEW k \in Loads(si.file), NEW h \in Phdr, h = si.file.phdr[k],
         NEW w \in SegWordsOf(si.file, si.base, k)
  PROVE  LET at == w - si.base - h.vaddr
         IN  SegWords(h)[w] = IF at < h.filesz THEN si.file.content[h.off + at] ELSE 0
  <1>. DEFINE at == w - si.base - h.vaddr
  <1>1. /\ si.base \in Nat /\ h.vaddr \in Nat /\ h.filesz \in Nat /\ h.memsz \in Nat /\ h.off \in Nat
        /\ SegEnd(h) = h.vaddr + h.memsz
    BY ConvFacts DEF Phdr, SegEnd
  <1>2. w \in Words /\ si.base + h.vaddr <= w /\ w < si.base + SegEnd(h)
    BY DEF SegWordsOf, Within
  <1>3. w \in Nat /\ w % WORD = 0 /\ PageOf(w) \in PageNos /\ PageOf(w) \in Nat
    BY <1>2, WordFacts, DivFacts
  <1>4. at \in Nat /\ at < h.memsz
    BY <1>1, <1>2, <1>3
  <1>5. /\ pbase(h) \in Nat /\ pbase(h) = si.base + Down(h.vaddr) /\ Down(h.vaddr) \in Nat
        /\ len(h) \in Nat /\ pbase(h) + len(h) = si.base + h.vaddr + h.filesz
        /\ si.base + SegEnd(h) \in Nat /\ Up(si.base + SegEnd(h)) \in Nat
    BY <1>1, SegAddrs
  <1>6. Down(h.vaddr) = h.vaddr - (h.vaddr % PAGE_SIZE) /\ Down(h.off) = h.off - (h.off % PAGE_SIZE)
        /\ h.vaddr % PAGE_SIZE \in Nat /\ h.off % PAGE_SIZE \in Nat /\ Down(h.vaddr) <= h.vaddr
    BY <1>1, DivFacts DEF Down
  <1>7. h.off % PAGE_SIZE = h.vaddr % PAGE_SIZE
    <2>1. (h.off - h.vaddr) % PAGE_SIZE = 0
      BY DEF Conventional
    <2>. QED
      BY <1>1, <2>1, Congruent
  <1>8. Down(h.off) + (w - pbase(h)) = h.off + at
    BY <1>1, <1>3, <1>5, <1>6, <1>7
  <1>9. pbase(h) <= w /\ (at < h.filesz <=> w < pbase(h) + len(h))
    BY <1>1, <1>2, <1>3, <1>5, <1>6
  <1>10. /\ "W" \notin h.flags => h.filesz = h.memsz
         /\ \A x \in 0 .. h.filesz - 1 : (h.vaddr + x) % WORD = 0 => h.off + x \in DOMAIN si.file.content
    BY DEF Conventional
  <1>11. at < h.filesz => h.off + at \in DOMAIN si.file.content
    <2>1. SUFFICES ASSUME at < h.filesz PROVE h.off + at \in DOMAIN si.file.content
      OBVIOUS
    <2>2. PICK b \in Nat : si.base = PAGE_SIZE * b
      BY SizeAssumption DEF RegionOK, Aligned, PageNos
    <2>3. h.vaddr + at \in Nat /\ si.base + (h.vaddr + at) = w
      BY <1>1, <1>3, <1>4
    <2>4. (h.vaddr + at) % WORD = 0
      BY <1>3, <2>2, <2>3, WordShift
    <2>5. at \in 0 .. h.filesz - 1
      BY <1>1, <1>4, <2>1
    <2>. QED
      BY <1>10, <2>4, <2>5
  <1>12. w \in WordsOf(pbase(h), len(h)) <=> w < Up(pbase(h) + len(h))
    <2>1. PageOf(pbase(h)) <= PageOf(w)
      BY <1>3, <1>5, <1>9, PageOfMonotone
    <2>2. pbase(h) + len(h) \in Nat
      BY <1>5
    <2>3. w < Up(pbase(h) + len(h)) <=> PageOf(w) < PageOf(Up(pbase(h) + len(h)))
      BY <1>3, <2>2, BelowBoundary
    <2>. QED
      BY <1>2, <1>3, <2>1, <2>3 DEF WordsOf, PagesOf, Within
  <1>13. pbase(h) + len(h) <= Up(pbase(h) + len(h)) /\ Up(pbase(h) + len(h)) \in Nat
         /\ si.base + SegEnd(h) <= Up(si.base + SegEnd(h))
    <2>1. pbase(h) + len(h) \in Nat
      BY <1>5
    <2>. QED
      BY <1>5, <2>1, UpFacts
  <1>14. SegWords(h)[w] = IF w \in WordsOf(pbase(h), len(h))
                          THEN IF w >= pbase(h) + len(h) /\ "W" \in h.flags THEN 0 ELSE FileWord(h, w)
                          ELSE IF Within(w, Up(pbase(h) + len(h)), Up(si.base + SegEnd(h))) THEN 0 ELSE word[w]
    BY <1>2 DEF SegWords
  <1>15. CASE at < h.filesz
    <2>1. w \in WordsOf(pbase(h), len(h)) /\ ~(w >= pbase(h) + len(h))
      BY <1>3, <1>5, <1>9, <1>12, <1>13, <1>15
    <2>2. FileWord(h, w) = si.file.content[h.off + at]
      BY <1>8, <1>11, <1>15 DEF FileWord
    <2>. QED
      BY <1>14, <1>15, <2>1, <2>2
  <1>16. CASE ~(at < h.filesz)
    <2>1. w >= pbase(h) + len(h) /\ "W" \in h.flags
      BY <1>1, <1>3, <1>4, <1>5, <1>9, <1>10, <1>16
    <2>2. w \notin WordsOf(pbase(h), len(h)) => Within(w, Up(pbase(h) + len(h)), Up(si.base + SegEnd(h)))
      BY <1>2, <1>3, <1>5, <1>12, <1>13 DEF Within
    <2>. QED
      BY <1>14, <1>16, <2>1, <2>2
  <1>. QED
    BY <1>15, <1>16

(* Mapping a segment leaves the words of the ones before it alone.         *)
LEMMA LoadSegmentOthers ==
  ASSUME SiOK, Conventional(si.file), RegionOK, NEW j \in Loads(si.file), NEW k \in Loads(si.file), j < k,
         NEW h \in Phdr, h = si.file.phdr[k], NEW w \in SegWordsOf(si.file, si.base, j)
  PROVE  SegWords(h)[w] = word[w]
  <1>1. PICK g : g = si.file.phdr[j]
    OBVIOUS
  <1>2. g \in Phdr /\ si.base \in Nat /\ InRegion(si.file)
    BY <1>1, ConvFacts
  <1>3. w \in Words /\ w < si.base + SegEnd(g)
    BY <1>1 DEF SegWordsOf, Within
  <1>4. w \in Nat
    BY <1>3, WordFacts
  <1>5. si.base + SegEnd(g) \in Nat /\ End(j) = Up(si.base + SegEnd(g)) /\ End(j) \in Nat
    BY <1>1, <1>2, SegAddrs DEF End, Start
  <1>6. w < End(j) /\ PageOf(w) < PageOf(End(j)) /\ PageOf(w) \in Nat /\ PageOf(End(j)) \in Nat
    <2>1. w < Up(si.base + SegEnd(g))
      BY <1>3, <1>4, <1>5, UpFacts
    <2>2. PageOf(w) < PageOf(Up(si.base + SegEnd(g)))
      BY <1>4, <1>5, <2>1, BelowBoundary
    <2>. QED
      BY <1>4, <1>5, <2>1, <2>2, DivFacts
  <1>7. End(j) <= Start(k) /\ PageOf(End(j)) <= PageOf(Start(k)) /\ Start(k) = pbase(h)
    BY SegsApart DEF Start
  <1>8. pbase(h) \in Nat /\ len(h) \in Nat /\ PageOf(pbase(h)) \in Nat
    BY <1>2, SegAddrs, DivFacts
  <1>9. w \notin WordsOf(pbase(h), len(h))
    <2>1. ~(PageOf(pbase(h)) <= PageOf(w))
      BY <1>6, <1>7, <1>8
    <2>. QED
      BY <2>1 DEF WordsOf, PagesOf, Within
  <1>10. ~Within(w, Up(pbase(h) + len(h)), Up(si.base + SegEnd(h)))
    <2>1. pbase(h) + len(h) \in Nat
      BY <1>8
    <2>2. pbase(h) + len(h) <= Up(pbase(h) + len(h)) /\ Up(pbase(h) + len(h)) \in Nat
      BY <2>1, UpFacts
    <2>. QED
      BY <1>4, <1>5, <1>6, <1>7, <1>8, <2>2 DEF Within
  <1>. QED
    BY <1>3, <1>9, <1>10 DEF SegWords

LEMMA LoadSegmentContent ==
  ASSUME TypeInv, LoadSegment, SiOK, Conventional(si.file), RegionOK, \A k \in MappedSegs : ContentSeg(k)
  PROVE  \A k \in MappedSegs' : ContentSeg(k)'
  <1>0. PICK n \in Nat : n = i
    BY DEF TypeInv, TypeOK
  <1>1. AtPhdr("LOAD") /\ pc = "segments" /\ pc' = "segments" /\ i <= Len(si.file.phdr) /\ i' = n + 1
    BY <1>0 DEF LoadSegment, AtPhdr
  <1>2. PICK h \in Phdr : h = phdr
    BY <1>1, AtPhdrFacts
  <1>3. si \in Soinfo /\ h = si.file.phdr[n] /\ n \in Loads(si.file)
    BY <1>0, <1>1, <1>2, AtPhdrFacts DEF SiOK, AtPhdr, Loads, phdr
  <1>4. si'.file = si.file /\ si'.base = si.base
    BY <1>2, <1>3, WrProtectFacts DEF LoadSegment
  <1>5. word' = SegWords(h)
    BY <1>2 DEF LoadSegment
  <1>6. Loads(si.file) \subseteq Nat
    BY ConvFacts
  <1>7. SUFFICES ASSUME NEW k \in MappedSegs', NEW w \in SegWordsOf(si.file, si.base, k),
                        NEW g, g = si.file.phdr[k]
                 PROVE  LET at == w - si.base - g.vaddr
                        IN  word'[w] = IF at < g.filesz THEN si.file.content[g.off + at] ELSE 0
    BY <1>4 DEF ContentSeg, ContentAt
  <1>8. k = n \/ (k \in MappedSegs /\ k < n)
    BY <1>0, <1>1, <1>4, <1>6 DEF MappedSegs
  <1>9. CASE k = n
    BY <1>3, <1>5, <1>7, <1>9, LoadSegmentOwn
  <1>10. CASE k \in MappedSegs /\ k < n
    <2>1. k \in Loads(si.file)
      BY <1>10 DEF MappedSegs
    <2>2. word'[w] = word[w]
      BY <1>3, <1>5, <1>10, <2>1, LoadSegmentOthers
    <2>3. ContentAt(g, w)
      BY <1>7, <1>10 DEF ContentSeg
    <2>. QED
      BY <2>2, <2>3 DEF ContentAt
  <1>. QED
    BY <1>8, <1>9, <1>10

LEMMA NextContent ==
  ASSUME TypeInv, RegionInv, TypeInv', ContentInv, [Next]_vars
  PROVE  ContentInv'
  <1>1. SUFFICES ASSUME SiOK', Conventional(si'.file), pc' \in {"segments", "dynamic"}
                 PROVE  \A k \in MappedSegs' : ContentSeg(k)'
    BY DEF ContentInv
  <1>2. si'.file.prelink = 0
    BY <1>1 DEF Conventional, InRegion
  <1>3. /\ \/ UNCHANGED vars \/ AppMap \/ alloc_mem_region \/ LoadSegment \/ LoadRelro \/ LoadOther \/ Loaded
        /\ pc = "idle" => alloc_mem_region \/ UNCHANGED vars \/ AppMap
    BY <1>1, <1>2 DEF Next, vars, AppMap, LoadFails, reserve_mem_region, Reserved, AtPhdr, LoadSegment,
       SegmentFails, LoadRelro, RelroFails, LoadOther, TooLong, Loaded, SegmentsDone, MissingTables,
       Unsupported, ParseDynamic, AtDynamic, BindNeeded, AtNeeded, NeededDone, reloc_library, AtReloc,
       reloc_none, RelocFails, RelocDone, relocate_relr, AtRelr, StoreFaults, Crash, LinkFinish, RelrDone,
       RelroProtectFails, UnloadStart, ClearNeeded, AtClear, ClearFaults, Unload, Rest,
       LoadingFailed, LinkFailed
  <1>4. CASE alloc_mem_region
    BY <1>4, AllocSegs
  <1>5. CASE UNCHANGED vars \/ AppMap \/ LoadSegment \/ LoadRelro \/ LoadOther \/ Loaded
    <2>1. pc \in {"segments", "dynamic"}
      BY <1>1, <1>5 DEF vars, AppMap, LoadSegment, LoadRelro, LoadOther, Loaded, AtPhdr, SegmentsDone
    <2>2. SiOK /\ si \in Soinfo /\ i \in Nat
      BY <2>1 DEF TypeInv, TypeOK, SiOK
    <2>3. si'.file = si.file /\ si'.base = si.base
      <3>1. CASE LoadSegment
        <4>1. pc = "segments" /\ i <= Len(si.file.phdr) /\ si' = WrProtect(phdr)
          BY <3>1 DEF LoadSegment, AtPhdr
        <4>2. phdr \in Phdr
          BY <4>1, AtPhdrFacts
        <4>. QED
          BY <2>2, <4>1, <4>2, WrProtectFacts
      <3>2. CASE LoadRelro
        BY <2>2, <3>2 DEF LoadRelro, Soinfo
      <3>3. CASE ~LoadSegment /\ ~LoadRelro
        BY <1>5, <3>3 DEF vars, AppMap, LoadOther, Loaded
      <3>. QED
        BY <3>1, <3>2, <3>3
    <2>4. Conventional(si.file) /\ InRegion(si.file)
      BY <1>1, <2>3 DEF Conventional
    <2>5. RegionOK /\ \A k \in MappedSegs : ContentSeg(k)
      BY <2>1, <2>2, <2>4 DEF RegionInv, ContentInv
    <2>6. CASE LoadSegment
      BY <2>2, <2>4, <2>5, <2>6, LoadSegmentContent
    <2>7. CASE ~LoadSegment
      <3>1. word' = word
        BY <1>5, <2>7 DEF vars, AppMap, LoadRelro, LoadOther, Loaded
      <3>2. MappedSegs' = MappedSegs
        <4>1. CASE pc = "segments"
          <5>1. \/ pc' = pc /\ i' = i
                \/ (AtPhdr("RELRO") \/ AtPhdr("OTHER")) /\ pc' = pc /\ i' = i + 1
                \/ pc' # "segments" /\ i > Len(si.file.phdr)
            BY <1>5, <2>7 DEF vars, AppMap, LoadRelro, LoadOther, Loaded, SegmentsDone
          <5>. QED
            BY <2>2, <2>3, <2>4, <4>1, <5>1, MappedSame
        <4>2. CASE pc = "dynamic"
          <5>1. pc' = pc
            BY <1>5, <2>7, <4>2 DEF vars, AppMap, LoadRelro, LoadOther, Loaded, AtPhdr, SegmentsDone
          <5>. QED
            BY <2>3, <4>2, <5>1 DEF MappedSegs
        <4>. QED
          BY <2>1, <4>1, <4>2
      <3>3. ASSUME NEW k \in MappedSegs' PROVE ContentSeg(k)'
        <4>1. ContentSeg(k)
          BY <2>5, <3>2
        <4>. QED
          BY <2>3, <3>1, <4>1 DEF ContentSeg, ContentAt
      <3>. QED
        BY <3>3
    <2>. QED
      BY <2>6, <2>7
  <1>. QED
    BY <1>3, <1>4, <1>5

(* When apkenv_load_segments is done every word of every segment is what   *)
(* the file has for it, or zero from p_filesz to p_memsz, for every        *)
(* conventional file, wherever the kernel put it: a later segment never    *)
(* overwrites an earlier one, and the tail of a file page that belongs to  *)
(* the next segment is cleared.                                            *)
THEOREM SegmentsRight == Spec => []SegmentContents
  <1>1. TypeInv /\ ContentInv => SegmentContents
    <2>1. SUFFICES ASSUME TypeInv, ContentInv, pc = "dynamic", Conventional(si.file),
                          NEW k \in Loads(si.file), NEW w \in SegWordsOf(si.file, si.base, k)
                   PROVE  ContentAt(si.file.phdr[k], w)
      BY DEF SegmentContents, ContentAt
    <2>2. SiOK /\ k \in MappedSegs
      BY <2>1 DEF TypeInv, MappedSegs
    <2>. QED
      BY <2>1, <2>2 DEF ContentInv, ContentSeg
  <1>2. Init => ContentInv
    BY DEF Init, ContentInv
  <1>. QED
    BY <1>1, <1>2, InitType, NextType, InitRegion, NextRegion, NextContent, PTL DEF Spec

-----------------------------------------------------------------------------
(* Stores, for a conventional file whose stores are inside its segments.   *)

(* The decoder of the RELR table is where the encoder was.                 *)
RelrInStep == pc = "relr" => rbase = si.file.relrBase[i]
FaultInv ==
  SiOK /\ Conventional(si.file) /\ StoresInside(si.file) => pc # "crashed" /\ RelrInStep

LEMMA WritableAt ==
  ASSUME SiOK, Conventional(si.file), RegionOK, NEW k \in Loads(si.file), WritableSeg(k),
         NEW o, o \in SegWordsOf(si.file, 0, k)
  PROVE  Writable(si.base + o)
  <1>1. PICK h : h = si.file.phdr[k]
    OBVIOUS
  <1>2. h \in Phdr /\ si.base \in Nat /\ InRegion(si.file)
    BY <1>1, ConvFacts
  <1>3. h.vaddr \in Nat /\ SegEnd(h) \in Nat
    BY <1>2 DEF Phdr, SegEnd
  <1>4. o \in Words /\ o \in Nat /\ o % WORD = 0 /\ h.vaddr <= o /\ o < SegEnd(h)
    <2>1. o \in Words /\ 0 + h.vaddr <= o /\ o < 0 + SegEnd(h)
      BY <1>1 DEF SegWordsOf, Within
    <2>2. o \in Nat /\ o % WORD = 0
      BY <2>1, WordFacts
    <2>. QED
      BY <1>3, <2>1, <2>2
  <1>5. PICK a \in Nat : a = si.base + o
    BY <1>2, <1>4
  <1>6. a < si.base + SegEnd(h) /\ si.base + SegEnd(h) \in Nat
    BY <1>2, <1>3, <1>4, <1>5
  <1>7. /\ Start(k) = si.base + Down(h.vaddr) /\ Start(k) \in Nat /\ Down(h.vaddr) <= h.vaddr
        /\ Down(h.vaddr) \in Nat /\ End(k) = Up(si.base + SegEnd(h)) /\ End(k) \in Nat
    BY <1>1, <1>2, <1>3, SegAddrs, DivFacts DEF Start, End
  <1>8. Start(k) <= a
    BY <1>2, <1>3, <1>4, <1>5, <1>7
  <1>9. a < Up(si.base + SegEnd(h))
    BY <1>6, <1>7, UpFacts
  <1>10. a < NPages * PAGE_SIZE
    <2>1. End(k) <= si.base + si.size /\ si.base + si.size <= NPages * PAGE_SIZE
      BY <1>2, SegSpan DEF RegionOK
    <2>2. si.size \in Int /\ NPages * PAGE_SIZE \in Int
      BY SizeAssumption DEF SiOK, Soinfo
    <2>. QED
      BY <1>2, <1>5, <1>7, <1>9, <2>1, <2>2
  <1>11. a % WORD = 0
    <2>1. PICK b \in Nat : si.base = PAGE_SIZE * b
      BY SizeAssumption DEF RegionOK, Aligned, PageNos
    <2>. QED
      BY <1>4, <1>5, <2>1, WordShift
  <1>12. a \in Words
    <2>1. NPages * PAGE_SIZE \in Nat
      BY SizeAssumption
    <2>. QED
      BY <1>5, <1>10, <1>11, <2>1 DEF Words
  <1>13. PageOf(a) \in SegPagesOf(k)
    <2>1. PageOf(a) \in PageNos
      BY <1>12, WordFacts
    <2>2. PageOf(Start(k)) <= PageOf(a)
      BY <1>5, <1>7, <1>8, PageOfMonotone
    <2>3. PageOf(a) < PageOf(End(k))
      BY <1>5, <1>6, <1>7, <1>9, BelowBoundary
    <2>. QED
      BY <1>2, <2>1, <2>2, <2>3, SegSpan
  <1>. QED
    BY <1>5, <1>12, <1>13 DEF WritableSeg, Writable

(* Nothing the linker stores to is write-protected when it stores.         *)
LEMMA CannotFault ==
  ASSUME TypeInv, RegionInv, ConvInv, FaultInv, SiOK, Conventional(si.file), StoresInside(si.file)
  PROVE  ~StoreFaults /\ ~ClearFaults
  <1>1. si.file \in Files /\ si.base \in Nat /\ i \in Nat /\ i >= 1 /\ InRegion(si.file) /\ RegionOK
    BY ConvFacts DEF TypeInv, TypeOK, SiOK, RegionInv
  <1>3. /\ si.file.needed \in Seq(Nat) /\ si.file.rel \in Seq(Rel) /\ si.file.relr \in Seq(Nat)
    BY <1>1, FileAssumption
  <1>4. ASSUME pc \in {"dynamic", "needed", "reloc", "relr"}, NEW o \in Offsets(si.file) \cup Dynamics(si.file)
        PROVE  Writable(si.base + o)
    <2>1. PICK k \in Loads(si.file) : o \in SegWordsOf(si.file, 0, k)
      BY <1>4 DEF StoresInside
    <2>2. k \in MappedSegs /\ Unlinked /\ ConvOK
      BY <1>4 DEF MappedSegs, Unlinked, ConvInv, Active
    <2>3. WritableSeg(k)
      BY <2>2 DEF ConvOK, AllWritable
    <2>. QED
      BY <1>1, <2>1, <2>3, WritableAt
  <1>5. ASSUME AtDynamic, si.file.debug # NoDebug PROVE Writable(si.base + si.file.debug)
    BY <1>4, <1>5 DEF AtDynamic, Dynamics
  <1>6. ASSUME i <= Len(si.file.needed) PROVE si.file.needed[i] \in Dynamics(si.file)
    <2>1. i \in DOMAIN si.file.needed /\ si.file.needed[i] \in Nat
      BY <1>1, <1>3, <1>6
    <2>. QED
      BY <2>1 DEF Dynamics, NoDebug
  <1>7. ASSUME AtNeeded PROVE Writable(si.base + si.file.needed[i])
    BY <1>4, <1>6, <1>7 DEF AtNeeded
  <1>8. ASSUME AtReloc PROVE ~NullSymbol /\ Writable(reloc)
    <2>1. i \in DOMAIN si.file.rel
      BY <1>1, <1>3, <1>8 DEF AtReloc
    <2>2. rel.off \in Offsets(si.file) /\ (rel.type = "COPY" => rel.sym = "def")
      BY <2>1 DEF rel, Offsets, StoresInside
    <2>. QED
      BY <1>4, <1>8, <2>2 DEF AtReloc, reloc, NullSymbol
  <1>9. ASSUME AtRelr, NEW o \in EntryWords(entry, rbase) PROVE Writable(si.base + o)
    <2>1. i \in DOMAIN si.file.relr /\ pc = "relr"
      BY <1>1, <1>3, <1>9 DEF AtRelr
    <2>2. rbase = si.file.relrBase[i]
      BY <2>1 DEF FaultInv, RelrInStep
    <2>3. o \in si.file.relrSet
      BY <1>9, <2>1, <2>2 DEF StoresInside, entry
    <2>. QED
      BY <1>4, <2>1, <2>3 DEF Offsets
  <1>10. ASSUME AtClear PROVE Writable(si.base + si.file.needed[i])
    <2>1. pc = "unload" /\ si.file.needed[i] \in Dynamics(si.file)
      BY <1>6, <1>10 DEF AtClear
    <2>2. PICK k \in Loads(si.file) : si.file.needed[i] \in SegWordsOf(si.file, 0, k) /\ Has(k, "W")
      BY <2>1 DEF StoresInside, Has
    <2>3. WritableSeg(k)
      BY <2>1, <2>2 DEF ConvInv, ConvOK, DataWritable, Active
    <2>. QED
      BY <1>1, <2>2, <2>3, WritableAt
  <1>. QED
    BY <1>5, <1>7, <1>8, <1>9, <1>10 DEF StoreFaults, ClearFaults

LEMMA NextFault ==
  ASSUME TypeInv, RegionInv, ConvInv, FaultInv, TypeInv', [Next]_vars
  PROVE  FaultInv'
  <1>1. SUFFICES ASSUME SiOK', Conventional(si'.file), StoresInside(si'.file), pc' \in {"crashed", "relr"}
                 PROVE  pc' # "crashed" /\ RelrInStep'
    BY DEF FaultInv, RelrInStep
  <1>2. /\ UNCHANGED vars \/ AppMap \/ RelocDone \/ relocate_relr \/ StoreFaults \/ ClearFaults
        /\ si' = si /\ pc # "idle" /\ pc \in Active
    <2>1. UNCHANGED vars \/ AppMap \/ RelocDone \/ relocate_relr \/ StoreFaults \/ ClearFaults
      BY <1>1 DEF Next, vars, LoadFails, reserve_mem_region, alloc_mem_region, Reserved, AtPhdr, LoadSegment,
       SegmentFails, LoadRelro, RelroFails, LoadOther, TooLong, Loaded, SegmentsDone, MissingTables,
       Unsupported, ParseDynamic, AtDynamic, BindNeeded, AtNeeded, NeededDone, reloc_library, AtReloc,
       reloc_none, RelocFails, LinkFinish, RelroProtectFails, UnloadStart, ClearNeeded, AtClear, Unload, Rest,
       LoadingFailed, LinkFailed
    <2>. QED
      BY <1>1, <2>1 DEF vars, AppMap, RelocDone, relocate_relr, StoreFaults, ClearFaults, Crash, AtRelr, AtReloc,
         AtDynamic, AtNeeded, AtClear, Active
  <1>3. SiOK /\ Conventional(si.file) /\ StoresInside(si.file) /\ i \in Nat
    BY <1>1, <1>2 DEF TypeInv, TypeOK, Active
  <1>4. ~StoreFaults /\ ~ClearFaults /\ pc # "crashed" /\ RelrInStep
    BY <1>3, CannotFault DEF FaultInv
  <1>5. CASE UNCHANGED vars \/ AppMap
    BY <1>4, <1>5 DEF vars, AppMap, RelrInStep
  <1>6. CASE RelocDone
    <2>1. pc' = "relr" /\ i' = 1 /\ rbase' = 0 /\ si' = si
      BY <1>6 DEF RelocDone
    <2>. QED
      BY <1>3, <2>1 DEF RelrInStep, StoresInside
  <1>7. CASE relocate_relr
    <2>0. PICK n \in Nat : n = i
      BY <1>3
    <2>1. pc = "relr" /\ n <= Len(si.file.relr) /\ pc' = "relr" /\ i' = n + 1 /\ si' = si
      BY <1>7, <2>0 DEF relocate_relr, AtRelr
    <2>2. n \in DOMAIN si.file.relr
      <3>1. si.file \in Files /\ n >= 1
        BY <1>3, <2>0 DEF SiOK, Soinfo
      <3>2. si.file.relr \in Seq(Nat)
        BY <3>1, FileAssumption
      <3>. QED
        BY <2>1, <3>1, <3>2
    <2>3. rbase = si.file.relrBase[n]
      BY <1>4, <2>0, <2>1 DEF RelrInStep
    <2>4. rbase' = NextBase(si.file.relr[n], rbase)
      BY <1>7, <2>0 DEF relocate_relr, entry
    <2>5. rbase' = si.file.relrBase[n + 1]
      BY <1>3, <2>2, <2>3, <2>4 DEF StoresInside
    <2>. QED
      BY <2>1, <2>5 DEF RelrInStep
  <1>. QED
    BY <1>2, <1>4, <1>5, <1>6, <1>7

(* Loading, relocating and unloading never store into a page that is not   *)
(* writable, for every conventional file whose relocations, RELR words and *)
(* dynamic section lie in its segments: text stays writable until the last *)
(* relocation, and RELRO is writable again when DT_NEEDED is cleared, as   *)
(* long as no address is cut to 32 bits.                                   *)
THEOREM StoresNeverFault ==
  ASSUME NoTruncation
  PROVE  Spec => []NoFault
  <1>1. TypeInv /\ FaultInv => NoFault
    BY DEF TypeInv, FaultInv, NoFault
  <1>2. Init => FaultInv
    BY DEF Init, FaultInv, RelrInStep
  <1>. QED
    BY <1>1, <1>2, InitType, NextType, InitRegion, NextRegion, InitConv, NextConv, NextFault, PTL DEF Spec

-----------------------------------------------------------------------------
(* Relocation, for a file that names each word once.                       *)

(* How far the linker is: the DT_NEEDED entries, relocations and RELR      *)
(* entries it is done with, and whether DT_DEBUG is set.                   *)
Linking == {"dynamic", "needed", "reloc", "relr"}
Relocating == pc \in Linking \/ (pc = "loaded" /\ "LINKED" \in si.flags)
Count(p, later, n) == IF pc = p THEN i - 1 ELSE IF pc \in later THEN n ELSE 0
NeededSet == Count("needed", {"reloc", "relr", "loaded"}, Len(si.file.needed))
RelSet == Count("reloc", {"relr", "loaded"}, Len(si.file.rel))
RelrSet == Count("relr", {"loaded"}, Len(si.file.relr))
DebugSet == pc # "dynamic"

(* What the word at offset o holds then, v, when the file has old there,   *)
(* the library is at b and abi[n] is what relocation n makes of it.        *)
Bound(f, o, nd) == \E n \in 1 .. nd : f.needed[n] = o
Moved(f, o, rl) == \E n \in 1 .. rl : f.rel[n].off = o
Shifted(f, o, rr) == \E n \in 1 .. rr : o \in RelrWords(f, n)
Untouched(f, o, nd, dbg, rl, rr) ==
  ~Bound(f, o, nd) /\ ~(dbg /\ o = f.debug) /\ ~Moved(f, o, rl) /\ ~Shifted(f, o, rr)

WordRight(f, b, abi, o, old, v, nd, dbg, rl, rr) ==
  /\ Bound(f, o, nd) => v = SOINFO
  /\ dbg /\ o = f.debug /\ ~Bound(f, o, nd) => v = R_DEBUG
  /\ \A n \in 1 .. rl : f.rel[n].off = o => v = abi[n]
  /\ Shifted(f, o, rr) => v = old + b
  /\ Untouched(f, o, nd, dbg, rl, rr) => v = old

Abi(old) == [n \in DOMAIN si.file.rel |-> AbiValue(si.file.rel[n], old)]
WordNow(k, w) ==
  LET o == w - si.base
      old == FileContent(si.file, k, o)
  IN  old \in Int /\ WordRight(si.file, si.base, Abi(old), o, old, word[w], NeededSet, DebugSet, RelSet, RelrSet)

Progress ==
  /\ pc = "dynamic" => i = 1
  /\ pc = "needed" => i <= Len(si.file.needed) + 1
  /\ pc = "reloc" => i <= Len(si.file.rel) + 1
  /\ pc = "relr" => i <= Len(si.file.relr) + 1 /\ rbase = si.file.relrBase[i]
Relocatable(f) == Conventional(f) /\ AbiTypes(f) /\ Abs64OnZero(f) /\ NamedOnce(f)
RelocOK == Progress /\ \A k \in Loads(si.file) : \A w \in SegWordsOf(si.file, si.base, k) : WordNow(k, w)
RelocInv == SiOK /\ Relocatable(si.file) /\ Relocating => RelocOK

(* One more DT_NEEDED entry, relocation or RELR entry.                     *)
LEMMA GrowBound ==
  ASSUME NEW f, NEW b, NEW abi, NEW o, NEW old, NEW v, NEW v2, NEW n \in Nat,
         WordRight(f, b, abi, o, old, v, n, TRUE, 0, 0), v2 = (IF f.needed[n + 1] = o THEN SOINFO ELSE v)
  PROVE  WordRight(f, b, abi, o, old, v2, n + 1, TRUE, 0, 0)
  <1>1. Bound(f, o, n + 1) <=> Bound(f, o, n) \/ f.needed[n + 1] = o
    <2>1. \A m : m \in 1 .. n + 1 <=> m \in 1 .. n \/ m = n + 1
      OBVIOUS
    <2>. QED
      BY <2>1 DEF Bound
  <1>2. 1 .. 0 = {}
    OBVIOUS
  <1>3. ~Moved(f, o, 0) /\ ~Shifted(f, o, 0)
    BY <1>2 DEF Moved, Shifted
  <1>. QED
    BY <1>1, <1>2, <1>3 DEF WordRight, Untouched

LEMMA GrowMoved ==
  ASSUME NEW f, NEW b, NEW abi, NEW o, NEW old, NEW v, NEW v2, NEW nd, NEW n \in Nat,
         WordRight(f, b, abi, o, old, v, nd, TRUE, n, 0),
         f.rel[n + 1].off = o => Untouched(f, o, nd, TRUE, n, 0),
         v2 = (IF f.rel[n + 1].off = o THEN abi[n + 1] ELSE v)
  PROVE  WordRight(f, b, abi, o, old, v2, nd, TRUE, n + 1, 0)
  <1>1. \A m : m \in 1 .. n + 1 <=> m \in 1 .. n \/ m = n + 1
    OBVIOUS
  <1>2. Moved(f, o, n + 1) <=> Moved(f, o, n) \/ f.rel[n + 1].off = o
    BY <1>1 DEF Moved
  <1>3. ~Shifted(f, o, 0)
    <2>1. 1 .. 0 = {}
      OBVIOUS
    <2>. QED
      BY <2>1 DEF Shifted
  <1>4. CASE f.rel[n + 1].off = o
    <2>1. v2 = abi[n + 1] /\ ~Bound(f, o, nd) /\ o # f.debug /\ ~Moved(f, o, n)
      BY <1>4 DEF Untouched
    <2>2. \A m \in 1 .. n + 1 : f.rel[m].off = o => m = n + 1
      BY <1>1, <2>1 DEF Moved
    <2>. QED
      BY <1>2, <1>3, <1>4, <2>1, <2>2 DEF WordRight, Untouched
  <1>5. CASE f.rel[n + 1].off # o
    <2>1. v2 = v /\ (Moved(f, o, n + 1) <=> Moved(f, o, n))
      BY <1>2, <1>5
    <2>. QED
      BY <1>1, <1>5, <2>1 DEF WordRight, Untouched
  <1>. QED
    BY <1>4, <1>5

LEMMA GrowShifted ==
  ASSUME NEW f, NEW b, NEW abi, NEW o, NEW old, NEW v, NEW v2, NEW nd, NEW rl, NEW n \in Nat,
         WordRight(f, b, abi, o, old, v, nd, TRUE, rl, n),
         o \in RelrWords(f, n + 1) => Untouched(f, o, nd, TRUE, rl, n),
         v2 = (IF o \in RelrWords(f, n + 1) THEN old + b ELSE v)
  PROVE  WordRight(f, b, abi, o, old, v2, nd, TRUE, rl, n + 1)
  <1>1. \A m : m \in 1 .. n + 1 <=> m \in 1 .. n \/ m = n + 1
    OBVIOUS
  <1>2. Shifted(f, o, n + 1) <=> Shifted(f, o, n) \/ o \in RelrWords(f, n + 1)
    BY <1>1 DEF Shifted
  <1>4. CASE o \in RelrWords(f, n + 1)
    <2>1. v2 = old + b /\ ~Bound(f, o, nd) /\ o # f.debug /\ ~Moved(f, o, rl)
      BY <1>4 DEF Untouched
    <2>2. \A m \in 1 .. rl : f.rel[m].off # o
      BY <2>1 DEF Moved
    <2>. QED
      BY <1>2, <1>4, <2>1, <2>2 DEF WordRight, Untouched
  <1>5. CASE o \notin RelrWords(f, n + 1)
    <2>1. v2 = v /\ (Shifted(f, o, n + 1) <=> Shifted(f, o, n))
      BY <1>2, <1>5
    <2>. QED
      BY <1>5, <2>1 DEF WordRight, Untouched
  <1>. QED
    BY <1>4, <1>5

(* One relocation gives the word the value of the ABI.                     *)
LEMMA RelocIsAbi ==
  ASSUME NEW old \in Int, rel \in Rel, si.base \in Nat, arch \in AllArchs,
         word[reloc] = old, ~RelocRefused, ~NullSymbol, ~Skipped,
         rel.type \notin {"PREL64", "REL32"}, rel.type = "ABS64" => old = 0
  PROVE  /\ Terms(rel.type) # {"old"} => RelocValue = AbiValue(rel, old)
         /\ Terms(rel.type) = {"old"} => old = AbiValue(rel, old)
  <1>1. rel.off \in Nat /\ rel.S \in Nat /\ rel.add \in Int /\ rel.sym \in {"none", "def", "weak"} /\ reloc \in Nat
    BY DEF Rel, RelocRefused, reloc
  <1>2. rel.type = "RELATIVE" => rel.sym = "none"
    BY DEF RelocRefused
  <1>3. Terms(rel.type) # {} /\ ~RangeChecked(rel.type)
    BY DEF RelocRefused
  <1>4. PICK t : t = rel.type
    OBVIOUS
  <1>5. PICK s \in Nat : s = SymAddr
    BY <1>1 DEF SymAddr
  <1>6. s = (IF rel.sym = "def" THEN rel.S ELSE IF rel.sym = "weak" /\ t = "PC32" THEN reloc ELSE 0)
    BY <1>4, <1>5 DEF SymAddr
  <1>7. CASE arch = "aarch64"
    <2>1. Terms(t) = Terms_aarch64(t) /\ Rela
      BY <1>7 DEF Terms, Rela
    <2>2. t \notin {"ABS32", "ABS16", "PREL32", "PREL16", "NONE", "PREL64", "REL32"}
      BY <1>3, <1>4, <1>7, <2>1 DEF RangeChecked, Skipped
    <2>3. t \in {"JUMP_SLOT", "GLOB_DAT", "ABS64", "RELATIVE", "TLS"}
      BY <1>3, <1>4, <2>1, <2>2 DEF Terms_aarch64
    <2>. QED
      BY <1>1, <1>2, <1>4, <1>5, <1>6, <2>1, <2>3 DEF Terms_aarch64, RelocValue, AbiValue
  <1>8. CASE arch = "x86_64"
    <2>1. Terms(t) = Terms_x86_64(t) /\ Rela
      BY <1>8 DEF Terms, Rela
    <2>3. t \in {"JUMP_SLOT", "GLOB_DAT", "32", "64", "RELATIVE", "PC32"}
      BY <1>3, <1>4, <2>1 DEF Terms_x86_64
    <2>4. CASE t = "PC32"
      <3>1. Terms(t) = {"S", "A", "-P"}
        BY <2>1, <2>4 DEF Terms_x86_64
      <3>2. RelocValue = s + rel.add - reloc
        BY <1>1, <1>4, <1>5, <3>1 DEF RelocValue
      <3>3. AbiValue(rel, old) = IF rel.sym = "weak" THEN rel.add ELSE rel.add + (IF rel.sym = "def" THEN rel.S ELSE 0) - reloc
        BY <1>4, <2>1, <2>4 DEF AbiValue, reloc
      <3>4. Terms(t) # {"old"}
        BY <3>1
      <3>5. CASE rel.sym = "weak"
        <4>1. s = reloc
          BY <1>6, <2>4, <3>5
        <4>2. RelocValue = rel.add
          BY <1>1, <3>2, <4>1
        <4>. QED
          BY <1>4, <3>3, <3>4, <3>5, <4>2
      <3>6. CASE rel.sym # "weak"
        <4>1. s = (IF rel.sym = "def" THEN rel.S ELSE 0)
          BY <1>6, <3>6
        <4>2. AbiValue(rel, old) = rel.add + s - reloc
          BY <3>3, <3>6, <4>1
        <4>3. RelocValue = AbiValue(rel, old)
          BY <1>1, <3>2, <4>2
        <4>. QED
          BY <1>4, <3>4, <4>3
      <3>. QED
        BY <3>5, <3>6
    <2>5. CASE t # "PC32"
      BY <1>1, <1>2, <1>4, <1>5, <1>6, <2>1, <2>3, <2>5 DEF Terms_x86_64, RelocValue, AbiValue
    <2>. QED
      BY <2>4, <2>5
  <1>9. CASE arch = "arm"
    <2>1. Terms(t) = Terms_arm(t) /\ ~Rela
      BY <1>9 DEF Terms, Rela
    <2>3. t \in {"JUMP_SLOT", "GLOB_DAT", "ABS32", "RELATIVE", "COPY", "NONE"}
      BY <1>3, <1>4, <2>1 DEF Terms_arm
    <2>. QED
      BY <1>1, <1>2, <1>4, <1>5, <1>6, <2>1, <2>3 DEF Terms_arm, RelocValue, AbiValue, SymContent
  <1>10. CASE arch = "i386"
    <2>1. Terms(t) = Terms_i386(t) /\ ~Rela
      BY <1>10 DEF Terms, Rela
    <2>3. t \in {"JUMP_SLOT", "GLOB_DAT", "RELATIVE", "32", "PC32"}
      BY <1>3, <1>4, <2>1 DEF Terms_i386
    <2>. QED
      BY <1>1, <1>2, <1>4, <1>5, <1>6, <2>1, <2>3 DEF Terms_i386, RelocValue, AbiValue, reloc
  <1>. QED
    BY <1>7, <1>8, <1>9, <1>10 DEF AllArchs

(* Where a word of a segment is.                                           *)
LEMMA PlaceFacts ==
  ASSUME SiOK, Conventional(si.file), NEW k \in Loads(si.file), NEW w \in SegWordsOf(si.file, si.base, k)
  PROVE  /\ w \in Words /\ w \in Nat /\ si.base \in Nat /\ w - si.base \in Nat /\ si.file \in Files
         /\ Within(w - si.base, si.file.phdr[k].vaddr, SegEnd(si.file.phdr[k]))
         /\ \A o \in Int : si.base + o = w <=> o = w - si.base
  <1>1. PICK h \in Phdr : h = si.file.phdr[k]
    BY ConvFacts
  <1>2. si.base \in Nat /\ si.file \in Files /\ h.vaddr \in Nat /\ SegEnd(h) \in Nat
    BY <1>1, ConvFacts DEF Phdr, SegEnd
  <1>3. w \in Words /\ si.base + h.vaddr <= w /\ w < si.base + SegEnd(h)
    BY <1>1 DEF SegWordsOf, Within
  <1>4. w \in Nat
    BY <1>3, WordFacts
  <1>5. w - si.base \in Nat /\ h.vaddr <= w - si.base /\ w - si.base < SegEnd(h)
    BY <1>2, <1>3, <1>4
  <1>6. \A o \in Int : si.base + o = w <=> o = w - si.base
    BY <1>2, <1>4
  <1>. QED
    BY <1>1, <1>2, <1>3, <1>4, <1>5, <1>6 DEF Within

LEMMA StoreAt ==
  ASSUME NEW a, NEW v, Store(a, v), word \in [Words -> Int]
  PROVE  si' = si /\ page' = page /\ \A w \in Words : word'[w] = IF w = a THEN v ELSE word[w]
  BY DEF Store, Writable

(* The lists a file has.                                                   *)
LEMMA RelocLists ==
  ASSUME SiOK
  PROVE  /\ si.file \in Files /\ i >= 1
         /\ si.file.needed \in Seq(Nat) /\ si.file.rel \in Seq(Rel) /\ si.file.relr \in Seq(Nat)
         /\ si.file.debug \in Nat \cup {NoDebug}
         /\ Len(si.file.needed) \in Nat /\ Len(si.file.rel) \in Nat /\ Len(si.file.relr) \in Nat
         /\ DOMAIN si.file.needed = 1 .. Len(si.file.needed) /\ DOMAIN si.file.rel = 1 .. Len(si.file.rel)
         /\ DOMAIN si.file.relr = 1 .. Len(si.file.relr)
  <1>1. si.file \in Files /\ i >= 1
    BY DEF SiOK, Soinfo
  <1>2. /\ si.file.needed \in Seq(Nat) /\ si.file.rel \in Seq(Rel) /\ si.file.relr \in Seq(Nat)
        /\ si.file.debug \in Nat \cup {NoDebug}
    BY <1>1, FileAssumption
  <1>. QED
    BY <1>1, <1>2

(* The counters at each place.                                             *)
LEMMA Counts ==
  ASSUME i \in Nat
  PROVE  /\ pc = "dynamic" => NeededSet = 0 /\ RelSet = 0 /\ RelrSet = 0 /\ ~DebugSet
         /\ pc = "needed" => NeededSet = i - 1 /\ RelSet = 0 /\ RelrSet = 0 /\ DebugSet
         /\ pc = "reloc" => NeededSet = Len(si.file.needed) /\ RelSet = i - 1 /\ RelrSet = 0 /\ DebugSet
         /\ pc = "relr" => /\ NeededSet = Len(si.file.needed) /\ RelSet = Len(si.file.rel)
                           /\ RelrSet = i - 1 /\ DebugSet
         /\ pc = "loaded" => /\ NeededSet = Len(si.file.needed) /\ RelSet = Len(si.file.rel)
                             /\ RelrSet = Len(si.file.relr) /\ DebugSet
  BY DEF NeededSet, RelSet, RelrSet, DebugSet, Count

(* A word whose value did not change, while the counters did not either.   *)
LEMMA SameWord ==
  ASSUME NEW k, NEW w, WordNow(k, w), si'.file = si.file, si'.base = si.base, arch' = arch,
         word'[w] = word[w], NeededSet' = NeededSet, RelSet' = RelSet, RelrSet' = RelrSet, DebugSet' = DebugSet
  PROVE  WordNow(k, w)'
  <1>1. \A x : Abi(x)' = Abi(x)
    BY DEF Abi, AbiValue, Rela
  <1>2. PICK o : o = w - si.base
    OBVIOUS
  <1>3. PICK old : old = FileContent(si.file, k, o)
    OBVIOUS
  <1>4. old \in Int /\ WordRight(si.file, si.base, Abi(old), o, old, word[w], NeededSet, DebugSet, RelSet, RelrSet)
    BY <1>2, <1>3 DEF WordNow
  <1>5. Abi(old)' = Abi(old)
    BY <1>1
  <1>. QED
    BY <1>2, <1>3, <1>4, <1>5 DEF WordNow

(* The state the step lemmas start from.                                   *)
Here == TypeInv /\ SiOK /\ Relocatable(si.file) /\ RelocOK

LEMMA HereFacts ==
  ASSUME Here
  PROVE  /\ i \in Nat /\ word \in [Words -> Int] /\ arch \in AllArchs /\ Conventional(si.file) /\ NamedOnce(si.file)
         /\ AbiTypes(si.file) /\ Abs64OnZero(si.file) /\ si.base \in Nat /\ SiOK /\ Progress
  BY SizeAssumption DEF Here, TypeInv, TypeOK, SiOK, Soinfo, Relocatable, RelocOK

(* A word, its offset and what the file has for it.                        *)
LEMMA HereWord ==
  ASSUME Here, NEW k \in Loads(si.file), NEW w \in SegWordsOf(si.file, si.base, k), NEW o, o = w - si.base,
         NEW old, old = FileContent(si.file, k, o)
  PROVE  /\ w \in Words /\ o \in Nat /\ old \in Int /\ word[w] \in Int
         /\ Within(o, si.file.phdr[k].vaddr, SegEnd(si.file.phdr[k]))
         /\ \A x \in Int : si.base + x = w <=> x = o
         /\ WordRight(si.file, si.base, Abi(old), o, old, word[w], NeededSet, DebugSet, RelSet, RelrSet)
  <1>1. SiOK /\ Conventional(si.file) /\ word \in [Words -> Int]
    BY HereFacts
  <1>2. WordNow(k, w)
    BY DEF Here, RelocOK
  <1>3. /\ w \in Words /\ w - si.base \in Nat
        /\ Within(w - si.base, si.file.phdr[k].vaddr, SegEnd(si.file.phdr[k]))
        /\ \A x \in Int : si.base + x = w <=> x = w - si.base
    BY <1>1, PlaceFacts
  <1>4. old \in Int /\ WordRight(si.file, si.base, Abi(old), o, old, word[w], NeededSet, DebugSet, RelSet, RelrSet)
    BY <1>2 DEF WordNow
  <1>. QED
    BY <1>1, <1>3, <1>4

(* What is to be shown of a word after a step that leaves file, place and  *)
(* build alone.                                                            *)
LEMMA ThereWord ==
  ASSUME NEW k, NEW w, NEW o, o = w - si.base, NEW old \in Int, old = FileContent(si.file, k, o),
         si'.file = si.file, si'.base = si.base, arch' = arch,
         NEW v, v = word'[w], NEW nd, nd = NeededSet', NEW rl, rl = RelSet', NEW rr, rr = RelrSet', DebugSet',
         WordRight(si.file, si.base, Abi(old), o, old, v, nd, TRUE, rl, rr)
  PROVE  WordNow(k, w)'
  <1>1. Abi(old)' = Abi(old)
    BY DEF Abi, AbiValue, Rela
  <1>2. DebugSet' = TRUE
    BY DEF DebugSet
  <1>3. WordRight(si'.file, si'.base, Abi(old)', o, old, word'[w], NeededSet', DebugSet', RelSet', RelrSet')
    BY <1>1, <1>2
  <1>. QED
    BY <1>3 DEF WordNow

LEMMA ParseDynamicReloc ==
  ASSUME Here, ParseDynamic
  PROVE  RelocOK'
  <1>1. /\ pc = "dynamic" /\ pc' = "needed" /\ i' = i /\ i = 1 /\ arch' = arch
        /\ i \in Nat /\ word \in [Words -> Int]
    BY HereFacts DEF ParseDynamic, AtDynamic, Progress
  <1>2. /\ si' = si
        /\ \A w \in Words : word'[w] = IF si.file.debug # NoDebug /\ w = si.base + si.file.debug THEN R_DEBUG ELSE word[w]
    <2>1. CASE si.file.debug = NoDebug
      BY <2>1 DEF ParseDynamic
    <2>2. CASE si.file.debug # NoDebug
      BY <1>1, <2>2, StoreAt DEF ParseDynamic
    <2>. QED
      BY <2>1, <2>2
  <1>3. Progress'
    <2>1. Len(si.file.needed) \in Nat
      BY HereFacts, RelocLists
    <2>. QED
      BY <1>1, <1>2, <2>1 DEF Progress
  <1>4. NeededSet = 0 /\ RelSet = 0 /\ RelrSet = 0 /\ ~DebugSet /\ NeededSet' = 0 /\ RelSet' = 0 /\ RelrSet' = 0 /\ DebugSet'
    BY <1>1 DEF NeededSet, RelSet, RelrSet, DebugSet, Count
  <1>5. ASSUME NEW k \in Loads(si.file), NEW w \in SegWordsOf(si.file, si.base, k) PROVE WordNow(k, w)'
    <2>1. PICK o : o = w - si.base
      OBVIOUS
    <2>2. PICK old : old = FileContent(si.file, k, o)
      OBVIOUS
    <2>3. /\ w \in Words /\ o \in Nat /\ old \in Int
          /\ \A x \in Int : si.base + x = w <=> x = o
          /\ WordRight(si.file, si.base, Abi(old), o, old, word[w], NeededSet, DebugSet, RelSet, RelrSet)
      BY <2>1, <2>2, HereWord
    <2>4. si.file.debug \in Nat \cup {NoDebug} /\ NoDebug \in Int
      BY HereFacts, RelocLists DEF NoDebug
    <2>5. ~Bound(si.file, o, 0) /\ ~Moved(si.file, o, 0) /\ ~Shifted(si.file, o, 0)
      <3>1. 1 .. 0 = {}
        OBVIOUS
      <3>. QED
        BY <3>1 DEF Bound, Moved, Shifted
    <2>6. word[w] = old
      BY <1>4, <2>3, <2>5 DEF WordRight, Untouched
    <2>7. word'[w] = IF o = si.file.debug THEN R_DEBUG ELSE old
      <3>1. o = si.file.debug => si.file.debug # NoDebug
        BY <2>3 DEF NoDebug
      <3>. QED
        BY <1>2, <2>3, <2>4, <2>6, <3>1
    <2>8. PICK v : v = word'[w]
      OBVIOUS
    <2>9. WordRight(si.file, si.base, Abi(old), o, old, v, 0, TRUE, 0, 0)
      <3>1. 1 .. 0 = {}
        OBVIOUS
      <3>. QED
        BY <2>5, <2>7, <2>8, <3>1 DEF WordRight, Untouched
    <2>. QED
      BY <1>1, <1>2, <1>4, <2>1, <2>2, <2>3, <2>8, <2>9, ThereWord
  <1>. QED
    BY <1>2, <1>3, <1>5 DEF RelocOK

LEMMA BindNeededReloc ==
  ASSUME Here, BindNeeded
  PROVE  RelocOK'
  <1>1. /\ pc = "needed" /\ i <= Len(si.file.needed) /\ pc' = pc /\ i' = i + 1 /\ arch' = arch
        /\ i \in Nat /\ i >= 1 /\ word \in [Words -> Int] /\ Len(si.file.needed) \in Nat
    BY HereFacts, RelocLists DEF BindNeeded, AtNeeded
  <1>2. PICK n \in Nat : i = n + 1
    <2>1. i - 1 \in Nat /\ i = (i - 1) + 1
      BY <1>1
    <2>. QED
      BY <2>1
  <1>3. si' = si /\ \A w \in Words : word'[w] = IF w = si.base + si.file.needed[n + 1] THEN SOINFO ELSE word[w]
    BY <1>1, <1>2, StoreAt DEF BindNeeded
  <1>4. Progress'
    BY <1>1, <1>3 DEF Progress
  <1>5. NeededSet = n /\ RelSet = 0 /\ RelrSet = 0 /\ DebugSet = TRUE
    BY <1>1, <1>2 DEF NeededSet, RelSet, RelrSet, DebugSet, Count
  <1>6. NeededSet' = n + 1 /\ RelSet' = 0 /\ RelrSet' = 0 /\ DebugSet'
    BY <1>1, <1>2 DEF NeededSet, RelSet, RelrSet, DebugSet, Count
  <1>7. ASSUME NEW k \in Loads(si.file), NEW w \in SegWordsOf(si.file, si.base, k) PROVE WordNow(k, w)'
    <2>1. PICK o : o = w - si.base
      OBVIOUS
    <2>2. PICK old : old = FileContent(si.file, k, o)
      OBVIOUS
    <2>3. /\ w \in Words /\ o \in Nat /\ old \in Int
          /\ \A x \in Int : si.base + x = w <=> x = o
          /\ WordRight(si.file, si.base, Abi(old), o, old, word[w], NeededSet, DebugSet, RelSet, RelrSet)
      BY <2>1, <2>2, HereWord
    <2>4. si.file.needed[n + 1] \in Int
      <3>1. si.file.needed \in Seq(Nat) /\ n + 1 \in 1 .. Len(si.file.needed)
        BY <1>1, <1>2, HereFacts, RelocLists
      <3>. QED
        BY <3>1
    <2>5. PICK v : v = word'[w]
      OBVIOUS
    <2>6. v = IF si.file.needed[n + 1] = o THEN SOINFO ELSE word[w]
      BY <1>3, <2>3, <2>4, <2>5
    <2>7. WordRight(si.file, si.base, Abi(old), o, old, word[w], n, TRUE, 0, 0)
      BY <1>5, <2>3
    <2>8. WordRight(si.file, si.base, Abi(old), o, old, v, n + 1, TRUE, 0, 0)
      BY <2>6, <2>7, GrowBound
    <2>. QED
      BY <1>1, <1>3, <1>6, <2>1, <2>2, <2>3, <2>5, <2>8, ThereWord
  <1>. QED
    BY <1>3, <1>4, <1>7 DEF RelocOK

(* The steps between two lists, and the last one.                          *)
LEMMA BetweenReloc ==
  ASSUME Here, NeededDone \/ RelocDone \/ LinkFinish
  PROVE  RelocOK'
  <1>1. i \in Nat /\ SiOK /\ NamedOnce(si.file) /\ Progress
    BY HereFacts
  <1>2. si'.file = si.file /\ si'.base = si.base /\ word' = word /\ arch' = arch
    BY <1>1 DEF NeededDone, RelocDone, LinkFinish, SiOK, Soinfo
  <1>3. Len(si.file.needed) \in Nat /\ Len(si.file.rel) \in Nat /\ Len(si.file.relr) \in Nat
    BY <1>1, RelocLists
  <1>4. Progress'
    BY <1>1, <1>2, <1>3 DEF Progress, NeededDone, RelocDone, LinkFinish, NamedOnce
  <1>5. NeededSet' = NeededSet /\ RelSet' = RelSet /\ RelrSet' = RelrSet /\ DebugSet' = DebugSet
    <2>1. CASE NeededDone
      <3>1. pc = "needed" /\ pc' = "reloc" /\ i' = 1 /\ i - 1 = Len(si.file.needed)
        BY <1>1, <1>3, <2>1 DEF NeededDone, Progress
      <3>. QED
        BY <1>2, <3>1 DEF NeededSet, RelSet, RelrSet, DebugSet, Count
    <2>2. CASE RelocDone
      <3>1. pc = "reloc" /\ pc' = "relr" /\ i' = 1 /\ i - 1 = Len(si.file.rel)
        BY <1>1, <1>3, <2>2 DEF RelocDone, Progress
      <3>. QED
        BY <1>2, <3>1 DEF NeededSet, RelSet, RelrSet, DebugSet, Count
    <2>3. CASE LinkFinish
      <3>1. pc = "relr" /\ pc' = "loaded" /\ i - 1 = Len(si.file.relr)
        BY <1>1, <1>3, <2>3 DEF LinkFinish, RelrDone, Progress
      <3>. QED
        BY <1>2, <3>1 DEF NeededSet, RelSet, RelrSet, DebugSet, Count
    <2>. QED
      BY <2>1, <2>2, <2>3
  <1>6. ASSUME NEW k \in Loads(si.file), NEW w \in SegWordsOf(si.file, si.base, k) PROVE WordNow(k, w)'
    <2>1. WordNow(k, w)
      BY DEF Here, RelocOK
    <2>. QED
      BY <1>2, <1>5, <2>1, SameWord
  <1>. QED
    BY <1>2, <1>4, <1>6 DEF RelocOK

(* The words of the relocations and of the RELR table are named by nothing *)
(* else.                                                                   *)
LEMMA RelAlone ==
  ASSUME SiOK, NamedOnce(si.file), NEW n \in Nat, n + 1 \in DOMAIN si.file.rel, NEW o, o = si.file.rel[n + 1].off
  PROVE  Untouched(si.file, o, Len(si.file.needed), TRUE, n, 0)
  <1>1. /\ si.file.rel \in Seq(Rel) /\ DOMAIN si.file.needed = 1 .. Len(si.file.needed)
        /\ DOMAIN si.file.rel = 1 .. Len(si.file.rel) /\ Len(si.file.rel) \in Nat
        /\ si.file.debug \in Nat \cup {NoDebug} /\ si.file.needed \in Seq(Nat)
    BY RelocLists
  <1>2. o \in Nat
    <2>1. si.file.rel[n + 1] \in Rel
      BY <1>1
    <2>. QED
      BY <2>1 DEF Rel
  <1>3. o \in Offsets(si.file)
    BY DEF Offsets
  <1>4. o \notin Dynamics(si.file)
    BY <1>3 DEF NamedOnce
  <1>5. o # si.file.debug
    BY <1>2, <1>4 DEF Dynamics, NoDebug
  <1>6. ~Bound(si.file, o, Len(si.file.needed))
    <2>1. ASSUME NEW m \in 1 .. Len(si.file.needed), si.file.needed[m] = o PROVE FALSE
      <3>1. o # NoDebug
        BY <1>2 DEF NoDebug
      <3>2. m \in DOMAIN si.file.needed
        BY <1>1
      <3>3. o \in {si.file.needed[x] : x \in DOMAIN si.file.needed}
        BY <2>1, <3>2
      <3>. QED
        BY <1>4, <3>1, <3>3 DEF Dynamics
    <2>. QED
      BY <2>1 DEF Bound
  <1>7. ~Moved(si.file, o, n)
    <2>1. ASSUME NEW m \in 1 .. n, si.file.rel[m].off = o PROVE FALSE
      <3>1. m \in DOMAIN si.file.rel /\ m # n + 1
        BY <1>1
      <3>. QED
        BY <2>1, <3>1 DEF NamedOnce
    <2>. QED
      BY <2>1 DEF Moved
  <1>8. ~Shifted(si.file, o, 0)
    <2>1. 1 .. 0 = {}
      OBVIOUS
    <2>. QED
      BY <2>1 DEF Shifted
  <1>. QED
    BY <1>5, <1>6, <1>7, <1>8 DEF Untouched

LEMMA RelrAlone ==
  ASSUME SiOK, NamedOnce(si.file), NEW n \in Nat, n + 1 \in DOMAIN si.file.relr, NEW o \in Nat,
         o \in RelrWords(si.file, n + 1)
  PROVE  Untouched(si.file, o, Len(si.file.needed), TRUE, Len(si.file.rel), n)
  <1>1. /\ si.file.relr \in Seq(Nat) /\ DOMAIN si.file.needed = 1 .. Len(si.file.needed)
        /\ DOMAIN si.file.rel = 1 .. Len(si.file.rel)
        /\ DOMAIN si.file.relr = 1 .. Len(si.file.relr) /\ Len(si.file.relr) \in Nat
        /\ si.file.debug \in Nat \cup {NoDebug} /\ si.file.needed \in Seq(Nat)
    BY RelocLists
  <1>2. o \in si.file.relrSet
    BY DEF NamedOnce
  <1>3. o \in Offsets(si.file)
    BY <1>2 DEF Offsets
  <1>4. o \notin Dynamics(si.file)
    BY <1>3 DEF NamedOnce
  <1>5. o # si.file.debug
    BY <1>4 DEF Dynamics, NoDebug
  <1>6. ~Bound(si.file, o, Len(si.file.needed))
    <2>1. ASSUME NEW m \in 1 .. Len(si.file.needed), si.file.needed[m] = o PROVE FALSE
      <3>1. o # NoDebug
        BY DEF NoDebug
      <3>2. m \in DOMAIN si.file.needed
        BY <1>1
      <3>3. o \in {si.file.needed[x] : x \in DOMAIN si.file.needed}
        BY <2>1, <3>2
      <3>. QED
        BY <1>4, <3>1, <3>3 DEF Dynamics
    <2>. QED
      BY <2>1 DEF Bound
  <1>7. ~Moved(si.file, o, Len(si.file.rel))
    <2>1. ASSUME NEW m \in 1 .. Len(si.file.rel), si.file.rel[m].off = o PROVE FALSE
      BY <1>1, <1>2, <2>1 DEF NamedOnce
    <2>. QED
      BY <2>1 DEF Moved
  <1>8. ~Shifted(si.file, o, n)
    <2>1. ASSUME NEW m \in 1 .. n, o \in RelrWords(si.file, m) PROVE FALSE
      <3>1. m \in DOMAIN si.file.relr /\ m # n + 1
        BY <1>1
      <3>2. RelrWords(si.file, m) \cap RelrWords(si.file, n + 1) = {}
        BY <3>1 DEF NamedOnce
      <3>. QED
        BY <2>1, <3>2
    <2>. QED
      BY <2>1 DEF Shifted
  <1>. QED
    BY <1>5, <1>6, <1>7, <1>8 DEF Untouched

LEMMA RelocLibraryReloc ==
  ASSUME Here, reloc_library \/ reloc_none
  PROVE  RelocOK'
  <1>1. /\ pc = "reloc" /\ i <= Len(si.file.rel) /\ pc' = pc /\ i' = i + 1 /\ arch' = arch /\ rbase' = rbase
        /\ i \in Nat /\ i >= 1 /\ word \in [Words -> Int] /\ Len(si.file.rel) \in Nat
        /\ SiOK /\ NamedOnce(si.file) /\ AbiTypes(si.file) /\ Abs64OnZero(si.file)
        /\ si.base \in Nat /\ arch \in AllArchs
    BY HereFacts, RelocLists DEF reloc_library, reloc_none, AtReloc
  <1>2. PICK n \in Nat : i = n + 1
    <2>1. i - 1 \in Nat /\ i = (i - 1) + 1
      BY <1>1
    <2>. QED
      BY <2>1
  <1>3. n + 1 \in DOMAIN si.file.rel /\ rel = si.file.rel[n + 1] /\ rel \in Rel /\ rel.off \in Nat
    <2>1. si.file.rel \in Seq(Rel) /\ DOMAIN si.file.rel = 1 .. Len(si.file.rel)
      BY <1>1, RelocLists
    <2>2. n + 1 \in DOMAIN si.file.rel
      BY <1>1, <1>2, <2>1
    <2>3. rel = si.file.rel[n + 1] /\ rel \in Rel
      BY <1>2, <2>1, <2>2 DEF rel
    <2>. QED
      BY <2>2, <2>3 DEF Rel
  <1>4. /\ si' = si
        /\ \A w \in Words : word'[w] = IF w = reloc /\ reloc_library /\ Terms(rel.type) # {"old"} THEN RelocValue ELSE word[w]
    <2>1. CASE reloc_none
      <3>1. ~reloc_library
        BY <2>1 DEF reloc_none, reloc_library
      <3>. QED
        BY <2>1, <3>1 DEF reloc_none
    <2>2. CASE reloc_library
      <3>1. CASE Terms(rel.type) = {"old"}
        BY <2>2, <3>1 DEF reloc_library
      <3>2. CASE Terms(rel.type) # {"old"}
        <4>1. Store(reloc, RelocValue)
          BY <2>2, <3>2 DEF reloc_library
        <4>. QED
          BY <1>1, <2>2, <3>2, <4>1, StoreAt
      <3>. QED
        BY <3>1, <3>2
    <2>. QED
      BY <2>1, <2>2
  <1>5. Progress'
    BY <1>1, <1>4 DEF Progress
  <1>6. NeededSet = Len(si.file.needed) /\ RelSet = n /\ RelrSet = 0 /\ DebugSet = TRUE
    BY <1>1, <1>2 DEF NeededSet, RelSet, RelrSet, DebugSet, Count
  <1>7. NeededSet' = Len(si.file.needed) /\ RelSet' = n + 1 /\ RelrSet' = 0 /\ DebugSet'
    BY <1>1, <1>2, <1>4 DEF NeededSet, RelSet, RelrSet, DebugSet, Count
  <1>8. ASSUME NEW k \in Loads(si.file), NEW w \in SegWordsOf(si.file, si.base, k) PROVE WordNow(k, w)'
    <2>1. PICK o : o = w - si.base
      OBVIOUS
    <2>2. PICK old : old = FileContent(si.file, k, o)
      OBVIOUS
    <2>3. /\ w \in Words /\ o \in Nat /\ old \in Int
          /\ Within(o, si.file.phdr[k].vaddr, SegEnd(si.file.phdr[k]))
          /\ \A x \in Int : si.base + x = w <=> x = o
          /\ WordRight(si.file, si.base, Abi(old), o, old, word[w], NeededSet, DebugSet, RelSet, RelrSet)
      BY <2>1, <2>2, HereWord
    <2>4. w = reloc <=> rel.off = o
      BY <1>3, <2>3 DEF reloc
    <2>5. PICK v : v = word'[w]
      OBVIOUS
    <2>6. WordRight(si.file, si.base, Abi(old), o, old, word[w], Len(si.file.needed), TRUE, n, 0)
      BY <1>6, <2>3
    <2>7. si.file.rel[n + 1].off = o => Untouched(si.file, o, Len(si.file.needed), TRUE, n, 0)
      BY <1>1, <1>3, RelAlone
    <2>8. Abi(old)[n + 1] = AbiValue(rel, old)
      BY <1>3 DEF Abi
    <2>9. v = IF si.file.rel[n + 1].off = o THEN Abi(old)[n + 1] ELSE word[w]
      <3>1. CASE rel.off # o
        BY <1>3, <1>4, <2>3, <2>4, <2>5, <3>1
      <3>2. CASE rel.off = o
        <4>1. word[w] = old /\ w = reloc
          BY <1>3, <2>4, <2>6, <2>7, <3>2 DEF WordRight
        <4>2. rel.type \notin {"PREL64", "REL32"} /\ (rel.type = "ABS64" => old = 0)
          BY <1>1, <1>3, <2>2, <2>3, <3>2 DEF AbiTypes, Abs64OnZero
        <4>3. CASE reloc_library
          <5>1. ~RelocRefused /\ ~NullSymbol /\ ~Skipped
            BY <4>3 DEF reloc_library
          <5>2. /\ Terms(rel.type) # {"old"} => RelocValue = AbiValue(rel, old)
                /\ Terms(rel.type) = {"old"} => old = AbiValue(rel, old)
            BY <1>1, <1>3, <2>3, <4>1, <4>2, <5>1, RelocIsAbi
          <5>3. v = AbiValue(rel, old)
            BY <1>4, <2>3, <2>5, <4>1, <4>3, <5>2
          <5>. QED
            BY <1>3, <2>8, <3>2, <5>3
        <4>4. CASE reloc_none
          <5>1. rel.type = "NONE" /\ word' = word
            BY <4>4 DEF reloc_none, Skipped
          <5>2. AbiValue(rel, old) = old
            BY <5>1 DEF AbiValue
          <5>. QED
            BY <1>3, <2>5, <2>8, <3>2, <4>1, <5>1, <5>2
        <4>. QED
          BY <4>3, <4>4
      <3>. QED
        BY <3>1, <3>2
    <2>10. WordRight(si.file, si.base, Abi(old), o, old, v, Len(si.file.needed), TRUE, n + 1, 0)
      BY <2>6, <2>7, <2>9, GrowMoved
    <2>. QED
      BY <1>1, <1>4, <1>7, <2>1, <2>2, <2>3, <2>5, <2>10, ThereWord
  <1>. QED
    BY <1>4, <1>5, <1>8 DEF RelocOK

LEMMA RelocateRelrReloc ==
  ASSUME Here, relocate_relr
  PROVE  RelocOK'
  <1>1. /\ pc = "relr" /\ i <= Len(si.file.relr) /\ pc' = pc /\ i' = i + 1 /\ arch' = arch /\ si' = si
        /\ i \in Nat /\ i >= 1 /\ word \in [Words -> Int] /\ Len(si.file.relr) \in Nat
        /\ SiOK /\ NamedOnce(si.file) /\ si.base \in Nat
    BY HereFacts, RelocLists DEF relocate_relr, AtRelr
  <1>2. PICK n \in Nat : i = n + 1
    <2>1. i - 1 \in Nat /\ i = (i - 1) + 1
      BY <1>1
    <2>. QED
      BY <2>1
  <1>3. n + 1 \in DOMAIN si.file.relr /\ si.file.relr[n + 1] \in Nat
    <2>1. si.file.relr \in Seq(Nat) /\ DOMAIN si.file.relr = 1 .. Len(si.file.relr)
      BY <1>1, RelocLists
    <2>2. n + 1 \in DOMAIN si.file.relr
      BY <1>1, <1>2, <2>1
    <2>. QED
      BY <2>1, <2>2
  <1>4. rbase = si.file.relrBase[n + 1] /\ entry = si.file.relr[n + 1]
    BY <1>1, <1>2, HereFacts DEF Progress, entry
  <1>5. EntryWords(entry, rbase) = RelrWords(si.file, n + 1)
    BY <1>4 DEF EntryWords, RelrWords
  <1>6. Progress'
    <2>1. rbase' = si.file.relrBase[(n + 1) + 1]
      <3>1. rbase' = NextBase(si.file.relr[n + 1], si.file.relrBase[n + 1])
        BY <1>4 DEF relocate_relr
      <3>. QED
        BY <1>1, <1>3, <3>1 DEF NamedOnce, RelrNext, NextBase
    <2>2. i' = (n + 1) + 1
      BY <1>1, <1>2
    <2>. QED
      BY <1>1, <2>1, <2>2 DEF Progress
  <1>7. NeededSet = Len(si.file.needed) /\ RelSet = Len(si.file.rel) /\ RelrSet = n /\ DebugSet = TRUE
    BY <1>1, <1>2 DEF NeededSet, RelSet, RelrSet, DebugSet, Count
  <1>8. NeededSet' = Len(si.file.needed) /\ RelSet' = Len(si.file.rel) /\ RelrSet' = n + 1 /\ DebugSet'
    BY <1>1, <1>2 DEF NeededSet, RelSet, RelrSet, DebugSet, Count
  <1>9. ASSUME NEW k \in Loads(si.file), NEW w \in SegWordsOf(si.file, si.base, k) PROVE WordNow(k, w)'
    <2>1. PICK o : o = w - si.base
      OBVIOUS
    <2>2. PICK old : old = FileContent(si.file, k, o)
      OBVIOUS
    <2>3. /\ w \in Words /\ o \in Nat /\ old \in Int
          /\ \A x \in Int : si.base + x = w <=> x = o
          /\ WordRight(si.file, si.base, Abi(old), o, old, word[w], NeededSet, DebugSet, RelSet, RelrSet)
      BY <2>1, <2>2, HereWord
    <2>4. w \in {si.base + x : x \in RelrWords(si.file, n + 1)} <=> o \in RelrWords(si.file, n + 1)
      <3>1. RelrWords(si.file, n + 1) \subseteq Int
        <4>1. si.file.relrBase[n + 1] \in Int
          <5>1. si.file \in Files
            BY <1>1, RelocLists
          <5>2. si.file.relrBase \in Seq(Int) /\ Len(si.file.relrBase) = Len(si.file.relr) + 1
            BY <1>1, <5>1, FileAssumption DEF NamedOnce
          <5>3. n + 1 \in 1 .. Len(si.file.relrBase)
            BY <1>1, <1>2, <5>2
          <5>. QED
            BY <5>2, <5>3
        <4>2. ASSUME NEW j \in Int PROVE si.file.relrBase[n + 1] + (j - 1) * WORD \in Int
          <5>1. WORD \in Int
            BY SizeAssumption
          <5>2. (j - 1) * WORD \in Int
            BY <5>1
          <5>. QED
            BY <4>1, <5>2
        <4>3. \A j \in 1 .. RelrBits - 1 : j \in Int
          OBVIOUS
        <4>. QED
          BY <1>3, <4>2, <4>3 DEF RelrWords
      <3>. QED
        BY <2>3, <3>1
    <2>5. PICK v : v = word'[w]
      OBVIOUS
    <2>6. WordRight(si.file, si.base, Abi(old), o, old, word[w], Len(si.file.needed), TRUE, Len(si.file.rel), n)
      BY <1>7, <2>3
    <2>7. o \in RelrWords(si.file, n + 1) => Untouched(si.file, o, Len(si.file.needed), TRUE, Len(si.file.rel), n)
      BY <1>1, <1>3, <2>3, RelrAlone
    <2>8. v = IF o \in RelrWords(si.file, n + 1) THEN old + si.base ELSE word[w]
      <3>1. v = IF w \in {si.base + x : x \in RelrWords(si.file, n + 1)} THEN word[w] + si.base ELSE word[w]
        BY <1>5, <2>3, <2>5 DEF relocate_relr
      <3>2. o \in RelrWords(si.file, n + 1) => word[w] = old
        BY <2>6, <2>7 DEF WordRight
      <3>. QED
        BY <2>4, <3>1, <3>2
    <2>9. WordRight(si.file, si.base, Abi(old), o, old, v, Len(si.file.needed), TRUE, Len(si.file.rel), n + 1)
      BY <2>6, <2>7, <2>8, GrowShifted
    <2>. QED
      BY <1>1, <1>8, <2>1, <2>2, <2>3, <2>5, <2>9, ThereWord
  <1>. QED
    BY <1>1, <1>6, <1>9 DEF RelocOK

LEMMA LoadedReloc ==
  ASSUME TypeInv, ContentInv, SiOK, Relocatable(si.file), Loaded
  PROVE  RelocOK'
  <1>1. /\ pc = "segments" /\ i > Len(si.file.phdr) /\ pc' = "dynamic" /\ i' = 1
        /\ si' = si /\ word' = word /\ arch' = arch /\ i \in Nat /\ word \in [Words -> Int]
    BY DEF Loaded, SegmentsDone, TypeInv, TypeOK
  <1>2. Progress'
    BY <1>1 DEF Progress
  <1>3. Conventional(si.file)
    BY DEF Relocatable
  <1>4. ASSUME NEW k \in Loads(si.file), NEW w \in SegWordsOf(si.file, si.base, k) PROVE WordNow(k, w)'
    <2>1. k \in MappedSegs
      <3>1. /\ k \in DOMAIN si.file.phdr /\ DOMAIN si.file.phdr = 1 .. Len(si.file.phdr)
            /\ Len(si.file.phdr) \in Nat
        BY <1>3, ConvFacts, FileFacts
      <3>. QED
        BY <1>1, <3>1 DEF MappedSegs
    <2>2. ContentAt(si.file.phdr[k], w)
      BY <1>1, <1>3, <2>1 DEF ContentInv, ContentSeg
    <2>3. PICK h \in Phdr : h = si.file.phdr[k]
      BY <1>3, ConvFacts
    <2>4. w \in Words /\ w \in Nat /\ si.base \in Nat /\ h.vaddr \in Nat /\ h.off \in Nat
      BY <1>3, <2>3, PlaceFacts DEF Phdr
    <2>5. PICK o : o = w - si.base
      OBVIOUS
    <2>6. o - h.vaddr = w - si.base - h.vaddr /\ h.off + o - h.vaddr = h.off + (w - si.base - h.vaddr)
      BY <2>4, <2>5
    <2>7. PICK old : old = FileContent(si.file, k, o)
      OBVIOUS
    <2>8. word[w] = old /\ old \in Int
      <3>1. word[w] = IF o - h.vaddr < h.filesz THEN si.file.content[h.off + o - h.vaddr] ELSE 0
        BY <2>2, <2>3, <2>6 DEF ContentAt
      <3>. QED
        BY <1>1, <2>3, <2>4, <2>7, <3>1 DEF FileContent
    <2>9. NeededSet' = 0 /\ RelSet' = 0 /\ RelrSet' = 0 /\ DebugSet' = FALSE
      BY <1>1 DEF NeededSet, RelSet, RelrSet, DebugSet, Count
    <2>10. PICK abi : abi = Abi(old)'
      OBVIOUS
    <2>11. WordRight(si.file, si.base, abi, o, old, word[w], 0, FALSE, 0, 0)
      <3>1. 1 .. 0 = {}
        OBVIOUS
      <3>2. ~Bound(si.file, o, 0) /\ ~Moved(si.file, o, 0) /\ ~Shifted(si.file, o, 0)
        BY <3>1 DEF Bound, Moved, Shifted
      <3>. QED
        BY <2>8, <3>1, <3>2 DEF WordRight
    <2>12. WordRight(si'.file, si'.base, Abi(old)', o, old, word'[w], NeededSet', DebugSet', RelSet', RelrSet')
      BY <1>1, <2>9, <2>10, <2>11
    <2>. QED
      BY <1>1, <2>5, <2>7, <2>8, <2>12 DEF WordNow
  <1>. QED
    BY <1>1, <1>2, <1>4 DEF RelocOK

(* No flag is set before the image is done.                                *)
FlagInv == pc \in Linking \cup {"segments"} => si.flags = {}

LEMMA NextFlag ==
  ASSUME TypeInv, FlagInv, [Next]_vars
  PROVE  FlagInv'
  <1>1. SUFFICES ASSUME pc' \in Linking \cup {"segments"} PROVE si'.flags = {}
    BY DEF FlagInv
  <1>2. CASE alloc_mem_region \/ reserve_mem_region
    BY <1>2 DEF alloc_mem_region, reserve_mem_region, Reserved
  <1>3. CASE LoadSegment
    <2>1. pc = "segments" /\ i <= Len(si.file.phdr) /\ si' = WrProtect(phdr)
      BY <1>3 DEF LoadSegment, AtPhdr
    <2>2. phdr \in Phdr /\ si \in Soinfo
      BY <2>1, AtPhdrFacts DEF TypeInv, SiOK
    <2>. QED
      BY <2>1, <2>2, WrProtectFacts DEF FlagInv
  <1>4. CASE LoadRelro
    <2>1. pc = "segments" /\ si \in Soinfo
      BY <1>4 DEF LoadRelro, AtPhdr, TypeInv, SiOK
    <2>. QED
      BY <1>4, <2>1 DEF LoadRelro, FlagInv, Soinfo
  <1>5. CASE ~(alloc_mem_region \/ reserve_mem_region \/ LoadSegment \/ LoadRelro)
    <2>1. si' = si /\ pc \in Linking \cup {"segments"}
      BY <1>1, <1>5 DEF Next, vars, AppMap, LoadFails, AtPhdr, SegmentFails, RelroFails, LoadOther, TooLong, Loaded,
         SegmentsDone, MissingTables, Unsupported, ParseDynamic, AtDynamic, BindNeeded, AtNeeded, NeededDone,
         reloc_library, AtReloc, reloc_none, RelocFails, RelocDone, relocate_relr, AtRelr, StoreFaults, Crash,
         LinkFinish, RelrDone, RelroProtectFails, UnloadStart, ClearNeeded, AtClear, ClearFaults, Unload, Rest,
         LoadingFailed, LinkFailed, Store, Linking
    <2>. QED
      BY <2>1 DEF FlagInv
  <1>. QED
    BY <1>2, <1>3, <1>4, <1>5

LEMMA NextReloc ==
  ASSUME TypeInv, ContentInv, FlagInv, RelocInv, TypeInv', [Next]_vars
  PROVE  RelocInv'
  <1>1. SUFFICES ASSUME SiOK', Relocatable(si'.file), Relocating' PROVE RelocOK'
    BY DEF RelocInv
  <1>2. \/ UNCHANGED vars \/ AppMap
        \/ Loaded \/ ParseDynamic \/ BindNeeded \/ NeededDone \/ reloc_library \/ reloc_none \/ RelocDone
        \/ relocate_relr \/ LinkFinish
    <2>1. ~Unsupported
      <3>1. ASSUME Unsupported PROVE FALSE
        <4>1. si'.flags = {} /\ pc' = "loaded"
          BY <3>1 DEF Unsupported, FlagInv, Linking
        <4>. QED
          BY <1>1, <4>1 DEF Relocating, Linking
      <3>. QED
        BY <3>1
    <2>. QED
      BY <1>1, <2>1 DEF Relocating, Linking, Next, vars, LoadFails, AtPhdr, LoadSegment, SegmentFails, LoadRelro,
         RelroFails, LoadOther, TooLong, MissingTables, RelocFails, StoreFaults, Crash, RelroProtectFails,
         UnloadStart, ClearNeeded, AtClear, ClearFaults, Unload, Rest, LoadingFailed, LinkFailed,
         reserve_mem_region, alloc_mem_region, Reserved
  <1>3. si'.file = si.file /\ si'.base = si.base /\ (pc \in Linking \/ UNCHANGED vars \/ AppMap \/ Loaded)
    <2>1. CASE LinkFinish
      <3>1. si \in Soinfo /\ pc = "relr"
        BY <2>1 DEF LinkFinish, RelrDone, TypeInv, SiOK
      <3>. QED
        BY <2>1, <3>1 DEF LinkFinish, Soinfo, Linking
    <2>2. CASE ~LinkFinish
      BY <1>2, <2>2 DEF vars, AppMap, Loaded, ParseDynamic, AtDynamic, BindNeeded, AtNeeded, NeededDone, reloc_library,
         AtReloc, reloc_none, RelocDone, relocate_relr, AtRelr, Store, Linking
    <2>. QED
      BY <2>1, <2>2
  <1>4. CASE Loaded
    <2>1. SiOK
      BY <1>4 DEF Loaded, SegmentsDone, TypeInv
    <2>. QED
      BY <1>1, <1>3, <1>4, <2>1, LoadedReloc
  <1>5. CASE UNCHANGED vars \/ AppMap
    <2>1. si' = si /\ word' = word /\ arch' = arch /\ pc' = pc /\ i' = i /\ rbase' = rbase
      BY <1>5 DEF vars, AppMap
    <2>2. SiOK /\ Relocatable(si.file) /\ Relocating
      BY <1>1, <2>1 DEF SiOK, Relocating
    <2>3. RelocOK
      BY <2>2 DEF RelocInv
    <2>4. NeededSet' = NeededSet /\ RelSet' = RelSet /\ RelrSet' = RelrSet /\ DebugSet' = DebugSet
      BY <2>1 DEF NeededSet, RelSet, RelrSet, DebugSet, Count
    <2>5. ASSUME NEW k \in Loads(si.file), NEW w \in SegWordsOf(si.file, si.base, k) PROVE WordNow(k, w)'
      <3>1. WordNow(k, w)
        BY <2>3 DEF RelocOK
      <3>. QED
        BY <2>1, <2>4, <3>1, SameWord
    <2>6. Progress'
      BY <2>1, <2>3 DEF RelocOK, Progress
    <2>. QED
      BY <2>1, <2>5, <2>6 DEF RelocOK
  <1>6. CASE pc \in Linking
    <2>1. SiOK
      BY <1>6 DEF Linking, TypeInv
    <2>2. Here
      BY <1>1, <1>3, <1>6, <2>1 DEF Here, RelocInv, Relocating
    <2>. QED
      BY <1>2, <1>4, <1>5, <2>2, ParseDynamicReloc, BindNeededReloc, BetweenReloc, RelocLibraryReloc, RelocateRelrReloc
  <1>. QED
    BY <1>3, <1>4, <1>5, <1>6

LEMMA RelocImplies ==
  ASSUME TypeInv, RelocInv, \A f \in Files : NamedOnce(f)
  PROVE  RelocatedOnce
  <1>0. SUFFICES ASSUME pc = "loaded", "LINKED" \in si.flags, Conventional(si.file), AbiTypes(si.file), Abs64OnZero(si.file),
                        NEW k \in Loads(si.file), NEW w \in SegWordsOf(si.file, si.base, k)
                 PROVE  LET f == si.file
                            o == w - si.base
                            old == FileContent(f, k, o)
                            rs == {n \in DOMAIN f.rel : f.rel[n].off = o}
                        IN  word[w] = IF \E n \in DOMAIN f.needed : f.needed[n] = o THEN SOINFO
                                      ELSE IF o = f.debug THEN R_DEBUG
                                      ELSE IF rs # {} THEN AbiValue(f.rel[Max(rs)], old)
                                      ELSE IF o \in f.relrSet THEN old + si.base ELSE old
    BY Zenon DEF RelocatedOnce
  <1>a. PICK o : o = w - si.base
    OBVIOUS
  <1>b. PICK old : old = FileContent(si.file, k, o)
    OBVIOUS
  <1>c. PICK rs : rs = {n \in DOMAIN si.file.rel : si.file.rel[n].off = o}
    OBVIOUS
  <1>1. SUFFICES word[w] = IF \E n \in DOMAIN si.file.needed : si.file.needed[n] = o THEN SOINFO
                           ELSE IF o = si.file.debug THEN R_DEBUG
                           ELSE IF rs # {} THEN AbiValue(si.file.rel[Max(rs)], old)
                           ELSE IF o \in si.file.relrSet THEN old + si.base ELSE old
    BY <1>a, <1>b, <1>c, Zenon
  <1>2. SiOK /\ si.file \in Files
    BY <1>0, <1>a, <1>b, <1>c DEF TypeInv, SiOK, Soinfo
  <1>3. Here /\ NamedOnce(si.file)
    BY <1>0, <1>a, <1>b, <1>c, <1>2 DEF Here, Relocatable, Relocating, RelocInv
  <1>4. NeededSet = Len(si.file.needed) /\ RelSet = Len(si.file.rel) /\ RelrSet = Len(si.file.relr) /\ DebugSet = TRUE
    BY <1>0, <1>a, <1>b, <1>c DEF NeededSet, RelSet, RelrSet, DebugSet, Count
  <1>5. WordRight(si.file, si.base, Abi(old), o, old, word[w], Len(si.file.needed), TRUE, Len(si.file.rel), Len(si.file.relr))
    <2>1. WordRight(si.file, si.base, Abi(old), o, old, word[w], NeededSet, DebugSet, RelSet, RelrSet)
      BY <1>0, <1>a, <1>b, <1>c, <1>3, HereWord
    <2>. QED
      BY <1>4, <2>1
  <1>6. /\ DOMAIN si.file.needed = 1 .. Len(si.file.needed) /\ DOMAIN si.file.rel = 1 .. Len(si.file.rel)
        /\ DOMAIN si.file.relr = 1 .. Len(si.file.relr) /\ Len(si.file.rel) \in Nat
    BY <1>2, RelocLists
  <1>7. Bound(si.file, o, Len(si.file.needed)) <=> \E n \in DOMAIN si.file.needed : si.file.needed[n] = o
    BY <1>6 DEF Bound
  <1>8. Shifted(si.file, o, Len(si.file.relr)) <=> o \in si.file.relrSet
    BY <1>3, <1>6 DEF Shifted, NamedOnce
  <1>9. Moved(si.file, o, Len(si.file.rel)) <=> rs # {}
    BY <1>0, <1>a, <1>b, <1>c, <1>6 DEF Moved
  <1>10. rs # {} => /\ Max(rs) \in DOMAIN si.file.rel /\ si.file.rel[Max(rs)].off = o
                    /\ word[w] = AbiValue(si.file.rel[Max(rs)], old)
    <2>1. SUFFICES ASSUME rs # {} PROVE /\ Max(rs) \in DOMAIN si.file.rel /\ si.file.rel[Max(rs)].off = o
                                        /\ word[w] = AbiValue(si.file.rel[Max(rs)], old)
      OBVIOUS
    <2>2. rs \subseteq Int /\ IsFiniteSet(rs)
      <3>1. IsFiniteSet(1 .. Len(si.file.rel))
        BY <1>6, FS_Interval
      <3>2. rs \subseteq 1 .. Len(si.file.rel)
        BY <1>0, <1>a, <1>b, <1>c, <1>6
      <3>3. IsFiniteSet(rs)
        BY <3>1, <3>2, FS_Subset
      <3>4. 1 .. Len(si.file.rel) \subseteq Int
        BY <1>6
      <3>. QED
        BY <3>2, <3>3, <3>4
    <2>3. PICK m : m = Max(rs) /\ m \in rs
      BY <2>1, <2>2, MaxFacts
    <2>4. m \in DOMAIN si.file.rel /\ si.file.rel[m].off = o
      BY <1>0, <1>a, <1>b, <1>c, <2>3
    <2>5. word[w] = Abi(old)[m]
      BY <1>5, <1>6, <2>4 DEF WordRight
    <2>. QED
      BY <2>3, <2>4, <2>5 DEF Abi
  <1>11. ~(\E n \in DOMAIN si.file.needed : si.file.needed[n] = o) /\ o = si.file.debug => word[w] = R_DEBUG
    BY <1>5, <1>7 DEF WordRight
  <1>. QED
    BY <1>5, <1>7, <1>8, <1>9, <1>10, <1>11 DEF WordRight, Untouched

(* A linked image is relocated exactly once, for every build and every     *)
(* conventional file that names each of its words once, has no PREL64 and  *)
(* no REL32, and has zero where an R_AARCH64_ABS64 is applied: whatever    *)
(* the order of DT_DEBUG, DT_NEEDED, relocations and RELR entries, no step *)
(* touches the word of another one, each word gets the value the ABI gives *)
(* it, and the RELR decoder moves exactly the words its table encodes.     *)
THEOREM RelocatedExactlyOnce ==
  ASSUME \A f \in Files : NamedOnce(f)
  PROVE  Spec => []RelocatedOnce
  <1>1. Init => ContentInv /\ FlagInv /\ RelocInv
    BY DEF Init, ContentInv, FlagInv, RelocInv, SiOK, Relocating, Linking
  <1>2. TypeInv /\ RelocInv => RelocatedOnce
    BY RelocImplies
  <1>. QED
    BY <1>1, <1>2, InitType, NextType, InitRegion, NextRegion, NextContent, NextFlag, NextReloc, PTL DEF Spec
=============================================================================
