-------------------------- MODULE LinkerRefProofs ---------------------------
(***************************************************************************)
(* References in Linker, for any libraries, threads and pool size: the     *)
(* refcounts are exact, what is referred to is loaded, names are unique,   *)
(* no library stays behind between calls, and destructors run only when    *)
(* nothing refers to the library any more.                                 *)
(***************************************************************************)
EXTENDS LinkerProofs, FiniteSetTheorems

-----------------------------------------------------------------------------
(* The inductive invariant.                                                *)

Live(s) == s \in Elems(solist) /\ so[s].mapped /\ ~so[s].error

\* dlopen searches and links its way down, and then calls constructors;
\* dlclose unloads.  A search is on top of the stack, or has become a link.
FrameShape(k) ==
    LET f == stack[k]
    IN  /\ f.fn \in {"dlopen", "dlclose"} <=> k = 1
        /\ f.fn = "unload" <=> k > 1 /\ stack[1].fn = "dlclose"
        /\ f.fn = "unload" /\ k < Len(stack) => f.i > 0
        /\ f.fn \in {"find", "link"} <=> k > 1 /\ stack[1].fn = "dlopen" /\ stack[1].si = NULL
        /\ f.fn = "find" => k = Len(stack) /\ ~ret.done
        /\ f.fn \in {"ctor", "selfwait"} <=> k > 1 /\ stack[1].fn = "dlopen" /\ stack[1].si # NULL

Shape ==
    /\ lock = None => stack = << >>
    /\ \A k \in 1..Len(stack) : FrameShape(k)

\* A result is waiting for the dlopen or link that asked for it.
RetOK ==
    ret.done => /\ stack # << >>
                /\ Top.fn = "link" \/ (Top.fn = "dlopen" /\ Top.si = NULL)
                /\ ret.si # NULL => Live(ret.si)

\* A soinfo that is being linked is not referred to yet; its entries are
\* bound up to i.
Linking(k) == stack[k].fn = "link"
LinkOK(k, s) ==
    /\ Live(s) /\ ~so[s].linked /\ so[s].refcount = 0
    /\ ret.done => ret.si # s
    /\ k < Len(stack) \/ ret.done => stack[k].i <= Len(so[s].needed)
    /\ \A j \in DOMAIN so[s].needed : j >= stack[k].i => so[s].needed[j] \notin Slots

LinksOK == \A k \in 1..Len(stack) : Linking(k) => LinkOK(k, stack[k].si)

LinksApart == \A j, k \in 1..Len(stack) : Linking(j) /\ Linking(k) /\ stack[j].si = stack[k].si => j = k

\* The soinfo a dlopen will return, and those whose constructors run.
OpenOK ==
    \A k \in 1..Len(stack) :
        stack[k].fn \in {"dlopen", "ctor", "selfwait"} /\ stack[k].si # NULL => Live(stack[k].si)

\* unload_library past its start works on the last reference, and has
\* cleared the entries below i.
UnloadsOK ==
    \A k \in 1..Len(stack) : stack[k].fn = "unload" /\ stack[k].i > 0 =>
        LET s == stack[k].si
        IN  /\ so[s].refcount = 1
            /\ \A n \in DOMAIN so[s].needed : n < stack[k].i => so[s].needed[n] \notin Slots

\* What is referred to is live; what is not in the list refers to nothing.
SlotsOK ==
    \A s \in Slots :
        /\ so[s].refcount > 0 => Live(s)
        /\ s \in Elems(solist) /\ ~so[s].error => so[s].mapped
        /\ s \notin Elems(solist) => \A n \in DOMAIN so[s].needed : so[s].needed[n] \notin Slots

\* A library nobody refers to has failed, or is on its way to a caller.
Claimed(s) ==
    \/ s = Libdl \/ so[s].error \/ so[s].refcount > 0
    \/ \E k \in 1..Len(stack) : stack[k].fn \in {"link", "dlopen"} /\ stack[k].si = s
    \/ ret.done /\ ret.si = s

ClaimsOK == \A s \in Elems(solist) : Claimed(s)

\* The owner of the lock is in a call.
LockOK == lock # None => req[lock] # None

RefInv ==
    /\ TypeInv /\ PoolPartition /\ ~so[Libdl].error
    /\ LockOK /\ Shape /\ RetOK /\ LinksOK /\ LinksApart /\ OpenOK /\ UnloadsOK /\ SlotsOK
    /\ RefcountExact /\ ClaimsOK /\ UniqueNames

-----------------------------------------------------------------------------
(* References are finitely many.                                           *)

\* The pairs of a slot and one of its DT_NEEDED entries.
LEMMA AllEntriesFinite ==
    ASSUME TypeInv
    PROVE  IsFiniteSet(UNION {{u} \X (1..Len(so[u].needed)) : u \in Slots})
<1> DEFINE f == [u \in Slots |-> {u} \X (1..Len(so[u].needed))]
           R == {f[u] : u \in Slots}
<1>1. IsFiniteSet(Slots)
  <2>1. SO_MAX \in Int /\ 1 \in Int
    BY ConstantsAssumption
  <2>2. IsFiniteSet(1..SO_MAX)
    BY <2>1, FS_Interval
  <2>3. IsFiniteSet({Libdl})
    BY FS_Singleton
  <2>4. QED
    BY <2>2, <2>3, FS_Union DEF Slots, Pool
<1>2. \A u \in Slots : IsFiniteSet({u} \X (1..Len(so[u].needed)))
  <2> TAKE u \in Slots
  <2>1. Len(so[u].needed) \in Nat
    BY DEF TypeInv, TypeOK, Soinfo
  <2>2. IsFiniteSet(1..Len(so[u].needed))
    BY <2>1, FS_Interval
  <2>3. IsFiniteSet({u})
    BY FS_Singleton
  <2>4. QED
    BY <2>2, <2>3, FS_Product
<1>3. f \in Surjection(Slots, R)
  BY DEF Surjection
<1>4. IsFiniteSet(R)
  BY <1>1, <1>3, FS_Surjection
<1>5. \A T \in R : IsFiniteSet(T)
  BY <1>2
<1>6. IsFiniteSet(UNION R)
  <2> HIDE DEF R
  <2> QED BY <1>4, <1>5, FS_UNION
<1>7. UNION R = UNION {{u} \X (1..Len(so[u].needed)) : u \in Slots}
  OBVIOUS
<1>8. QED
  BY <1>6, <1>7

\* The references to a soinfo are finitely many, so they can be counted.
LEMMA RefsFinite ==
    ASSUME TypeInv
    PROVE  \A s \in Slots :
              /\ IsFiniteSet(Closing(s)) /\ Cardinality(Closing(s)) \in Nat
              /\ IsFiniteSet(NeededRefs(s)) /\ Cardinality(NeededRefs(s)) \in Nat
              /\ IsFiniteSet(UnloadFrames(s)) /\ Cardinality(UnloadFrames(s)) \in Nat
              /\ handles[s] \in Nat /\ so[s].refcount \in Int
<1> TAKE s \in Slots
<1>1. IsFiniteSet(Closing(s))
  <2>1. Closing(s) \in SUBSET Threads
    BY DEF Closing
  <2>2. QED
    BY <2>1, ConstantsAssumption, FS_Subset
<1>2. IsFiniteSet(NeededRefs(s))
  <2>1. \A u \in Slots : Entries(u, s) \subseteq 1..Len(so[u].needed)
    BY DEF Entries, TypeInv, TypeOK, Soinfo
  <2>2. NeededRefs(s) \in SUBSET UNION {{u} \X (1..Len(so[u].needed)) : u \in Slots}
    BY <2>1 DEF NeededRefs
  <2>3. QED
    BY <2>2, AllEntriesFinite, FS_Subset
<1>3. IsFiniteSet(UnloadFrames(s))
  <2>1. UnloadFrames(s) \in SUBSET (1..Len(stack)) /\ Len(stack) \in Nat
    BY DEF UnloadFrames, TypeInv, TypeOK
  <2>2. IsFiniteSet(1..Len(stack))
    BY <2>1, FS_Interval
  <2>3. QED
    BY <2>1, <2>2, FS_Subset
<1>4. handles[s] \in Nat /\ so[s].refcount \in Int
  BY DEF TypeInv, TypeOK, Soinfo
<1>5. QED
  BY <1>1, <1>2, <1>3, <1>4, FS_CardinalityType

\* A reference is counted; the last one is alone.
LEMMA Counted ==
    ASSUME TypeInv, RefcountExact, NEW s \in Slots
    PROVE  /\ so[s].refcount >= 0
           /\ handles[s] > 0 \/ Closing(s) # {} \/ NeededRefs(s) # {} \/ UnloadFrames(s) # {}
              => so[s].refcount > 0
           /\ so[s].refcount = 1 /\ UnloadFrames(s) # {}
              => handles[s] = 0 /\ Closing(s) = {} /\ NeededRefs(s) = {} /\ Cardinality(UnloadFrames(s)) = 1
           /\ so[s].refcount = 0
              => handles[s] = 0 /\ Closing(s) = {} /\ NeededRefs(s) = {} /\ UnloadFrames(s) = {}
<1>1. PICK c \in Nat, n \in Nat, f \in Nat : /\ c = Cardinality(Closing(s)) /\ n = Cardinality(NeededRefs(s))
                                            /\ f = Cardinality(UnloadFrames(s))
  BY RefsFinite
<1>2. (c = 0 <=> Closing(s) = {}) /\ (n = 0 <=> NeededRefs(s) = {}) /\ (f = 0 <=> UnloadFrames(s) = {})
  BY <1>1, RefsFinite, FS_EmptySet
<1>3. so[s].refcount = handles[s] + c + n + f /\ handles[s] \in Nat
  BY <1>1, RefsFinite DEF RefcountExact
<1>4. QED
  BY <1>1, <1>2, <1>3

\* A reference by an entry is a pair of a slot and the entry's number.
LEMMA RefMember ==
    \A d, x : x \in NeededRefs(d) <=> \E u \in Slots : \E k \in Entries(u, d) : x = <<u, k>>
<1> TAKE d, x
<1>1. NeededRefs(d) = UNION {{<<u, k>> : k \in Entries(u, d)} : u \in Slots}
  BY DEF NeededRefs
<1>2. ASSUME NEW u \in Slots, NEW k \in Entries(u, d) PROVE <<u, k>> \in NeededRefs(d)
  <2>1. PICK T : T = {<<u, j>> : j \in Entries(u, d)}
    OBVIOUS
  <2>2. <<u, k>> \in T
    BY <2>1
  <2>3. T \in {{<<v, j>> : j \in Entries(v, d)} : v \in Slots}
    BY <2>1
  <2>4. QED
    BY <1>1, <2>2, <2>3
<1>3. ASSUME x \in NeededRefs(d) PROVE \E u \in Slots : \E k \in Entries(u, d) : x = <<u, k>>
  <2>1. PICK u \in Slots : x \in {<<u, k>> : k \in Entries(u, d)}
    BY <1>1, <1>3
  <2>2. QED
    BY <2>1
<1>4. QED
  BY <1>2, <1>3

\* The same after a step.
LEMMA RefMemberNext ==
    \A d, x : x \in NeededRefs(d)' <=> \E u \in Slots : \E k \in Entries(u, d)' : x = <<u, k>>
<1> TAKE d, x
<1>1. NeededRefs(d)' = UNION {{<<u, k>> : k \in Entries(u, d)'} : u \in Slots}
  BY DEF NeededRefs
<1>2. ASSUME NEW u \in Slots, NEW k \in Entries(u, d)' PROVE <<u, k>> \in NeededRefs(d)'
  <2>1. PICK T : T = {<<u, j>> : j \in Entries(u, d)'}
    OBVIOUS
  <2>2. <<u, k>> \in T
    BY <2>1
  <2>3. T \in {{<<v, j>> : j \in Entries(v, d)'} : v \in Slots}
    BY <2>1
  <2>4. QED
    BY <1>1, <2>2, <2>3
<1>3. ASSUME x \in NeededRefs(d)' PROVE \E u \in Slots : \E k \in Entries(u, d)' : x = <<u, k>>
  <2>1. PICK u \in Slots : x \in {<<u, k>> : k \in Entries(u, d)'}
    BY <1>1, <1>3
  <2>2. QED
    BY <2>1
<1>4. QED
  BY <1>2, <1>3

-----------------------------------------------------------------------------
(* The stack.                                                              *)

\* The activation on top, and its place.
LEMMA OnTop ==
    ASSUME RefInv, NEW fn, Running(fn)
    PROVE  \E n \in Nat : /\ n = Len(stack) /\ n >= 1 /\ stack[n] = Top /\ stack[n].fn = fn /\ FrameShape(n)
                          /\ stack \in Seq(Frame) /\ stack # << >> /\ lock \in Threads
                          /\ Top \in Frame /\ Top.i \in Nat
                          /\ (fn \in {"dlopen", "dlclose"} <=> n = 1)
                          /\ (fn \in {"link", "ctor", "unload", "dlclose"} => Top.si \in Slots)
                          /\ (fn = "link" => Top.si \in Pool)
<1>1. stack \in Seq(Frame) /\ Len(stack) \in Nat /\ stack # << >>
  BY DEF RefInv, TypeInv, TypeOK, Running
<1>2. Len(stack) >= 1 /\ stack[Len(stack)] = Top /\ Top.fn = fn
  BY <1>1 DEF Running, Top
<1>3. FrameShape(Len(stack))
  BY <1>1, <1>2 DEF RefInv, Shape
<1>4. Top \in Frame /\ Top.i \in Nat
  BY <1>1, <1>2 DEF Frame
<1>5. /\ lock \in Threads
      /\ fn \in {"link", "ctor", "unload", "dlclose"} => Top.si \in Slots
      /\ fn = "link" => Top.si \in Pool
  BY TopFrame DEF RefInv
<1>6. QED
  BY <1>1, <1>2, <1>3, <1>4, <1>5 DEF FrameShape

\* Ending an activation other than the first.
LEMMA PopShape ==
    ASSUME RefInv, NEW fn, Running(fn), fn \notin {"dlopen", "dlclose"}, Pop, lock' = lock
    PROVE  /\ Shape' /\ Len(stack) >= 2 /\ Len(stack') = Len(stack) - 1 /\ Len(stack) \in Nat
           /\ \A k \in 1..Len(stack') : stack'[k] = stack[k] /\ k \in 1..Len(stack) /\ k # Len(stack)
           /\ stack'[Len(stack')].fn # "find"
           /\ (fn \in {"find", "link"} =>
                 stack'[Len(stack')].fn = "link" \/ (stack'[Len(stack')].fn = "dlopen" /\ stack'[Len(stack')].si = NULL))
           /\ stack' # << >>
<1>1. PICK n \in Nat : n = Len(stack) /\ n >= 1 /\ stack[n].fn = fn /\ stack \in Seq(Frame) /\ stack # << >> /\ n # 1
                       /\ lock \in Threads
  BY OnTop
<1>2. /\ stack' \in Seq(Frame) /\ Len(stack') = n - 1
      /\ \A k \in 1..(n - 1) : stack'[k] = stack[k]
  BY <1>1, PopType
<1>3. \A k \in 1..n : FrameShape(k)
  BY <1>1 DEF RefInv, Shape
<1>4. \A k \in 1..(n - 1) : stack[k].fn # "find"
  BY <1>1, <1>3 DEF FrameShape
<1>5. \A k \in 1..(n - 1) : FrameShape(k)'
  BY <1>1, <1>2, <1>3, <1>4 DEF FrameShape
<1>6. Shape'
  BY <1>1, <1>2, <1>5, ConstantsAssumption DEF Shape
<1>7. fn \in {"find", "link"} => stack[n - 1].fn = "link" \/ (stack[n - 1].fn = "dlopen" /\ stack[n - 1].si = NULL)
  BY <1>1, <1>3, <1>4 DEF FrameShape
<1>8. stack' # << >>
  BY <1>1, <1>2
<1>9. QED
  BY <1>1, <1>2, <1>4, <1>6, <1>7, <1>8

\* Nothing that is counted changes.
LEMMA SameRefs ==
    ASSUME RefInv, \A u \in Slots : so'[u].refcount = so[u].refcount,
           \A u, d \in Slots : Entries(u, d)' = Entries(u, d),
           \A d \in Slots : UnloadFrames(d)' = UnloadFrames(d),
           UNCHANGED <<req, lock, handles>>
    PROVE  RefcountExact'
<1>1. \A d \in Slots : NeededRefs(d)' = NeededRefs(d)
  BY DEF NeededRefs
<1>2. \A d \in Slots : Closing(d)' = Closing(d)
  BY DEF Closing
<1>3. QED
  BY <1>1, <1>2 DEF RefInv, RefcountExact

\* apkenv_libdl_info is always in the list.
LEMMA LibdlListed ==
    ASSUME RefInv
    PROVE  Libdl \in Elems(solist) /\ Live(Libdl)
<1>1. solist \in Seq(Slots) /\ solist # << >> /\ solist[1] = Libdl
  BY DEF RefInv, TypeInv, TypeOK, PoolPartition
<1>2. 1 \in DOMAIN solist
  BY <1>1
<1>3. Libdl \in Elems(solist)
  BY <1>1, <1>2 DEF Elems
<1>4. QED
  BY <1>3, SlotFacts DEF RefInv, SlotsOK, Live

\* The soinfos in the list do not change, and no soinfo gains a reference.
ListedSame ==
    /\ solist' = solist
    /\ \A u \in Slots :
          /\ u \in Elems(solist) => so'[u] = so[u]
          /\ so'[u].refcount = so[u].refcount
          /\ u \notin Elems(solist) => \A k \in DOMAIN so'[u].needed : so'[u].needed[k] \notin Slots

\* A search, a link or a constructor call ends and changes no listed soinfo.
LEMMA QuietPop ==
    ASSUME RefInv, TypeInv', PoolPartition', NEW fn, Running(fn), fn \in {"find", "ctor", "link"}, Pop,
           ListedSame, UNCHANGED <<lock, req, handles>>,
           fn = "ctor" => ret' = ret,
           fn = "link" => ~ret.done /\ ret'.done /\ ret'.si = Top.si,
           fn = "find" => ret'.done /\ (ret'.si # NULL => Live(ret'.si) /\ so[ret'.si].linked)
    PROVE  RefInv'
<1>0. PICK n \in Nat : /\ n = Len(stack) /\ n >= 1 /\ stack[n] = Top /\ stack[n].fn = fn /\ FrameShape(n)
                       /\ stack \in Seq(Frame) /\ n \in 1..Len(stack)
  BY OnTop
<1>1. /\ Shape' /\ n >= 2 /\ Len(stack') = n - 1
      /\ \A k \in 1..Len(stack') : stack'[k] = stack[k] /\ k \in 1..Len(stack) /\ k # n
      /\ (fn \in {"find", "link"} =>
             stack'[Len(stack')].fn = "link" \/ (stack'[Len(stack')].fn = "dlopen" /\ stack'[Len(stack')].si = NULL))
      /\ stack' # << >>
  BY <1>0, PopShape
<1>2. /\ Elems(solist)' = Elems(solist) /\ Elems(solist) \subseteq Slots
      /\ \A u \in Elems(solist) : so'[u] = so[u] /\ u \in Slots
      /\ Libdl \in Elems(solist) /\ ~so'[Libdl].error
  <2>1. Elems(solist)' = Elems(solist) /\ Elems(solist) \subseteq Slots
    BY DEF ListedSame, Elems, RefInv, TypeInv, TypeOK
  <2>2. Libdl \in Elems(solist)
    BY LibdlListed
  <2>3. QED
    BY <2>1, <2>2 DEF ListedSame, RefInv
<1>3. \A s : Live(s)' <=> Live(s)
  BY <1>2 DEF Live
<1>4. stack' \in Seq(Frame) /\ so \in [Slots -> Soinfo]
  BY DEF TypeInv, TypeOK, RefInv
<1>5. fn = "ctor" => ~ret.done
  BY <1>0 DEF RefInv, RetOK
<1>6. RetOK'
  <2> SUFFICES ASSUME ret'.done PROVE RetOK'
    BY DEF RetOK
  <2>1. fn \in {"find", "link"}
    BY <1>5
  <2>2. Top'.fn = "link" \/ (Top'.fn = "dlopen" /\ Top'.si = NULL)
    BY <1>1, <2>1 DEF Top
  <2>3. ASSUME NEW r, r = ret'.si, r # NULL PROVE Live(r)
    <3>1. CASE fn = "find"
      BY <2>3, <3>1
    <3>2. CASE fn = "link"
      BY <1>0, <2>3, <3>2 DEF RefInv, LinksOK, Linking, LinkOK
    <3>3. QED
      BY <2>1, <3>1, <3>2
  <2>4. (ret.si # NULL => Live(ret.si))'
    BY <1>3, <2>3 DEF Live
  <2>5. QED
    BY <1>1, <2>2, <2>4 DEF RetOK
<1>7. LinksOK'
  <2> SUFFICES ASSUME NEW k \in 1..Len(stack'), stack'[k].fn = "link", NEW s, s = stack'[k].si
               PROVE  LinkOK(k, s)'
    BY DEF LinksOK, Linking
  <2>0. stack'[k] = stack[k] /\ k \in 1..Len(stack) /\ k # n
    BY <1>1
  <2>1. /\ stack'[k] = stack[k] /\ k \in 1..Len(stack) /\ k < Len(stack) /\ stack[k].fn = "link" /\ k # n
        /\ s = stack[k].si
    BY <1>0, <2>0
  <2>2. LinkOK(k, s)
    BY <2>1 DEF RefInv, LinksOK, Linking
  <2>3. ret'.done => ret'.si # s
    <3>1. CASE fn = "link"
      BY <1>0, <2>1, <3>1 DEF RefInv, LinksApart, Linking
    <3>2. CASE fn = "find"
      <4>1. s # NULL /\ ~so[s].linked
        BY <2>1, <2>2, SlotFacts DEF LinkOK, RefInv, TypeInv, FramesOK, FrameOK
      <4>2. QED
        BY <3>2, <4>1
    <3>3. CASE fn = "ctor"
      BY <1>5, <3>3
    <3>4. QED
      BY <3>1, <3>2, <3>3
  <2>4. QED
    <3>1. so'[s] = so[s]
      BY <1>2, <2>2 DEF LinkOK, Live
    <3>2. QED
      BY <1>3, <2>1, <2>2, <2>3, <3>1 DEF LinkOK
<1>8. LinksApart' /\ OpenOK'
  BY <1>1, <1>3 DEF RefInv, LinksApart, OpenOK, Linking, Live
<1>9. UnloadsOK'
  <2>1. \A k \in 1..Len(stack) : stack[k].fn # "unload"
    BY <1>0, <1>1 DEF RefInv, Shape, FrameShape
  <2>2. QED
    BY <1>1, <2>1 DEF UnloadsOK
<1>10. SlotsOK'
  BY <1>2, <1>3 DEF RefInv, SlotsOK, ListedSame
<1>11. UniqueNames'
  <2>1. \A u \in Elems(solist) : name(u)' = name(u)
    BY <1>2 DEF name
  <2>2. QED
    BY <1>2, <2>1 DEF RefInv, UniqueNames
<1>12. RefcountExact'
  <2>1. \A u, d \in Slots : Entries(u, d)' = Entries(u, d)
    <3> TAKE u, d \in Slots
    <3>1. CASE u \in Elems(solist)
      BY <1>2, <3>1 DEF Entries
    <3>2. CASE u \notin Elems(solist)
      BY <3>2 DEF Entries, ListedSame, RefInv, SlotsOK
    <3>3. QED
      BY <3>1, <3>2
  <2>2. \A s : UnloadFrames(s)' = UnloadFrames(s)
    <3>1. DOMAIN stack = 1..n /\ DOMAIN stack' = 1..(n - 1)
      BY <1>0, <1>1, <1>4
    <3>2. QED
      BY <1>0, <1>1, <3>1 DEF UnloadFrames
  <2>3. QED
    BY <2>1, <2>2, SameRefs DEF ListedSame
<1>13. ClaimsOK'
  <2> SUFFICES ASSUME NEW s \in Elems(solist) PROVE Claimed(s)'
    BY <1>2 DEF ClaimsOK
  <2>1. Claimed(s)
    BY DEF RefInv, ClaimsOK
  <2>2. ~ret.done
    BY <1>0, <1>1, <1>5 DEF RefInv, RetOK, FrameShape
  <2>3. ASSUME NEW k \in 1..Len(stack), stack[k].fn \in {"link", "dlopen"}, stack[k].si = s
        PROVE  Claimed(s)'
    <3>1. CASE k = n
      BY <1>0, <1>1, <2>3, <3>1 DEF Claimed, FrameShape
    <3>2. CASE k # n
      BY <1>0, <1>1, <2>3, <3>2 DEF Claimed
    <3>3. QED
      BY <3>1, <3>2
  <2>4. QED
    BY <1>2, <2>1, <2>2, <2>3 DEF Claimed
<1>14. QED
  BY <1>1, <1>2, <1>6, <1>7, <1>8, <1>9, <1>12, <1>13, <1>10, <1>11 DEF RefInv, LockOK

\* In particular when the lists and the soinfos stay as they are.
LEMMA LibSame ==
    ASSUME RefInv, UNCHANGED lib
    PROVE  ListedSame
  BY DEF RefInv, SlotsOK, ListedSame, lib

\* The searches, loads and constructor calls that end without a change.
LEMMA QuietSteps ==
    ASSUME RefInv, TypeInv', PoolPartition',
           FindLoaded \/ FindElsewhere \/ LoadFail \/ LinkUnsupported \/ CtorAgain \/ CtorRun
    PROVE  RefInv'
<1>1. CASE FindLoaded
  <2>0. PICK s : s = CHOOSE m \in Matches : TRUE
    OBVIOUS
  <2>1. s \in Matches /\ ret' = Returns(IF so[s].error \/ ~so[s].linked THEN NULL ELSE s)
    <3>1. Matches # {}
      BY <1>1 DEF FindLoaded
    <3>2. s \in Matches
      BY <2>0, <3>1
    <3>3. QED
      BY <1>1, <2>0, <3>2 DEF FindLoaded
  <2>2. s \in Elems(solist) /\ s \in Slots
    BY <2>1 DEF Matches, RefInv, TypeInv, TypeOK, Elems
  <2>3. so[s].linked /\ ~so[s].error => Live(s)
    BY <2>2 DEF RefInv, SlotsOK, Live
  <2>4. ret'.done /\ (ret'.si # NULL => ret'.si = s /\ so[s].linked /\ ~so[s].error)
    BY <2>1 DEF Returns
  <2>5. ret'.done /\ (ret'.si # NULL => Live(ret'.si) /\ so[ret'.si].linked)
    BY <2>3, <2>4
  <2>6. Running("find") /\ Pop /\ UNCHANGED <<lib, lock, req, handles>>
    BY <1>1 DEF FindLoaded, hist
  <2>7. QED
    BY <2>5, <2>6, LibSame, QuietPop
<1>2. CASE FindElsewhere \/ LoadFail
  <2>1. Running("find") /\ Pop /\ UNCHANGED <<lib, lock, req, handles>> /\ ret'.done /\ ret'.si = NULL
    BY <1>2 DEF FindElsewhere, LoadFail, Loading, hist, Returns
  <2>2. QED
    BY <2>1, LibSame, QuietPop
<1>3. CASE LinkUnsupported
  <2>1. /\ Running("link") /\ Pop /\ UNCHANGED <<lib, lock, req, handles>> /\ ~ret.done
        /\ ret'.done /\ ret'.si = Top.si
    BY <1>3 DEF LinkUnsupported, LinkStart, hist, Returns
  <2>2. QED
    BY <2>1, LibSame, QuietPop
<1>4. CASE CtorAgain \/ CtorRun
  <2>1. Running("ctor") /\ Pop /\ UNCHANGED <<lib, lock, req, handles>> /\ ret' = ret
    BY <1>4 DEF CtorAgain, CtorRun, CtorDone, hist
  <2>2. QED
    BY <2>1, LibSame, QuietPop
<1>5. QED
  BY <1>1, <1>2, <1>3, <1>4

\* The lists, and of a soinfo what the references depend on, do not change.
SameLib ==
    /\ solist' = solist
    /\ \A u \in Slots :
          /\ so'[u].path = so[u].path /\ so'[u].needed = so[u].needed
          /\ so'[u].linked = so[u].linked /\ so'[u].error = so[u].error
          /\ so'[u].mapped = so[u].mapped /\ so'[u].refcount = so[u].refcount

\* What follows of the invariant when nothing of that changes.
LEMMA SameLibKept ==
    ASSUME RefInv, SameLib
    PROVE  /\ \A s \in Slots : Live(s)' <=> Live(s)
           /\ ~so'[Libdl].error /\ SlotsOK' /\ UniqueNames'
           /\ \A u, d \in Slots : Entries(u, d)' = Entries(u, d)
           /\ Elems(solist)' = Elems(solist) /\ Elems(solist) \subseteq Slots
<1>1. Elems(solist)' = Elems(solist) /\ Elems(solist) \subseteq Slots
  BY DEF SameLib, Elems, RefInv, TypeInv, TypeOK
<1>2. \A s \in Slots : Live(s)' <=> Live(s)
  BY <1>1 DEF SameLib, Live
<1>3. ~so'[Libdl].error
  BY SlotFacts DEF SameLib, RefInv
<1>4. SlotsOK'
  BY <1>1, <1>2 DEF SameLib, RefInv, SlotsOK
<1>5. \A s \in Slots : name(s)' = name(s)
  BY DEF SameLib, name
<1>6. UniqueNames'
  BY <1>1, <1>5 DEF RefInv, UniqueNames
<1>7. \A u, d \in Slots : Entries(u, d)' = Entries(u, d)
  BY DEF SameLib, Entries
<1>8. QED
  BY <1>1, <1>2, <1>3, <1>4, <1>6, <1>7

\* While constructors run there is no search, link or unload on the stack.
LEMMA CtorPhase ==
    ASSUME RefInv, Running("ctor")
    PROVE  /\ ~ret.done /\ Len(stack) \in Nat /\ Len(stack) >= 2 /\ lock \in Threads /\ Top = stack[Len(stack)]
           /\ stack[1].fn = "dlopen" /\ stack[1].si # NULL /\ Top.si \in Slots /\ Live(Top.si)
           /\ \A k \in 1..Len(stack) : k > 1 => stack[k].fn \in {"ctor", "selfwait"}
<1>1. PICK n \in Nat : n = Len(stack) /\ n >= 1 /\ n # 1 /\ Top = stack[n] /\ stack[n].fn = "ctor" /\ FrameShape(n)
                       /\ lock \in Threads /\ Top.si \in Slots /\ stack \in Seq(Frame)
  BY OnTop
<1>2. stack[1].fn = "dlopen" /\ stack[1].si # NULL
  BY <1>1 DEF FrameShape
<1>3. ~ret.done
  BY <1>1 DEF RefInv, RetOK
<1>4. ASSUME NEW k \in 1..Len(stack), k > 1 PROVE stack[k].fn \in {"ctor", "selfwait"}
  <2>1. FrameShape(k)
    BY DEF RefInv, Shape
  <2>2. QED
    BY <1>2, <1>4, <2>1 DEF FrameShape
<1>5. Live(Top.si)
  <2>1. Top.si # NULL
    BY <1>1, SlotFacts
  <2>2. QED
    BY <1>1, <2>1 DEF RefInv, OpenOK
<1>6. QED
  BY <1>1, <1>2, <1>3, <1>4, <1>5

\* A step of the constructor calls only adds activations of live soinfos.
LEMMA CtorFrames ==
    ASSUME RefInv, TypeInv', PoolPartition', SameLib, Running("ctor"), UNCHANGED <<ret, lock, req, handles>>,
           Len(stack') \in Nat, Len(stack') >= Len(stack),
           \A k \in 1..Len(stack) : /\ stack'[k].si = stack[k].si
                                    /\ \/ stack'[k].fn = stack[k].fn
                                       \/ stack'[k].fn = "selfwait" /\ stack[k].fn = "ctor",
           \A k \in 1..Len(stack') : k > Len(stack) => stack'[k].fn = "ctor" /\ stack'[k].si \in Slots /\ Live(stack'[k].si)
    PROVE  RefInv'
<1>1. /\ ~ret.done /\ Len(stack) \in Nat /\ Len(stack) >= 2 /\ lock \in Threads
      /\ stack[1].fn = "dlopen" /\ stack[1].si # NULL
      /\ \A k \in 1..Len(stack) : k > 1 => stack[k].fn \in {"ctor", "selfwait"}
  BY CtorPhase
<1>2. /\ \A s \in Slots : Live(s)' <=> Live(s)
      /\ ~so'[Libdl].error /\ SlotsOK' /\ UniqueNames'
      /\ \A u, d \in Slots : Entries(u, d)' = Entries(u, d)
      /\ Elems(solist)' = Elems(solist) /\ Elems(solist) \subseteq Slots
  BY SameLibKept
<1>3. \A k \in 1..Len(stack') : k > Len(stack) \/ k \in 1..Len(stack)
  BY <1>1
<1>4. /\ stack'[1].fn = "dlopen" /\ stack'[1].si # NULL
      /\ \A k \in 1..Len(stack') : k > 1 => stack'[k].fn \in {"ctor", "selfwait"}
  BY <1>1, <1>3
<1>5. Shape'
  <2>1. \A k \in 1..Len(stack') : FrameShape(k)'
    BY <1>4 DEF FrameShape
  <2>2. QED
    BY <1>1, <2>1, ConstantsAssumption DEF Shape
<1>6. RetOK'
  BY <1>1 DEF RetOK
<1>7. LinksOK' /\ LinksApart' /\ UnloadsOK'
  <2>1. \A k \in 1..Len(stack') : stack'[k].fn # "link" /\ stack'[k].fn # "unload"
    BY <1>4
  <2>2. QED
    BY <2>1 DEF LinksOK, LinksApart, UnloadsOK, Linking
<1>8. OpenOK'
  <2> SUFFICES ASSUME NEW k \in 1..Len(stack'), NEW s, s = stack'[k].si, s # NULL, stack'[k].fn \in {"dlopen", "ctor", "selfwait"}
               PROVE  Live(s)'
    BY DEF OpenOK
  <2>1. Live(s)
    <3>1. CASE k > Len(stack)
      BY <3>1
    <3>2. CASE k \in 1..Len(stack)
      BY <3>2 DEF RefInv, OpenOK
    <3>3. QED
      BY <1>3, <3>1, <3>2
  <2>2. QED
    BY <1>2, <2>1 DEF Live
<1>9. RefcountExact'
  <2>1. \A d \in Slots : UnloadFrames(d) = {} /\ UnloadFrames(d)' = {}
    <3>1. DOMAIN stack = 1..Len(stack) /\ DOMAIN stack' = 1..Len(stack')
      BY DEF RefInv, TypeInv, TypeOK
    <3>2. QED
      BY <1>1, <1>4, <3>1 DEF UnloadFrames
  <2>2. QED
    BY <1>2, <2>1, SameRefs DEF SameLib
<1>10. ClaimsOK'
  <2> SUFFICES ASSUME NEW s \in Elems(solist) PROVE Claimed(s)'
    BY <1>2 DEF ClaimsOK
  <2>1. Claimed(s) /\ s \in Slots
    BY <1>2 DEF RefInv, ClaimsOK
  <2>2. ASSUME NEW k \in 1..Len(stack), stack[k].fn \in {"link", "dlopen"}, stack[k].si = s
        PROVE  k \in 1..Len(stack') /\ stack'[k].fn \in {"link", "dlopen"} /\ stack'[k].si = s
    BY <1>1, <2>2
  <2>3. QED
    BY <1>1, <2>1, <2>2 DEF Claimed, SameLib
<1>11. QED
  BY <1>2, <1>5, <1>6, <1>7, <1>8, <1>9, <1>10 DEF RefInv, LockOK

\* apkenv_call_constructors_recursive, up to the constructors' own calls.
LEMMA CtorSteps ==
    ASSUME RefInv, TypeInv', PoolPartition', CtorEnter \/ CtorNeeded \/ CtorReenter
    PROVE  RefInv'
<1>0. Running("ctor") /\ UNCHANGED <<ret, lock, req, handles, solist>>
  BY DEF CtorEnter, CtorNeeded, CtorReenter, CtorDone, hist, lib
<1>1. PICK n \in Nat : n = Len(stack) /\ n >= 2 /\ Top = stack[n] /\ stack[n].fn = "ctor" /\ stack \in Seq(Frame)
                       /\ Top \in Frame /\ Top.fn = "ctor" /\ stack # << >>
  BY <1>0, OnTop
<1>2. PICK s \in Slots : s = Top.si
  BY <1>0, CtorPhase
<1>3. so \in [Slots -> Soinfo] /\ so' \in [Slots -> Soinfo] /\ stack' \in Seq(Frame) /\ Len(stack') \in Nat
  BY DEF RefInv, TypeInv, TypeOK
<1>4. PICK f : f = [Top EXCEPT !.i = @ + 1]
  OBVIOUS
<1>5. f.fn = "ctor" /\ f.si = Top.si
  BY <1>1, <1>4 DEF Frame
<1>6. ASSUME Skip
      PROVE  Len(stack') = n /\ \A k \in 1..n : stack'[k].si = stack[k].si /\ stack'[k].fn = stack[k].fn
  <2>1. Len(stack') = n /\ \A k \in 1..n : stack'[k] = IF k = n THEN f ELSE stack[k]
    BY <1>1, <1>4, <1>6, SkipType
  <2>2. QED
    BY <1>1, <1>5, <2>1
<1>7. CASE CtorEnter
  <2>1. SameLib
    <3>1. so' = [so EXCEPT ![s].constructors_called = TRUE]
      BY <1>2, <1>7 DEF CtorEnter
    <3>2. QED
      BY <1>0, <1>3, <3>1 DEF SameLib, Soinfo
  <2>2. Len(stack') = n /\ \A k \in 1..n : stack'[k].si = stack[k].si /\ stack'[k].fn = stack[k].fn
    BY <1>6, <1>7 DEF CtorEnter
  <2>3. \A k \in 1..Len(stack') : ~(k > Len(stack))
    BY <1>1, <2>2
  <2>4. QED
    BY <1>0, <1>1, <1>3, <2>1, <2>2, <2>3, CtorFrames
<1>8. CASE CtorReenter
  <2>1. SameLib
    BY <1>8 DEF CtorReenter, SameLib, lib
  <2>2. PICK g : g = [Top EXCEPT !.fn = "selfwait"]
    OBVIOUS
  <2>3. g.fn = "selfwait" /\ g.si = Top.si
    BY <1>1, <2>2 DEF Frame
  <2>4. g \in Frame
    BY <1>1, <2>2 DEF Frame
  <2>5. Len(stack') = n /\ \A k \in 1..n : stack'[k] = IF k = n THEN g ELSE stack[k]
    BY <1>1, <1>8, <2>2, <2>4, SetTopType DEF CtorReenter
  <2>6. \A k \in 1..n : stack'[k].si = stack[k].si
                        /\ (stack'[k].fn = stack[k].fn \/ (stack'[k].fn = "selfwait" /\ stack[k].fn = "ctor"))
    BY <1>1, <2>3, <2>5
  <2>7. \A k \in 1..Len(stack') : ~(k > Len(stack))
    BY <1>1, <2>5
  <2>8. QED
    BY <1>0, <1>1, <1>3, <2>1, <2>5, <2>6, <2>7, CtorFrames
<1>9. CASE CtorNeeded
  <2>1. SameLib
    BY <1>9 DEF CtorNeeded, SameLib, lib
  <2>2. PICK d : d = so[s].needed[Top.i]
    OBVIOUS
  <2>3. CASE d \notin Slots
    <3>1. Len(stack') = n /\ \A k \in 1..n : stack'[k].si = stack[k].si /\ stack'[k].fn = stack[k].fn
      BY <1>2, <1>6, <1>9, <2>2, <2>3 DEF CtorNeeded, CtorDeps, IsSlot
    <3>2. \A k \in 1..Len(stack') : ~(k > Len(stack))
      BY <1>1, <3>1
    <3>3. QED
      BY <1>0, <1>1, <1>3, <2>1, <3>1, <3>2, CtorFrames
  <2>4. CASE d \in Slots
    <3>1. PICK g : g = Act("ctor", None, d, 0)
      OBVIOUS
    <3>2. g \in Frame /\ g.fn = "ctor" /\ g.si = d
      BY <2>4, <3>1 DEF Act, Frame
    <3>3. Step(g)
      BY <1>2, <1>9, <2>2, <2>4, <3>1 DEF CtorNeeded, CtorDeps, IsSlot
    <3>4. /\ Len(stack') = n + 1 /\ stack'[n + 1] = g
          /\ \A k \in 1..n : stack'[k] = IF k = n THEN f ELSE stack[k]
      BY <1>1, <1>4, <3>2, <3>3, StepType
    <3>5. \A k \in 1..n : stack'[k].si = stack[k].si /\ stack'[k].fn = stack[k].fn
      BY <1>1, <1>5, <3>4
    <3>6. Live(d)
      <4>1. Top.i \in Entries(s, d)
        BY <1>2, <1>3, <1>9, <2>2 DEF CtorNeeded, CtorDeps, Entries, Soinfo
      <4>2. NeededRefs(d) # {}
        BY <4>1, RefMember
      <4>3. so[d].refcount > 0
        BY <2>4, <4>2, Counted DEF RefInv
      <4>4. QED
        BY <2>4, <4>3 DEF RefInv, SlotsOK
    <3>7. \A k \in 1..Len(stack') : k > Len(stack) => k = n + 1
      BY <1>1, <3>4
    <3>8. \A k \in 1..Len(stack') : k > Len(stack) => stack'[k].fn = "ctor" /\ stack'[k].si \in Slots /\ Live(stack'[k].si)
      BY <2>4, <3>2, <3>4, <3>6, <3>7
    <3>9. Len(stack') >= Len(stack)
      BY <1>1, <3>4
    <3>10. QED
      BY <1>0, <1>1, <1>3, <2>1, <3>5, <3>8, <3>9, CtorFrames
  <2>5. QED
    BY <2>3, <2>4
<1>10. QED
  BY <1>7, <1>8, <1>9

\* bionic_dlopen once the search has returned: on to the constructors.
LEMMA DlopenFoundStep ==
    ASSUME RefInv, TypeInv', PoolPartition', DlopenFound
    PROVE  RefInv'
<1>0. Running("dlopen") /\ ret.done /\ ret.si # NULL /\ ret' = NoRet /\ UNCHANGED <<lib, lock, req, handles>>
  BY DEF DlopenFound, hist
<1>1. Len(stack) = 1 /\ stack \in Seq(Frame) /\ Top \in Frame /\ stack[1] = Top /\ Top.fn = "dlopen" /\ lock \in Threads
  <2>1. PICK n \in Nat : n = Len(stack) /\ n = 1 /\ stack[n] = Top /\ stack[n].fn = "dlopen" /\ stack \in Seq(Frame)
                         /\ Top \in Frame /\ lock \in Threads
    BY <1>0, OnTop
  <2>2. QED
    BY <2>1
<1>2. PICK s \in Slots : s = ret.si
  BY <1>0 DEF RefInv, TypeInv, TypeOK, Result
<1>3. Live(s) /\ Top.si = NULL /\ s # NULL
  BY <1>0, <1>1, <1>2 DEF RefInv, RetOK
<1>4. PICK f : f = [Top EXCEPT !.si = s]
  OBVIOUS
<1>5. f \in Frame /\ f.fn = "dlopen" /\ f.si = s
  BY <1>1, <1>4 DEF Frame
<1>6. PICK g : g = Act("ctor", None, s, 0)
  OBVIOUS
<1>7. g \in Frame /\ g.fn = "ctor" /\ g.si = s
  BY <1>6 DEF Act, Frame
<1>8. Len(stack') = 2 /\ stack'[1] = f /\ stack'[2] = g /\ stack' \in Seq(Frame)
  <2>1. stack' = Append([stack EXCEPT ![1].si = s], g)
    BY <1>1, <1>2, <1>6 DEF DlopenFound
  <2>2. PICK q : q = [stack EXCEPT ![1].si = s]
    OBVIOUS
  <2>3. q = [stack EXCEPT ![1] = f]
    BY <1>1, <1>4, <2>2
  <2>4. q \in Seq(Frame) /\ Len(q) = 1 /\ q[1] = f
    BY <1>1, <1>5, <2>3
  <2>5. stack' = Append(q, g)
    BY <2>1, <2>2
  <2>6. /\ Len(Append(q, g)) = Len(q) + 1 /\ Append(q, g) \in Seq(Frame) /\ Append(q, g)[Len(q) + 1] = g
        /\ \A k \in 1..Len(q) : Append(q, g)[k] = q[k]
    <3>1. q \in Seq(Frame) /\ g \in Frame
      BY <1>7, <2>4
    <3>2. QED
      BY <3>1, AppendProperties
  <2>7. QED
    BY <2>4, <2>5, <2>6
<1>9. \A k \in 1..Len(stack') : (k = 1 /\ stack'[k] = f) \/ (k = 2 /\ stack'[k] = g)
  BY <1>8
<1>10. SameLib
  BY <1>0 DEF SameLib, lib
<1>11. /\ \A u \in Slots : Live(u)' <=> Live(u)
       /\ ~so'[Libdl].error /\ SlotsOK' /\ UniqueNames'
       /\ \A u, d \in Slots : Entries(u, d)' = Entries(u, d)
       /\ Elems(solist)' = Elems(solist) /\ Elems(solist) \subseteq Slots
  BY <1>10, SameLibKept
<1>12. Shape'
  <2>1. \A k \in 1..Len(stack') : FrameShape(k)'
    BY <1>3, <1>5, <1>7, <1>8, <1>9 DEF FrameShape
  <2>2. QED
    BY <1>0, <1>1, <2>1, ConstantsAssumption DEF Shape
<1>13. RetOK'
  BY <1>0 DEF RetOK, NoRet
<1>14. LinksOK' /\ LinksApart' /\ UnloadsOK'
  <2>1. \A k \in 1..Len(stack') : stack'[k].fn # "link" /\ stack'[k].fn # "unload"
    BY <1>5, <1>7, <1>9
  <2>2. QED
    BY <2>1 DEF LinksOK, LinksApart, UnloadsOK, Linking
<1>15. OpenOK'
  <2>1. \A k \in 1..Len(stack') : stack'[k].si = s
    BY <1>5, <1>7, <1>9
  <2>2. Live(s)'
    BY <1>3, <1>11
  <2>3. QED
    BY <2>1, <2>2 DEF OpenOK, Live
<1>16. RefcountExact'
  <2>1. \A d \in Slots : UnloadFrames(d) = {} /\ UnloadFrames(d)' = {}
    <3>1. DOMAIN stack = 1..Len(stack) /\ DOMAIN stack' = 1..Len(stack')
      BY <1>1, <1>8
    <3>2. QED
      BY <1>1, <1>5, <1>7, <1>9, <3>1 DEF UnloadFrames
  <2>2. QED
    BY <1>0, <1>10, <1>11, <2>1, SameRefs DEF SameLib
<1>17. ClaimsOK'
  <2> SUFFICES ASSUME NEW u \in Elems(solist) PROVE Claimed(u)'
    BY <1>11 DEF ClaimsOK
  <2>1. Claimed(u) /\ u \in Slots
    BY <1>11 DEF RefInv, ClaimsOK
  <2>2. CASE u = s
    BY <1>5, <1>8, <2>2 DEF Claimed
  <2>3. CASE u # s
    <3>1. \A k \in 1..Len(stack) : stack[k].si # u
      BY <1>1, <1>3, <2>1, SlotFacts
    <3>2. u = Libdl \/ so[u].error \/ so[u].refcount > 0
      BY <1>2, <2>1, <2>3, <3>1 DEF Claimed
    <3>3. QED
      BY <1>10, <2>1, <3>2 DEF Claimed, SameLib
  <2>4. QED
    BY <2>2, <2>3
<1>18. QED
  BY <1>0, <1>11, <1>12, <1>13, <1>14, <1>15, <1>16, <1>17 DEF RefInv, LockOK

\* The end of bionic_dlopen or bionic_dlclose.
LEMMA ReleaseKept ==
    ASSUME RefInv, TypeInv', PoolPartition', Release, lock \in Threads, Len(stack) = 1,
           stack[1].fn \in {"dlopen", "dlclose"}, ~ret'.done, solist' = solist,
           \A u \in Slots : /\ so'[u].path = so[u].path /\ so'[u].needed = so[u].needed
                            /\ so'[u].linked = so[u].linked /\ so'[u].error = so[u].error
                            /\ so'[u].mapped = so[u].mapped
                            /\ so'[u].refcount - so[u].refcount = handles'[u] - handles[u]
                            /\ so'[u].refcount >= so[u].refcount
                            /\ so'[u].refcount > 0 /\ so[u].refcount = 0 => Live(u)
                            /\ stack[1].fn = "dlopen" /\ stack[1].si = u => so'[u].refcount > 0
                            /\ ret.done => ret.si # u
    PROVE  RefInv'
<1>1. Elems(solist)' = Elems(solist) /\ Elems(solist) \subseteq Slots
  BY DEF Elems, RefInv, TypeInv, TypeOK
<1>2. \A s \in Slots : Live(s)' <=> Live(s)
  BY <1>1 DEF Live
<1>3. ~so'[Libdl].error
  BY SlotFacts DEF RefInv
<1>4. \A u \in Slots : so[u].refcount \in Int /\ so'[u].refcount \in Int /\ so[u].refcount >= 0
                       /\ handles[u] \in Nat /\ handles'[u] \in Nat
  <2>1. \A u \in Slots : so[u].refcount \in Int /\ so'[u].refcount \in Int /\ handles[u] \in Nat /\ handles'[u] \in Nat
    BY DEF RefInv, TypeInv, TypeOK, Soinfo
  <2>2. QED
    BY <2>1, Counted DEF RefInv
<1>5. SlotsOK'
  <2> SUFFICES ASSUME NEW s \in Slots
               PROVE  /\ so'[s].refcount > 0 => Live(s)'
                      /\ s \in Elems(solist)' /\ ~so'[s].error => so'[s].mapped
                      /\ s \notin Elems(solist)' => \A n \in DOMAIN so'[s].needed : so'[s].needed[n] \notin Slots
    BY DEF SlotsOK
  <2>1. so'[s].refcount > 0 => Live(s)
    BY <1>4 DEF RefInv, SlotsOK
  <2>2. QED
    BY <1>1, <1>2, <2>1 DEF RefInv, SlotsOK
<1>6. UniqueNames'
  <2>1. \A s \in Slots : name(s)' = name(s)
    BY DEF name
  <2>2. QED
    BY <1>1, <2>1 DEF RefInv, UniqueNames
<1>7. stack' = << >> /\ lock' = None /\ req' = [req EXCEPT ![lock] = None] /\ Len(stack') = 0
  BY DEF Release
<1>8. LockOK' /\ Shape' /\ RetOK' /\ LinksOK' /\ LinksApart' /\ OpenOK' /\ UnloadsOK'
  BY <1>7 DEF LockOK, Shape, RetOK, LinksOK, LinksApart, OpenOK, UnloadsOK
<1>9. RefcountExact'
  <2> SUFFICES ASSUME NEW d \in Slots
               PROVE  so'[d].refcount = handles'[d] + Cardinality(Closing(d)')
                                        + Cardinality(NeededRefs(d)') + Cardinality(UnloadFrames(d)')
    BY DEF RefcountExact
  <2>1. NeededRefs(d)' = NeededRefs(d)
    <3>1. \A u \in Slots : Entries(u, d)' = Entries(u, d)
      BY DEF Entries
    <3>2. QED
      BY <3>1 DEF NeededRefs
  <2>2. Closing(d)' = Closing(d)
    <3>1. req \in [Threads -> Request \cup {None}] /\ None \notin Threads
      BY ConstantsAssumption DEF RefInv, TypeInv, TypeOK
    <3>2. QED
      BY <1>7, <3>1 DEF Closing
  <2>3. UnloadFrames(d)' = {} /\ UnloadFrames(d) = {}
    <3>1. DOMAIN stack' = {} /\ DOMAIN stack = {1}
      BY <1>7 DEF RefInv, TypeInv, TypeOK
    <3>2. QED
      BY <3>1 DEF UnloadFrames
  <2>4. PICK c \in Nat, n \in Nat, f \in Nat :
            c = Cardinality(Closing(d)) /\ n = Cardinality(NeededRefs(d)) /\ f = Cardinality(UnloadFrames(d))
    BY RefsFinite DEF RefInv
  <2>5. so[d].refcount = handles[d] + c + n + f
    BY <2>4 DEF RefInv, RefcountExact
  <2>6. so'[d].refcount = handles'[d] + c + n + f
    BY <1>4, <2>5
  <2>7. QED
    BY <2>1, <2>2, <2>3, <2>4, <2>6
<1>10. ClaimsOK'
  <2> SUFFICES ASSUME NEW s \in Elems(solist) PROVE Claimed(s)'
    BY <1>1 DEF ClaimsOK
  <2>1. Claimed(s) /\ s \in Slots
    BY <1>1 DEF RefInv, ClaimsOK
  <2>2. s = Libdl \/ so[s].error \/ so'[s].refcount > 0
    <3>1. CASE \E k \in 1..Len(stack) : stack[k].fn \in {"link", "dlopen"} /\ stack[k].si = s
      BY <2>1, <3>1
    <3>2. CASE so[s].refcount > 0
      BY <1>4, <2>1, <3>2
    <3>3. QED
      BY <2>1, <3>1, <3>2 DEF Claimed
  <2>3. QED
    BY <2>1, <2>2 DEF Claimed
<1>11. QED
  BY <1>3, <1>5, <1>6, <1>8, <1>9, <1>10 DEF RefInv

\* The three ways a call ends.
LEMMA ReleaseSteps ==
    ASSUME RefInv, TypeInv', PoolPartition', DlopenReturn \/ DlopenOther \/ DlcloseReturn
    PROVE  RefInv'
<1>1. so \in [Slots -> Soinfo] /\ handles \in [Slots -> Nat] /\ ret \in Result
  BY DEF RefInv, TypeInv, TypeOK
<1>2. \A u \in Slots : so[u].refcount \in Int /\ so[u].refcount >= 0 /\ handles[u] \in Nat
  BY <1>1, Counted DEF RefInv, Soinfo
<1>3. ASSUME NEW fn \in {"dlopen", "dlclose"}, Running(fn)
      PROVE  lock \in Threads /\ Len(stack) = 1 /\ stack[1] = Top /\ stack[1].fn = fn /\ Top.fn = fn
             /\ (fn = "dlclose" => ~ret.done)
  <2>1. PICK n \in Nat : n = Len(stack) /\ n = 1 /\ stack[n] = Top /\ stack[n].fn = fn /\ lock \in Threads
    BY <1>3, OnTop
  <2>2. fn = "dlclose" => ~ret.done
    BY <2>1 DEF RefInv, RetOK
  <2>3. QED
    BY <2>1, <2>2
<1>4. CASE DlopenReturn
  <2>1. Running("dlopen") /\ ~ret.done /\ Top.si # NULL /\ Release /\ UNCHANGED <<solist, ret>>
    BY <1>4 DEF DlopenReturn
  <2>2. lock \in Threads /\ Len(stack) = 1 /\ stack[1] = Top /\ stack[1].fn = "dlopen"
    BY <1>3, <2>1
  <2>3. PICK s : s = Top.si
    OBVIOUS
  <2>4. s \in Slots /\ Live(s)
    <3>1. Live(s)
      BY <2>1, <2>2, <2>3 DEF RefInv, OpenOK
    <3>2. QED
      BY <3>1 DEF Live, Elems, RefInv, TypeInv, TypeOK
  <2>5. so' = [so EXCEPT ![s].refcount = @ + 1] /\ handles' = [handles EXCEPT ![s] = @ + 1]
    BY <1>4, <2>3 DEF DlopenReturn
  <2>6. \A u \in Slots : /\ so'[u].path = so[u].path /\ so'[u].needed = so[u].needed
                         /\ so'[u].linked = so[u].linked /\ so'[u].error = so[u].error
                         /\ so'[u].mapped = so[u].mapped
                         /\ so'[u].refcount = IF u = s THEN so[u].refcount + 1 ELSE so[u].refcount
                         /\ handles'[u] = IF u = s THEN handles[u] + 1 ELSE handles[u]
    BY <1>1, <2>5 DEF Soinfo
  <2>7. \A u \in Slots : /\ so'[u].refcount - so[u].refcount = handles'[u] - handles[u]
                         /\ so'[u].refcount >= so[u].refcount
                         /\ so'[u].refcount > 0 /\ so[u].refcount = 0 => Live(u)
                         /\ stack[1].fn = "dlopen" /\ stack[1].si = u => so'[u].refcount > 0
    BY <1>2, <2>2, <2>3, <2>4, <2>6
  <2>8. QED
    BY <2>1, <2>2, <2>6, <2>7, ReleaseKept
<1>5. CASE DlopenOther \/ DlcloseReturn
  <2>1. PICK fn \in {"dlopen", "dlclose"} : Running(fn) /\ Release /\ UNCHANGED <<lib, handles>> /\ ~ret'.done
                                            /\ (fn = "dlopen" => ret.done /\ ret.si = NULL)
    <3>1. CASE DlopenOther
      BY <3>1 DEF DlopenOther, NoRet
    <3>2. CASE DlcloseReturn
      BY <1>3, <3>2 DEF DlcloseReturn, hist
    <3>3. QED
      BY <1>5, <3>1, <3>2
  <2>2. lock \in Threads /\ Len(stack) = 1 /\ stack[1] = Top /\ stack[1].fn = fn /\ (fn = "dlclose" => ~ret.done)
    BY <1>3, <2>1
  <2>3. fn = "dlopen" => Top.si = NULL
    BY <2>1, <2>2 DEF RefInv, RetOK
  <2>4. \A u \in Slots : u # NULL
    BY SlotFacts
  <2>5. UNCHANGED <<so, solist, handles>>
    BY <2>1 DEF lib
  <2>6. \A u \in Slots : /\ so'[u].refcount - so[u].refcount = handles'[u] - handles[u]
                         /\ so'[u].refcount >= so[u].refcount
                         /\ so'[u].refcount = so[u].refcount
    BY <1>2, <2>5
  <2>7. \A u \in Slots : ~(stack[1].fn = "dlopen" /\ stack[1].si = u) /\ (ret.done => ret.si # u)
    BY <2>1, <2>2, <2>3, <2>4
  <2>8. \A u \in Slots : ~(so'[u].refcount > 0 /\ so[u].refcount = 0)
    BY <1>2, <2>6
  <2>9. QED
    BY <2>1, <2>2, <2>5, <2>6, <2>7, <2>8, ReleaseKept
<1>6. QED
  BY <1>4, <1>5

\* Steps that leave the activations and the soinfos alone.
LEMMA SameCore ==
    ASSUME RefInv, UNCHANGED <<so, solist, stack, ret, lock>>
    PROVE  /\ ~so'[Libdl].error /\ Shape' /\ RetOK' /\ LinksOK' /\ LinksApart' /\ OpenOK' /\ UnloadsOK'
           /\ SlotsOK' /\ ClaimsOK' /\ UniqueNames'
           /\ \A d \in Slots : NeededRefs(d)' = NeededRefs(d) /\ UnloadFrames(d)' = UnloadFrames(d)
<1>1. \A d \in Slots : NeededRefs(d)' = NeededRefs(d) /\ UnloadFrames(d)' = UnloadFrames(d)
  <2>1. \A u, d \in Slots : Entries(u, d)' = Entries(u, d)
    BY DEF Entries
  <2>2. QED
    BY <2>1 DEF NeededRefs, UnloadFrames
<1>2. Shape' /\ RetOK' /\ LinksApart' /\ OpenOK'
  BY DEF RefInv, Shape, FrameShape, RetOK, LinksApart, Linking, OpenOK, Live, Top, Elems
<1>3. LinksOK' /\ UnloadsOK'
  BY DEF RefInv, LinksOK, LinkOK, Linking, UnloadsOK, Live, Elems
<1>4. SlotsOK' /\ ClaimsOK' /\ UniqueNames' /\ ~so'[Libdl].error
  BY DEF RefInv, SlotsOK, Live, ClaimsOK, Claimed, UniqueNames, name, Elems
<1>5. QED
  BY <1>1, <1>2, <1>3, <1>4

\* One thread's request changes: what becomes of the references it holds.
LEMMA ClosingChange ==
    ASSUME TypeInv, NEW t \in Threads, NEW d \in Slots, NEW r, r \in Request \cup {None},
           req' = [req EXCEPT ![t] = r]
    PROVE  /\ t \notin Closing(d) /\ lock' = lock /\ lock # t /\ r # None /\ r.op = "dlclose" /\ r.arg = d
              => Closing(d)' = Closing(d) \cup {t}
           /\ t \notin Closing(d) /\ lock' = lock /\ (r = None \/ r.op = "dlopen" \/ r.arg # d)
              => Closing(d)' = Closing(d)
<1>1. req \in [Threads -> Request \cup {None}]
  BY DEF TypeInv, TypeOK
<1>2. \A u \in Threads : req'[u] = IF u = t THEN r ELSE req[u]
  BY <1>1
<1>3. QED
  BY <1>2 DEF Closing

\* A call of the application: a handle passed to dlclose becomes a request.
LEMMA CallSteps ==
    ASSUME RefInv, TypeInv', PoolPartition', NEW t \in Threads, Call(t)
    PROVE  RefInv'
<1>1. UNCHANGED <<so, solist, stack, ret, lock>> /\ req[t] = None
  BY DEF Call, CallDlopen, CallDlclose, CallDlcloseForeign, lib
<1>2. /\ ~so'[Libdl].error /\ Shape' /\ RetOK' /\ LinksOK' /\ LinksApart' /\ OpenOK' /\ UnloadsOK'
      /\ SlotsOK' /\ ClaimsOK' /\ UniqueNames'
      /\ \A d \in Slots : NeededRefs(d)' = NeededRefs(d) /\ UnloadFrames(d)' = UnloadFrames(d)
  BY <1>1, SameCore
<1>3. TypeInv /\ RefcountExact
  BY DEF RefInv
<1>4. lock # t /\ \A d : t \notin Closing(d)
  BY <1>1, ConstantsAssumption DEF RefInv, LockOK, Closing
<1>5. PICK r \in Request : /\ req' = [req EXCEPT ![t] = r]
                            /\ \/ handles' = handles /\ (r.op = "dlopen" \/ r.arg = NULL)
                               \/ \E s \in Slots : /\ r.op = "dlclose" /\ r.arg = s /\ handles[s] > 0
                                                    /\ handles' = [handles EXCEPT ![s] = @ - 1]
  <2> DEFINE Asks(r) == /\ req' = [req EXCEPT ![t] = r]
                        /\ \/ handles' = handles /\ (r.op = "dlopen" \/ r.arg = NULL)
                           \/ \E s \in Slots : /\ r.op = "dlclose" /\ r.arg = s /\ handles[s] > 0
                                                /\ handles' = [handles EXCEPT ![s] = @ - 1]
  <2>1. ASSUME NEW p \in Paths, CallDlopen(t, p) PROVE \E r \in Request : Asks(r)
    <3>1. PICK r : r = [op |-> "dlopen", arg |-> p]
      OBVIOUS
    <3>2. r \in Request /\ Asks(r)
      BY <2>1, <3>1 DEF CallDlopen, Request
    <3>3. QED
      BY <3>2
  <2>2. ASSUME NEW s \in Slots, CallDlclose(t, s) PROVE \E r \in Request : Asks(r)
    <3>1. PICK r : r = [op |-> "dlclose", arg |-> s]
      OBVIOUS
    <3>2. r \in Request /\ r.op = "dlclose" /\ r.arg = s
      BY <3>1 DEF Request
    <3>3. req' = [req EXCEPT ![t] = r] /\ handles[s] > 0 /\ handles' = [handles EXCEPT ![s] = @ - 1]
      BY <2>2, <3>1 DEF CallDlclose
    <3>4. Asks(r)
      BY <3>2, <3>3
    <3>5. QED
      BY <3>2, <3>4
  <2>3. ASSUME CallDlcloseForeign(t) PROVE \E r \in Request : Asks(r)
    <3>1. PICK r : r = [op |-> "dlclose", arg |-> NULL]
      OBVIOUS
    <3>2. r \in Request /\ Asks(r)
      BY <2>3, <3>1 DEF CallDlcloseForeign, Request
    <3>3. QED
      BY <3>2
  <2> HIDE DEF Asks
  <2>4. \E r \in Request : Asks(r)
    BY <2>1, <2>2, <2>3 DEF Call
  <2>5. QED
    BY <2>4 DEF Asks
<1>6. LockOK'
  <2>1. req \in [Threads -> Request \cup {None}]
    BY <1>3 DEF TypeInv, TypeOK
  <2>2. QED
    BY <1>1, <1>4, <1>5, <2>1, NoRequestAssumption DEF RefInv, LockOK
<1>7. RefcountExact'
  <2> SUFFICES ASSUME NEW d \in Slots
               PROVE  so'[d].refcount = handles'[d] + Cardinality(Closing(d)')
                                        + Cardinality(NeededRefs(d)') + Cardinality(UnloadFrames(d)')
    BY DEF RefcountExact
  <2>1. PICK c \in Nat, n \in Nat, f \in Nat :
            c = Cardinality(Closing(d)) /\ n = Cardinality(NeededRefs(d)) /\ f = Cardinality(UnloadFrames(d))
    BY <1>3, RefsFinite
  <2>2. so'[d].refcount = handles[d] + c + n + f
    BY <1>1, <1>3, <2>1 DEF RefcountExact
  <2>3. handles \in [Slots -> Nat]
    BY <1>3 DEF TypeInv, TypeOK
  <2>4. r \in Request \cup {None} /\ r # None /\ NULL # d
    BY SlotFacts, NoRequestAssumption
  <2>5. CASE handles'[d] = handles[d] /\ (r.op = "dlopen" \/ r.arg # d)
    <3>1. Closing(d)' = Closing(d)
      BY <1>1, <1>3, <1>4, <1>5, <2>4, <2>5, ClosingChange
    <3>2. QED
      BY <1>2, <2>1, <2>2, <2>5, <3>1
  <2>6. CASE r.op = "dlclose" /\ r.arg = d /\ handles[d] > 0 /\ handles'[d] = handles[d] - 1
    <3>1. Closing(d)' = Closing(d) \cup {t}
      BY <1>1, <1>3, <1>4, <1>5, <2>4, <2>6, ClosingChange
    <3>2. IsFiniteSet(Closing(d)) /\ t \notin Closing(d)
      BY <1>3, <1>4, RefsFinite
    <3>3. Cardinality(Closing(d) \cup {t}) = c + 1
      BY <2>1, <3>2, FS_AddElement
    <3>4. QED
      BY <1>2, <2>1, <2>2, <2>3, <2>6, <3>1, <3>3
  <2>7. QED
    BY <1>5, <2>3, <2>4, <2>5, <2>6
<1>8. QED
  BY <1>2, <1>6, <1>7 DEF RefInv

\* The lock is taken; a request to close becomes an activation.
LEMMA AcquireStep ==
    ASSUME RefInv, TypeInv', PoolPartition', NEW t \in Threads, Acquire(t)
    PROVE  RefInv'
<1>1. lock = None /\ lock' = t /\ req[t] # None /\ ret' = NoRet /\ UNCHANGED <<so, solist, req, handles>>
  BY DEF Acquire, lib, hist
<1>2. stack = << >> /\ ~ret.done /\ Len(stack) = 0
  BY <1>1 DEF RefInv, Shape, RetOK
<1>3. SameLib
  BY <1>1 DEF SameLib
<1>4. /\ \A u \in Slots : Live(u)' <=> Live(u)
      /\ ~so'[Libdl].error /\ SlotsOK' /\ UniqueNames'
      /\ \A u, d \in Slots : Entries(u, d)' = Entries(u, d)
      /\ Elems(solist)' = Elems(solist) /\ Elems(solist) \subseteq Slots
  BY <1>3, SameLibKept
<1>5. LockOK' /\ RetOK'
  BY <1>1 DEF LockOK, RetOK, NoRet
<1>6. ClaimsOK'
  <2> SUFFICES ASSUME NEW s \in Elems(solist) PROVE Claimed(s)'
    BY <1>4 DEF ClaimsOK
  <2>1. s = Libdl \/ so[s].error \/ so[s].refcount > 0
    BY <1>2 DEF RefInv, ClaimsOK, Claimed
  <2>2. QED
    BY <1>1, <2>1 DEF Claimed
<1>7. req[t] \in Request /\ TypeInv /\ RefcountExact /\ req \in [Threads -> Request \cup {None}]
  BY <1>1 DEF RefInv, TypeInv, TypeOK
<1>8. \A d \in Slots : NeededRefs(d)' = NeededRefs(d) /\ UnloadFrames(d) = {}
  <2>1. DOMAIN stack = {}
    BY <1>2
  <2>2. QED
    BY <1>4, <2>1 DEF NeededRefs, UnloadFrames
<1>9. t \in Threads /\ None \notin Threads /\ t # None
  BY ConstantsAssumption
<1>10. \A d \in Slots : req[t].op # "dlclose" \/ req[t].arg # d => Closing(d)' = Closing(d)
  BY <1>1, <1>9 DEF Closing
<1>11. \A d \in Slots : req[t].op = "dlclose" /\ req[t].arg = d => Closing(d)' = Closing(d) \ {t} /\ t \in Closing(d)
  BY <1>1, <1>9 DEF Closing
<1>12. ASSUME NEW d \in Slots, Closing(d)' = Closing(d), UnloadFrames(d)' = {}
       PROVE  so'[d].refcount = handles'[d] + Cardinality(Closing(d)')
                                + Cardinality(NeededRefs(d)') + Cardinality(UnloadFrames(d)')
  BY <1>1, <1>7, <1>8, <1>12 DEF RefcountExact
<1>13. CASE req[t].op = "dlclose" /\ req[t].arg = NULL
  <2>1. stack' = << >> /\ Len(stack') = 0
    BY <1>2, <1>13 DEF Acquire
  <2>2. Shape' /\ LinksOK' /\ LinksApart' /\ OpenOK' /\ UnloadsOK'
    BY <2>1 DEF Shape, LinksOK, LinksApart, OpenOK, UnloadsOK
  <2>3. \A d \in Slots : Closing(d)' = Closing(d) /\ UnloadFrames(d)' = {}
    <3>1. DOMAIN stack' = {}
      BY <2>1
    <3>2. \A d \in Slots : UnloadFrames(d)' = {}
      BY <3>1 DEF UnloadFrames
    <3>3. \A d \in Slots : req[t].arg # d
      BY <1>13, SlotFacts
    <3>4. QED
      BY <1>10, <3>2, <3>3
  <2>4. RefcountExact'
    BY <1>12, <2>3 DEF RefcountExact
  <2>5. QED
    BY <1>4, <1>5, <1>6, <2>2, <2>4 DEF RefInv
<1>14. CASE req[t].op = "dlopen"
  <2>1. PICK f, g : f = Act("dlopen", req[t].arg, NULL, 0) /\ g = Act("find", req[t].arg, NULL, 0)
    OBVIOUS
  <2>2. f.fn = "dlopen" /\ f.si = NULL /\ g.fn = "find"
    BY <2>1 DEF Act
  <2>3. stack' = <<f, g>>
    BY <1>14, <2>1 DEF Acquire
  <2>4. Len(stack') = 2 /\ stack'[1] = f /\ stack'[2] = g /\ DOMAIN stack' = {1, 2}
    BY <2>3
  <2>5. \A k \in 1..Len(stack') : (k = 1 /\ stack'[k] = f) \/ (k = 2 /\ stack'[k] = g)
    BY <2>4
  <2>6. Shape'
    <3>1. \A k \in 1..Len(stack') : FrameShape(k)'
      BY <1>1, <2>2, <2>4, <2>5 DEF FrameShape, NoRet
    <3>2. QED
      BY <1>1, <1>9, <3>1 DEF Shape
  <2>7. LinksOK' /\ LinksApart' /\ OpenOK' /\ UnloadsOK'
    BY <2>2, <2>5 DEF LinksOK, LinksApart, OpenOK, UnloadsOK, Linking
  <2>8. \A d \in Slots : UnloadFrames(d)' = {}
    BY <2>2, <2>4 DEF UnloadFrames
  <2>9. RefcountExact'
    BY <1>10, <1>12, <1>14, <2>8 DEF RefcountExact
  <2>10. QED
    BY <1>4, <1>5, <1>6, <2>6, <2>7, <2>9 DEF RefInv
<1>15. CASE req[t].op = "dlclose" /\ req[t].arg # NULL
  <2>0. PICK s \in Slots : s = req[t].arg
    BY <1>7, <1>15 DEF Request
  <2>1. PICK f, g : f = Act("dlclose", None, s, 0) /\ g = Act("unload", None, s, 0)
    OBVIOUS
  <2>2. f.fn = "dlclose" /\ f.si = s /\ g.fn = "unload" /\ g.si = s /\ g.i = 0
    BY <2>1 DEF Act
  <2>3. stack' = <<f, g>>
    BY <1>15, <2>0, <2>1 DEF Acquire
  <2>4. Len(stack') = 2 /\ stack'[1] = f /\ stack'[2] = g /\ DOMAIN stack' = {1, 2}
    BY <2>3
  <2>5. \A k \in 1..Len(stack') : (k = 1 /\ stack'[k] = f) \/ (k = 2 /\ stack'[k] = g)
    BY <2>4
  <2>6. Shape'
    <3>1. \A k \in 1..Len(stack') : FrameShape(k)'
      BY <1>1, <2>2, <2>4, <2>5 DEF FrameShape, NoRet
    <3>2. QED
      BY <1>1, <1>9, <3>1 DEF Shape
  <2>7. LinksOK' /\ LinksApart' /\ OpenOK' /\ UnloadsOK'
    BY <2>2, <2>5 DEF LinksOK, LinksApart, OpenOK, UnloadsOK, Linking
  <2>8. \A d \in Slots : UnloadFrames(d)' = IF d = s THEN {2} ELSE {}
    BY <2>2, <2>4 DEF UnloadFrames
  <2>9. so'[s].refcount = handles'[s] + Cardinality(Closing(s)')
                          + Cardinality(NeededRefs(s)') + Cardinality(UnloadFrames(s)')
    <3>1. PICK c \in Nat, n \in Nat : c = Cardinality(Closing(s)) /\ n = Cardinality(NeededRefs(s))
      BY <1>7, RefsFinite
    <3>2. IsFiniteSet(Closing(s)) /\ Closing(s)' = Closing(s) \ {t} /\ t \in Closing(s)
      BY <1>7, <1>11, <1>15, <2>0, RefsFinite
    <3>3. Cardinality(Closing(s) \ {t}) = c - 1
      BY <3>1, <3>2, FS_RemoveElement
    <3>4. Cardinality({2}) = 1 /\ Cardinality({}) = 0
      BY FS_Singleton, FS_EmptySet
    <3>5. so[s].refcount = handles[s] + c + n + 0 /\ handles[s] \in Nat
      BY <1>7, <1>8, <3>1, <3>4 DEF RefcountExact, TypeInv, TypeOK
    <3>6. Cardinality(Closing(s)') = c - 1 /\ Cardinality(NeededRefs(s)') = n
      BY <1>8, <3>1, <3>2, <3>3
    <3>7. Cardinality(UnloadFrames(s)') = 1
      BY <2>8, <3>4
    <3>8. so'[s].refcount = handles'[s] + (c - 1) + n + 1
      BY <1>1, <3>1, <3>5
    <3>9. QED
      BY <3>6, <3>7, <3>8
  <2>10. RefcountExact'
    BY <1>10, <1>12, <1>15, <2>0, <2>8, <2>9 DEF RefcountExact
  <2>11. QED
    BY <1>4, <1>5, <1>6, <2>6, <2>7, <2>10 DEF RefInv
<1>16. req[t].op \in {"dlopen", "dlclose"}
  BY <1>7 DEF Request
<1>17. QED
  BY <1>13, <1>14, <1>15, <1>16

\* While unload_library runs there is nothing else on the stack of dlclose.
LEMMA UnloadPhase ==
    ASSUME RefInv, Running("unload")
    PROVE  \E n \in Nat : \E s \in Slots :
              /\ n = Len(stack) /\ n >= 2 /\ stack \in Seq(Frame) /\ Top = stack[n] /\ Top.si = s /\ Top.i \in Nat
              /\ DOMAIN stack = 1..n /\ n \in 1..n
              /\ stack[n].fn = "unload" /\ stack[n].si = s /\ Top \in Frame /\ Top.fn = "unload"
              /\ ~ret.done /\ lock \in Threads /\ stack[1].fn = "dlclose" /\ stack # << >>
              /\ \A k \in 1..n : k > 1 => stack[k].fn = "unload" /\ (k < n => stack[k].i > 0)
              /\ n \in UnloadFrames(s) /\ so[s].refcount > 0 /\ Live(s)
<1>1. PICK n \in Nat : n = Len(stack) /\ n >= 1 /\ n # 1 /\ Top = stack[n] /\ stack[n].fn = "unload" /\ FrameShape(n)
                       /\ lock \in Threads /\ Top.si \in Slots /\ stack \in Seq(Frame) /\ Top.i \in Nat
                       /\ stack # << >> /\ Top \in Frame
  BY OnTop
<1>2. PICK s \in Slots : s = Top.si
  BY <1>1
<1>3. stack[1].fn = "dlclose"
  BY <1>1 DEF FrameShape
<1>4. ~ret.done
  BY <1>1 DEF RefInv, RetOK
<1>5. ASSUME NEW k \in 1..n, k > 1 PROVE stack[k].fn = "unload" /\ (k < n => stack[k].i > 0)
  <2>1. FrameShape(k)
    BY <1>1 DEF RefInv, Shape
  <2>2. QED
    BY <1>1, <1>3, <1>5, <2>1 DEF FrameShape
<1>6. DOMAIN stack = 1..n
  BY <1>1
<1>7. n \in UnloadFrames(s)
  BY <1>1, <1>2, <1>6 DEF UnloadFrames
<1>8. so[s].refcount > 0
  BY <1>7, Counted DEF RefInv
<1>9. Live(s)
  BY <1>8 DEF RefInv, SlotsOK
<1>10. n >= 2 /\ n \in 1..n
  BY <1>1
<1>11. Top.si = s /\ stack[n].si = s /\ Top.fn = "unload"
  BY <1>1, <1>2
<1>12. QED
  BY <1>1, <1>3, <1>4, <1>5, <1>6, <1>7, <1>8, <1>9, <1>10, <1>11

\* The stack after a step of unload_library.
LEMMA UnloadStackKept ==
    ASSUME RefInv, UNCHANGED <<ret, lock, req>>, ~ret.done, lock \in Threads,
           Len(stack') \in Nat, Len(stack') >= 1, stack'[1].fn = "dlclose",
           \A k \in 1..Len(stack') : k > 1 => stack'[k].fn = "unload" /\ (k < Len(stack') => stack'[k].i > 0)
    PROVE  LockOK' /\ Shape' /\ RetOK' /\ LinksOK' /\ LinksApart' /\ OpenOK'
<1>1. \A k \in 1..Len(stack') : stack'[k].fn \in {"dlclose", "unload"} /\ (k = 1 <=> stack'[k].fn = "dlclose")
  OBVIOUS
<1>2. \A k \in 1..Len(stack') : FrameShape(k)'
  BY <1>1 DEF FrameShape
<1>3. Shape'
  BY <1>2, ConstantsAssumption DEF Shape
<1>4. LinksOK' /\ LinksApart' /\ OpenOK'
  BY <1>1 DEF LinksOK, LinksApart, OpenOK, Linking
<1>5. QED
  BY <1>3, <1>4 DEF RefInv, LockOK, RetOK

\* No soinfo is claimed by the stack of dlclose.
LEMMA UnloadClaims ==
    ASSUME RefInv, Running("unload"), NEW u \in Elems(solist)
    PROVE  u = Libdl \/ so[u].error \/ so[u].refcount > 0
<1>1. PICK n \in Nat : /\ n = Len(stack) /\ ~ret.done /\ stack[1].fn = "dlclose"
                       /\ \A k \in 1..n : k > 1 => stack[k].fn = "unload"
  BY UnloadPhase
<1>2. \A k \in 1..Len(stack) : stack[k].fn \notin {"link", "dlopen"}
  BY <1>1
<1>3. QED
  BY <1>1, <1>2 DEF RefInv, ClaimsOK, Claimed

\* Another reference is left.
LEMMA UnloadSharedStep ==
    ASSUME RefInv, TypeInv', PoolPartition', UnloadShared
    PROVE  RefInv'
<1>1. /\ Running("unload") /\ Pop /\ Top.i = 0 /\ ~LastReference(Top.si)
      /\ UNCHANGED <<solist, lock, req, ret, handles>>
  BY DEF UnloadShared, hist
<1>2. PICK n \in Nat, s \in Slots :
              /\ n = Len(stack) /\ n >= 2 /\ stack \in Seq(Frame) /\ Top = stack[n] /\ Top.si = s
              /\ DOMAIN stack = 1..n /\ n \in 1..n
              /\ stack[n].fn = "unload" /\ stack[n].si = s
              /\ ~ret.done /\ lock \in Threads /\ stack[1].fn = "dlclose" /\ stack # << >>
              /\ \A k \in 1..n : k > 1 => stack[k].fn = "unload" /\ (k < n => stack[k].i > 0)
              /\ n \in UnloadFrames(s) /\ so[s].refcount > 0 /\ Live(s)
  BY <1>1, UnloadPhase
<1>3. stack' \in Seq(Frame) /\ Len(stack') = n - 1 /\ \A k \in 1..(n - 1) : stack'[k] = stack[k] /\ k \in 1..n
  <2>1. stack' \in Seq(Frame) /\ Len(stack') = Len(stack) - 1 /\ \A k \in 1..Len(stack') : stack'[k] = stack[k] /\ k \in 1..Len(stack)
    BY <1>1, <1>2, PopType
  <2>2. QED
    BY <1>2, <2>1
<1>4. so \in [Slots -> Soinfo] /\ \A u \in Slots : so[u].refcount \in Int /\ so[u].refcount >= 0
  <2>1. so \in [Slots -> Soinfo]
    BY DEF RefInv, TypeInv, TypeOK
  <2>2. QED
    BY <2>1, Counted DEF RefInv, Soinfo
<1>5. so[s].refcount >= 2 /\ so[s].refcount - 1 > 0
  BY <1>1, <1>2, <1>4 DEF LastReference
<1>6. \A u \in Slots : /\ so'[u].path = so[u].path /\ so'[u].needed = so[u].needed
                       /\ so'[u].linked = so[u].linked /\ so'[u].error = so[u].error
                       /\ so'[u].mapped = so[u].mapped
                       /\ so'[u].refcount = IF u = s THEN so[u].refcount - 1 ELSE so[u].refcount
  BY <1>2, <1>4 DEF UnloadShared, Soinfo
<1>7. LockOK' /\ Shape' /\ RetOK' /\ LinksOK' /\ LinksApart' /\ OpenOK'
  <2>1. Len(stack') \in Nat /\ Len(stack') >= 1 /\ stack'[1].fn = "dlclose"
    BY <1>2, <1>3
  <2>2. \A k \in 1..Len(stack') : k > 1 => stack'[k].fn = "unload" /\ (k < Len(stack') => stack'[k].i > 0)
    BY <1>2, <1>3
  <2>3. QED
    BY <1>1, <1>2, <2>1, <2>2, UnloadStackKept
<1>8. Elems(solist)' = Elems(solist) /\ Elems(solist) \subseteq Slots
  BY <1>1 DEF Elems, RefInv, TypeInv, TypeOK
<1>9. \A u \in Slots : Live(u)' <=> Live(u)
  BY <1>6, <1>8 DEF Live
<1>10. SlotsOK'
  BY <1>2, <1>6, <1>8, <1>9 DEF RefInv, SlotsOK
<1>11. UniqueNames' /\ ~so'[Libdl].error
  <2>1. \A u \in Slots : name(u)' = name(u)
    BY <1>6 DEF name
  <2>2. QED
    BY <1>6, <1>8, <2>1, SlotFacts DEF RefInv, UniqueNames
<1>12. ClaimsOK'
  <2> SUFFICES ASSUME NEW u \in Elems(solist) PROVE Claimed(u)'
    BY <1>8 DEF ClaimsOK
  <2>1. u = Libdl \/ so[u].error \/ so[u].refcount > 0
    BY <1>1, UnloadClaims
  <2>2. u \in Slots
    BY <1>8
  <2>3. QED
    BY <1>5, <1>6, <2>1, <2>2 DEF Claimed
<1>13. UnloadsOK'
  <2> SUFFICES ASSUME NEW k \in 1..Len(stack'), stack'[k].fn = "unload", stack'[k].i > 0, NEW u, u = stack'[k].si
               PROVE  /\ so'[u].refcount = 1
                      /\ \A j \in DOMAIN so'[u].needed : j < stack'[k].i => so'[u].needed[j] \notin Slots
    BY DEF UnloadsOK
  <2>1. k \in 1..Len(stack) /\ stack'[k] = stack[k]
    BY <1>2, <1>3
  <2>2. u \in Slots
    BY <1>3 DEF Frame
  <2>3. so[u].refcount = 1 /\ \A j \in DOMAIN so[u].needed : j < stack[k].i => so[u].needed[j] \notin Slots
    BY <2>1 DEF RefInv, UnloadsOK
  <2>4. u # s
    BY <1>5, <2>3
  <2>5. QED
    BY <1>6, <2>1, <2>2, <2>3, <2>4
<1>14. RefcountExact'
  <2> SUFFICES ASSUME NEW d \in Slots
               PROVE  so'[d].refcount = handles'[d] + Cardinality(Closing(d)')
                                        + Cardinality(NeededRefs(d)') + Cardinality(UnloadFrames(d)')
    BY DEF RefcountExact
  <2>1. Closing(d)' = Closing(d) /\ NeededRefs(d)' = NeededRefs(d)
    BY <1>1, <1>6 DEF Closing, NeededRefs, Entries
  <2>2. UnloadFrames(d)' = UnloadFrames(d) \ {n}
    <3>1. DOMAIN stack' = 1..(n - 1)
      BY <1>2, <1>3
    <3>2. QED
      BY <1>2, <1>3, <3>1 DEF UnloadFrames
  <2>3. so[d].refcount = handles[d] + Cardinality(Closing(d)) + Cardinality(NeededRefs(d)) + Cardinality(UnloadFrames(d))
    BY DEF RefInv, RefcountExact
  <2>4. CASE d # s
    <3>1. UnloadFrames(d)' = UnloadFrames(d)
      BY <1>2, <2>2, <2>4 DEF UnloadFrames
    <3>2. QED
      BY <1>1, <1>6, <2>1, <2>3, <2>4, <3>1
  <2>5. CASE d = s
    <3>1. PICK c \in Nat, m \in Nat, f \in Nat :
              c = Cardinality(Closing(d)) /\ m = Cardinality(NeededRefs(d)) /\ f = Cardinality(UnloadFrames(d))
      BY RefsFinite DEF RefInv
    <3>2. IsFiniteSet(UnloadFrames(d)) /\ n \in UnloadFrames(d) /\ handles[d] \in Nat
      BY <1>2, <2>5, RefsFinite DEF RefInv
    <3>3. Cardinality(UnloadFrames(d) \ {n}) = f - 1
      BY <3>1, <3>2, FS_RemoveElement
    <3>4. so'[d].refcount = handles'[d] + c + m + (f - 1)
      BY <1>1, <1>6, <2>3, <2>5, <3>1, <3>2
    <3>5. QED
      BY <2>1, <2>2, <3>1, <3>3, <3>4
  <2>6. QED
    BY <2>4, <2>5
<1>15. QED
  BY <1>7, <1>10, <1>11, <1>12, <1>13, <1>14 DEF RefInv

\* The last reference: unload_library goes on, or faults on libdl.
LEMMA UnloadEnterStep ==
    ASSUME RefInv, TypeInv', PoolPartition', UnloadEnter
    PROVE  RefInv'
<1>1. /\ Running("unload") /\ Skip /\ Top.i = 0 /\ LastReference(Top.si)
      /\ UNCHANGED <<so, solist, lock, req, ret, handles>>
  BY DEF UnloadEnter, lib
<1>2. PICK n \in Nat, s \in Slots :
              /\ n = Len(stack) /\ n >= 2 /\ stack \in Seq(Frame) /\ Top = stack[n] /\ Top.si = s
              /\ DOMAIN stack = 1..n /\ n \in 1..n /\ Top \in Frame /\ Top.fn = "unload"
              /\ stack[n].fn = "unload" /\ stack[n].si = s
              /\ ~ret.done /\ lock \in Threads /\ stack[1].fn = "dlclose" /\ stack # << >>
              /\ \A k \in 1..n : k > 1 => stack[k].fn = "unload" /\ (k < n => stack[k].i > 0)
  BY <1>1, UnloadPhase
<1>3. PICK f : f = [Top EXCEPT !.i = @ + 1]
  OBVIOUS
<1>4. f.fn = "unload" /\ f.si = s /\ f.i = 1
  BY <1>1, <1>2, <1>3 DEF Frame
<1>5. /\ stack' \in Seq(Frame) /\ Len(stack') = n
      /\ \A k \in 1..n : stack'[k] = IF k = n THEN f ELSE stack[k]
  BY <1>1, <1>2, <1>3, SkipType
<1>6. LockOK' /\ Shape' /\ RetOK' /\ LinksOK' /\ LinksApart' /\ OpenOK'
  <2>1. Len(stack') \in Nat /\ Len(stack') >= 1 /\ stack'[1].fn = "dlclose"
    BY <1>2, <1>5
  <2>2. \A k \in 1..Len(stack') : k > 1 => stack'[k].fn = "unload" /\ (k < Len(stack') => stack'[k].i > 0)
    BY <1>2, <1>4, <1>5
  <2>3. QED
    BY <1>1, <1>2, <2>1, <2>2, UnloadStackKept
<1>7. SameLib
  BY <1>1 DEF SameLib
<1>8. /\ ~so'[Libdl].error /\ SlotsOK' /\ UniqueNames'
      /\ \A u, d \in Slots : Entries(u, d)' = Entries(u, d)
      /\ Elems(solist)' = Elems(solist)
  BY <1>7, SameLibKept
<1>9. ClaimsOK'
  <2> SUFFICES ASSUME NEW u \in Elems(solist) PROVE Claimed(u)'
    BY <1>8 DEF ClaimsOK
  <2>1. u = Libdl \/ so[u].error \/ so[u].refcount > 0
    BY <1>1, UnloadClaims
  <2>2. QED
    BY <1>1, <2>1 DEF Claimed
<1>10. UnloadsOK'
  <2> SUFFICES ASSUME NEW k \in 1..Len(stack'), stack'[k].fn = "unload", stack'[k].i > 0, NEW u, u = stack'[k].si
               PROVE  /\ so'[u].refcount = 1
                      /\ \A j \in DOMAIN so'[u].needed : j < stack'[k].i => so'[u].needed[j] \notin Slots
    BY DEF UnloadsOK
  <2>1. CASE k # n
    BY <1>1, <1>2, <1>5, <2>1 DEF RefInv, UnloadsOK
  <2>2. CASE k = n
    <3>1. u = s /\ stack'[k].i = 1
      BY <1>2, <1>4, <1>5, <2>2
    <3>2. so[s].needed \in Seq(Slots \cup {NULL, RAW})
      BY DEF RefInv, TypeInv, TypeOK, Soinfo
    <3>3. \A j \in DOMAIN so[s].needed : ~(j < 1)
      BY <3>2
    <3>4. QED
      BY <1>1, <1>2, <3>1, <3>3 DEF LastReference
  <2>3. QED
    BY <2>1, <2>2
<1>11. RefcountExact'
  <2>1. \A d \in Slots : UnloadFrames(d)' = UnloadFrames(d)
    <3>1. DOMAIN stack' = 1..n
      BY <1>2, <1>5
    <3>2. QED
      BY <1>2, <1>4, <1>5, <3>1 DEF UnloadFrames
  <2>2. QED
    BY <1>1, <1>8, <2>1, SameRefs
<1>12. QED
  BY <1>6, <1>8, <1>9, <1>10, <1>11 DEF RefInv

\* The fault on libdl, and steps that change nothing.
LEMMA UnloadLibdlStep ==
    ASSUME RefInv, TypeInv', PoolPartition', UnloadLibdl \/ UNCHANGED vars
    PROVE  RefInv'
<1>1. UNCHANGED <<so, solist, stack, ret, lock, req, handles>>
  BY DEF UnloadLibdl, vars, lib, hist, ctl
<1>2. /\ ~so'[Libdl].error /\ Shape' /\ RetOK' /\ LinksOK' /\ LinksApart' /\ OpenOK' /\ UnloadsOK'
      /\ SlotsOK' /\ ClaimsOK' /\ UniqueNames'
      /\ \A d \in Slots : NeededRefs(d)' = NeededRefs(d) /\ UnloadFrames(d)' = UnloadFrames(d)
  BY <1>1, SameCore
<1>3. RefcountExact'
  BY <1>1, <1>2 DEF RefInv, RefcountExact, Closing
<1>4. QED
  BY <1>1, <1>2, <1>3 DEF RefInv, LockOK

\* munmap, apkenv_free_info and refcount = 0.
LEMMA UnloadFinishStep ==
    ASSUME RefInv, TypeInv', PoolPartition', UnloadFinish
    PROVE  RefInv'
<1>1. /\ Running("unload") /\ Pop /\ Top.i = Len(so[Top.si].needed) + 1 /\ free_info(Top.si)
      /\ so' = [so EXCEPT ![Top.si].mapped = FALSE, ![Top.si].refcount = 0]
      /\ UNCHANGED <<lock, req, ret, handles>>
  BY DEF UnloadFinish, hist
<1>2. PICK n \in Nat, s \in Slots :
              /\ n = Len(stack) /\ n >= 2 /\ stack \in Seq(Frame) /\ Top = stack[n] /\ Top.si = s
              /\ DOMAIN stack = 1..n /\ n \in 1..n
              /\ stack[n].fn = "unload" /\ stack[n].si = s
              /\ ~ret.done /\ lock \in Threads /\ stack[1].fn = "dlclose" /\ stack # << >>
              /\ \A k \in 1..n : k > 1 => stack[k].fn = "unload" /\ (k < n => stack[k].i > 0)
              /\ n \in UnloadFrames(s) /\ so[s].refcount > 0 /\ Live(s)
  BY <1>1, UnloadPhase
<1>3. stack' \in Seq(Frame) /\ Len(stack') = n - 1 /\ \A k \in 1..(n - 1) : stack'[k] = stack[k] /\ k \in 1..n
  <2>1. stack' \in Seq(Frame) /\ Len(stack') = Len(stack) - 1 /\ \A k \in 1..Len(stack') : stack'[k] = stack[k] /\ k \in 1..Len(stack)
    BY <1>1, <1>2, PopType
  <2>2. QED
    BY <1>2, <2>1
<1>4. so \in [Slots -> Soinfo] /\ so[s].needed \in Seq(Slots \cup {NULL, RAW})
  BY DEF RefInv, TypeInv, TypeOK, Soinfo
<1>5. so[s].refcount = 1 /\ \A j \in DOMAIN so[s].needed : so[s].needed[j] \notin Slots
  <2>1. Top.i > 0 /\ stack[n].i = Len(so[s].needed) + 1
    BY <1>1, <1>2, <1>4
  <2>2. stack[n].i > 0
    BY <1>2, <2>1
  <2>3. so[s].refcount = 1 /\ \A j \in DOMAIN so[s].needed : j < stack[n].i => so[s].needed[j] \notin Slots
    BY <1>2, <2>2 DEF RefInv, UnloadsOK
  <2>4. \A j \in DOMAIN so[s].needed : j < Len(so[s].needed) + 1
    BY <1>4
  <2>5. QED
    BY <2>1, <2>3, <2>4
<1>6. /\ handles[s] = 0 /\ Closing(s) = {} /\ NeededRefs(s) = {} /\ Cardinality(UnloadFrames(s)) = 1
  BY <1>2, <1>5, Counted DEF RefInv
<1>7. UnloadFrames(s) = {n}
  <2>1. IsFiniteSet(UnloadFrames(s))
    BY RefsFinite DEF RefInv
  <2>2. IsFiniteSet(UnloadFrames(s) \ {n}) /\ Cardinality(UnloadFrames(s) \ {n}) = 1 - 1
    BY <1>2, <1>6, <2>1, FS_RemoveElement
  <2>3. UnloadFrames(s) \ {n} = {}
    BY <2>2, FS_EmptySet
  <2>4. QED
    BY <1>2, <2>3
<1>8. /\ \A u \in Slots : u # s => so'[u] = so[u]
      /\ so'[s].path = so[s].path /\ so'[s].needed = so[s].needed /\ so'[s].error = so[s].error
      /\ ~so'[s].mapped /\ so'[s].refcount = 0
  <2>1. so' = [so EXCEPT ![s] = [[so[s] EXCEPT !.mapped = FALSE] EXCEPT !.refcount = 0]]
    BY <1>1, <1>2, <1>4
  <2>2. PICK v : v = [so[s] EXCEPT !.mapped = FALSE]
    OBVIOUS
  <2>3. v \in Soinfo /\ v.path = so[s].path /\ v.needed = so[s].needed /\ v.linked = so[s].linked /\ v.error = so[s].error
        /\ v.mapped = FALSE
    BY <1>4, <2>2 DEF Soinfo
  <2>4. PICK w : w = [v EXCEPT !.refcount = 0]
    OBVIOUS
  <2>5. w.path = so[s].path /\ w.needed = so[s].needed /\ w.linked = so[s].linked /\ w.error = so[s].error
        /\ w.mapped = FALSE /\ w.refcount = 0
    BY <2>3, <2>4 DEF Soinfo
  <2>6. so' = [so EXCEPT ![s] = w]
    BY <2>1, <2>2, <2>4
  <2>7. QED
    BY <1>4, <2>5, <2>6
<1>9. LockOK' /\ Shape' /\ RetOK' /\ LinksOK' /\ LinksApart' /\ OpenOK'
  <2>1. Len(stack') \in Nat /\ Len(stack') >= 1 /\ stack'[1].fn = "dlclose"
    BY <1>2, <1>3
  <2>2. \A k \in 1..Len(stack') : k > 1 => stack'[k].fn = "unload" /\ (k < Len(stack') => stack'[k].i > 0)
    BY <1>2, <1>3
  <2>3. QED
    BY <1>1, <1>2, <2>1, <2>2, UnloadStackKept
<1>10. Elems(solist') = Elems(solist) \ {s} /\ Elems(solist) \subseteq Slots
  <2>1. solist \in Seq(Slots) /\ Injective(solist)
    BY DEF RefInv, TypeInv, TypeOK, PoolPartition
  <2>2. s \in Elems(solist)
    BY <1>2 DEF Live
  <2>3. solist' = Unlink(solist, s)
    BY <1>1, <1>2, <2>2 DEF free_info
  <2>4. Elems(Unlink(solist, s)) = Elems(solist) \ {s}
    BY <2>1, <2>2, UnlinkElems
  <2>5. Elems(solist) \subseteq Slots
    BY <2>1 DEF Elems
  <2>6. QED
    BY <2>3, <2>4, <2>5
<1>11. SlotsOK'
  <2> SUFFICES ASSUME NEW u \in Slots
               PROVE  /\ so'[u].refcount > 0 => u \in Elems(solist') /\ so'[u].mapped /\ ~so'[u].error
                      /\ u \in Elems(solist') /\ ~so'[u].error => so'[u].mapped
                      /\ u \notin Elems(solist') => \A k \in DOMAIN so'[u].needed : so'[u].needed[k] \notin Slots
    BY DEF SlotsOK, Live, Elems
  <2>1. CASE u = s
    <3>1. ~(so'[u].refcount > 0) /\ u \notin Elems(solist')
      BY <1>8, <1>10, <2>1
    <3>2. \A k \in DOMAIN so'[u].needed : so'[u].needed[k] \notin Slots
      BY <1>5, <1>8, <2>1
    <3>3. QED
      BY <3>1, <3>2
  <2>2. CASE u # s
    BY <1>8, <1>10, <2>2 DEF RefInv, SlotsOK, Live
  <2>3. QED
    BY <2>1, <2>2
<1>12. UniqueNames' /\ ~so'[Libdl].error
  <2>1. \A u \in Slots : name(u)' = name(u)
    BY <1>8 DEF name
  <2>2. Elems(solist)' = Elems(solist')
    BY DEF Elems
  <2>3. QED
    BY <1>8, <1>10, <2>1, <2>2, SlotFacts DEF RefInv, UniqueNames
<1>13. ClaimsOK'
  <2> SUFFICES ASSUME NEW u \in Elems(solist') PROVE Claimed(u)'
    BY DEF ClaimsOK, Elems
  <2>1. u # s /\ u \in Elems(solist) /\ u \in Slots
    BY <1>10
  <2>2. u = Libdl \/ so[u].error \/ so[u].refcount > 0
    BY <1>1, <2>1, UnloadClaims
  <2>3. QED
    BY <1>8, <2>1, <2>2 DEF Claimed
<1>14. UnloadsOK'
  <2> SUFFICES ASSUME NEW k \in 1..Len(stack'), stack'[k].fn = "unload", stack'[k].i > 0, NEW u, u = stack'[k].si
               PROVE  /\ so'[u].refcount = 1
                      /\ \A j \in DOMAIN so'[u].needed : j < stack'[k].i => so'[u].needed[j] \notin Slots
    BY DEF UnloadsOK
  <2>1. k \in 1..Len(stack) /\ stack'[k] = stack[k] /\ k # n
    BY <1>2, <1>3
  <2>2. u \in Slots
    BY <1>3 DEF Frame
  <2>3. so[u].refcount = 1 /\ \A j \in DOMAIN so[u].needed : j < stack[k].i => so[u].needed[j] \notin Slots
    BY <2>1 DEF RefInv, UnloadsOK
  <2>4. u # s
    BY <1>2, <1>7, <2>1 DEF UnloadFrames
  <2>5. QED
    BY <1>8, <2>1, <2>2, <2>3, <2>4
<1>15. RefcountExact'
  <2> SUFFICES ASSUME NEW d \in Slots
               PROVE  so'[d].refcount = handles'[d] + Cardinality(Closing(d)')
                                        + Cardinality(NeededRefs(d)') + Cardinality(UnloadFrames(d)')
    BY DEF RefcountExact
  <2>1. Closing(d)' = Closing(d) /\ NeededRefs(d)' = NeededRefs(d)
    <3>1. \A u \in Slots : so'[u].needed = so[u].needed
      BY <1>8
    <3>2. \A u \in Slots : Entries(u, d)' = Entries(u, d)
      BY <3>1 DEF Entries
    <3>3. QED
      BY <1>1, <3>2 DEF Closing, NeededRefs
  <2>2. UnloadFrames(d)' = UnloadFrames(d) \ {n}
    <3>1. DOMAIN stack' = 1..(n - 1)
      BY <1>2, <1>3
    <3>2. QED
      BY <1>2, <1>3, <3>1 DEF UnloadFrames
  <2>3. so[d].refcount = handles[d] + Cardinality(Closing(d)) + Cardinality(NeededRefs(d)) + Cardinality(UnloadFrames(d))
    BY DEF RefInv, RefcountExact
  <2>4. CASE d # s
    <3>1. UnloadFrames(d)' = UnloadFrames(d)
      BY <1>2, <2>2, <2>4 DEF UnloadFrames
    <3>2. QED
      BY <1>1, <1>8, <2>1, <2>3, <2>4, <3>1
  <2>5. CASE d = s
    <3>1. Closing(d)' = {} /\ NeededRefs(d)' = {} /\ UnloadFrames(d)' = {} /\ handles'[d] = 0
      BY <1>1, <1>6, <1>7, <2>1, <2>2, <2>5
    <3>2. QED
      BY <1>8, <2>5, <3>1, FS_EmptySet
  <2>6. QED
    BY <2>4, <2>5
<1>16. QED
  BY <1>9, <1>11, <1>12, <1>13, <1>14, <1>15 DEF RefInv

\* unload_library clears the next entry and gives up the reference it held.
LEMMA UnloadNeededStep ==
    ASSUME RefInv, TypeInv', PoolPartition', UnloadNeeded
    PROVE  RefInv'
<1>1. /\ Running("unload") /\ Top.i \in 1..Len(so[Top.si].needed)
      /\ so' = [so EXCEPT ![Top.si].needed[Top.i] = NULL]
      /\ UNCHANGED <<solist, lock, req, ret, handles>>
  BY DEF UnloadNeeded, hist
<1>2. PICK n \in Nat, s \in Slots :
              /\ n = Len(stack) /\ n >= 2 /\ stack \in Seq(Frame) /\ Top = stack[n] /\ Top.si = s
              /\ DOMAIN stack = 1..n /\ n \in 1..n /\ Top \in Frame /\ Top.fn = "unload"
              /\ stack[n].fn = "unload" /\ stack[n].si = s
              /\ ~ret.done /\ lock \in Threads /\ stack[1].fn = "dlclose" /\ stack # << >>
              /\ \A k \in 1..n : k > 1 => stack[k].fn = "unload" /\ (k < n => stack[k].i > 0)
              /\ n \in UnloadFrames(s) /\ so[s].refcount > 0 /\ Live(s)
  BY <1>1, UnloadPhase
<1>3. so \in [Slots -> Soinfo] /\ so[s].needed \in Seq(Slots \cup {NULL, RAW})
  BY DEF RefInv, TypeInv, TypeOK, Soinfo
<1>4. PICK i \in 1..Len(so[s].needed) : i = Top.i /\ i = stack[n].i /\ i > 0 /\ i \in Nat
  BY <1>1, <1>2, <1>3
<1>5. PICK d : d = so[s].needed[i]
  OBVIOUS
<1>6. PICK v : v = [so[s].needed EXCEPT ![i] = NULL]
  OBVIOUS
<1>7. /\ DOMAIN v = DOMAIN so[s].needed /\ v[i] = NULL /\ i \in DOMAIN so[s].needed
      /\ \A k \in DOMAIN so[s].needed : k # i => v[k] = so[s].needed[k]
  BY <1>3, <1>4, <1>6
<1>8. /\ \A u \in Slots : u # s => so'[u] = so[u]
      /\ so'[s].path = so[s].path /\ so'[s].linked = so[s].linked /\ so'[s].error = so[s].error
      /\ so'[s].mapped = so[s].mapped /\ so'[s].refcount = so[s].refcount /\ so'[s].needed = v
  <2>1. so' = [so EXCEPT ![s].needed = v]
    BY <1>1, <1>2, <1>3, <1>4, <1>6 DEF Soinfo
  <2>2. QED
    BY <1>3, <2>1 DEF Soinfo
<1>9. PICK f : f = [Top EXCEPT !.i = @ + 1]
  OBVIOUS
<1>10. f.fn = "unload" /\ f.si = s /\ f.i = i + 1
  BY <1>2, <1>4, <1>9 DEF Frame
<1>11. /\ d \notin Slots => /\ Len(stack') = n
                           /\ \A k \in 1..n : stack'[k] = IF k = n THEN f ELSE stack[k]
       /\ d \in Slots => /\ Len(stack') = n + 1 /\ stack'[n + 1] = Act("unload", None, d, 0)
                         /\ \A k \in 1..n : stack'[k] = IF k = n THEN f ELSE stack[k]
  <2>1. CASE d \notin Slots
    <3>1. Skip
      BY <1>2, <1>4, <1>5, <2>1 DEF UnloadNeeded, IsSlot
    <3>2. QED
      BY <1>2, <1>9, <2>1, <3>1, SkipType
  <2>2. CASE d \in Slots
    <3>1. PICK g : g = Act("unload", None, d, 0)
      OBVIOUS
    <3>2. Step(g)
      BY <1>2, <1>4, <1>5, <2>2, <3>1 DEF UnloadNeeded, IsSlot
    <3>3. g \in Frame
      BY <2>2, <3>1 DEF Act, Frame
    <3>4. QED
      BY <1>2, <1>9, <2>2, <3>1, <3>2, <3>3, StepType
  <2>3. QED
    BY <2>1, <2>2
<1>12. PICK m \in Nat : /\ m = Len(stack') /\ m \in {n, n + 1} /\ (m = n + 1 <=> d \in Slots)
                        /\ DOMAIN stack' = 1..m /\ stack' \in Seq(Frame)
                        /\ \A k \in 1..m : k \in 1..n \/ (k = n + 1 /\ d \in Slots)
  <2>1. stack' \in Seq(Frame) /\ DOMAIN stack' = 1..Len(stack') /\ Len(stack') \in Nat
    BY DEF TypeInv, TypeOK
  <2>2. Len(stack') \in {n, n + 1} /\ (Len(stack') = n + 1 <=> d \in Slots)
    BY <1>2, <1>11
  <2>3. \A k \in 1..Len(stack') : k \in 1..n \/ (k = n + 1 /\ d \in Slots)
    <3>1. CASE d \in Slots
      BY <2>2, <3>1
    <3>2. CASE d \notin Slots
      BY <2>2, <3>2
    <3>3. QED
      BY <3>1, <3>2
  <2>4. QED
    BY <2>1, <2>2, <2>3
<1>13. /\ \A k \in 1..n : stack'[k] = IF k = n THEN f ELSE stack[k]
       /\ d \in Slots => stack'[n + 1].fn = "unload" /\ stack'[n + 1].si = d /\ stack'[n + 1].i = 0
  BY <1>11 DEF Act
<1>14. LockOK' /\ Shape' /\ RetOK' /\ LinksOK' /\ LinksApart' /\ OpenOK'
  <2>1. Len(stack') \in Nat /\ Len(stack') >= 1 /\ stack'[1].fn = "dlclose"
    BY <1>2, <1>12, <1>13
  <2>2. \A k \in 1..Len(stack') : k > 1 => stack'[k].fn = "unload" /\ (k < Len(stack') => stack'[k].i > 0)
    <3> SUFFICES ASSUME NEW k \in 1..m, k > 1 PROVE stack'[k].fn = "unload" /\ (k < m => stack'[k].i > 0)
      BY <1>12
    <3>1. CASE k \in 1..n /\ k # n
      BY <1>2, <1>13, <3>1
    <3>2. CASE k = n
      BY <1>2, <1>4, <1>10, <1>13, <3>2
    <3>3. CASE k = n + 1 /\ d \in Slots
      BY <1>2, <1>12, <1>13, <3>3
    <3>4. QED
      BY <1>12, <3>1, <3>2, <3>3
  <2>3. QED
    BY <1>1, <1>2, <2>1, <2>2, UnloadStackKept
<1>15. Elems(solist)' = Elems(solist) /\ Elems(solist) \subseteq Slots
  BY <1>1 DEF Elems, RefInv, TypeInv, TypeOK
<1>16. \A u \in Slots : /\ so'[u].refcount = so[u].refcount /\ so'[u].error = so[u].error
                        /\ so'[u].mapped = so[u].mapped /\ so'[u].path = so[u].path
                        /\ DOMAIN so'[u].needed = DOMAIN so[u].needed
                        /\ \A k \in DOMAIN so[u].needed : so'[u].needed[k] \in {so[u].needed[k], NULL}
                        /\ Live(u)' <=> Live(u)
  BY <1>7, <1>8, <1>15 DEF Live
<1>17. SlotsOK'
  BY <1>15, <1>16, SlotFacts DEF RefInv, SlotsOK
<1>18. UniqueNames' /\ ~so'[Libdl].error
  <2>1. \A u \in Slots : name(u)' = name(u)
    BY <1>16 DEF name
  <2>2. ~so'[Libdl].error
    BY <1>16, SlotFacts DEF RefInv
  <2>3. QED
    BY <1>15, <2>1, <2>2 DEF RefInv, UniqueNames
<1>19. ClaimsOK'
  <2> SUFFICES ASSUME NEW u \in Elems(solist) PROVE Claimed(u)'
    BY <1>15 DEF ClaimsOK
  <2>1. u = Libdl \/ so[u].error \/ so[u].refcount > 0
    BY <1>1, UnloadClaims
  <2>2. u \in Slots
    BY <1>15
  <2>3. QED
    BY <1>16, <2>1, <2>2 DEF Claimed
<1>20. UnloadsOK'
  <2> SUFFICES ASSUME NEW k \in 1..Len(stack'), stack'[k].fn = "unload", stack'[k].i > 0, NEW u, u = stack'[k].si
               PROVE  /\ so'[u].refcount = 1
                      /\ \A j \in DOMAIN so'[u].needed : j < stack'[k].i => so'[u].needed[j] \notin Slots
    BY DEF UnloadsOK
  <2>1. CASE k \in 1..n /\ k # n
    <3>1. stack'[k] = stack[k]
      BY <1>13, <2>1
    <3>2. so[u].refcount = 1 /\ \A j \in DOMAIN so[u].needed : j < stack[k].i => so[u].needed[j] \notin Slots
      BY <1>2, <2>1, <3>1 DEF RefInv, UnloadsOK
    <3>3. u \in Slots
      BY <1>2, <2>1, <3>1 DEF Frame
    <3>4. QED
      BY <1>16, <3>1, <3>2, <3>3, SlotFacts
  <2>2. CASE k = n
    <3>1. u = s /\ stack'[k].i = i + 1
      BY <1>2, <1>10, <1>13, <2>2
    <3>2. so[s].refcount = 1 /\ \A j \in DOMAIN so[s].needed : j < i => so[s].needed[j] \notin Slots
      BY <1>2, <1>4 DEF RefInv, UnloadsOK
    <3>3. \A j \in DOMAIN so[s].needed : j < i + 1 => j < i \/ j = i
      BY <1>3, <1>4
    <3>4. \A j \in DOMAIN so[s].needed : j < i + 1 => v[j] \notin Slots
      BY <1>7, <3>2, <3>3, SlotFacts
    <3>5. QED
      BY <1>7, <1>8, <3>1, <3>2, <3>4
  <2>3. CASE k = n + 1 /\ d \in Slots
    BY <1>13, <2>3
  <2>4. QED
    BY <1>12, <2>1, <2>2, <2>3
<1>21. \A e \in Slots : UnloadFrames(e)' = IF e = d THEN UnloadFrames(e) \cup {n + 1} ELSE UnloadFrames(e)
  BY <1>2, <1>10, <1>12, <1>13 DEF UnloadFrames
<1>22. \A e \in Slots : NeededRefs(e)' = NeededRefs(e) \ {<<s, i>>}
  <2> TAKE e \in Slots
  <2>1. Entries(s, e)' = Entries(s, e) \ {i} /\ \A u \in Slots : u # s => Entries(u, e)' = Entries(u, e)
    BY <1>7, <1>8, SlotFacts DEF Entries
  <2>2. ASSUME NEW x \in NeededRefs(e)' PROVE x \in NeededRefs(e) \ {<<s, i>>}
    <3>1. PICK u \in Slots : \E k \in Entries(u, e)' : x = <<u, k>>
      BY RefMemberNext
    <3>2. PICK k \in Entries(u, e)' : x = <<u, k>>
      BY <3>1
    <3>3. k \in Entries(u, e) /\ ~(u = s /\ k = i)
      BY <2>1, <3>2
    <3>4. x \in NeededRefs(e)
      BY <3>2, <3>3, RefMember
    <3>5. x # <<s, i>>
      BY <3>2, <3>3
    <3>6. QED
      BY <3>4, <3>5
  <2>3. ASSUME NEW x \in NeededRefs(e), x # <<s, i>> PROVE x \in NeededRefs(e)'
    <3>1. PICK u \in Slots : \E k \in Entries(u, e) : x = <<u, k>>
      BY RefMember
    <3>2. PICK k \in Entries(u, e) : x = <<u, k>>
      BY <3>1
    <3>3. k \in Entries(u, e)'
      BY <2>1, <2>3, <3>2
    <3>4. QED
      BY <3>2, <3>3, RefMemberNext
  <2>4. QED
    BY <2>2, <2>3
<1>23. RefcountExact'
  <2> SUFFICES ASSUME NEW e \in Slots
               PROVE  so'[e].refcount = handles'[e] + Cardinality(Closing(e)')
                                        + Cardinality(NeededRefs(e)') + Cardinality(UnloadFrames(e)')
    BY DEF RefcountExact
  <2>1. Closing(e)' = Closing(e)
    BY <1>1 DEF Closing
  <2>2. so[e].refcount = handles[e] + Cardinality(Closing(e)) + Cardinality(NeededRefs(e)) + Cardinality(UnloadFrames(e))
    BY DEF RefInv, RefcountExact
  <2>3. CASE e # d
    <3>1. <<s, i>> \notin NeededRefs(e)
      <4>1. i \notin Entries(s, e)
        BY <1>5, <2>3 DEF Entries
      <4>2. SUFFICES ASSUME NEW u \in Slots, NEW k \in Entries(u, e), <<s, i>> = <<u, k>> PROVE FALSE
        BY RefMember
      <4>3. QED
        BY <4>1, <4>2
    <3>2. NeededRefs(e)' = NeededRefs(e) /\ UnloadFrames(e)' = UnloadFrames(e)
      BY <1>21, <1>22, <2>3, <3>1
    <3>3. QED
      BY <1>1, <1>16, <2>1, <2>2, <3>2
  <2>4. CASE e = d
    <3>1. PICK c \in Nat, r \in Nat, z \in Nat :
              c = Cardinality(Closing(e)) /\ r = Cardinality(NeededRefs(e)) /\ z = Cardinality(UnloadFrames(e))
      BY RefsFinite DEF RefInv
    <3>2. IsFiniteSet(NeededRefs(e)) /\ IsFiniteSet(UnloadFrames(e)) /\ handles[e] \in Nat
      BY RefsFinite DEF RefInv
    <3>3. <<s, i>> \in NeededRefs(e)
      <4>1. i \in Entries(s, e)
        BY <1>5, <1>7, <2>4 DEF Entries
      <4>2. QED
        BY <4>1, RefMember
    <3>4. n + 1 \notin UnloadFrames(e)
      BY <1>2 DEF UnloadFrames
    <3>5. Cardinality(NeededRefs(e) \ {<<s, i>>}) = r - 1
      BY <3>1, <3>2, <3>3, FS_RemoveElement
    <3>6. Cardinality(UnloadFrames(e) \cup {n + 1}) = z + 1
      BY <3>1, <3>2, <3>4, FS_AddElement
    <3>7. Cardinality(NeededRefs(e)') = r - 1
      BY <1>22, <3>5
    <3>8. Cardinality(UnloadFrames(e)') = z + 1
      BY <1>21, <2>4, <3>6
    <3>9. so'[e].refcount = handles'[e] + c + (r - 1) + (z + 1)
      <4>1. so'[e].refcount = so[e].refcount /\ handles'[e] = handles[e]
        BY <1>1, <1>16
      <4>2. so[e].refcount = handles[e] + c + r + z
        BY <2>2, <3>1
      <4>3. QED
        BY <3>2, <4>1, <4>2
    <3>10. QED
      BY <2>1, <3>1, <3>7, <3>8, <3>9
  <2>5. QED
    BY <2>3, <2>4
<1>24. QED
  BY <1>14, <1>17, <1>18, <1>19, <1>20, <1>23 DEF RefInv

-----------------------------------------------------------------------------
(* Loading and linking.                                                    *)

\* apkenv_alloc_info hands out a soinfo nobody knows of.
LEMMA AllocFresh ==
    ASSUME RefInv, alloc_info
    PROVE  /\ AllocSlot \in Pool /\ AllocSlot \in Slots /\ AllocSlot \notin Elems(solist) /\ so[AllocSlot].refcount = 0
           /\ AllocSlot # Libdl
           /\ \A k \in DOMAIN so[AllocSlot].needed : so[AllocSlot].needed[k] \notin Slots
<1>1. AllocSlot \in Pool /\ AllocSlot \in Slots /\ AllocSlot # Libdl
  BY AllocType, SlotFacts DEF RefInv
<1>2. AllocSlot \notin Elems(solist)
  <2>1. freelist \in Seq(Pool) /\ socount \in Nat
    BY ConstantsAssumption DEF RefInv, TypeInv, TypeOK
  <2>2. CASE freelist = << >>
    <3>1. AllocSlot = socount + 1
      BY <2>2 DEF AllocSlot
    <3>2. Elems(solist) \subseteq 0..socount
      BY DEF RefInv, PoolPartition
    <3>3. socount + 1 \notin 0..socount
      BY <2>1
    <3>4. QED
      BY <3>1, <3>2, <3>3
  <2>3. CASE freelist # << >>
    <3>1. AllocSlot = Head(freelist)
      BY <2>3 DEF AllocSlot
    <3>2. Head(freelist) \in Elems(freelist)
      BY <2>1, <2>3, TailElems DEF RefInv, PoolPartition
    <3>3. QED
      BY <3>1, <3>2 DEF RefInv, PoolPartition
  <2>4. QED
    BY <2>2, <2>3
<1>3. so[AllocSlot].refcount = 0
  <2>1. so[AllocSlot].refcount >= 0 /\ so[AllocSlot].refcount \in Int
    BY <1>1, Counted DEF RefInv, TypeInv, TypeOK, Soinfo
  <2>2. ~(so[AllocSlot].refcount > 0)
    BY <1>1, <1>2 DEF RefInv, SlotsOK, Live
  <2>3. QED
    BY <2>1, <2>2
<1>4. QED
  BY <1>1, <1>2, <1>3 DEF RefInv, SlotsOK

\* The soinfo of a load refers to nothing and nothing refers to it.
LEMMA FreshFacts ==
    ASSUME NEW p \in Paths, NEW m \in BOOLEAN
    PROVE  LET r == [FreshInfo(p) EXCEPT !.mapped = m]
           IN  /\ r.path = p /\ ~r.linked /\ ~r.error /\ r.refcount = 0 /\ r.mapped = m
               /\ ~r.constructors_called
               /\ \A k \in DOMAIN r.needed : r.needed[k] \notin Slots
               /\ FreshInfo(p).refcount = 0
               /\ \A k \in DOMAIN FreshInfo(p).needed : FreshInfo(p).needed[k] \notin Slots
<1>1. PICK n : n = [k \in 1..Len(Needed[p]) |-> RAW]
  OBVIOUS
<1>2. \A k \in DOMAIN n : n[k] \notin Slots
  BY <1>1, SlotFacts
<1>3. PICK z : z = ZeroInfo
  OBVIOUS
<1>4. z = [path |-> None, linked |-> FALSE, error |-> FALSE, refcount |-> 0,
           mapped |-> FALSE, constructors_called |-> FALSE, needed |-> << >>]
  BY <1>3 DEF ZeroInfo, libdl_info
<1>5. PICK f : f = [path |-> p, linked |-> FALSE, error |-> FALSE, refcount |-> 0,
           mapped |-> FALSE, constructors_called |-> FALSE, needed |-> n]
  OBVIOUS
<1>6. FreshInfo(p) = [z EXCEPT !.path = p, !.needed = n]
  BY <1>1, <1>3 DEF FreshInfo
<1>7. FreshInfo(p) = f
  BY <1>4, <1>5, <1>6
<1>8. QED
  BY <1>2, <1>5, <1>7

\* The soinfo of a load that failed goes back to the free list.
LEMMA LoadFailAllocatedStep ==
    ASSUME RefInv, TypeInv', PoolPartition', LoadFailAllocated
    PROVE  RefInv'
<1>1. /\ Running("find") /\ Pop /\ alloc_info /\ UNCHANGED <<solist, lock, req, handles>>
      /\ so' = [so EXCEPT ![AllocSlot] = FreshInfo(Target)] /\ ret'.done /\ ret'.si = NULL
  BY DEF LoadFailAllocated, Loading, hist, Returns
<1>2. PICK a \in Slots : a = AllocSlot /\ a \notin Elems(solist) /\ so[a].refcount = 0
  BY <1>1, AllocFresh
<1>3. Target \in Paths
  BY <1>1, TopFrame, ConstantsAssumption DEF RefInv, Target
<1>4. PICK r : r = FreshInfo(Target)
  OBVIOUS
<1>5. r.refcount = 0 /\ \A k \in DOMAIN r.needed : r.needed[k] \notin Slots
  BY <1>3, <1>4, FreshFacts
<1>6. so \in [Slots -> Soinfo] /\ so' = [so EXCEPT ![a] = r]
  BY <1>1, <1>2, <1>4 DEF RefInv, TypeInv, TypeOK
<1>7. so'[a] = r /\ \A u \in Slots : u # a => so'[u] = so[u]
  BY <1>6
<1>8. ListedSame
  BY <1>1, <1>2, <1>5, <1>7 DEF ListedSame, RefInv, SlotsOK
<1>9. QED
  BY <1>1, <1>8, QuietPop

\* While bionic_dlopen searches, the activations above it are links, and at
\* most one search on top.
LEMMA LinkPhase ==
    ASSUME RefInv, NEW fn \in {"find", "link"}, Running(fn)
    PROVE  \E n \in Nat :
              /\ n = Len(stack) /\ n >= 2 /\ n \in 1..n /\ stack \in Seq(Frame) /\ DOMAIN stack = 1..n /\ stack # << >>
              /\ Top = stack[n] /\ Top \in Frame /\ Top.fn = fn /\ stack[n].fn = fn /\ lock \in Threads
              /\ stack[1].fn = "dlopen" /\ stack[1].si = NULL
              /\ \A k \in 1..n : k > 1 /\ k < n => stack[k].fn = "link"
              /\ fn = "find" => ~ret.done
<1>1. PICK n \in Nat : n = Len(stack) /\ n >= 1 /\ n # 1 /\ Top = stack[n] /\ stack[n].fn = fn /\ FrameShape(n)
                       /\ lock \in Threads /\ stack \in Seq(Frame) /\ stack # << >> /\ Top \in Frame
  BY OnTop
<1>2. stack[1].fn = "dlopen" /\ stack[1].si = NULL /\ (fn = "find" => ~ret.done)
  BY <1>1 DEF FrameShape
<1>3. ASSUME NEW k \in 1..n, k > 1, k < n PROVE stack[k].fn = "link"
  <2>1. FrameShape(k)
    BY <1>1 DEF RefInv, Shape
  <2>2. stack[k].fn \in {"find", "link"}
    BY <1>2, <1>3, <2>1 DEF FrameShape
  <2>3. stack[k].fn # "find"
    BY <1>1, <1>3, <2>1 DEF FrameShape
  <2>4. QED
    BY <2>2, <2>3
<1>4. DOMAIN stack = 1..n /\ n >= 2 /\ n \in 1..n
  BY <1>1
<1>5. QED
  BY <1>1, <1>2, <1>3, <1>4

\* The stack after a step of that phase.
LEMMA LinkStackKept ==
    ASSUME UNCHANGED <<lock, req>>, RefInv, lock \in Threads, NEW m \in Nat, m = Len(stack'), m >= 1,
           stack' \in Seq(Frame), stack'[1].fn = "dlopen", stack'[1].si = NULL,
           \A k \in 1..m : k > 1 => stack'[k].fn = "link" \/ (stack'[k].fn = "find" /\ k = m /\ ~ret'.done)
    PROVE  /\ LockOK' /\ Shape' /\ OpenOK' /\ UnloadsOK' /\ \A d \in Slots : UnloadFrames(d)' = {}
<1>1. \A k \in 1..m : FrameShape(k)'
  BY DEF FrameShape
<1>2. Shape'
  BY <1>1, ConstantsAssumption DEF Shape
<1>3. OpenOK' /\ UnloadsOK'
  <2>1. \A k \in 1..m : stack'[k].fn # "unload" /\ (stack'[k].fn \in {"dlopen", "ctor", "selfwait"} => stack'[k].si = NULL)
    BY DEF FrameShape
  <2>2. QED
    BY <2>1 DEF OpenOK, UnloadsOK
<1>4. \A d \in Slots : UnloadFrames(d)' = {}
  <2>1. DOMAIN stack' = 1..m
    OBVIOUS
  <2>2. QED
    BY <2>1 DEF UnloadFrames
<1>5. QED
  BY <1>2, <1>3, <1>4 DEF RefInv, LockOK

\* Nothing is unloaded while bionic_dlopen searches.
LEMMA NoUnloadFrames ==
    ASSUME RefInv, NEW fn \in {"find", "link"}, Running(fn)
    PROVE  \A d \in Slots : UnloadFrames(d) = {}
<1>1. PICK n \in Nat : n >= 2 /\ DOMAIN stack = 1..n /\ stack[n].fn = fn
                       /\ stack[1].fn = "dlopen" /\ \A k \in 1..n : k > 1 /\ k < n => stack[k].fn = "link"
  BY LinkPhase
<1>2. \A k \in 1..n : k = 1 \/ k = n \/ (k > 1 /\ k < n)
  BY <1>1
<1>3. QED
  BY <1>1, <1>2 DEF UnloadFrames

\* The segments are mapped: the search becomes a link.
LEMMA LoadOkStep ==
    ASSUME RefInv, TypeInv', PoolPartition', LoadOk
    PROVE  RefInv'
<1>1. /\ Running("find") /\ Matches = {} /\ alloc_info /\ UNCHANGED <<ret, lock, req, handles>>
      /\ so' = [so EXCEPT ![AllocSlot] = [FreshInfo(Target) EXCEPT !.mapped = TRUE]]
      /\ solist' = Append(solist, AllocSlot)
      /\ SetTop(Act("link", None, AllocSlot, 1))
  BY DEF LoadOk, Loading, hist
<1>2. PICK n \in Nat :
              /\ n = Len(stack) /\ n >= 2 /\ n \in 1..n /\ stack \in Seq(Frame) /\ DOMAIN stack = 1..n /\ stack # << >>
              /\ stack[n].fn = "find" /\ lock \in Threads
              /\ stack[1].fn = "dlopen" /\ stack[1].si = NULL
              /\ \A k \in 1..n : k > 1 /\ k < n => stack[k].fn = "link"
              /\ ~ret.done
  BY <1>1, LinkPhase
<1>3. PICK a \in Slots : /\ a = AllocSlot /\ a \notin Elems(solist) /\ so[a].refcount = 0 /\ a # Libdl
                         /\ \A k \in DOMAIN so[a].needed : so[a].needed[k] \notin Slots
  BY <1>1, AllocFresh
<1>4. PICK p \in Paths : p = Target
  BY <1>1, TopFrame, ConstantsAssumption DEF RefInv, Target
<1>5. PICK r : r = [FreshInfo(p) EXCEPT !.mapped = TRUE]
  OBVIOUS
<1>6. /\ r.path = p /\ ~r.linked /\ ~r.error /\ r.refcount = 0 /\ r.mapped
      /\ \A k \in DOMAIN r.needed : r.needed[k] \notin Slots
  BY <1>5, FreshFacts
<1>7. so \in [Slots -> Soinfo] /\ so' = [so EXCEPT ![a] = r]
  BY <1>1, <1>3, <1>4, <1>5 DEF RefInv, TypeInv, TypeOK
<1>8. so'[a] = r /\ \A u \in Slots : u # a => so'[u] = so[u]
  BY <1>7
<1>9. PICK g : g = Act("link", None, a, 1)
  OBVIOUS
<1>10. g \in Frame /\ g.fn = "link" /\ g.si = a /\ g.i = 1
  BY <1>9 DEF Act, Frame
<1>11. stack' \in Seq(Frame) /\ Len(stack') = n /\ \A k \in 1..n : stack'[k] = IF k = n THEN g ELSE stack[k]
  BY <1>1, <1>2, <1>3, <1>9, <1>10, SetTopType
<1>12. Elems(solist)' = Elems(solist) \cup {a} /\ Elems(solist) \subseteq Slots
  <2>1. solist \in Seq(Slots) /\ Injective(solist)
    BY DEF RefInv, TypeInv, TypeOK, PoolPartition
  <2>2. Elems(Append(solist, a)) = Elems(solist) \cup {a}
    BY <1>3, <2>1, AppendElems
  <2>3. Elems(solist)' = Elems(solist')
    BY DEF Elems
  <2>4. Elems(solist) \subseteq Slots
    BY <2>1 DEF Elems
  <2>5. QED
    BY <1>1, <1>3, <2>2, <2>3, <2>4
<1>13. \A u \in Elems(solist) : so'[u] = so[u] /\ u # a /\ u \in Slots
  BY <1>3, <1>8, <1>12
<1>14. \A u \in Elems(solist) : Live(u)' <=> Live(u)
  BY <1>12, <1>13 DEF Live
<1>15. LockOK' /\ Shape' /\ OpenOK' /\ UnloadsOK' /\ \A d \in Slots : UnloadFrames(d)' = {}
  <2>1. Len(stack') >= 1 /\ stack'[1].fn = "dlopen" /\ stack'[1].si = NULL
    BY <1>2, <1>11
  <2>2. \A k \in 1..n : k > 1 => stack'[k].fn = "link"
    BY <1>2, <1>10, <1>11
  <2>3. QED
    BY <1>1, <1>2, <1>11, <2>1, <2>2, LinkStackKept
<1>16. RetOK'
  BY <1>1, <1>2 DEF RetOK
<1>17. Live(a)'
  BY <1>6, <1>8, <1>12 DEF Live
<1>18. LinksOK'
  <2> SUFFICES ASSUME NEW k \in 1..n, stack'[k].fn = "link", NEW s, s = stack'[k].si
               PROVE  LinkOK(k, s)'
    BY <1>11 DEF LinksOK, Linking
  <2>1. CASE k = n
    <3>1. s = a /\ stack'[k].i = 1
      BY <1>10, <1>11, <2>1
    <3>2. ~ret'.done /\ ~(k < Len(stack')) /\ so'[s] = r
      BY <1>1, <1>2, <1>8, <1>11, <2>1, <3>1
    <3>3. Live(s)' /\ ~so'[s].linked /\ so'[s].refcount = 0
      BY <1>6, <1>17, <3>1, <3>2 DEF Live
    <3>4. \A j \in DOMAIN so'[s].needed : so'[s].needed[j] \notin Slots
      BY <1>6, <3>2
    <3>5. QED
      BY <3>2, <3>3, <3>4 DEF LinkOK
  <2>2. CASE k # n
    <3>1. stack'[k] = stack[k]
      BY <1>11, <2>2
    <3>2. LinkOK(k, s)
      BY <1>2, <3>1 DEF RefInv, LinksOK, Linking
    <3>3. s \in Elems(solist)
      BY <3>2 DEF LinkOK, Live
    <3>4. QED
      BY <1>1, <1>2, <1>11, <1>13, <1>14, <3>1, <3>2, <3>3 DEF LinkOK
  <2>3. QED
    BY <2>1, <2>2
<1>19. LinksApart'
  <2> SUFFICES ASSUME NEW j \in 1..n, NEW k \in 1..n, stack'[j].fn = "link", stack'[k].fn = "link", stack'[j].si = stack'[k].si
               PROVE  j = k
    BY <1>11 DEF LinksApart, Linking
  <2>1. \A q \in 1..n : q # n /\ stack'[q].fn = "link" => stack'[q].si # a
    <3> SUFFICES ASSUME NEW q \in 1..n, q # n, stack'[q].fn = "link" PROVE stack'[q].si # a
      OBVIOUS
    <3>1. stack[q].fn = "link" /\ stack'[q].si = stack[q].si
      BY <1>11
    <3>2. Live(stack[q].si)
      BY <1>2, <3>1 DEF RefInv, LinksOK, Linking, LinkOK
    <3>3. QED
      BY <1>3, <3>1, <3>2 DEF Live
  <2>2. CASE j = n \/ k = n
    BY <1>10, <1>11, <2>1, <2>2
  <2>3. CASE j # n /\ k # n
    BY <1>2, <1>11, <2>3 DEF RefInv, LinksApart, Linking
  <2>4. QED
    BY <2>2, <2>3
<1>20. SlotsOK' /\ ~so'[Libdl].error
  <2>1. ~so'[Libdl].error
    BY <1>3, <1>8, SlotFacts DEF RefInv
  <2>2. SUFFICES ASSUME NEW u \in Slots
               PROVE  /\ so'[u].refcount > 0 => Live(u)'
                      /\ u \in Elems(solist)' /\ ~so'[u].error => so'[u].mapped
                      /\ u \notin Elems(solist)' => \A k \in DOMAIN so'[u].needed : so'[u].needed[k] \notin Slots
    BY <2>1 DEF SlotsOK
  <2>3. CASE u = a
    BY <1>6, <1>8, <1>12, <1>17, <2>3
  <2>4. CASE u # a
    <3>1. so'[u] = so[u] /\ (u \in Elems(solist)' <=> u \in Elems(solist))
      BY <1>8, <1>12, <2>4
    <3>2. so[u].refcount > 0 => Live(u)'
      BY <1>14 DEF RefInv, SlotsOK, Live
    <3>3. QED
      BY <3>1, <3>2 DEF RefInv, SlotsOK
  <2>5. QED
    BY <2>3, <2>4
<1>21. UniqueNames'
  <2>1. \A u \in Elems(solist) : name(u)' = name(u) /\ name(u) # Bname[p]
    <3>1. \A u \in Elems(solist) : name(u)' = name(u)
      BY <1>13 DEF name
    <3>2. \A u \in Elems(solist) : name(u) # Bname[p]
      BY <1>1, <1>4 DEF Matches
    <3>3. QED
      BY <3>1, <3>2
  <2>2. name(a)' = Bname[p]
    BY <1>3, <1>6, <1>8 DEF name
  <2>3. SUFFICES ASSUME NEW s \in Elems(solist) \cup {a}, NEW u \in Elems(solist) \cup {a}, name(s)' = name(u)'
                 PROVE  s = u
    BY <1>12 DEF UniqueNames
  <2>4. CASE s = a \/ u = a
    BY <2>1, <2>2, <2>3, <2>4
  <2>5. CASE s # a /\ u # a
    BY <2>1, <2>3, <2>5 DEF RefInv, UniqueNames
  <2>6. QED
    BY <2>4, <2>5
<1>22. RefcountExact'
  <2>1. \A u \in Slots : so'[u].refcount = so[u].refcount
    BY <1>3, <1>6, <1>8
  <2>2. \A u, d \in Slots : Entries(u, d)' = Entries(u, d)
    <3> TAKE u, d \in Slots
    <3>1. CASE u = a
      BY <1>3, <1>6, <1>8, <3>1 DEF Entries
    <3>2. CASE u # a
      BY <1>8, <3>2 DEF Entries
    <3>3. QED
      BY <3>1, <3>2
  <2>3. \A d \in Slots : UnloadFrames(d) = {}
    BY <1>1, NoUnloadFrames
  <2>4. QED
    BY <1>1, <1>15, <2>1, <2>2, <2>3, SameRefs
<1>23. ClaimsOK'
  <2> SUFFICES ASSUME NEW u \in Elems(solist) \cup {a} PROVE Claimed(u)'
    BY <1>12 DEF ClaimsOK
  <2>1. CASE u = a
    BY <1>2, <1>10, <1>11, <2>1 DEF Claimed
  <2>2. CASE u # a
    <3>1. u \in Elems(solist) /\ Claimed(u)
      BY <2>2 DEF RefInv, ClaimsOK
    <3>2. ASSUME NEW k \in 1..Len(stack), stack[k].fn \in {"link", "dlopen"}, stack[k].si = u
          PROVE  k \in 1..Len(stack') /\ stack'[k].fn \in {"link", "dlopen"} /\ stack'[k].si = u
      BY <1>2, <1>11, <3>2
    <3>3. QED
      BY <1>1, <1>13, <3>1, <3>2 DEF Claimed
  <2>3. QED
    BY <2>1, <2>2
<1>24. QED
  BY <1>15, <1>16, <1>18, <1>19, <1>20, <1>21, <1>22, <1>23 DEF RefInv

\* link_image ends, with FLAG_LINKED or with FLAG_ERROR.
LEMMA LinkEnd ==
    ASSUME RefInv, TypeInv', PoolPartition', Running("link"), Pop, ~ret.done, ret'.done,
           UNCHANGED <<solist, lock, req, handles>>, NEW s, s = Top.si,
           \A u \in Slots : u # s => so'[u] = so[u],
           so'[s].path = so[s].path, so'[s].needed = so[s].needed, so'[s].refcount = so[s].refcount,
           \/ ret'.si = NULL /\ so'[s].error
           \/ ret'.si = s /\ so'[s].error = so[s].error /\ so'[s].mapped = so[s].mapped
    PROVE  RefInv'
<1>1. PICK n \in Nat :
              /\ n = Len(stack) /\ n >= 2 /\ n \in 1..n /\ stack \in Seq(Frame) /\ DOMAIN stack = 1..n /\ stack # << >>
              /\ Top = stack[n] /\ stack[n].fn = "link" /\ lock \in Threads
              /\ stack[1].fn = "dlopen" /\ stack[1].si = NULL
              /\ \A k \in 1..n : k > 1 /\ k < n => stack[k].fn = "link"
  BY LinkPhase
<1>2. stack' \in Seq(Frame) /\ Len(stack') = n - 1 /\ \A k \in 1..(n - 1) : stack'[k] = stack[k] /\ k \in 1..n
  <2>1. stack' \in Seq(Frame) /\ Len(stack') = Len(stack) - 1 /\ \A k \in 1..Len(stack') : stack'[k] = stack[k] /\ k \in 1..Len(stack)
    BY <1>1, PopType
  <2>2. QED
    BY <1>1, <2>1
<1>3. LinkOK(n, s) /\ s \in Slots /\ s \in Pool
  BY <1>1, TopFrame, SlotFacts DEF RefInv, LinksOK, Linking
<1>4. Live(s) /\ so[s].refcount = 0
  BY <1>3 DEF LinkOK
<1>5. Elems(solist)' = Elems(solist) /\ Elems(solist) \subseteq Slots
  BY DEF Elems, RefInv, TypeInv, TypeOK
<1>6. ret'.si = s => Live(s)'
  BY <1>3, <1>4, <1>5, SlotFacts DEF Live
<1>7. \A u \in Slots : u # s => (Live(u)' <=> Live(u))
  BY <1>5 DEF Live
<1>8. /\ LockOK' /\ Shape' /\ OpenOK' /\ UnloadsOK' /\ \A d \in Slots : UnloadFrames(d)' = {}
  <2>1. n - 1 \in Nat /\ n - 1 >= 1 /\ stack'[1].fn = "dlopen" /\ stack'[1].si = NULL
    BY <1>1, <1>2
  <2>2. \A k \in 1..(n - 1) : k > 1 => stack'[k].fn = "link"
    BY <1>1, <1>2
  <2>3. QED
    BY <1>1, <1>2, <2>1, <2>2, LinkStackKept
<1>9. RetOK'
  <2>1. stack' # << >> /\ Top' = stack'[n - 1]
    BY <1>1, <1>2 DEF Top
  <2>2. Top'.fn = "link" \/ (Top'.fn = "dlopen" /\ Top'.si = NULL)
    <3>1. CASE n = 2
      BY <1>1, <1>2, <2>1, <3>1
    <3>2. CASE n > 2
      BY <1>1, <1>2, <2>1, <3>2
    <3>3. QED
      BY <1>1, <3>1, <3>2
  <2>3. (ret.si # NULL => Live(ret.si))'
    BY <1>6 DEF Live
  <2>4. QED
    BY <2>1, <2>2, <2>3 DEF RetOK
<1>10. LinksOK'
  <2> SUFFICES ASSUME NEW k \in 1..(n - 1), stack'[k].fn = "link", NEW u, u = stack'[k].si
               PROVE  LinkOK(k, u)'
    BY <1>2 DEF LinksOK, Linking
  <2>1. stack'[k] = stack[k] /\ k \in 1..n /\ k # n /\ k < Len(stack)
    BY <1>1, <1>2
  <2>2. LinkOK(k, u)
    BY <1>1, <2>1 DEF RefInv, LinksOK, Linking
  <2>3. u # s
    BY <1>1, <2>1 DEF RefInv, LinksApart, Linking
  <2>4. u \in Slots /\ u # NULL
    BY <1>5, <2>2, SlotFacts DEF LinkOK, Live
  <2>5. so'[u] = so[u] /\ Live(u)' /\ ret'.si # u
    BY <1>7, <2>2, <2>3, <2>4 DEF LinkOK
  <2>6. QED
    BY <2>1, <2>2, <2>5 DEF LinkOK
<1>11. LinksApart'
  BY <1>1, <1>2 DEF RefInv, LinksApart, Linking
<1>12. SlotsOK' /\ ~so'[Libdl].error
  <2>1. ~so'[Libdl].error
    BY <1>3, SlotFacts DEF RefInv
  <2>2. SUFFICES ASSUME NEW u \in Slots
               PROVE  /\ so'[u].refcount > 0 => Live(u)'
                      /\ u \in Elems(solist)' /\ ~so'[u].error => so'[u].mapped
                      /\ u \notin Elems(solist)' => \A k \in DOMAIN so'[u].needed : so'[u].needed[k] \notin Slots
    BY <2>1 DEF SlotsOK
  <2>3. CASE u = s
    <3>1. ~(so'[u].refcount > 0) /\ u \in Elems(solist)'
      BY <1>4, <1>5, <2>3 DEF Live
    <3>2. ~so'[u].error => so'[u].mapped
      BY <1>4, <2>3 DEF Live
    <3>3. QED
      BY <3>1, <3>2
  <2>4. CASE u # s
    BY <1>5, <1>7, <2>4 DEF RefInv, SlotsOK
  <2>5. QED
    BY <2>3, <2>4
<1>13. UniqueNames'
  <2>1. \A u \in Slots : name(u)' = name(u)
    BY <1>3 DEF name
  <2>2. QED
    BY <1>5, <2>1 DEF RefInv, UniqueNames
<1>14. RefcountExact'
  <2>1. \A u \in Slots : so'[u].refcount = so[u].refcount /\ so'[u].needed = so[u].needed
    OBVIOUS
  <2>2. \A u, d \in Slots : Entries(u, d)' = Entries(u, d)
    BY <2>1 DEF Entries
  <2>3. \A d \in Slots : UnloadFrames(d) = {}
    BY NoUnloadFrames
  <2>4. QED
    BY <1>8, <2>1, <2>2, <2>3, SameRefs
<1>15. ClaimsOK'
  <2> SUFFICES ASSUME NEW u \in Elems(solist) PROVE Claimed(u)'
    BY <1>5 DEF ClaimsOK
  <2>1. CASE u = s
    BY <2>1 DEF Claimed
  <2>2. CASE u # s
    <3>1. u \in Slots /\ Claimed(u)
      BY <1>5 DEF RefInv, ClaimsOK
    <3>2. ASSUME NEW k \in 1..Len(stack), stack[k].fn \in {"link", "dlopen"}, stack[k].si = u
          PROVE  k \in 1..Len(stack') /\ stack'[k].fn \in {"link", "dlopen"} /\ stack'[k].si = u
      <4>1. k # n
        BY <1>1, <2>2, <3>2
      <4>2. k \in 1..(n - 1)
        BY <1>1, <4>1
      <4>3. QED
        BY <1>2, <3>2, <4>2
    <3>3. QED
      BY <2>2, <3>1, <3>2 DEF Claimed
  <2>3. QED
    BY <2>1, <2>2
<1>16. QED
  BY <1>8, <1>9, <1>10, <1>11, <1>12, <1>13, <1>14, <1>15 DEF RefInv

\* The ends of link_image.
LEMMA LinkEndSteps ==
    ASSUME RefInv, TypeInv', PoolPartition', LinkFailEarly \/ LinkFailReloc \/ LinkFailRelro \/ LinkFinish
    PROVE  RefInv'
<1>1. Running("link") /\ Pop /\ ~ret.done /\ ret'.done /\ UNCHANGED <<solist, lock, req, handles>>
  BY DEF LinkFailEarly, LinkFailReloc, LinkFailRelro, LinkFinish, LinkFails, LinkStart, LinkBound, hist, Returns
<1>2. PICK s \in Slots : s = Top.si
  BY <1>1, TopFrame DEF RefInv
<1>3. so \in [Slots -> Soinfo] /\ so[s] \in Soinfo
  BY DEF RefInv, TypeInv, TypeOK
<1>4. PICK v : v = [so[s] EXCEPT !.linked = TRUE]
  OBVIOUS
<1>5. v \in Soinfo /\ v.path = so[s].path /\ v.needed = so[s].needed /\ v.refcount = so[s].refcount
      /\ v.error = so[s].error /\ v.mapped = so[s].mapped
  BY <1>3, <1>4 DEF Soinfo
<1>6. ASSUME NEW r \in Soinfo
      PROVE  LET w == [[r EXCEPT !.error = TRUE] EXCEPT !.mapped = FALSE]
             IN  w.path = r.path /\ w.needed = r.needed /\ w.refcount = r.refcount /\ w.error
  <2>1. PICK x : x = [r EXCEPT !.error = TRUE]
    OBVIOUS
  <2>2. x \in Soinfo /\ x.path = r.path /\ x.needed = r.needed /\ x.refcount = r.refcount /\ x.error
    BY <2>1 DEF Soinfo
  <2>3. PICK y : y = [x EXCEPT !.mapped = FALSE]
    OBVIOUS
  <2>4. y.path = r.path /\ y.needed = r.needed /\ y.refcount = r.refcount /\ y.error
    BY <2>2, <2>3 DEF Soinfo
  <2>5. QED
    BY <2>1, <2>3, <2>4
<1>7. ASSUME NEW r \in Soinfo, r.path = so[s].path, r.needed = so[s].needed, r.refcount = so[s].refcount,
             ret'.si = NULL, so' = [so EXCEPT ![s] = [[r EXCEPT !.error = TRUE] EXCEPT !.mapped = FALSE]]
      PROVE  RefInv'
  <2>1. PICK w : w = [[r EXCEPT !.error = TRUE] EXCEPT !.mapped = FALSE]
    OBVIOUS
  <2>2. w.path = so[s].path /\ w.needed = so[s].needed /\ w.refcount = so[s].refcount /\ w.error
    BY <1>6, <1>7, <2>1
  <2>3. so' = [so EXCEPT ![s] = w]
    BY <1>7, <2>1
  <2>4. so'[s] = w /\ \A u \in Slots : u # s => so'[u] = so[u]
    BY <1>3, <2>3
  <2>5. /\ so'[s].path = so[s].path /\ so'[s].needed = so[s].needed /\ so'[s].refcount = so[s].refcount
        /\ ret'.si = NULL /\ so'[s].error /\ \A u \in Slots : u # s => so'[u] = so[u]
    BY <1>7, <2>2, <2>4
  <2>6. QED
    BY <1>1, <1>2, <2>5, LinkEnd
<1>8. CASE LinkFailEarly \/ LinkFailReloc
  <2>1. so' = [so EXCEPT ![s].error = TRUE, ![s].mapped = FALSE] /\ ret'.si = NULL
    BY <1>2, <1>8 DEF LinkFailEarly, LinkFailReloc, LinkFails, Returns
  <2>2. so' = [so EXCEPT ![s] = [[so[s] EXCEPT !.error = TRUE] EXCEPT !.mapped = FALSE]]
    BY <1>3, <2>1
  <2>3. QED
    BY <1>3, <1>7, <2>1, <2>2
<1>9. CASE LinkFailRelro
  <2>1. so' = [so EXCEPT ![s].linked = TRUE, ![s].error = TRUE, ![s].mapped = FALSE] /\ ret'.si = NULL
    BY <1>2, <1>9 DEF LinkFailRelro, LinkFails, Returns
  <2>2. so' = [so EXCEPT ![s] = [[v EXCEPT !.error = TRUE] EXCEPT !.mapped = FALSE]]
    BY <1>3, <1>4, <2>1
  <2>3. PICK r \in Soinfo : r = v
    BY <1>5
  <2>4. /\ r.path = so[s].path /\ r.needed = so[s].needed /\ r.refcount = so[s].refcount
        /\ so' = [so EXCEPT ![s] = [[r EXCEPT !.error = TRUE] EXCEPT !.mapped = FALSE]]
    BY <1>5, <2>2, <2>3
  <2>5. QED
    BY <1>7, <2>1, <2>4
<1>10. CASE LinkFinish
  <2>1. so' = [so EXCEPT ![s] = v] /\ ret'.si = s
    BY <1>2, <1>3, <1>4, <1>10 DEF LinkFinish, Returns
  <2>2. so'[s] = v /\ \A u \in Slots : u # s => so'[u] = so[u]
    BY <1>3, <2>1
  <2>3. QED
    BY <1>1, <1>2, <1>5, <2>1, <2>2, LinkEnd
<1>11. QED
  BY <1>8, <1>9, <1>10

\* The search for the next DT_NEEDED entry starts.
LEMMA LinkNeededStep ==
    ASSUME RefInv, TypeInv', PoolPartition', LinkNeeded
    PROVE  RefInv'
<1>1. /\ Running("link") /\ ~ret.done /\ Top.i <= Len(so[Top.si].needed)
      /\ Push(Act("find", Needed[so[Top.si].path][Top.i], NULL, 0))
      /\ UNCHANGED <<so, solist, lock, req, ret, handles>>
  BY DEF LinkNeeded, lib, hist
<1>2. PICK n \in Nat :
              /\ n = Len(stack) /\ n >= 2 /\ n \in 1..n /\ stack \in Seq(Frame) /\ DOMAIN stack = 1..n /\ stack # << >>
              /\ Top = stack[n] /\ stack[n].fn = "link" /\ lock \in Threads
              /\ stack[1].fn = "dlopen" /\ stack[1].si = NULL
              /\ \A k \in 1..n : k > 1 /\ k < n => stack[k].fn = "link"
  BY <1>1, LinkPhase
<1>3. PICK g : g = Act("find", Needed[so[Top.si].path][Top.i], NULL, 0)
  OBVIOUS
<1>4. g.fn = "find"
  BY <1>3 DEF Act
<1>5. stack' \in Seq(Frame) /\ Len(stack') = n + 1 /\ stack'[n + 1] = g /\ \A k \in 1..n : stack'[k] = stack[k]
  <2>1. stack' = Append(stack, g) /\ stack' \in Seq(Frame)
    BY <1>1, <1>3 DEF Push, TypeInv, TypeOK
  <2>2. QED
    BY <1>2, <2>1
<1>6. \A k \in 1..Len(stack') : k \in 1..n \/ k = n + 1
  BY <1>2, <1>5
<1>7. SameLib
  BY <1>1 DEF SameLib
<1>8. /\ \A u \in Slots : Live(u)' <=> Live(u)
      /\ ~so'[Libdl].error /\ SlotsOK' /\ UniqueNames'
      /\ \A u, d \in Slots : Entries(u, d)' = Entries(u, d)
      /\ Elems(solist)' = Elems(solist) /\ Elems(solist) \subseteq Slots
  BY <1>7, SameLibKept
<1>9. /\ LockOK' /\ Shape' /\ OpenOK' /\ UnloadsOK' /\ \A d \in Slots : UnloadFrames(d)' = {}
  <2>1. n + 1 \in Nat /\ n + 1 >= 1 /\ stack'[1].fn = "dlopen" /\ stack'[1].si = NULL
    BY <1>2, <1>5
  <2>2. \A k \in 1..(n + 1) : k > 1 => stack'[k].fn = "link" \/ (stack'[k].fn = "find" /\ k = n + 1 /\ ~ret'.done)
    BY <1>1, <1>2, <1>4, <1>5, <1>6
  <2>3. QED
    BY <1>1, <1>2, <1>5, <2>1, <2>2, LinkStackKept
<1>10. RetOK'
  BY <1>1 DEF RetOK
<1>11. LinksOK'
  <2> SUFFICES ASSUME NEW k \in 1..Len(stack'), stack'[k].fn = "link", NEW u, u = stack'[k].si
               PROVE  LinkOK(k, u)'
    BY DEF LinksOK, Linking
  <2>1. k \in 1..n /\ stack'[k] = stack[k]
    BY <1>4, <1>5, <1>6
  <2>2. LinkOK(k, u)
    BY <1>2, <2>1 DEF RefInv, LinksOK, Linking
  <2>3. stack[k].i <= Len(so[u].needed)
    <3>1. CASE k = n
      BY <1>1, <1>2, <2>1, <3>1
    <3>2. CASE k # n
      BY <1>2, <2>1, <2>2, <3>2 DEF LinkOK
    <3>3. QED
      BY <3>1, <3>2
  <2>4. Live(u)'
    BY <1>1, <2>2 DEF LinkOK, Live, Elems
  <2>5. QED
    BY <1>1, <2>1, <2>2, <2>3, <2>4 DEF LinkOK
<1>12. LinksApart'
  <2>1. \A k \in 1..Len(stack') : stack'[k].fn = "link" => k \in 1..Len(stack) /\ stack'[k] = stack[k]
    BY <1>2, <1>4, <1>5, <1>6
  <2>2. QED
    BY <2>1 DEF RefInv, LinksApart, Linking
<1>13. RefcountExact'
  <2>1. \A d \in Slots : UnloadFrames(d) = {}
    BY <1>1, NoUnloadFrames
  <2>2. QED
    BY <1>1, <1>8, <1>9, <2>1, SameRefs
<1>14. ClaimsOK'
  <2> SUFFICES ASSUME NEW u \in Elems(solist) PROVE Claimed(u)'
    BY <1>8 DEF ClaimsOK
  <2>1. Claimed(u)
    BY DEF RefInv, ClaimsOK
  <2>2. ASSUME NEW k \in 1..Len(stack), stack[k].fn \in {"link", "dlopen"}, stack[k].si = u
        PROVE  k \in 1..Len(stack') /\ stack'[k].fn \in {"link", "dlopen"} /\ stack'[k].si = u
    BY <1>2, <1>5, <2>2
  <2>3. QED
    BY <1>1, <2>1, <2>2 DEF Claimed
<1>15. QED
  BY <1>8, <1>9, <1>10, <1>11, <1>12, <1>13, <1>14 DEF RefInv

\* The soinfo found is saved in the entry, with a reference.
LEMMA BindNeededStep ==
    ASSUME RefInv, TypeInv', PoolPartition', BindNeeded
    PROVE  RefInv'
<1>1. /\ Running("link") /\ ret.done /\ Skip /\ ret' = NoRet
      /\ UNCHANGED <<solist, lock, req, handles>>
  BY DEF BindNeeded, hist
<1>2. PICK n \in Nat :
              /\ n = Len(stack) /\ n >= 2 /\ n \in 1..n /\ stack \in Seq(Frame) /\ DOMAIN stack = 1..n /\ stack # << >>
              /\ Top = stack[n] /\ Top \in Frame /\ Top.fn = "link" /\ stack[n].fn = "link" /\ lock \in Threads
              /\ stack[1].fn = "dlopen" /\ stack[1].si = NULL
              /\ \A k \in 1..n : k > 1 /\ k < n => stack[k].fn = "link"
  BY <1>1, LinkPhase
<1>3. PICK s \in Pool : s = Top.si /\ s = stack[n].si /\ s \in Slots /\ s # Libdl
  BY <1>1, <1>2, TopFrame, SlotFacts DEF RefInv
<1>4. LinkOK(n, s)
  BY <1>2, <1>3 DEF RefInv, LinksOK, Linking
<1>5. so \in [Slots -> Soinfo] /\ so[s].needed \in Seq(Slots \cup {NULL, RAW}) /\ so[s] \in Soinfo
  BY <1>3 DEF RefInv, TypeInv, TypeOK, Soinfo
<1>6. PICK i \in DOMAIN so[s].needed : i = Top.i /\ i = stack[n].i /\ i \in Nat
  <2>1. Top.i >= 1 /\ Top.i \in Nat
    BY <1>1, <1>2, TopFrame DEF RefInv, Frame
  <2>2. stack[n].i <= Len(so[s].needed)
    BY <1>1, <1>4 DEF LinkOK
  <2>3. QED
    BY <1>2, <1>5, <2>1, <2>2
<1>7. PICK l : l = IF ret.si = NULL THEN Libdl ELSE ret.si
  OBVIOUS
<1>8. l \in Slots /\ Live(l)
  <2>1. CASE ret.si = NULL
    BY <1>7, <2>1, LibdlListed, SlotFacts
  <2>2. CASE ret.si # NULL
    BY <1>1, <1>7, <2>2 DEF RefInv, RetOK, TypeInv, TypeOK, Result
  <2>3. QED
    BY <2>1, <2>2
<1>9. \A k \in 1..n : stack[k].fn = "link" => stack[k].si # l
  <2> SUFFICES ASSUME NEW k \in 1..n, stack[k].fn = "link" PROVE stack[k].si # l
    OBVIOUS
  <2>1. LinkOK(k, stack[k].si)
    BY <1>2 DEF RefInv, LinksOK, Linking
  <2>2. stack[k].si \in Pool
    BY <1>2 DEF RefInv, TypeInv, FramesOK, FrameOK
  <2>3. QED
    BY <1>1, <1>7, <2>1, <2>2, SlotFacts DEF LinkOK
<1>10. l # s
  BY <1>2, <1>3, <1>9
<1>11. PICK v : v = [so[s].needed EXCEPT ![i] = l]
  OBVIOUS
<1>12. /\ DOMAIN v = DOMAIN so[s].needed /\ v[i] = l /\ Len(v) = Len(so[s].needed)
       /\ \A k \in DOMAIN so[s].needed : k # i => v[k] = so[s].needed[k]
  <2>1. v \in Seq(Slots \cup {NULL, RAW})
    BY <1>5, <1>8, <1>11
  <2>2. QED
    BY <1>5, <1>11, <2>1
<1>13. /\ \A u \in Slots : u # s /\ u # l => so'[u] = so[u]
       /\ so'[s].path = so[s].path /\ so'[s].linked = so[s].linked /\ so'[s].error = so[s].error
       /\ so'[s].mapped = so[s].mapped /\ so'[s].refcount = so[s].refcount /\ so'[s].needed = v
       /\ so'[l].path = so[l].path /\ so'[l].linked = so[l].linked /\ so'[l].error = so[l].error
       /\ so'[l].mapped = so[l].mapped /\ so'[l].refcount = so[l].refcount + 1 /\ so'[l].needed = so[l].needed
  <2>1. so' = [so EXCEPT ![s].needed[i] = l, ![l].refcount = @ + 1]
    BY <1>3, <1>6, <1>7 DEF BindNeeded
  <2>2. PICK x : x = [so EXCEPT ![s] = [so[s] EXCEPT !.needed = v]]
    OBVIOUS
  <2>3. so' = [x EXCEPT ![l].refcount = @ + 1]
    BY <1>5, <1>11, <2>1, <2>2
  <2>4. /\ DOMAIN x = Slots /\ \A u \in Slots : u # s => x[u] = so[u]
        /\ x[s].path = so[s].path /\ x[s].linked = so[s].linked /\ x[s].error = so[s].error
        /\ x[s].mapped = so[s].mapped /\ x[s].refcount = so[s].refcount /\ x[s].needed = v
    BY <1>3, <1>5, <2>2 DEF Soinfo
  <2>5. x[l] = so[l] /\ so[l] \in Soinfo
    BY <1>5, <1>8, <1>10, <2>4
  <2>6. PICK y : y = [so[l] EXCEPT !.refcount = @ + 1]
    OBVIOUS
  <2>7. /\ y.path = so[l].path /\ y.linked = so[l].linked /\ y.error = so[l].error
        /\ y.mapped = so[l].mapped /\ y.refcount = so[l].refcount + 1 /\ y.needed = so[l].needed
    BY <2>5, <2>6 DEF Soinfo
  <2>8. so' = [x EXCEPT ![l] = y]
    BY <2>3, <2>5, <2>6
  <2>9. so'[l] = y /\ \A u \in Slots : u # l => so'[u] = x[u]
    BY <1>8, <2>4, <2>8
  <2>10. QED
    BY <1>3, <1>10, <2>4, <2>7, <2>9
<1>14. PICK f : f = [Top EXCEPT !.i = @ + 1]
  OBVIOUS
<1>15. f.fn = "link" /\ f.si = s /\ f.i = i + 1
  BY <1>2, <1>3, <1>6, <1>14 DEF Frame
<1>16. stack' \in Seq(Frame) /\ Len(stack') = n /\ \A k \in 1..n : stack'[k] = IF k = n THEN f ELSE stack[k]
  BY <1>1, <1>2, <1>14, SkipType
<1>17. Elems(solist)' = Elems(solist) /\ Elems(solist) \subseteq Slots
  BY <1>1 DEF Elems, RefInv, TypeInv, TypeOK
<1>18. \A u \in Slots : /\ so'[u].error = so[u].error /\ so'[u].mapped = so[u].mapped
                        /\ so'[u].path = so[u].path /\ so'[u].linked = so[u].linked
                        /\ (u # s => so'[u].needed = so[u].needed)
                        /\ (u # l => so'[u].refcount = so[u].refcount)
  BY <1>13
<1>19. \A u \in Slots : Live(u)' <=> Live(u)
  BY <1>17, <1>18 DEF Live
<1>20. \A u \in Slots : so[u].refcount \in Int /\ so[u].refcount >= 0
  <2>1. \A u \in Slots : so[u].refcount \in Int
    BY <1>5 DEF Soinfo
  <2>2. QED
    BY <2>1, Counted DEF RefInv
<1>21. /\ LockOK' /\ Shape' /\ OpenOK' /\ UnloadsOK' /\ \A d \in Slots : UnloadFrames(d)' = {}
  <2>1. n >= 1 /\ stack'[1].fn = "dlopen" /\ stack'[1].si = NULL
    BY <1>2, <1>16
  <2>2. \A k \in 1..n : k > 1 => stack'[k].fn = "link"
    BY <1>2, <1>15, <1>16
  <2>3. QED
    BY <1>1, <1>2, <1>16, <2>1, <2>2, LinkStackKept
<1>22. RetOK' /\ ~ret'.done
  BY <1>1 DEF RetOK, NoRet
<1>23. LinksOK'
  <2> SUFFICES ASSUME NEW k \in 1..n, stack'[k].fn = "link", NEW u, u = stack'[k].si
               PROVE  LinkOK(k, u)'
    BY <1>16 DEF LinksOK, Linking
  <2>1. CASE k = n
    <3>1. u = s /\ stack'[k].i = i + 1 /\ ~(k < Len(stack'))
      BY <1>2, <1>15, <1>16, <2>1
    <3>2. \A j \in DOMAIN v : j >= i + 1 => v[j] \notin Slots
      <4> SUFFICES ASSUME NEW j \in DOMAIN v, j >= i + 1 PROVE v[j] \notin Slots
        OBVIOUS
      <4>1. j # i /\ j >= i
        BY <1>5, <1>6, <1>12
      <4>2. so[s].needed[j] \notin Slots
        BY <1>4, <1>6, <1>12, <4>1 DEF LinkOK
      <4>3. QED
        BY <1>12, <4>1, <4>2
    <3>3. Live(s)' /\ ~so'[s].linked /\ so'[s].refcount = 0
      BY <1>3, <1>4, <1>13, <1>19 DEF LinkOK
    <3>4. QED
      BY <1>13, <1>22, <3>1, <3>2, <3>3 DEF LinkOK
  <2>2. CASE k # n
    <3>1. stack'[k] = stack[k]
      BY <1>16, <2>2
    <3>2. LinkOK(k, u)
      BY <1>2, <3>1 DEF RefInv, LinksOK, Linking
    <3>3. u # s /\ u # l
      BY <1>2, <1>3, <1>9, <2>2, <3>1 DEF RefInv, LinksApart, Linking
    <3>4. u \in Slots
      BY <1>17, <3>2 DEF LinkOK, Live
    <3>5. so'[u] = so[u] /\ Live(u)'
      BY <1>13, <1>19, <3>2, <3>3, <3>4 DEF LinkOK
    <3>6. stack[k].i <= Len(so[u].needed)
      BY <1>1, <3>2 DEF LinkOK
    <3>7. QED
      BY <1>22, <3>1, <3>2, <3>5, <3>6 DEF LinkOK
  <2>3. QED
    BY <2>1, <2>2
<1>24. LinksApart'
  <2>1. \A k \in 1..n : stack'[k].fn = stack[k].fn /\ stack'[k].si = stack[k].si
    BY <1>2, <1>3, <1>15, <1>16
  <2>2. QED
    BY <1>2, <1>16, <2>1 DEF RefInv, LinksApart, Linking
<1>25. SlotsOK' /\ ~so'[Libdl].error
  <2>1. ~so'[Libdl].error
    BY <1>18, SlotFacts DEF RefInv
  <2>2. SUFFICES ASSUME NEW u \in Slots
               PROVE  /\ so'[u].refcount > 0 => Live(u)'
                      /\ u \in Elems(solist)' /\ ~so'[u].error => so'[u].mapped
                      /\ u \notin Elems(solist)' => \A k \in DOMAIN so'[u].needed : so'[u].needed[k] \notin Slots
    BY <2>1 DEF SlotsOK
  <2>3. so'[u].refcount > 0 => Live(u)'
    BY <1>8, <1>18, <1>19 DEF RefInv, SlotsOK
  <2>4. u \notin Elems(solist) => u # s
    BY <1>4 DEF LinkOK, Live
  <2>5. QED
    BY <1>17, <1>18, <2>3, <2>4 DEF RefInv, SlotsOK
<1>26. UniqueNames'
  <2>1. \A u \in Slots : name(u)' = name(u)
    BY <1>18 DEF name
  <2>2. QED
    BY <1>17, <2>1 DEF RefInv, UniqueNames
<1>27. ClaimsOK'
  <2> SUFFICES ASSUME NEW u \in Elems(solist) PROVE Claimed(u)'
    BY <1>17 DEF ClaimsOK
  <2>1. CASE u = l
    <3>1. so'[l].refcount > 0
      BY <1>8, <1>13, <1>20
    <3>2. QED
      BY <2>1, <3>1 DEF Claimed
  <2>2. CASE u # l
    <3>1. u \in Slots /\ Claimed(u) /\ ~(ret.done /\ ret.si = u)
      BY <1>7, <1>17, <2>2, SlotFacts DEF RefInv, ClaimsOK
    <3>2. ASSUME NEW k \in 1..Len(stack), stack[k].fn \in {"link", "dlopen"}, stack[k].si = u
          PROVE  k \in 1..Len(stack') /\ stack'[k].fn \in {"link", "dlopen"} /\ stack'[k].si = u
      BY <1>2, <1>3, <1>15, <1>16, <3>2
    <3>3. QED
      BY <1>18, <2>2, <3>1, <3>2 DEF Claimed
  <2>3. QED
    BY <2>1, <2>2
<1>28. \A e \in Slots : NeededRefs(e)' = IF e = l THEN NeededRefs(e) \cup {<<s, i>>} ELSE NeededRefs(e)
  <2> TAKE e \in Slots
  <2>0. so[s].needed[i] \notin Slots
    BY <1>4, <1>6 DEF LinkOK
  <2>1. /\ \A u \in Slots : u # s => Entries(u, e)' = Entries(u, e)
        /\ Entries(s, e)' = IF e = l THEN Entries(s, e) \cup {i} ELSE Entries(s, e)
    <3>1. \A u \in Slots : u # s => Entries(u, e)' = Entries(u, e)
      BY <1>18 DEF Entries
    <3>2. \A k \in DOMAIN v : v[k] = e <=> so[s].needed[k] = e \/ (k = i /\ e = l)
      BY <1>12, <2>0
    <3>3. Entries(s, e)' = IF e = l THEN Entries(s, e) \cup {i} ELSE Entries(s, e)
      BY <1>6, <1>12, <1>13, <3>2 DEF Entries
    <3>4. QED
      BY <3>1, <3>3
  <2>2. ASSUME NEW x \in NeededRefs(e)' PROVE x \in NeededRefs(e) \/ (e = l /\ x = <<s, i>>)
    <3>1. PICK u \in Slots : \E k \in Entries(u, e)' : x = <<u, k>>
      BY RefMemberNext
    <3>2. PICK k \in Entries(u, e)' : x = <<u, k>>
      BY <3>1
    <3>3. k \in Entries(u, e) \/ (e = l /\ u = s /\ k = i)
      BY <2>1, <3>2
    <3>4. CASE k \in Entries(u, e)
      BY <3>2, <3>4, RefMember
    <3>5. QED
      BY <3>2, <3>3, <3>4
  <2>3. ASSUME NEW x \in NeededRefs(e) PROVE x \in NeededRefs(e)'
    <3>1. PICK u \in Slots : \E k \in Entries(u, e) : x = <<u, k>>
      BY RefMember
    <3>2. PICK k \in Entries(u, e) : x = <<u, k>>
      BY <3>1
    <3>3. k \in Entries(u, e)'
      BY <2>1, <3>2
    <3>4. QED
      BY <3>2, <3>3, RefMemberNext
  <2>4. ASSUME e = l PROVE <<s, i>> \in NeededRefs(e)'
    <3>1. i \in Entries(s, e)'
      BY <2>1, <2>4
    <3>2. QED
      BY <1>3, <3>1, RefMemberNext
  <2>5. QED
    BY <2>2, <2>3, <2>4
<1>29. RefcountExact'
  <2> SUFFICES ASSUME NEW e \in Slots
               PROVE  so'[e].refcount = handles'[e] + Cardinality(Closing(e)')
                                        + Cardinality(NeededRefs(e)') + Cardinality(UnloadFrames(e)')
    BY DEF RefcountExact
  <2>1. Closing(e)' = Closing(e) /\ UnloadFrames(e)' = UnloadFrames(e)
    BY <1>1, <1>21, NoUnloadFrames DEF Closing
  <2>2. so[e].refcount = handles[e] + Cardinality(Closing(e)) + Cardinality(NeededRefs(e)) + Cardinality(UnloadFrames(e))
    BY DEF RefInv, RefcountExact
  <2>3. CASE e # l
    BY <1>1, <1>18, <1>28, <2>1, <2>2, <2>3
  <2>4. CASE e = l
    <3>1. PICK c \in Nat, r \in Nat, z \in Nat :
              c = Cardinality(Closing(e)) /\ r = Cardinality(NeededRefs(e)) /\ z = Cardinality(UnloadFrames(e))
      BY RefsFinite DEF RefInv
    <3>2. IsFiniteSet(NeededRefs(e)) /\ handles[e] \in Nat
      BY RefsFinite DEF RefInv
    <3>3. <<s, i>> \notin NeededRefs(e)
      <4>1. i \notin Entries(s, e)
        BY <1>4, <1>6 DEF Entries, LinkOK
      <4>2. SUFFICES ASSUME NEW u \in Slots, NEW k \in Entries(u, e), <<s, i>> = <<u, k>> PROVE FALSE
        BY RefMember
      <4>3. QED
        BY <4>1, <4>2
    <3>4. Cardinality(NeededRefs(e) \cup {<<s, i>>}) = r + 1
      BY <3>1, <3>2, <3>3, FS_AddElement
    <3>5. Cardinality(NeededRefs(e)') = r + 1
      BY <1>28, <2>4, <3>4
    <3>6. so'[e].refcount = handles'[e] + c + (r + 1) + z
      <4>1. so'[e].refcount = so[e].refcount + 1 /\ handles'[e] = handles[e]
        BY <1>1, <1>13, <2>4
      <4>2. so[e].refcount = handles[e] + c + r + z
        BY <2>2, <3>1
      <4>3. QED
        BY <3>2, <4>1, <4>2
    <3>7. QED
      BY <2>1, <3>1, <3>5, <3>6
  <2>5. QED
    BY <2>3, <2>4
<1>30. QED
  BY <1>21, <1>22, <1>23, <1>24, <1>25, <1>26, <1>27, <1>29 DEF RefInv

-----------------------------------------------------------------------------
(* The invariant holds always.                                             *)

\* Initially.
LEMMA RefInit == Init => RefInv
<1> SUFFICES ASSUME Init PROVE RefInv
  OBVIOUS
<1>1. TypeInv /\ solist = <<Libdl>> /\ freelist = << >> /\ socount = 0 /\ stack = << >> /\ Len(stack) = 0 /\ ret = NoRet
      /\ lock = None /\ req = [t \in Threads |-> None] /\ handles = [s \in Slots |-> 0]
  BY TypeInit DEF Init
<1>2. Elems(solist) = {Libdl} /\ DOMAIN stack = {}
  BY <1>1 DEF Elems
<1>3. /\ ~so[Libdl].error /\ so[Libdl].mapped
      /\ \A s \in Slots : so[s].refcount = 0 /\ DOMAIN so[s].needed = {} /\ ~so[s].error
  <2>1. libdl_info.refcount = 0 /\ ~libdl_info.error /\ libdl_info.mapped /\ DOMAIN libdl_info.needed = {}
    BY DEF libdl_info
  <2>2. ZeroInfo.refcount = 0 /\ DOMAIN ZeroInfo.needed = {} /\ ~ZeroInfo.error
    BY DEF ZeroInfo, libdl_info
  <2>3. so = [s \in Slots |-> IF s = Libdl THEN libdl_info ELSE ZeroInfo]
    BY DEF Init
  <2>4. QED
    BY <2>1, <2>2, <2>3, SlotFacts
<1>4. PoolPartition
  <2>1. Elems(freelist) = {} /\ Injective(solist) /\ Injective(freelist)
    BY <1>1 DEF Elems, Injective
  <2>2. 0..socount = {0}
    BY <1>1
  <2>3. QED
    BY <1>1, <1>2, <2>1, <2>2 DEF PoolPartition, Libdl
<1>5. LockOK /\ Shape /\ RetOK /\ LinksOK /\ LinksApart /\ OpenOK /\ UnloadsOK
  BY <1>1 DEF LockOK, Shape, RetOK, LinksOK, LinksApart, OpenOK, UnloadsOK, NoRet
<1>6. SlotsOK
  BY <1>2, <1>3 DEF SlotsOK, Live
<1>7. RefcountExact
  <2> SUFFICES ASSUME NEW d \in Slots
               PROVE  so[d].refcount = handles[d] + Cardinality(Closing(d))
                                       + Cardinality(NeededRefs(d)) + Cardinality(UnloadFrames(d))
    BY DEF RefcountExact
  <2>1. Closing(d) = {} /\ UnloadFrames(d) = {}
    BY <1>1, <1>2 DEF Closing, UnloadFrames
  <2>2. NeededRefs(d) = {}
    BY <1>3 DEF NeededRefs, Entries
  <2>3. QED
    BY <1>1, <1>3, <2>1, <2>2, FS_EmptySet
<1>8. ClaimsOK /\ UniqueNames
  BY <1>2 DEF ClaimsOK, Claimed, UniqueNames
<1>9. QED
  BY <1>1, <1>3, <1>4, <1>5, <1>6, <1>7, <1>8 DEF RefInv

\* Every step keeps the invariant.
LEMMA RefStep == RefInv /\ [Next]_vars => RefInv'
<1> SUFFICES ASSUME RefInv, [Next]_vars PROVE RefInv'
  OBVIOUS
<1>1. TypeInv' /\ PoolPartition'
  BY TypeStep, PoolStep DEF RefInv
<1>2. ASSUME NEW t \in Threads, Call(t) \/ Acquire(t) PROVE RefInv'
  BY <1>1, <1>2, CallSteps, AcquireStep
<1>3. CASE Find \/ Load
  BY <1>1, <1>3, QuietSteps, LoadFailAllocatedStep, LoadOkStep DEF Find, Load
<1>4. CASE Link
  BY <1>1, <1>4, LinkEndSteps, QuietSteps, LinkNeededStep, BindNeededStep DEF Link
<1>5. CASE Ctor
  BY <1>1, <1>5, QuietSteps, CtorSteps DEF Ctor
<1>6. CASE Dlopen \/ DlcloseReturn
  BY <1>1, <1>6, DlopenFoundStep, ReleaseSteps DEF Dlopen
<1>7. CASE Unload \/ UNCHANGED vars
  BY <1>1, <1>7, UnloadSharedStep, UnloadEnterStep, UnloadLibdlStep, UnloadNeededStep, UnloadFinishStep DEF Unload
<1>8. QED
  BY <1>2, <1>3, <1>4, <1>5, <1>6, <1>7 DEF Next, OwnerStep

\* The invariant holds in every reachable state.
LEMMA RefAlways == Spec => []RefInv
  BY RefInit, RefStep, PTL DEF Spec

\* A soinfo's refcount is the number of references to it, whatever the
\* libraries and the calls: each increment in bionic_dlopen and
\* apkenv_link_image and each decrement in apkenv_unload_library goes with
\* one reference, in every order of calls and with every failure between.
THEOREM RefcountsExact == Spec => []RefcountExact
<1>1. RefInv => RefcountExact
  BY DEF RefInv
<1>2. QED
  BY <1>1, RefAlways, PTL

\* What a caller or a library can still reach is in apkenv_solist, mapped and
\* not failed.
THEOREM NothingDangles == Spec => []NoDangling
<1>1. RefInv => NoDangling
  <2> SUFFICES ASSUME RefInv, NEW s \in Slots,
                      Holds(s) \/ Closing(s) # {} \/ (\E u \in Elems(solist) : Entries(u, s) # {})
               PROVE  Listed(s) /\ so[s].mapped /\ ~so[s].error
    BY DEF NoDangling
  <2>1. CASE Holds(s) \/ Closing(s) # {}
    <3>1. so[s].refcount > 0
      BY <2>1, Counted DEF RefInv, Holds
    <3>2. QED
      BY <3>1 DEF RefInv, SlotsOK, Live, Listed
  <2>2. ASSUME NEW u \in Elems(solist), NEW k \in Entries(u, s) PROVE Listed(s) /\ so[s].mapped /\ ~so[s].error
    <3>1. u \in Slots
      BY DEF RefInv, TypeInv, TypeOK, Elems
    <3>2. <<u, k>> \in NeededRefs(s)
      BY <3>1, RefMember
    <3>3. so[s].refcount > 0
      BY <3>2, Counted DEF RefInv
    <3>4. QED
      BY <3>3 DEF RefInv, SlotsOK, Live, Listed
  <2>3. QED
    BY <2>1, <2>2
<1>2. QED
  BY <1>1, RefAlways, PTL

\* apkenv_find_library's search by base name finds at most one soinfo: however
\* deep the recursion, a name is loaded once.
THEOREM NamesUnique == Spec => []UniqueNames
<1>1. RefInv => UniqueNames
  BY DEF RefInv
<1>2. QED
  BY <1>1, RefAlways, PTL

\* Between calls a library nobody refers to is gone, unless it failed to link.
THEOREM NoLibraryOrphaned == Spec => []NoOrphan
<1>1. RefInv => NoOrphan
  <2> SUFFICES ASSUME RefInv, stack = << >>, NEW s \in Elems(solist), s # Libdl
               PROVE  so[s].error \/ so[s].refcount > 0
    BY DEF NoOrphan
  <2>1. Claimed(s) /\ ~ret.done /\ Len(stack) = 0
    BY DEF RefInv, ClaimsOK, RetOK
  <2>2. QED
    BY <2>1 DEF Claimed
<1>2. QED
  BY <1>1, RefAlways, PTL

\* When apkenv_unload_library calls destructors, no handle, no dlclose that
\* waits and no DT_NEEDED entry refers to the library any more.
THEOREM DestructorsLast == Spec => FiniUnreferenced
<1>1. RefInv /\ [Next]_vars =>
         [UnloadEnter => /\ ~Holds(Top.si) /\ Closing(Top.si) = {} /\ NeededRefs(Top.si) = {}]_vars
  <2> SUFFICES ASSUME RefInv, UnloadEnter
               PROVE  ~Holds(Top.si) /\ Closing(Top.si) = {} /\ NeededRefs(Top.si) = {}
    OBVIOUS
  <2>1. Running("unload") /\ LastReference(Top.si)
    BY DEF UnloadEnter
  <2>2. PICK n \in Nat, s \in Slots : Top.si = s /\ n \in UnloadFrames(s)
    BY <2>1, UnloadPhase
  <2>3. so[s].refcount = 1 /\ UnloadFrames(s) # {}
    BY <2>1, <2>2 DEF LastReference
  <2>4. handles[s] = 0 /\ Closing(s) = {} /\ NeededRefs(s) = {}
    BY <2>3, Counted DEF RefInv
  <2>5. QED
    BY <2>2, <2>4 DEF Holds
<1>2. QED
  BY <1>1, RefAlways, PTL DEF Spec, FiniUnreferenced
=============================================================================
