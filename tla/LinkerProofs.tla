---------------------------- MODULE LinkerProofs ----------------------------
(***************************************************************************)
(* Linker for any libraries, threads and pool size: type correctness, and  *)
(* the partition of the soinfo pool between apkenv_solist and              *)
(* apkenv_freelist.                                                        *)
(***************************************************************************)
EXTENDS Linker, SequenceTheorems, TLAPS

\* What the types of the variables do not say: an activation of link_image
\* is on a soinfo of the pool that has a path, one of unload_library past
\* its start is not on libdl, and a soinfo has its file's DT_NEEDED entries.
FrameOK(f, info) ==
    /\ f.fn = "link" => f.si \in Pool /\ info[f.si].path \in Paths /\ f.i >= 1
    /\ f.fn = "unload" /\ f.i > 0 => f.si \in Pool

FramesOK == \A k \in 1..Len(stack) : FrameOK(stack[k], so)

NeededOK ==
    \A s \in Slots : so[s].path \in Paths =>
        Len(so[s].needed) = Len(Needed[so[s].path])

TypeInv == TypeOK /\ FramesOK /\ NeededOK

-----------------------------------------------------------------------------
LEMMA SlotFacts ==
    /\ Libdl \in Slots /\ Libdl \notin Pool /\ Pool \subseteq Slots /\ Slots \subseteq Int
    /\ NULL \notin Slots /\ RAW \notin Slots /\ NULL # RAW
  BY ConstantsAssumption DEF Slots, Pool, Libdl, NULL, RAW

\* The activation on top is one of the activations.
LEMMA TopFrame ==
    ASSUME TypeInv, NEW fn, Running(fn)
    PROVE  /\ Len(stack) \in 1..Len(stack) /\ Len(stack) \in Nat
           /\ Top \in Frame /\ Top.fn = fn /\ lock \in Threads
           /\ fn \in {"dlopen", "find"} => Top.path \in Paths
           /\ fn \in {"link", "ctor", "unload", "dlclose", "selfwait"} => Top.si \in Slots
           /\ fn = "link" => Top.si \in Pool /\ so[Top.si].path \in Paths /\ Top.i >= 1
           /\ fn = "unload" /\ Top.i > 0 => Top.si \in Pool
  BY DEF TypeInv, TypeOK, FramesOK, FrameOK, Running, Top, Frame

\* Pushing, popping or replacing activations keeps the stack well formed.
LEMMA PushType ==
    ASSUME stack \in Seq(Frame), NEW f \in Frame, Push(f)
    PROVE  /\ stack' \in Seq(Frame) /\ Len(stack') = Len(stack) + 1
           /\ \A k \in 1..Len(stack) : stack'[k] = stack[k]
           /\ stack'[Len(stack) + 1] = f
  BY DEF Push

LEMMA PopType ==
    ASSUME stack \in Seq(Frame), stack # << >>, Pop
    PROVE  /\ stack' \in Seq(Frame) /\ Len(stack') = Len(stack) - 1
           /\ \A k \in 1..Len(stack') : stack'[k] = stack[k] /\ k \in 1..Len(stack)
<1>1. Len(stack) \in Nat \ {0} /\ stack' = SubSeq(stack, 1, Len(stack) - 1)
  BY DEF Pop
<1> DEFINE n == Len(stack) - 1
<1>2. n \in Nat /\ 1 \in Int /\ \A k \in 1..n : stack[k] \in Frame /\ k \in 1..Len(stack)
  BY <1>1
<1>3. /\ SubSeq(stack, 1, n) \in Seq(Frame)
      /\ Len(SubSeq(stack, 1, n)) = IF 1 <= n THEN n - 1 + 1 ELSE 0
      /\ \A k \in 1..(n - 1 + 1) : SubSeq(stack, 1, n)[k] = stack[1 + k - 1]
  <2> HIDE DEF n
  <2> QED
    BY <1>2, SubSeqProperties
<1>4. Len(stack') = n
  <2> DEFINE q == SubSeq(stack, 1, n)
  <2>1. Len(q) = IF 1 <= n THEN n - 1 + 1 ELSE 0
    BY <1>3
  <2>2. stack' = q
    BY <1>1
  <2>3. n \in Nat
    BY <1>2
  <2> HIDE DEF n, q
  <2>4. QED
    BY <2>1, <2>2, <2>3
<1>5. ASSUME NEW k \in 1..n PROVE stack'[k] = stack[k] /\ k \in 1..Len(stack)
  <2>1. k \in 1..(n - 1 + 1) /\ 1 + k - 1 = k
    BY <1>2
  <2>2. SubSeq(stack, 1, n)[k] = stack[1 + k - 1]
    BY <1>3, <2>1
  <2>3. stack' = SubSeq(stack, 1, n)
    BY <1>1
  <2> HIDE DEF n
  <2>4. QED
    BY <1>2, <2>1, <2>2, <2>3
<1>6. QED
  BY <1>1, <1>3, <1>4, <1>5

LEMMA SetTopType ==
    ASSUME stack \in Seq(Frame), stack # << >>, NEW f \in Frame, SetTop(f)
    PROVE  /\ stack' \in Seq(Frame) /\ Len(stack') = Len(stack)
           /\ \A k \in 1..Len(stack) : stack'[k] = IF k = Len(stack) THEN f ELSE stack[k]
  BY DEF SetTop

LEMMA SkipType ==
    ASSUME stack \in Seq(Frame), stack # << >>, Skip
    PROVE  /\ stack' \in Seq(Frame) /\ Len(stack') = Len(stack)
           /\ \A k \in 1..Len(stack) :
                 stack'[k] = IF k = Len(stack) THEN [Top EXCEPT !.i = @ + 1] ELSE stack[k]
<1> DEFINE f == [Top EXCEPT !.i = @ + 1]
<1>1. Top \in Frame
  BY DEF Top
<1>2. f \in Frame
  BY <1>1 DEF Frame
<1>3. stack' = [stack EXCEPT ![Len(stack)] = f]
  BY DEF Skip, Top
<1>4. QED
  BY <1>2, <1>3

LEMMA StepType ==
    ASSUME stack \in Seq(Frame), stack # << >>, NEW g \in Frame, Step(g)
    PROVE  /\ stack' \in Seq(Frame) /\ Len(stack') = Len(stack) + 1
           /\ \A k \in 1..Len(stack) :
                 stack'[k] = IF k = Len(stack) THEN [Top EXCEPT !.i = @ + 1] ELSE stack[k]
           /\ stack'[Len(stack) + 1] = g
<1> DEFINE f == [Top EXCEPT !.i = @ + 1]
           s == [stack EXCEPT ![Len(stack)] = f]
<1>1. Top \in Frame /\ Len(stack) \in 1..Len(stack)
  BY DEF Top
<1>2. f \in Frame
  BY <1>1 DEF Frame
<1>3. stack' = Append(s, g)
  BY DEF Step, Top
<1>4. /\ s \in Seq(Frame) /\ Len(s) = Len(stack)
      /\ \A k \in 1..Len(stack) : s[k] = IF k = Len(stack) THEN f ELSE stack[k]
  <2> HIDE DEF f
  <2> QED
    BY <1>1, <1>2, ExceptSeq
<1>5. QED
  <2> HIDE DEF f, s
  <2>1. /\ stack' \in Seq(Frame) /\ Len(stack') = Len(s) + 1
        /\ \A k \in 1..Len(s) : stack'[k] = s[k]
        /\ stack'[Len(s) + 1] = g
    BY <1>3, <1>4, AppendProperties
  <2>2. QED
    BY <1>4, <2>1 DEF f

-----------------------------------------------------------------------------
\* A soinfo never loses its path, so the activations a step leaves alone stay
\* well formed and only the new ones need a look.
LEMMA FramesKept ==
    ASSUME TypeInv, stack' \in Seq(Frame),
           \A s \in Slots : so[s].path \in Paths => so'[s].path \in Paths,
           \A k \in 1..Len(stack') :
               (k \in 1..Len(stack) /\ stack'[k] = stack[k]) \/ FrameOK(stack'[k], so')
    PROVE  FramesOK'
<1> SUFFICES ASSUME NEW k \in 1..Len(stack') PROVE FrameOK(stack'[k], so')
  BY DEF FramesOK
<1>1. CASE FrameOK(stack'[k], so')
  BY <1>1
<1>2. CASE k \in 1..Len(stack) /\ stack'[k] = stack[k]
  BY <1>2, SlotFacts DEF TypeInv, FramesOK, FrameOK
<1>3. QED
  BY <1>1, <1>2

\* A step that pops, with every path kept.
LEMMA PopKept ==
    ASSUME TypeInv, stack # << >>, Pop,
           \A s \in Slots : so[s].path \in Paths => so'[s].path \in Paths
    PROVE  stack' \in Seq(Frame) /\ FramesOK'
<1>1. stack \in Seq(Frame)
  BY DEF TypeInv, TypeOK
<1>2. /\ stack' \in Seq(Frame)
      /\ \A k \in 1..Len(stack') : stack'[k] = stack[k] /\ k \in 1..Len(stack)
  BY <1>1, PopType
<1>3. QED
  BY <1>2, FramesKept

\* A step to the next DT_NEEDED entry.
LEMMA SkipKept ==
    ASSUME TypeInv, stack # << >>, Skip,
           \A s \in Slots : so[s].path \in Paths => so'[s].path \in Paths,
           Top.fn = "unload" => Top.si \in Pool
    PROVE  stack' \in Seq(Frame) /\ FramesOK'
<1>1. stack \in Seq(Frame) /\ Len(stack) \in 1..Len(stack) /\ Top \in Frame /\ FrameOK(Top, so)
  BY DEF TypeInv, TypeOK, FramesOK, Top
<1> DEFINE f == [Top EXCEPT !.i = @ + 1]
<1>2. /\ stack' \in Seq(Frame) /\ Len(stack') = Len(stack)
      /\ \A k \in 1..Len(stack) : stack'[k] = IF k = Len(stack) THEN f ELSE stack[k]
  BY <1>1, SkipType
<1>3. f.fn = Top.fn /\ f.si = Top.si /\ f.i = Top.i + 1 /\ Top.i \in Nat
  BY <1>1 DEF Frame
<1>4. FrameOK(f, so')
  BY <1>1, <1>3, SlotFacts DEF FrameOK
<1> HIDE DEF f
<1>5. QED
  BY <1>2, <1>4, FramesKept

\* A step that calls g.
LEMMA PushKept ==
    ASSUME TypeInv, NEW g \in Frame, FrameOK(g, so'), Push(g),
           \A s \in Slots : so[s].path \in Paths => so'[s].path \in Paths
    PROVE  stack' \in Seq(Frame) /\ FramesOK'
<1>1. stack \in Seq(Frame) /\ Len(stack) \in Nat
  BY DEF TypeInv, TypeOK
<1>2. /\ stack' \in Seq(Frame) /\ Len(stack') = Len(stack) + 1
      /\ \A k \in 1..Len(stack) : stack'[k] = stack[k]
      /\ stack'[Len(stack) + 1] = g
  BY <1>1, PushType
<1>3. \A k \in 1..Len(stack') : k \in 1..Len(stack) \/ k = Len(stack) + 1
  BY <1>1, <1>2
<1>4. QED
  BY <1>2, <1>3, FramesKept

LEMMA SetTopKept ==
    ASSUME TypeInv, stack # << >>, NEW g \in Frame, FrameOK(g, so'), SetTop(g),
           \A s \in Slots : so[s].path \in Paths => so'[s].path \in Paths
    PROVE  stack' \in Seq(Frame) /\ FramesOK'
<1>1. stack \in Seq(Frame)
  BY DEF TypeInv, TypeOK
<1>2. /\ stack' \in Seq(Frame) /\ Len(stack') = Len(stack)
      /\ \A k \in 1..Len(stack) : stack'[k] = IF k = Len(stack) THEN g ELSE stack[k]
  BY <1>1, SetTopType
<1>3. QED
  BY <1>2, FramesKept

\* The activation on top goes to its next DT_NEEDED entry and calls g for it.
LEMMA StepKept ==
    ASSUME TypeInv, stack # << >>, NEW g \in Frame, FrameOK(g, so'), Step(g),
           \A s \in Slots : so[s].path \in Paths => so'[s].path \in Paths,
           Top.fn = "unload" => Top.si \in Pool
    PROVE  stack' \in Seq(Frame) /\ FramesOK'
<1>1. /\ stack \in Seq(Frame) /\ Len(stack) \in 1..Len(stack) /\ Len(stack) \in Nat
      /\ Top \in Frame /\ FrameOK(Top, so)
  BY DEF TypeInv, TypeOK, FramesOK, Top
<1> DEFINE f == [Top EXCEPT !.i = @ + 1]
<1>2. /\ stack' \in Seq(Frame) /\ Len(stack') = Len(stack) + 1
      /\ \A k \in 1..Len(stack) : stack'[k] = IF k = Len(stack) THEN f ELSE stack[k]
      /\ stack'[Len(stack) + 1] = g
  BY <1>1, StepType
<1>3. f.fn = Top.fn /\ f.si = Top.si /\ f.i = Top.i + 1 /\ Top.i \in Nat
  BY <1>1 DEF Frame
<1>4. FrameOK(f, so')
  BY <1>1, <1>3, SlotFacts DEF FrameOK
<1>5. \A k \in 1..Len(stack') : k \in 1..Len(stack) \/ k = Len(stack) + 1
  BY <1>1, <1>2
<1> HIDE DEF f
<1>6. QED
  BY <1>2, <1>4, <1>5, FramesKept

-----------------------------------------------------------------------------
\* One soinfo replaced by one of the same path and number of entries.
LEMMA InfoKept ==
    ASSUME TypeInv, NEW s \in Slots, NEW r \in Soinfo,
           r.path = so[s].path, Len(r.needed) = Len(so[s].needed),
           so' = [so EXCEPT ![s] = r]
    PROVE  /\ so' \in [Slots -> Soinfo] /\ NeededOK'
           /\ \A u \in Slots : so[u].path \in Paths => so'[u].path \in Paths
  BY DEF TypeInv, TypeOK, NeededOK

LEMMA FrameTypes ==
    ASSUME NEW p \in Paths, NEW s \in Slots
    PROVE  /\ Act("dlopen", p, NULL, 0) \in Frame /\ Act("find", p, NULL, 0) \in Frame
           /\ Act("link", None, s, 1) \in Frame /\ Act("ctor", None, s, 0) \in Frame
           /\ Act("unload", None, s, 0) \in Frame /\ Act("dlclose", None, s, 0) \in Frame
           /\ Returns(s) \in Result /\ Returns(NULL) \in Result /\ NoRet \in Result
  BY DEF Act, Frame, Returns, Result, NoRet

\* The soinfo records the code starts from.
LEMMA InfoTypes ==
    /\ libdl_info \in Soinfo /\ libdl_info.path = None
    /\ ZeroInfo \in Soinfo /\ ZeroInfo.path = None
    /\ \A p \in Paths : /\ FreshInfo(p) \in Soinfo
                        /\ [FreshInfo(p) EXCEPT !.mapped = TRUE] \in Soinfo
                        /\ FreshInfo(p).path = p /\ FreshInfo(p).needed \in Seq({RAW})
                        /\ Len(FreshInfo(p).needed) = Len(Needed[p])
<1>1. << >> \in Seq(Slots \cup {NULL, RAW})
  OBVIOUS
<1>2. libdl_info \in Soinfo /\ libdl_info.path = None
  BY <1>1 DEF libdl_info, Soinfo
<1>3. ZeroInfo \in Soinfo /\ ZeroInfo.path = None
  BY <1>2 DEF ZeroInfo, Soinfo
<1>4. ASSUME NEW p \in Paths
      PROVE  /\ FreshInfo(p) \in Soinfo
             /\ [FreshInfo(p) EXCEPT !.mapped = TRUE] \in Soinfo
             /\ FreshInfo(p).path = p /\ FreshInfo(p).needed \in Seq({RAW})
             /\ Len(FreshInfo(p).needed) = Len(Needed[p])
  <2> DEFINE n == [k \in 1..Len(Needed[p]) |-> RAW]
  <2>1. Len(Needed[p]) \in Nat
    BY ConstantsAssumption
  <2>2. n \in Seq({RAW}) /\ n \in Seq(Slots \cup {NULL, RAW}) /\ Len(n) = Len(Needed[p])
    BY <2>1
  <2>3. FreshInfo(p) = [ZeroInfo EXCEPT !.path = p, !.needed = n]
    BY DEF FreshInfo
  <2> HIDE DEF n
  <2>4. QED
    BY <1>3, <2>2, <2>3 DEF Soinfo
<1>5. QED
  BY <1>2, <1>3, <1>4

\* Initially.
LEMMA TypeInit == Init => TypeInv
<1> SUFFICES ASSUME Init PROVE TypeInv
  OBVIOUS
<1>1. libdl_info \in Soinfo /\ ZeroInfo \in Soinfo /\ libdl_info.path = None /\ ZeroInfo.path = None
  BY InfoTypes
<1>2. TypeOK
  BY <1>1, SlotFacts, ConstantsAssumption DEF Init, TypeOK, NoRet, Result
<1>3. FramesOK
  BY DEF Init, FramesOK
<1>4. NeededOK
  BY <1>1, ConstantsAssumption DEF Init, NeededOK
<1>5. QED
  BY <1>2, <1>3, <1>4 DEF TypeInv

\* The lock is taken and the first call under it is made.
LEMMA TwoFrames ==
    ASSUME TypeInv, NEW t \in Threads, NEW f \in Frame, NEW g \in Frame,
           FrameOK(f, so), FrameOK(g, so), stack' = <<f, g>>, lock' = t, ret' = NoRet,
           UNCHANGED <<fault, lib, req, hist>>
    PROVE  TypeInv'
<1>1. stack' \in Seq(Frame) /\ Len(stack') = 2 /\ stack'[1] = f /\ stack'[2] = g
  OBVIOUS
<1>2. TypeOK'
  BY <1>1, FrameTypes DEF TypeInv, TypeOK, lib, hist, NoRet, Result
<1>3. FramesOK'
  BY <1>1 DEF FramesOK, FrameOK, lib
<1>4. NeededOK'
  BY DEF TypeInv, NeededOK, lib
<1>5. QED
  BY <1>2, <1>3, <1>4 DEF TypeInv

\* Calls of the application and the acquisition of the lock.
LEMMA TypeCalls ==
    ASSUME TypeInv, NEW t \in Threads, Call(t) \/ Acquire(t)
    PROVE  TypeInv'
<1> USE DEF lib, ctl, hist
<1>1. ASSUME NEW p \in Paths, CallDlopen(t, p) PROVE TypeInv'
  BY <1>1 DEF CallDlopen, TypeInv, TypeOK, FramesOK, FrameOK, NeededOK, Request
<1>2. ASSUME NEW s \in Slots, CallDlclose(t, s) PROVE TypeInv'
  BY <1>2 DEF CallDlclose, TypeInv, TypeOK, FramesOK, FrameOK, NeededOK, Request
<1>3. CASE CallDlcloseForeign(t)
  BY <1>3 DEF CallDlcloseForeign, TypeInv, TypeOK, FramesOK, FrameOK, NeededOK, Request
<1>4. CASE Acquire(t)
  <2>1. req[t] \in Request
    BY <1>4 DEF Acquire, TypeInv, TypeOK
  <2>2. CASE req[t].op = "dlopen"
    <3>1. req[t].arg \in Paths
      BY <2>1, <2>2 DEF Request
    <3> DEFINE f == Act("dlopen", req[t].arg, NULL, 0)
               g == Act("find", req[t].arg, NULL, 0)
    <3>2. f \in Frame /\ g \in Frame /\ FrameOK(f, so) /\ FrameOK(g, so)
      BY <3>1, SlotFacts, FrameTypes DEF FrameOK, Act
    <3>3. stack' = <<f, g>> /\ UNCHANGED <<fault, lib, req, hist>> /\ lock' = t /\ ret' = NoRet
      BY <1>4, <2>2 DEF Acquire
    <3> HIDE DEF f, g
    <3>4. QED
      BY <3>2, <3>3, TwoFrames DEF NoRet, Result
  <2>3. CASE req[t].op # "dlopen" /\ req[t].arg = NULL
    BY <1>4, <2>1, <2>3, FrameTypes
    DEF Acquire, TypeInv, TypeOK, FramesOK, FrameOK, NeededOK, Result, NoRet
  <2>4. CASE req[t].op # "dlopen" /\ req[t].arg # NULL
    <3>1. req[t].arg \in Slots
      BY <2>1, <2>4 DEF Request
    <3> DEFINE f == Act("dlclose", None, req[t].arg, 0)
               g == Act("unload", None, req[t].arg, 0)
    <3>2. f \in Frame /\ g \in Frame /\ FrameOK(f, so) /\ FrameOK(g, so)
      BY <3>1 DEF FrameOK, Act, Frame
    <3>3. stack' = <<f, g>> /\ UNCHANGED <<fault, lib, req, hist>> /\ lock' = t /\ ret' = NoRet
      BY <1>4, <2>4 DEF Acquire
    <3> HIDE DEF f, g
    <3>4. QED
      BY <3>2, <3>3, TwoFrames DEF NoRet, Result
  <2>5. QED
    BY <2>2, <2>3, <2>4
<1>5. QED
  BY <1>1, <1>2, <1>3, <1>4 DEF Call

\* An activation that changes no soinfo returns to the one below it.
LEMMA TypePop ==
    ASSUME TypeInv, stack # << >>, Pop, ret' \in Result,
           inited' \subseteq Slots, UNCHANGED <<lib, lock, req, fault, handles, foreign, calls>>
    PROVE  TypeInv'
<1>1. stack' \in Seq(Frame) /\ FramesOK'
  BY PopKept DEF lib
<1>2. QED
  BY <1>1 DEF TypeInv, TypeOK, NeededOK, lib

\* A step that changes one soinfo, and the stack in one of the ways above.
LEMMA TypeInfo ==
    ASSUME TypeInv, NEW s \in Slots, NEW r \in Soinfo,
           r.path = so[s].path, Len(r.needed) = Len(so[s].needed),
           so' = [so EXCEPT ![s] = r], stack' \in Seq(Frame), FramesOK', ret' \in Result,
           UNCHANGED <<solist, freelist, socount, lock, req, fault, hist>>
    PROVE  TypeInv'
<1>1. so' \in [Slots -> Soinfo] /\ NeededOK'
  BY InfoKept
<1>2. QED
  BY <1>1 DEF TypeInv, TypeOK, hist

\* A slot for a new soinfo comes out of the pool.
LEMMA AllocType ==
    ASSUME TypeInv, alloc_info
    PROVE  AllocSlot \in Pool /\ socount' \in 0..SO_MAX
<1>1. CASE freelist = << >>
  BY <1>1, ConstantsAssumption DEF TypeInv, TypeOK, alloc_info, PoolFull, AllocSlot, Pool
<1>2. CASE freelist # << >>
  BY <1>2, HeadTailProperties DEF TypeInv, TypeOK, alloc_info, AllocSlot
<1>3. QED
  BY <1>1, <1>2

\* A soinfo filled in for path p.
LEMMA FreshKept ==
    ASSUME TypeInv, NEW s \in Slots, NEW p \in Paths, NEW m \in BOOLEAN,
           so' = [so EXCEPT ![s] = [FreshInfo(p) EXCEPT !.mapped = m]]
    PROVE  /\ so' \in [Slots -> Soinfo] /\ NeededOK' /\ so'[s].path \in Paths
           /\ \A u \in Slots : so[u].path \in Paths => so'[u].path \in Paths
<1> DEFINE r == [FreshInfo(p) EXCEPT !.mapped = m]
<1>1. r \in Soinfo /\ r.path = p /\ Len(r.needed) = Len(Needed[p])
  BY InfoTypes DEF Soinfo
<1>2. so' = [so EXCEPT ![s] = r]
  OBVIOUS
<1> HIDE DEF r
<1>3. QED
  BY <1>1, <1>2 DEF TypeInv, TypeOK, NeededOK

\* apkenv_find_library and apkenv_load_library.
LEMMA TypeFind ==
    ASSUME TypeInv, Find \/ Load
    PROVE  TypeInv'
<1>0. Running("find")
  BY DEF Find, Load, FindLoaded, FindElsewhere, LoadFail, LoadFailAllocated, LoadOk, Loading
<1>1. stack # << >> /\ Top.path \in Paths /\ Target \in Paths
  BY <1>0, TopFrame, ConstantsAssumption DEF Running, Target
<1>2. Elems(solist) \subseteq Slots
  BY DEF TypeInv, TypeOK, Elems
<1>3. CASE FindLoaded
  <2>1. PICK s \in Slots : ret' = Returns(IF so[s].error \/ ~so[s].linked THEN NULL ELSE s)
    BY <1>2, <1>3 DEF FindLoaded, Matches
  <2>2. ret' \in Result
    BY <2>1 DEF Returns, Result
  <2>3. QED
    BY <1>1, <1>3, <2>2, TypePop DEF FindLoaded, hist, TypeInv, TypeOK
<1>4. CASE FindElsewhere
  <2>1. ret' \in Result
    BY <1>4 DEF FindElsewhere, Returns, Result
  <2>2. QED
    BY <1>1, <1>4, <2>1, TypePop DEF FindElsewhere, hist, TypeInv, TypeOK
<1>5. CASE LoadFail
  <2>1. ret' \in Result
    BY <1>5 DEF LoadFail, Returns, Result
  <2>2. QED
    BY <1>1, <1>5, <2>1, TypePop DEF LoadFail, hist, TypeInv, TypeOK
<1>6. CASE LoadFailAllocated
  <2>1. AllocSlot \in Pool /\ AllocSlot \in Slots /\ socount' \in 0..SO_MAX
    BY <1>6, AllocType, SlotFacts DEF LoadFailAllocated
  <2>2. FreshInfo(Target) = [FreshInfo(Target) EXCEPT !.mapped = FALSE]
    BY <1>1, InfoTypes DEF FreshInfo, ZeroInfo, libdl_info
  <2>3. /\ so' \in [Slots -> Soinfo] /\ NeededOK'
        /\ \A u \in Slots : so[u].path \in Paths => so'[u].path \in Paths
    BY <1>1, <1>6, <2>1, <2>2, FreshKept DEF LoadFailAllocated
  <2>4. stack' \in Seq(Frame) /\ FramesOK'
    BY <1>1, <1>6, <2>3, PopKept DEF LoadFailAllocated
  <2>5. ret' \in Result
    BY <1>6 DEF LoadFailAllocated, Returns, Result
  <2>6. freelist' \in Seq(Pool)
    BY <1>6, <2>1 DEF LoadFailAllocated, TypeInv, TypeOK
  <2>7. QED
    BY <1>6, <2>1, <2>3, <2>4, <2>5, <2>6 DEF LoadFailAllocated, TypeInv, TypeOK, hist
<1>7. CASE LoadOk
  <2>1. AllocSlot \in Pool /\ AllocSlot \in Slots /\ socount' \in 0..SO_MAX
    BY <1>7, AllocType, SlotFacts DEF LoadOk
  <2>2. /\ so' \in [Slots -> Soinfo] /\ NeededOK' /\ so'[AllocSlot].path \in Paths
        /\ \A u \in Slots : so[u].path \in Paths => so'[u].path \in Paths
    BY <1>1, <1>7, <2>1, FreshKept DEF LoadOk
  <2> DEFINE g == Act("link", None, AllocSlot, 1)
  <2>3. g \in Frame /\ FrameOK(g, so')
    BY <2>1, <2>2, FrameTypes DEF FrameOK, Act, Frame
  <2>4. SetTop(g)
    BY <1>7 DEF LoadOk
  <2>5. stack' \in Seq(Frame) /\ FramesOK'
    <3> HIDE DEF g
    <3> QED
      BY <1>1, <2>2, <2>3, <2>4, SetTopKept
  <2>6. solist' \in Seq(Slots)
    BY <1>7, <2>1, AppendProperties DEF LoadOk, TypeInv, TypeOK
  <2>7. freelist' \in Seq(Pool)
    BY <1>7, HeadTailProperties DEF LoadOk, TypeInv, TypeOK
  <2>8. QED
    BY <1>7, <2>1, <2>2, <2>5, <2>6, <2>7 DEF LoadOk, TypeInv, TypeOK, hist
<1>8. QED
  BY <1>3, <1>4, <1>5, <1>6, <1>7 DEF Find, Load

\* Filling in a DT_NEEDED entry keeps the number of entries.
WithEntry(r, k, d) == [r EXCEPT !.needed[k] = d]

LEMMA EntryKept ==
    ASSUME NEW r \in Soinfo, NEW k, NEW d \in Slots \cup {NULL, RAW}
    PROVE  /\ WithEntry(r, k, d) \in Soinfo
           /\ WithEntry(r, k, d).path = r.path
           /\ Len(WithEntry(r, k, d).needed) = Len(r.needed)
<1> DEFINE n == [r.needed EXCEPT ![k] = d]
<1>1. r.needed \in Seq(Slots \cup {NULL, RAW})
  BY DEF Soinfo
<1>2. n \in Seq(Slots \cup {NULL, RAW}) /\ Len(n) = Len(r.needed)
  <2>1. CASE k \in 1..Len(r.needed)
    BY <1>1, <2>1, ExceptSeq
  <2>2. CASE k \notin 1..Len(r.needed)
    <3>1. n = r.needed
      BY <1>1, <2>2
    <3>2. QED
      BY <1>1, <3>1
  <2>3. QED
    BY <2>1, <2>2
<1>3. WithEntry(r, k, d) = [r EXCEPT !.needed = n]
  BY DEF WithEntry
<1> HIDE DEF n
<1>4. QED
  BY <1>2, <1>3 DEF Soinfo

\* apkenv_link_image.
LEMMA TypeLink ==
    ASSUME TypeInv, Link
    PROVE  TypeInv'
<1>0. Running("link")
  BY DEF Link, LinkFailEarly, LinkFailReloc, LinkFailRelro, LinkUnsupported, LinkNeeded,
         BindNeeded, LinkFinish, LinkStart, LinkBound
<1>1. /\ stack # << >> /\ Top \in Frame /\ Top.fn = "link" /\ Top.si \in Slots /\ Top.si \in Pool
      /\ so[Top.si].path \in Paths /\ Top.i >= 1 /\ so[Top.si] \in Soinfo
  BY <1>0, TopFrame, SlotFacts DEF Running, TypeInv, TypeOK
<1> DEFINE T == Top.si
<1>2. ASSUME NEW r \in Soinfo, r.path = so[T].path, Len(r.needed) = Len(so[T].needed),
             so' = [so EXCEPT ![T] = r], Pop, ret' \in Result,
             UNCHANGED <<solist, freelist, socount, lock, req, fault, hist>>
      PROVE  TypeInv'
  <2>1. \A u \in Slots : so[u].path \in Paths => so'[u].path \in Paths
    BY <1>1, <1>2, InfoKept
  <2>2. stack' \in Seq(Frame) /\ FramesOK'
    BY <1>1, <1>2, <2>1, PopKept
  <2>3. QED
    BY <1>1, <1>2, <2>2, TypeInfo
<1>3. Returns(NULL) \in Result /\ Returns(T) \in Result
  BY <1>1 DEF Returns, Result
<1>4. CASE LinkFailEarly \/ LinkFailReloc
  <2> DEFINE r == [so[T] EXCEPT !.error = TRUE, !.mapped = FALSE]
  <2>1. r \in Soinfo /\ r.path = so[T].path /\ Len(r.needed) = Len(so[T].needed)
    BY <1>1 DEF Soinfo
  <2>2. so' = [so EXCEPT ![T] = r]
    BY <1>1, <1>4 DEF LinkFailEarly, LinkFailReloc, TypeInv, TypeOK
  <2> HIDE DEF r
  <2>3. QED
    BY <1>2, <1>3, <1>4, <2>1, <2>2 DEF LinkFailEarly, LinkFailReloc, LinkFails
<1>5. CASE LinkFailRelro
  <2> DEFINE r == [so[T] EXCEPT !.linked = TRUE, !.error = TRUE, !.mapped = FALSE]
  <2>1. r \in Soinfo /\ r.path = so[T].path /\ Len(r.needed) = Len(so[T].needed)
    BY <1>1 DEF Soinfo
  <2>2. so' = [so EXCEPT ![T] = r]
    BY <1>1, <1>5 DEF LinkFailRelro, TypeInv, TypeOK
  <2> HIDE DEF r
  <2>3. QED
    BY <1>2, <1>3, <1>5, <2>1, <2>2 DEF LinkFailRelro, LinkFails
<1>6. CASE LinkFinish
  <2> DEFINE r == [so[T] EXCEPT !.linked = TRUE]
  <2>1. r \in Soinfo /\ r.path = so[T].path /\ Len(r.needed) = Len(so[T].needed)
    BY <1>1 DEF Soinfo
  <2>2. so' = [so EXCEPT ![T] = r]
    BY <1>1, <1>6 DEF LinkFinish, TypeInv, TypeOK
  <2> HIDE DEF r
  <2>3. QED
    BY <1>2, <1>3, <1>6, <2>1, <2>2 DEF LinkFinish
<1>7. CASE LinkUnsupported
  BY <1>1, <1>3, <1>7, TypePop DEF LinkUnsupported, hist, TypeInv, TypeOK
<1>8. CASE LinkNeeded
  <2> DEFINE g == Act("find", Needed[so[Top.si].path][Top.i], NULL, 0)
  <2>1. Top.i \in 1..Len(Needed[so[T].path])
    BY <1>1, <1>8 DEF LinkNeeded, TypeInv, NeededOK, Frame
  <2>2. Needed[so[T].path][Top.i] \in Paths
    BY <1>1, <2>1, ConstantsAssumption
  <2>3. g \in Frame /\ FrameOK(g, so')
    BY <2>2 DEF Act, Frame, FrameOK
  <2>4. stack' \in Seq(Frame) /\ FramesOK'
    <3>1. Push(g) /\ so' = so
      BY <1>8 DEF LinkNeeded, lib
    <3> HIDE DEF g
    <3>2. QED
      BY <2>3, <3>1, PushKept
  <2>5. QED
    BY <1>8, <2>4 DEF LinkNeeded, TypeInv, TypeOK, NeededOK, lib, hist
<1>9. CASE BindNeeded
  <2> DEFINE d == IF ret.si = NULL THEN Libdl ELSE ret.si
             r == WithEntry(so[T], Top.i, d)
             m == [so EXCEPT ![T] = r]
             q == [m[d] EXCEPT !.refcount = @ + 1]
  <2>1. d \in Slots
    BY SlotFacts DEF TypeInv, TypeOK, Result
  <2>2. r \in Soinfo /\ r.path = so[T].path /\ Len(r.needed) = Len(so[T].needed)
    <3> HIDE DEF d
    <3> QED
      BY <1>1, <2>1, EntryKept
  <2>3. so' = [m EXCEPT ![d] = q]
    BY <1>1, <1>9, <2>1 DEF BindNeeded, WithEntry, TypeInv, TypeOK
  <2> HIDE DEF d, r
  <2>4. /\ m \in [Slots -> Soinfo]
        /\ \A u \in Slots : m[u].path = so[u].path /\ Len(m[u].needed) = Len(so[u].needed)
    BY <1>1, <2>2 DEF TypeInv, TypeOK
  <2> HIDE DEF m
  <2>5. q \in Soinfo /\ q.path = m[d].path /\ q.needed = m[d].needed
    <3> DEFINE v == m[d]
    <3>1. v \in Soinfo
      BY <2>1, <2>4
    <3> HIDE DEF v
    <3>2. [v EXCEPT !.refcount = @ + 1] \in Soinfo
      BY <3>1 DEF Soinfo
    <3>3. [v EXCEPT !.refcount = @ + 1].path = v.path /\ [v EXCEPT !.refcount = @ + 1].needed = v.needed
      BY <3>1 DEF Soinfo
    <3>4. q = [v EXCEPT !.refcount = @ + 1]
      BY DEF v
    <3>5. QED
      BY <3>2, <3>3, <3>4 DEF v
  <2> HIDE DEF q
  <2>6. /\ so' \in [Slots -> Soinfo]
        /\ \A u \in Slots : so'[u].path = so[u].path /\ Len(so'[u].needed) = Len(so[u].needed)
    BY <2>1, <2>3, <2>4, <2>5
  <2>7. Skip /\ ret' = NoRet
    BY <1>9 DEF BindNeeded
  <2>8. stack' \in Seq(Frame) /\ FramesOK'
    BY <1>1, <2>6, <2>7, SkipKept
  <2>9. NeededOK'
    BY <2>6 DEF TypeInv, NeededOK
  <2>10. ret' \in Result
    BY <2>7 DEF NoRet, Result
  <2>11. QED
    BY <1>9, <2>6, <2>8, <2>9, <2>10 DEF BindNeeded, TypeInv, TypeOK, hist
<1>10. QED
  BY <1>4, <1>5, <1>6, <1>7, <1>8, <1>9 DEF Link

\* apkenv_call_constructors_recursive.
LEMMA TypeCtor ==
    ASSUME TypeInv, Ctor
    PROVE  TypeInv'
<1>0. Running("ctor")
  BY DEF Ctor, CtorAgain, CtorEnter, CtorNeeded, CtorRun, CtorReenter, CtorDone
<1>1. /\ stack # << >> /\ Top \in Frame /\ Top.fn = "ctor" /\ Top.si \in Slots
      /\ so[Top.si] \in Soinfo /\ ret \in Result /\ inited \subseteq Slots
  BY <1>0, TopFrame DEF Running, TypeInv, TypeOK
<1>2. CASE CtorAgain
  BY <1>1, <1>2, TypePop DEF CtorAgain, hist
<1>3. CASE CtorEnter
  <2> DEFINE r == [so[Top.si] EXCEPT !.constructors_called = TRUE]
  <2>1. r \in Soinfo /\ r.path = so[Top.si].path /\ Len(r.needed) = Len(so[Top.si].needed)
    BY <1>1 DEF Soinfo
  <2>2. so' = [so EXCEPT ![Top.si] = r]
    BY <1>1, <1>3 DEF CtorEnter, TypeInv, TypeOK
  <2> HIDE DEF r
  <2>3. \A u \in Slots : so[u].path \in Paths => so'[u].path \in Paths
    BY <1>1, <2>1, <2>2, InfoKept
  <2>4. stack' \in Seq(Frame) /\ FramesOK'
    BY <1>1, <1>3, <2>3, SkipKept DEF CtorEnter
  <2>5. QED
    BY <1>1, <1>3, <2>1, <2>2, <2>4, TypeInfo DEF CtorEnter
<1>4. CASE CtorNeeded
  <2> DEFINE d == CtorDeps(Top.si)[Top.i]
  <2>1. UNCHANGED <<lib, lock, req, ret, fault, hist>>
    BY <1>4 DEF CtorNeeded
  <2>2. stack' \in Seq(Frame) /\ FramesOK'
    <3>1. CASE IsSlot(d)
      <4> DEFINE g == Act("ctor", None, d, 0)
      <4>1. g \in Frame /\ FrameOK(g, so')
        BY <3>1 DEF IsSlot, Act, Frame, FrameOK
      <4>2. Step(g)
        BY <1>4, <3>1 DEF CtorNeeded
      <4> HIDE DEF g
      <4>3. QED
        BY <1>1, <2>1, <4>1, <4>2, StepKept DEF lib
    <3>2. CASE ~IsSlot(d)
      <4>1. Skip
        BY <1>4, <3>2 DEF CtorNeeded
      <4>2. QED
        BY <1>1, <2>1, <4>1, SkipKept DEF lib
    <3>3. QED
      BY <3>1, <3>2
  <2>3. QED
    BY <2>1, <2>2 DEF TypeInv, TypeOK, NeededOK, lib, hist
<1>5. CASE CtorRun
  BY <1>1, <1>5, TypePop DEF CtorRun
<1>6. CASE CtorReenter
  <2> DEFINE g == [Top EXCEPT !.fn = "selfwait"]
  <2>1. g \in Frame /\ FrameOK(g, so')
    BY <1>1 DEF Frame, FrameOK
  <2>2. SetTop(g) /\ UNCHANGED <<lib, lock, req, ret, fault, hist>>
    BY <1>6 DEF CtorReenter
  <2> HIDE DEF g
  <2>3. stack' \in Seq(Frame) /\ FramesOK'
    BY <1>1, <2>1, <2>2, SetTopKept DEF lib
  <2>4. QED
    BY <2>2, <2>3 DEF TypeInv, TypeOK, NeededOK, lib, hist
<1>7. QED
  BY <1>2, <1>3, <1>4, <1>5, <1>6 DEF Ctor

\* The end of bionic_dlopen and of bionic_dlclose.
LEMMA TypeDlopen ==
    ASSUME TypeInv, Dlopen \/ DlcloseReturn
    PROVE  TypeInv'
<1>1. ASSUME Release, so' \in [Slots -> Soinfo], NeededOK', ret' \in Result,
             handles' \in [Slots -> Nat], foreign' \in Nat,
             UNCHANGED <<solist, freelist, socount, fault, inited, calls>>
      PROVE  TypeInv'
  <2>1. stack' = << >> /\ lock' = None /\ req' \in [Threads -> Request \cup {None}]
    BY <1>1 DEF Release, TypeInv, TypeOK
  <2>2. stack' \in Seq(Frame) /\ FramesOK'
    BY <2>1 DEF FramesOK
  <2>3. QED
    BY <1>1, <2>1, <2>2 DEF TypeInv, TypeOK
<1>2. CASE DlopenFound
  <2>1. /\ stack # << >> /\ Top \in Frame /\ Top.fn = "dlopen" /\ Len(stack) \in 1..Len(stack)
        /\ ret.si \in Slots /\ stack \in Seq(Frame) /\ Len(stack) \in Nat
    BY <1>2, TopFrame DEF DlopenFound, Running, TypeInv, TypeOK, Result
  <2> DEFINE f == [Top EXCEPT !.si = ret.si]
             s == [stack EXCEPT ![Len(stack)] = f]
             g == Act("ctor", None, ret.si, 0)
  <2>2. f \in Frame /\ g \in Frame /\ FrameOK(f, so) /\ FrameOK(g, so)
    BY <2>1 DEF Frame, FrameOK, Act
  <2>3. stack' = Append(s, g)
    BY <1>2 DEF DlopenFound, Top
  <2>4. ret' = NoRet /\ UNCHANGED <<lib, lock, req, fault, hist>>
    BY <1>2 DEF DlopenFound
  <2> HIDE DEF f, g
  <2>5. /\ s \in Seq(Frame) /\ Len(s) = Len(stack)
        /\ \A k \in 1..Len(stack) : s[k] = IF k = Len(stack) THEN f ELSE stack[k]
    BY <2>1, <2>2, ExceptSeq
  <2> HIDE DEF s
  <2>6. /\ stack' \in Seq(Frame) /\ Len(stack') = Len(s) + 1
        /\ \A k \in 1..Len(s) : stack'[k] = s[k]
        /\ stack'[Len(s) + 1] = g
    BY <2>2, <2>3, <2>5, AppendProperties
  <2>7. FramesOK'
    <3>1. so' = so
      BY <2>4 DEF lib
    <3>2. \A k \in 1..Len(stack') : k \in 1..Len(stack) \/ k = Len(stack) + 1
      BY <2>1, <2>5, <2>6
    <3>3. QED
      BY <2>2, <2>5, <2>6, <3>1, <3>2, FramesKept
  <2>8. ret' \in Result
    BY <2>4 DEF NoRet, Result
  <2>9. QED
    BY <2>4, <2>6, <2>7, <2>8 DEF TypeInv, TypeOK, NeededOK, lib, hist
<1>3. CASE DlopenReturn
  <2>1. Top \in Frame /\ Top.fn = "dlopen" /\ Top.si \in Slots /\ so[Top.si] \in Soinfo
    BY <1>3, TopFrame DEF DlopenReturn, Running, TypeInv, TypeOK, Frame
  <2> DEFINE r == [so[Top.si] EXCEPT !.refcount = @ + 1]
  <2>2. r \in Soinfo /\ r.path = so[Top.si].path /\ Len(r.needed) = Len(so[Top.si].needed)
    BY <2>1 DEF Soinfo
  <2>3. so' = [so EXCEPT ![Top.si] = r]
    BY <2>1, <1>3 DEF DlopenReturn, TypeInv, TypeOK
  <2>4. handles' \in [Slots -> Nat]
    BY <1>3, <2>1 DEF DlopenReturn, TypeInv, TypeOK
  <2> HIDE DEF r
  <2>5. so' \in [Slots -> Soinfo] /\ NeededOK'
    BY <2>1, <2>2, <2>3, InfoKept
  <2>6. QED
    BY <1>1, <1>3, <2>4, <2>5 DEF DlopenReturn, TypeInv, TypeOK
<1>4. CASE DlopenOther
  <2>1. ret' \in Result /\ foreign' \in Nat
    BY <1>4 DEF DlopenOther, NoRet, Result, TypeInv, TypeOK
  <2>2. QED
    BY <1>1, <1>4, <2>1 DEF DlopenOther, TypeInv, TypeOK, NeededOK, lib
<1>5. CASE DlcloseReturn
  BY <1>1, <1>5 DEF DlcloseReturn, TypeInv, TypeOK, NeededOK, lib, hist
<1>6. QED
  BY <1>2, <1>3, <1>4, <1>5 DEF Dlopen

\* Unlinking one soinfo from a list.
LEMMA UnlinkType ==
    ASSUME NEW S, NEW l \in Seq(S), NEW x \in Elems(l)
    PROVE  Unlink(l, x) \in Seq(S)
<1>1. Len(l) \in Nat /\ Len(l) - 1 \in Nat
  BY DEF Elems
<1>2. \A k \in 1..(Len(l) - 1) : k \in 1..Len(l) /\ k + 1 \in 1..Len(l)
  BY <1>1
<1>3. QED
  BY <1>1, <1>2 DEF Unlink

\* apkenv_unload_library.
LEMMA TypeUnload ==
    ASSUME TypeInv, Unload
    PROVE  TypeInv'
<1>0. Running("unload")
  BY DEF Unload, UnloadShared, UnloadEnter, UnloadLibdl, UnloadNeeded, UnloadFinish
<1>1. /\ stack # << >> /\ Top \in Frame /\ Top.fn = "unload" /\ Top.si \in Slots
      /\ so[Top.si] \in Soinfo /\ ret \in Result /\ inited \subseteq Slots
      /\ Top.i > 0 => Top.si \in Pool
  BY <1>0, TopFrame DEF Running, TypeInv, TypeOK
<1>2. CASE UnloadShared
  <2> DEFINE r == [so[Top.si] EXCEPT !.refcount = @ - 1]
  <2>1. r \in Soinfo /\ r.path = so[Top.si].path /\ Len(r.needed) = Len(so[Top.si].needed)
    BY <1>1 DEF Soinfo
  <2>2. so' = [so EXCEPT ![Top.si] = r]
    BY <1>1, <1>2 DEF UnloadShared, TypeInv, TypeOK
  <2> HIDE DEF r
  <2>3. \A u \in Slots : so[u].path \in Paths => so'[u].path \in Paths
    BY <1>1, <2>1, <2>2, InfoKept
  <2>4. stack' \in Seq(Frame) /\ FramesOK'
    BY <1>1, <1>2, <2>3, PopKept DEF UnloadShared
  <2>5. QED
    BY <1>1, <1>2, <2>1, <2>2, <2>4, TypeInfo DEF UnloadShared
<1>3. CASE UnloadEnter
  <2>1. Top.si \in Pool
    BY <1>1, <1>3 DEF UnloadEnter, Slots
  <2>2. stack' \in Seq(Frame) /\ FramesOK'
    BY <1>1, <1>3, <2>1, SkipKept DEF UnloadEnter, lib
  <2>3. inited' \subseteq Slots
    BY <1>1, <1>3 DEF UnloadEnter
  <2>4. QED
    BY <1>3, <2>2, <2>3 DEF UnloadEnter, TypeInv, TypeOK, NeededOK, lib
<1>4. CASE UnloadLibdl
  BY <1>4 DEF UnloadLibdl, TypeInv, TypeOK, FramesOK, FrameOK, NeededOK, lib, hist
<1>5. CASE UnloadNeeded
  <2> DEFINE d == so[Top.si].needed[Top.i]
             r == WithEntry(so[Top.si], Top.i, NULL)
  <2>1. r \in Soinfo /\ r.path = so[Top.si].path /\ Len(r.needed) = Len(so[Top.si].needed)
    BY <1>1, EntryKept
  <2>2. so' = [so EXCEPT ![Top.si] = r]
    BY <1>1, <1>5 DEF UnloadNeeded, WithEntry, TypeInv, TypeOK
  <2> HIDE DEF r
  <2>3. \A u \in Slots : so[u].path \in Paths => so'[u].path \in Paths
    BY <1>1, <2>1, <2>2, InfoKept
  <2>4. Top.si \in Pool
    BY <1>1, <1>5 DEF UnloadNeeded
  <2>5. stack' \in Seq(Frame) /\ FramesOK'
    <3>1. CASE IsSlot(d)
      <4> DEFINE g == Act("unload", None, d, 0)
      <4>1. g \in Frame /\ FrameOK(g, so')
        BY <3>1 DEF IsSlot, Act, Frame, FrameOK
      <4>2. Step(g)
        BY <1>5, <3>1 DEF UnloadNeeded
      <4> HIDE DEF g
      <4>3. QED
        BY <1>1, <2>3, <2>4, <4>1, <4>2, StepKept
    <3>2. CASE ~IsSlot(d)
      <4>1. Skip
        BY <1>5, <3>2 DEF UnloadNeeded
      <4>2. QED
        BY <1>1, <2>3, <2>4, <4>1, SkipKept
    <3>3. QED
      BY <3>1, <3>2
  <2>6. QED
    BY <1>1, <1>5, <2>1, <2>2, <2>5, TypeInfo DEF UnloadNeeded
<1>6. CASE UnloadFinish
  <2> DEFINE r == [so[Top.si] EXCEPT !.mapped = FALSE, !.refcount = 0]
  <2>1. r \in Soinfo /\ r.path = so[Top.si].path /\ Len(r.needed) = Len(so[Top.si].needed)
    <3> DEFINE v == so[Top.si]
    <3>1. v \in Soinfo
      BY <1>1
    <3> DEFINE w == [v EXCEPT !.mapped = FALSE]
    <3>2. r = [w EXCEPT !.refcount = 0]
      BY <3>1 DEF Soinfo
    <3> HIDE DEF v, r
    <3>3. w \in Soinfo /\ w.path = v.path /\ w.needed = v.needed
      BY <3>1 DEF Soinfo
    <3> HIDE DEF w
    <3>4. r \in Soinfo /\ r.path = v.path /\ r.needed = v.needed
      BY <3>2, <3>3 DEF Soinfo
    <3>5. QED
      BY <3>4 DEF v
  <2>2. so' = [so EXCEPT ![Top.si] = r]
    BY <1>1, <1>6 DEF UnloadFinish, TypeInv, TypeOK
  <2> HIDE DEF r
  <2>3. /\ so' \in [Slots -> Soinfo] /\ NeededOK'
        /\ \A u \in Slots : so[u].path \in Paths => so'[u].path \in Paths
    BY <1>1, <2>1, <2>2, InfoKept
  <2>4. stack' \in Seq(Frame) /\ FramesOK'
    BY <1>1, <1>6, <2>3, PopKept DEF UnloadFinish
  <2>5. Top.si \in Pool
    <3>1. so[Top.si].needed \in Seq(Slots \cup {NULL, RAW})
      BY <1>1 DEF Soinfo
    <3>2. Len(so[Top.si].needed) + 1 > 0
      BY <3>1
    <3>3. QED
      BY <1>1, <1>6, <3>2 DEF UnloadFinish
  <2>6. solist' \in Seq(Slots) /\ freelist' \in Seq(Pool)
    <3>1. solist \in Seq(Slots) /\ freelist \in Seq(Pool)
      BY DEF TypeInv, TypeOK
    <3>2. CASE Top.si \in Elems(solist)
      <4>1. solist' = Unlink(solist, Top.si) /\ freelist' = <<Top.si>> \o freelist
        BY <1>6, <3>2 DEF UnloadFinish, free_info
      <4>2. Unlink(solist, Top.si) \in Seq(Slots)
        BY <3>1, <3>2, UnlinkType
      <4>3. QED
        BY <2>5, <3>1, <4>1, <4>2, ConcatProperties
    <3>3. CASE Top.si \notin Elems(solist)
      BY <1>6, <3>1, <3>3 DEF UnloadFinish, free_info
    <3>4. QED
      BY <3>2, <3>3
  <2>7. QED
    BY <1>6, <2>3, <2>4, <2>6 DEF UnloadFinish, TypeInv, TypeOK, hist
<1>7. QED
  BY <1>2, <1>3, <1>4, <1>5, <1>6 DEF Unload

LEMMA TypeStep == TypeInv /\ [Next]_vars => TypeInv'
<1> SUFFICES ASSUME TypeInv, [Next]_vars PROVE TypeInv'
  OBVIOUS
<1>1. CASE UNCHANGED vars
  BY <1>1 DEF vars, lib, ctl, hist, TypeInv, TypeOK, FramesOK, FrameOK, NeededOK
<1>2. CASE Next
  BY <1>2, TypeCalls, TypeFind, TypeLink, TypeCtor, TypeDlopen, TypeUnload DEF Next, OwnerStep
<1>3. QED
  BY <1>1, <1>2

LEMMA TypeAlways == Spec => []TypeInv
  BY TypeInit, TypeStep, PTL DEF Spec

\* Type correctness of the library life cycle: whatever the libraries, their
\* dependencies and the calls, every handler of linker.c and dlfcn.c leaves
\* the soinfo pool, the lists, the counters and the call stack well formed.
THEOREM TypeCorrect == Spec => []TypeOK
<1>1. TypeInv => TypeOK
  BY DEF TypeInv
<1>2. QED
  BY <1>1, TypeAlways, PTL

-----------------------------------------------------------------------------
\* What the list operations of apkenv_alloc_info and apkenv_free_info do to
\* the elements of a list without repetition.
LEMMA AppendElems ==
    ASSUME NEW S, NEW l \in Seq(S), NEW x \in S, Injective(l), x \notin Elems(l)
    PROVE  /\ Injective(Append(l, x)) /\ Elems(Append(l, x)) = Elems(l) \cup {x}
           /\ l # << >> => Append(l, x) # << >> /\ Append(l, x)[1] = l[1]
<1> DEFINE m == Append(l, x)
<1>1. /\ m \in Seq(S) /\ Len(m) = Len(l) + 1 /\ m[Len(l) + 1] = x /\ Len(l) \in Nat
      /\ \A k \in 1..Len(l) : m[k] = l[k]
  BY AppendProperties
<1> HIDE DEF m
<1>2. \A k \in 1..Len(m) : k \in 1..Len(l) \/ k = Len(l) + 1
  BY <1>1
<1>3. Injective(m)
  BY <1>1, <1>2 DEF Injective, Elems
<1>4. Elems(m) = Elems(l) \cup {x}
  <2>1. Len(l) + 1 \in 1..Len(m) /\ \A k \in 1..Len(l) : k \in 1..Len(m)
    BY <1>1
  <2>2. QED
    BY <1>1, <1>2, <2>1 DEF Elems
<1>5. l # << >> => m # << >> /\ m[1] = l[1]
  BY <1>1
<1>6. QED
  BY <1>3, <1>4, <1>5 DEF m

LEMMA TailElems ==
    ASSUME NEW S, NEW l \in Seq(S), Injective(l), l # << >>
    PROVE  /\ Injective(Tail(l)) /\ Elems(Tail(l)) = Elems(l) \ {Head(l)}
           /\ Head(l) \in Elems(l)
<1> DEFINE m == Tail(l)
<1>1. /\ m \in Seq(S) /\ Len(m) = Len(l) - 1 /\ Len(l) \in Nat \ {0} /\ Head(l) = l[1]
      /\ \A k \in 1..Len(m) : m[k] = l[k + 1]
  BY HeadTailProperties
<1> HIDE DEF m
<1>2. \A k \in 1..Len(m) : k + 1 \in 1..Len(l) /\ k + 1 # 1
  BY <1>1
<1>3. \A k \in 1..Len(l) : k # 1 => k - 1 \in 1..Len(m) /\ (k - 1) + 1 = k
  BY <1>1
<1>4. Injective(m)
  <2>1. SUFFICES ASSUME NEW j \in 1..Len(m), NEW k \in 1..Len(m), m[j] = m[k] PROVE j = k
    BY <1>1 DEF Injective
  <2>2. j + 1 = k + 1
    BY <1>1, <1>2, <2>1 DEF Injective
  <2>3. QED
    BY <2>2
<1>5. 1 \in 1..Len(l)
  BY <1>1
<1>6. Elems(m) = Elems(l) \ {Head(l)}
  <2>1. ASSUME NEW y \in Elems(m) PROVE y \in Elems(l) \ {Head(l)}
    BY <1>1, <1>2, <1>5 DEF Elems, Injective
  <2>2. ASSUME NEW y \in Elems(l) \ {Head(l)} PROVE y \in Elems(m)
    <3>1. PICK k \in 1..Len(l) : y = l[k]
      BY DEF Elems
    <3>2. k - 1 \in 1..Len(m) /\ m[k - 1] = y
      BY <1>1, <1>3, <3>1
    <3>3. QED
      BY <1>1, <3>2 DEF Elems
  <2>3. QED
    BY <2>1, <2>2
<1>7. QED
  BY <1>1, <1>4, <1>5, <1>6 DEF m, Elems

LEMMA ConsElems ==
    ASSUME NEW S, NEW l \in Seq(S), NEW x \in S, Injective(l), x \notin Elems(l)
    PROVE  Injective(<<x>> \o l) /\ Elems(<<x>> \o l) = Elems(l) \cup {x}
<1> DEFINE m == <<x>> \o l
<1>1. /\ m \in Seq(S) /\ Len(m) = Len(l) + 1 /\ m[1] = x /\ Len(l) \in Nat
      /\ \A k \in 1..Len(m) : k # 1 => k - 1 \in 1..Len(l) /\ m[k] = l[k - 1]
  BY ConcatProperties
<1> HIDE DEF m
<1>2. Injective(m)
  <2>1. SUFFICES ASSUME NEW j \in 1..Len(m), NEW k \in 1..Len(m), m[j] = m[k] PROVE j = k
    BY <1>1 DEF Injective
  <2>2. CASE j = 1 \/ k = 1
    BY <1>1, <2>1, <2>2 DEF Elems
  <2>3. CASE j # 1 /\ k # 1
    <3>1. j - 1 = k - 1
      BY <1>1, <2>1, <2>3 DEF Injective
    <3>2. QED
      BY <3>1
  <2>4. QED
    BY <2>2, <2>3
<1>3. Elems(m) = Elems(l) \cup {x}
  <2>1. Elems(m) \subseteq Elems(l) \cup {x}
    BY <1>1 DEF Elems
  <2>2. ASSUME NEW y \in Elems(l) PROVE y \in Elems(m)
    <3>1. PICK k \in 1..Len(l) : y = l[k]
      BY DEF Elems
    <3>2. k + 1 \in 1..Len(m) /\ k + 1 # 1 /\ (k + 1) - 1 = k
      BY <1>1
    <3>3. m[k + 1] = l[(k + 1) - 1]
      BY <1>1, <3>2
    <3>4. m[k + 1] = y
      BY <3>1, <3>2, <3>3
    <3>5. PICK j \in 1..Len(m) : m[j] = y
      BY <3>2, <3>4
    <3>6. DOMAIN m = 1..Len(m)
      BY <1>1
    <3>7. QED
      BY <3>5, <3>6 DEF Elems
  <2>3. x \in Elems(m)
    BY <1>1 DEF Elems
  <2>4. QED
    BY <2>1, <2>2, <2>3
<1>4. QED
  BY <1>2, <1>3 DEF m

LEMMA UnlinkElems ==
    ASSUME NEW S, NEW l \in Seq(S), NEW x \in Elems(l), Injective(l)
    PROVE  /\ Injective(Unlink(l, x)) /\ Elems(Unlink(l, x)) = Elems(l) \ {x}
           /\ x # l[1] => Unlink(l, x) # << >> /\ Unlink(l, x)[1] = l[1]
<1> DEFINE m == Unlink(l, x)
           p == Position(l, x)
<1>1. p \in 1..Len(l) /\ l[p] = x
  <2>1. \E k \in DOMAIN l : l[k] = x
    BY DEF Elems
  <2>2. QED
    BY <2>1 DEF Position
<1> HIDE DEF p
<1>2. Len(l) \in Nat /\ Len(l) - 1 \in Nat
  BY <1>1
<1>3. /\ m \in Seq(S) /\ DOMAIN m = 1..(Len(l) - 1) /\ Len(m) = Len(l) - 1
      /\ \A k \in 1..(Len(l) - 1) : m[k] = IF k < p THEN l[k] ELSE l[k + 1]
  <2>1. m \in Seq(S)
    BY UnlinkType
  <2>2. QED
    BY <1>2, <2>1 DEF Unlink, p
<1> HIDE DEF m
<1> DEFINE from(k) == IF k < p THEN k ELSE k + 1
<1>4. \A k \in 1..Len(m) : from(k) \in 1..Len(l) /\ from(k) # p /\ m[k] = l[from(k)]
  BY <1>1, <1>2, <1>3
<1>5. \A j, k \in 1..Len(m) : from(j) = from(k) => j = k
  BY <1>1, <1>2, <1>3
<1>6. \A j \in 1..Len(l) : j # p => \E k \in 1..Len(m) : from(k) = j
  <2>1. SUFFICES ASSUME NEW j \in 1..Len(l), j # p PROVE \E k \in 1..Len(m) : from(k) = j
    OBVIOUS
  <2>2. CASE j < p
    BY <1>1, <1>2, <1>3, <2>2
  <2>3. CASE j > p
    <3>1. j - 1 \in 1..Len(m) /\ from(j - 1) = j
      BY <1>1, <1>2, <1>3, <2>3
    <3>2. QED
      BY <3>1
  <2>4. QED
    BY <1>1, <2>1, <2>2, <2>3
<1>7. x # l[1] => m # << >> /\ m[1] = l[1]
  <2>1. SUFFICES ASSUME x # l[1] PROVE m # << >> /\ m[1] = l[1]
    OBVIOUS
  <2>2. 1 < p /\ 1 \in 1..Len(m)
    BY <1>1, <1>2, <1>3, <2>1
  <2>3. QED
    BY <1>3, <2>2
<1> HIDE DEF from
<1>8. Injective(m)
  <2>1. SUFFICES ASSUME NEW j \in 1..Len(m), NEW k \in 1..Len(m), m[j] = m[k] PROVE j = k
    BY <1>3 DEF Injective
  <2>2. from(j) = from(k)
    BY <1>4, <2>1 DEF Injective
  <2>3. QED
    BY <1>5, <2>2
<1>9. Elems(m) = Elems(l) \ {x}
  <2>1. ASSUME NEW y \in Elems(m) PROVE y \in Elems(l) \ {x}
    <3>1. PICK k \in 1..Len(m) : y = m[k]
      BY <1>3 DEF Elems
    <3>2. y = l[from(k)] /\ from(k) \in 1..Len(l) /\ from(k) # p
      BY <1>4, <3>1
    <3>3. QED
      BY <1>1, <3>2 DEF Elems, Injective
  <2>2. ASSUME NEW y \in Elems(l) \ {x} PROVE y \in Elems(m)
    <3>1. PICK j \in 1..Len(l) : y = l[j]
      BY DEF Elems
    <3>2. PICK k \in 1..Len(m) : from(k) = j
      BY <1>1, <1>6, <3>1
    <3>3. QED
      BY <1>3, <1>4, <3>1, <3>2 DEF Elems
  <2>3. QED
    BY <2>1, <2>2
<1>10. QED
  BY <1>7, <1>8, <1>9 DEF m

\* The invariant of the pool is inductive given the types: only the three
\* steps that touch the lists matter.
LEMMA PoolStep == TypeInv /\ PoolPartition /\ [Next]_vars => PoolPartition'
<1> SUFFICES ASSUME TypeInv, PoolPartition, [Next]_vars PROVE PoolPartition'
  OBVIOUS
<1>1. CASE UNCHANGED <<solist, freelist, socount>>
  BY <1>1 DEF PoolPartition, Injective, Elems
<1>2. /\ solist \in Seq(Slots) /\ freelist \in Seq(Pool) /\ socount \in Nat
      /\ Pool \subseteq Slots
  BY SlotFacts, ConstantsAssumption DEF TypeInv, TypeOK
<1>3. CASE LoadFailAllocated
  <2>1. CASE freelist # << >>
    BY <1>1, <1>3, <2>1 DEF LoadFailAllocated, alloc_info
  <2>2. CASE freelist = << >>
    <3>1. freelist' = <<socount + 1>> /\ socount' = socount + 1 /\ solist' = solist
      BY <1>3, <2>2 DEF LoadFailAllocated, alloc_info, AllocSlot
    <3>2. /\ Injective(freelist') /\ Elems(freelist') = {socount + 1}
          /\ Elems(freelist) = {}
      BY <2>2, <3>1 DEF Injective, Elems
    <3>3. Elems(solist) = 0..socount
      BY <3>2 DEF PoolPartition
    <3>4. 0..(socount + 1) = (0..socount) \cup {socount + 1} /\ socount + 1 \notin 0..socount
      BY <1>2
    <3>5. Elems(solist') = Elems(solist) /\ Injective(solist')
      BY <3>1 DEF Elems, PoolPartition, Injective
    <3>6. QED
      BY <3>1, <3>2, <3>3, <3>4, <3>5 DEF PoolPartition
  <2>3. QED
    BY <2>1, <2>2
<1>4. CASE LoadOk
  <2>1. CASE freelist # << >>
    <3>1. /\ freelist' = Tail(freelist) /\ socount' = socount
          /\ solist' = Append(solist, Head(freelist))
      BY <1>4, <2>1 DEF LoadOk, alloc_info, AllocSlot
    <3>2. /\ Injective(Tail(freelist)) /\ Elems(Tail(freelist)) = Elems(freelist) \ {Head(freelist)}
          /\ Head(freelist) \in Elems(freelist)
      BY <1>2, <2>1, TailElems DEF PoolPartition
    <3>3. Head(freelist) \notin Elems(solist) /\ Head(freelist) \in Slots
      BY <1>2, <2>1, <3>2, HeadTailProperties DEF PoolPartition
    <3>4. /\ Injective(solist') /\ Elems(solist') = Elems(solist) \cup {Head(freelist)}
          /\ solist' # << >> /\ solist'[1] = solist[1]
      BY <1>2, <3>1, <3>3, AppendElems DEF PoolPartition
    <3>5. Injective(freelist') /\ Elems(freelist') = Elems(freelist) \ {Head(freelist)}
      BY <3>1, <3>2
    <3>6. QED
      BY <3>1, <3>2, <3>3, <3>4, <3>5 DEF PoolPartition
  <2>2. CASE freelist = << >>
    <3>1. /\ freelist' = freelist /\ socount' = socount + 1
          /\ solist' = Append(solist, socount + 1) /\ AllocSlot = socount + 1
      BY <1>4, <2>2 DEF LoadOk, alloc_info, AllocSlot
    <3>2. socount + 1 \in Slots
      BY <1>2, <1>4, <3>1, AllocType DEF LoadOk
    <3>3. Elems(freelist) = {} /\ Injective(freelist)
      BY <2>2 DEF Elems, Injective
    <3>4. Elems(solist) = 0..socount
      BY <3>3 DEF PoolPartition
    <3>5. 0..(socount + 1) = (0..socount) \cup {socount + 1} /\ socount + 1 \notin 0..socount
      BY <1>2
    <3>6. /\ Injective(solist') /\ Elems(solist') = Elems(solist) \cup {socount + 1}
          /\ solist' # << >> /\ solist'[1] = solist[1]
      BY <1>2, <3>1, <3>2, <3>4, <3>5, AppendElems DEF PoolPartition
    <3>7. Elems(freelist') = {} /\ Injective(freelist')
      BY <3>1, <3>3
    <3>8. QED
      BY <3>1, <3>4, <3>5, <3>6, <3>7 DEF PoolPartition
  <2>3. QED
    BY <2>1, <2>2
<1>5. CASE UnloadFinish
  <2>1. Top.si \in Pool
    <3>1. Running("unload") /\ Top.i = Len(so[Top.si].needed) + 1
      BY <1>5 DEF UnloadFinish
    <3>2. Top.si \in Slots /\ (Top.i > 0 => Top.si \in Pool)
      BY <3>1, TopFrame
    <3>3. Len(so[Top.si].needed) \in Nat
      BY <3>2 DEF TypeInv, TypeOK, Soinfo
    <3>4. QED
      BY <3>1, <3>2, <3>3
  <2>2. CASE Top.si \notin Elems(solist)
    BY <1>1, <1>5, <2>2 DEF UnloadFinish, free_info
  <2>3. CASE Top.si \in Elems(solist)
    <3>1. /\ solist' = Unlink(solist, Top.si) /\ freelist' = <<Top.si>> \o freelist
          /\ socount' = socount
      BY <1>5, <2>3 DEF UnloadFinish, free_info
    <3>2. Top.si # solist[1]
      BY <2>1, SlotFacts DEF PoolPartition
    <3>3. /\ Injective(solist') /\ Elems(solist') = Elems(solist) \ {Top.si}
          /\ solist' # << >> /\ solist'[1] = solist[1]
      BY <1>2, <2>3, <3>1, <3>2, UnlinkElems DEF PoolPartition
    <3>4. Top.si \notin Elems(freelist)
      BY <2>3 DEF PoolPartition
    <3>5. Injective(freelist') /\ Elems(freelist') = Elems(freelist) \cup {Top.si}
      BY <1>2, <2>1, <3>1, <3>4, ConsElems DEF PoolPartition
    <3>6. QED
      BY <2>3, <3>1, <3>3, <3>5 DEF PoolPartition
  <2>4. QED
    BY <2>2, <2>3
<1>6. CASE UNCHANGED vars
  BY <1>1, <1>6 DEF vars, lib
<1>7. CASE \E t \in Threads : Call(t) \/ Acquire(t)
  BY <1>1, <1>7 DEF Call, CallDlopen, CallDlclose, CallDlcloseForeign, Acquire, lib
<1>8. CASE Find \/ LoadFail \/ Ctor \/ Dlopen \/ DlcloseReturn
  BY <1>1, <1>8 DEF Find, FindLoaded, FindElsewhere, LoadFail, Ctor, CtorAgain, CtorEnter,
     CtorNeeded, CtorRun, CtorReenter, Dlopen, DlopenFound, DlopenReturn, DlopenOther,
     DlcloseReturn, lib
<1>9. CASE Link
  BY <1>1, <1>9 DEF Link, LinkFailEarly, LinkFailReloc, LinkFailRelro, LinkFails,
     LinkUnsupported, LinkNeeded, BindNeeded, LinkFinish, lib
<1>10. CASE UnloadShared \/ UnloadEnter \/ UnloadLibdl \/ UnloadNeeded
  BY <1>1, <1>10 DEF UnloadShared, UnloadEnter, UnloadLibdl, UnloadNeeded, lib
<1>11. QED
  BY <1>3, <1>4, <1>5, <1>6, <1>7, <1>8, <1>9, <1>10 DEF Next, OwnerStep, Load, Unload

\* Every soinfo apkenv_alloc_info has taken from the pool is in exactly one of
\* apkenv_solist and apkenv_freelist, and there once, with libdl's soinfo at
\* the head of apkenv_solist: for any pool size, any libraries and any
\* interleaving of loads, failed loads and unloads nothing is lost or listed
\* twice.
THEOREM PoolPartitioned == Spec => []PoolPartition
<1>1. Init => PoolPartition
  <2> SUFFICES ASSUME Init PROVE PoolPartition
    OBVIOUS
  <2>1. solist = <<Libdl>> /\ freelist = << >> /\ socount = 0
    BY DEF Init
  <2>2. Elems(solist) = {0} /\ Elems(freelist) = {} /\ Injective(solist) /\ Injective(freelist)
    BY <2>1 DEF Elems, Injective, Libdl
  <2>3. 0..socount = {0}
    BY <2>1
  <2>4. QED
    BY <2>1, <2>2, <2>3 DEF PoolPartition
<1>2. QED
  BY <1>1, PoolStep, TypeAlways, PTL DEF Spec
=============================================================================
