--------------------------- MODULE DebugMapProofs ---------------------------
(***************************************************************************)
(* Proofs about DebugMap, for all sets of link maps.                       *)
(***************************************************************************)
EXTENDS DebugMap, WellFoundedInduction, TLAPS

-----------------------------------------------------------------------------
(* The walk over the list.                                                 *)

(* Induction: a set with 0 and every successor has all natural numbers.    *)
LEMMA SetInduction ==
    ASSUME NEW S, 0 \in S, \A n \in Nat : n \in S => n + 1 \in S
    PROVE  Nat \subseteq S
<1> DEFINE T == Nat \ S
<1>1. SUFFICES ASSUME T # {} PROVE FALSE
  OBVIOUS
<1>2. PICK x \in T : \A y \in T : ~(<<y, x>> \in OpToRel(<, Nat))
  <2>1. T \subseteq Nat
    OBVIOUS
  <2> HIDE DEF T
  <2> QED
    BY <1>1, <2>1, NatLessThanWellFounded, WFMin
<1>3. x \in Nat /\ x \notin S /\ x # 0
  OBVIOUS
<1>4. x - 1 \in Nat /\ x - 1 < x /\ (x - 1) + 1 = x
  BY <1>3
<1>5. x - 1 \notin T
  BY <1>2, <1>3, <1>4 DEF OpToRel
<1> QED
  BY <1>3, <1>4, <1>5

(* The same for a set of numbers up to N.                                  *)
LEMMA BoundedInduction ==
    ASSUME NEW N \in Nat, NEW S, 0 \in S, \A n \in 0..N : n \in S /\ n < N => n + 1 \in S
    PROVE  0..N \subseteq S
<1> DEFINE T == {n \in Nat : n <= N => n \in S}
<1>1. 0 \in T
  OBVIOUS
<1>2. ASSUME NEW n \in Nat, n \in T PROVE n + 1 \in T
  BY <1>2
<1>3. Nat \subseteq T
  <2> HIDE DEF T
  <2> QED
    BY <1>1, <1>2, SetInduction
<1> QED
  BY <1>3

NonEmpty == Seq(Maps) \ {<< >>}

(* One step of the walk, from what was walked so far.                      *)
Longer(w) == IF l_next[Final(w)] = NULL THEN w ELSE Append(w, l_next[Final(w)])

LEMMA LongerType ==
    ASSUME l_next \in [Maps -> Maps \cup {NULL}], NEW w \in NonEmpty
    PROVE  Longer(w) \in NonEmpty
<1>1. Len(w) \in Nat \ {0} /\ w \in Seq(Maps)
  BY DEF NonEmpty
<1>2. Final(w) \in Maps
  BY <1>1 DEF Final
<1>3. CASE l_next[Final(w)] # NULL
  <2>1. PICK m \in Maps : m = l_next[Final(w)]
    BY <1>2, <1>3
  <2>2. Append(w, m) \in Seq(Maps) /\ Len(Append(w, m)) = Len(w) + 1
    BY <1>1
  <2>3. Append(w, m) # << >>
    BY <1>1, <2>2
  <2> QED
    BY <1>3, <2>1, <2>2, <2>3 DEF Longer, NonEmpty
<1> QED
  BY <1>3 DEF Longer

(* Wherever the links lead, the walk is defined and finds link maps.       *)
LEMMA WalkFacts ==
    ASSUME l_next \in [Maps -> Maps \cup {NULL}], Steps \in Nat
    PROVE  /\ Walk[0] = <<r_map>>
           /\ \A n \in 1..Steps : Walk[n] = Longer(Walk[n - 1])
           /\ \A n \in 0..Steps : Walk[n] \in NonEmpty
<1> DEFINE Is(g, n) == g = [k \in 0..n |-> IF k = 0 THEN <<r_map>> ELSE Longer(g[k - 1])]
           S == {n \in Nat : \E g : Is(g, n)}
<1>1. 0 \in S
  <2>1. Is([k \in 0..0 |-> <<r_map>>], 0)
    OBVIOUS
  <2> QED
    BY <2>1
<1>2. ASSUME NEW n \in Nat, n \in S PROVE n + 1 \in S
  <2>1. PICK g : Is(g, n)
    BY <1>2
  <2> DEFINE h == [k \in 0..(n + 1) |-> IF k = n + 1 THEN Longer(g[n]) ELSE g[k]]
  <2>2. \A k \in 0..n : g[k] = IF k = 0 THEN <<r_map>> ELSE Longer(g[k - 1])
    BY <2>1
  <2>3. ASSUME NEW k \in 0..(n + 1)
        PROVE  h[k] = IF k = 0 THEN <<r_map>> ELSE Longer(h[k - 1])
    <3>1. CASE k = n + 1
      <4>1. h[k] = Longer(g[n]) /\ h[k - 1] = g[n] /\ k # 0
        BY <3>1
      <4> QED
        BY <4>1
    <3>2. CASE k # n + 1
      <4>1. k \in 0..n /\ (k # 0 => k - 1 \in 0..n)
        BY <3>2
      <4>2. h[k] = g[k] /\ (k # 0 => h[k - 1] = g[k - 1])
        BY <3>2, <4>1
      <4> HIDE DEF h
      <4> QED
        BY <2>2, <4>1, <4>2
    <3> QED
      BY <3>1, <3>2
  <2>4. h = [k \in 0..(n + 1) |-> h[k]]
    OBVIOUS
  <2>5. Is(h, n + 1)
    <3> HIDE DEF h
    <3> QED
      BY <2>3, <2>4
  <2> HIDE DEF Is, h
  <2> QED
    BY <2>5
<1>3. \E g : Is(g, Steps)
  <2>1. Nat \subseteq S
    <3> HIDE DEF S
    <3> QED
      BY <1>1, <1>2, SetInduction
  <2> QED
    BY <2>1
<1>4. Walk = CHOOSE g : Is(g, Steps)
  BY DEF Walk, Longer
<1>5. Is(Walk, Steps)
  <2> HIDE DEF Is
  <2> QED
    BY <1>3, <1>4
<1>6. Walk[0] = <<r_map>> /\ \A n \in 1..Steps : Walk[n] = Longer(Walk[n - 1])
  <2>1. \A k \in 0..Steps : Walk[k] = IF k = 0 THEN <<r_map>> ELSE Longer(Walk[k - 1])
    BY <1>5
  <2> QED
    BY <2>1
<1>7. 0..Steps \subseteq {n \in 0..Steps : Walk[n] \in NonEmpty}
  <2> DEFINE W == {n \in 0..Steps : Walk[n] \in NonEmpty}
  <2>1. 0 \in W
    <3>1. r_map \in Maps /\ 0 \in 0..Steps
      BY DebugMapAssumption DEF Maps
    <3>2. <<r_map>> \in NonEmpty
      BY <3>1 DEF NonEmpty
    <3> QED
      BY <1>6, <3>1, <3>2
  <2>2. ASSUME NEW n \in 0..Steps, n \in W, n < Steps PROVE n + 1 \in W
    <3>1. Walk[n + 1] = Longer(Walk[n]) /\ n + 1 \in 0..Steps
      BY <1>6, <2>2
    <3> QED
      BY <2>2, <3>1, LongerType
  <2> HIDE DEF W
  <2>3. 0..Steps \subseteq W
    BY <2>1, <2>2, BoundedInduction
  <2> QED
    BY <2>3 DEF W
<1> QED
  BY <1>6, <1>7

(* A list that the links spell out, from r_map to a map without a          *)
(* successor, is what the walk finds.                                      *)
LEMMA ChainIs ==
    ASSUME l_next \in [Maps -> Maps \cup {NULL}], Steps \in Nat,
           NEW l \in Seq(Maps), l # << >>, l[1] = r_map, Len(l) <= Steps,
           \A k \in 1..(Len(l) - 1) : l_next[l[k]] = l[k + 1],
           l_next[Final(l)] = NULL
    PROVE  Chain = l
<1>1. Len(l) \in Nat \ {0} /\ \A k \in 1..Len(l) : l[k] \in Maps
  OBVIOUS
<1> DEFINE Upto(n) == IF n < Len(l) THEN n + 1 ELSE Len(l)
           W == {n \in 0..Steps : Walk[n] = [k \in 1..Upto(n) |-> l[k]]}
<1>2. 0 \in W
  <2>1. Upto(0) = 1
    BY <1>1
  <2>2. <<r_map>> = [k \in 1..1 |-> l[k]]
    OBVIOUS
  <2>3. Walk[0] = <<r_map>>
    BY WalkFacts
  <2> HIDE DEF Upto
  <2> QED
    BY <2>1, <2>2, <2>3
<1>3. ASSUME NEW n \in 0..Steps, n \in W, n < Steps PROVE n + 1 \in W
  <2>1. Walk[n + 1] = Longer(Walk[n]) /\ n + 1 \in 0..Steps
    <3>1. n + 1 \in 1..Steps /\ (n + 1) - 1 = n
      BY <1>3
    <3>2. Walk[n + 1] = Longer(Walk[(n + 1) - 1])
      BY <3>1, WalkFacts
    <3> QED
      BY <3>1, <3>2
  <2>2. Walk[n] = [k \in 1..Upto(n) |-> l[k]]
    BY <1>3
  <2>3. Upto(n) \in 1..Len(l)
    BY <1>1, <1>3
  <2>4. PICK u \in 1..Len(l) : u = Upto(n)
    BY <2>3
  <2>5. PICK w : w = [k \in 1..u |-> l[k]]
    OBVIOUS
  <2>6. w \in Seq(Maps) /\ Len(w) = u /\ Final(w) = l[u]
    BY <1>1, <2>4, <2>5 DEF Final
  <2>7. CASE n < Len(l) - 1
    <3>1. u = n + 1 /\ Upto(n + 1) = u + 1 /\ u \in 1..(Len(l) - 1) /\ u + 1 \in 1..Len(l)
      BY <1>1, <1>3, <2>4, <2>7
    <3>2. l_next[l[u]] = l[u + 1] /\ l[u + 1] \in Maps /\ l[u + 1] # NULL
      BY <1>1, <3>1, DebugMapAssumption DEF Maps
    <3>3. Longer(w) = Append(w, l[u + 1])
      BY <2>6, <3>2 DEF Longer
    <3>4. Append(w, l[u + 1]) = [k \in 1..(u + 1) |-> l[k]]
      <4>1. Append(w, l[u + 1]) = [k \in 1..(u + 1) |-> IF k <= u THEN w[k] ELSE l[u + 1]]
        BY <2>6
      <4>2. \A k \in 1..(u + 1) : (IF k <= u THEN w[k] ELSE l[u + 1]) = l[k]
        BY <2>4, <2>5
      <4> QED
        BY <4>1, <4>2
    <3> HIDE DEF Upto
    <3> QED
      BY <2>1, <2>2, <2>4, <2>5, <3>1, <3>3, <3>4
  <2>8. CASE ~(n < Len(l) - 1)
    <3>1. u = Len(l) /\ Upto(n + 1) = u
      BY <1>1, <1>3, <2>4, <2>8
    <3>2. Longer(w) = w
      BY <2>6, <3>1 DEF Longer, Final
    <3> HIDE DEF Upto
    <3> QED
      BY <2>1, <2>2, <2>4, <2>5, <3>1, <3>2
  <2> QED
    BY <2>7, <2>8
<1>4. 0..Steps \subseteq W
  <2> HIDE DEF W
  <2> QED
    BY <1>2, <1>3, BoundedInduction
<1>5. Steps \in W /\ Upto(Steps) = Len(l)
  BY <1>1, <1>4
<1>6. [k \in 1..Len(l) |-> l[k]] = l
  OBVIOUS
<1> HIDE DEF Upto
<1> QED
  BY <1>5, <1>6 DEF Chain

-----------------------------------------------------------------------------
(* Types: whatever is unloaded.                                            *)

Links == [Maps -> Maps \cup {NULL}]
Injective(l) == \A j, k \in DOMAIN l : l[j] = l[k] => j = k

LEMMA WithoutIs ==
    ASSUME NEW S, NEW l \in Seq(S), NEW x \in Elems(l)
    PROVE  \E p \in 1..Len(l) :
             /\ l[p] = x /\ Without(l, x) \in Seq(S) /\ Len(Without(l, x)) = Len(l) - 1
             /\ \A k \in 1..(Len(l) - 1) : Without(l, x)[k] = IF k < p THEN l[k] ELSE l[k + 1]
<1>1. PICK p : p = Position(l, x)
  OBVIOUS
<1>2. p \in DOMAIN l /\ l[p] = x
  <2>1. \E k \in DOMAIN l : l[k] = x
    BY DEF Elems
  <2> QED
    BY <1>1, <2>1 DEF Position
<1>3. Len(l) \in Nat /\ DOMAIN l = 1..Len(l) /\ p \in 1..Len(l) /\ Len(l) - 1 \in Nat
  BY <1>2
<1>4. PICK m : m = [k \in 1..(Len(l) - 1) |-> IF k < p THEN l[k] ELSE l[k + 1]]
  OBVIOUS
<1>5. Without(l, x) = m
  BY <1>1, <1>4 DEF Without
<1>6. \A k \in 1..(Len(l) - 1) : k \in 1..Len(l) /\ k + 1 \in 1..Len(l)
  BY <1>3
<1>7. \A k \in 1..(Len(l) - 1) : (IF k < p THEN l[k] ELSE l[k + 1]) \in S
  BY <1>6
<1>8. m \in [1..(Len(l) - 1) -> S]
  BY <1>4, <1>7
<1>9. m \in Seq(S) /\ Len(m) = Len(l) - 1
  <2>1. PICK n \in Nat : n = Len(l) - 1
    BY <1>3
  <2>2. m \in [1..n -> S]
    BY <1>8, <2>1
  <2>3. m \in Seq(S) /\ Len(m) = n
    BY <2>2
  <2> QED
    BY <2>1, <2>3
<1> QED
  BY <1>2, <1>3, <1>4, <1>5, <1>9

LEMMA ChainType ==
    ASSUME TypeOK
    PROVE  Steps \in Nat /\ Chain \in NonEmpty /\ Final(Chain) \in Maps
<1>1. Steps \in Nat
  BY DEF TypeOK, Steps
<1>2. Chain \in NonEmpty
  BY <1>1, WalkFacts DEF Chain, TypeOK
<1> QED
  BY <1>1, <1>2 DEF NonEmpty, Final

LEMMA InitType ==
    Init => TypeOK
<1>1. r_map \in Glibc
  BY DebugMapAssumption
<1>2. <<r_map>> \in Seq(Glibc) /\ << >> \in Seq(Android)
  BY <1>1
<1> QED
  BY <1>2 DEF Init, TypeOK

LEMMA NextType ==
    TypeOK /\ [Next]_vars => TypeOK'
<1> SUFFICES ASSUME TypeOK, [Next]_vars PROVE TypeOK'
  OBVIOUS
<1>0. /\ l_next \in Links /\ l_prev \in Links /\ NULL \notin Maps /\ Android \subseteq Maps /\ Glibc \subseteq Maps
      /\ loaded \in Seq(Android) /\ glibc \in Seq(Glibc) /\ Final(Chain) \in Maps
      /\ head \in Android \cup {NULL} /\ tail \in Maps \cup {NULL} /\ tmap \in Maps \cup {NULL}
  BY ChainType, DebugMapAssumption DEF TypeOK, Links, Maps
<1>1. CASE UNCHANGED vars
  BY <1>1 DEF TypeOK, vars, links
<1>2. ASSUME NEW a \in Android, Insert(a) PROVE TypeOK'
  <2>1. l_next' \in Links /\ l_prev' \in Links /\ head' \in Android \cup {NULL} /\ tail' \in Maps
    BY <1>0, <1>2 DEF Insert, Links
  <2>2. loaded' \in Seq(Android)
    BY <1>0, <1>2 DEF Insert
  <2> QED
    BY <1>2, <2>1, <2>2 DEF Insert, TypeOK, Links
<1>3. ASSUME NEW a \in Android, OpenSilently(a) PROVE TypeOK'
  BY <1>0, <1>3 DEF OpenSilently, TypeOK, Links
<1>4. ASSUME NEW a \in Android, Remove(a) PROVE TypeOK'
  <2>1. l_next' \in Links /\ l_prev' \in Links /\ tail' \in Maps \cup {NULL}
    BY <1>0, <1>4 DEF Remove, Links
  <2>2. loaded' \in Seq(Android)
    <3>1. CASE a \in Elems(loaded)
      BY <1>0, <1>4, <3>1, WithoutIs DEF Remove
    <3>2. CASE a \notin Elems(loaded)
      BY <1>0, <1>4, <3>2 DEF Remove, Without
    <3> QED
      BY <3>1, <3>2
  <2> QED
    BY <1>4, <2>1, <2>2 DEF Remove, TypeOK, Links
<1>5. CASE Splice
  BY <1>0, <1>5 DEF Splice, TypeOK, Links
<1>6. CASE Restore
  BY <1>0, <1>6 DEF Restore, TypeOK, Links
<1>7. ASSUME NEW g \in Glibc, GlibcOpen(g) PROVE TypeOK'
  <2>1. l_next' \in Links /\ l_prev' \in Links
    BY <1>0, <1>7 DEF GlibcOpen, Links
  <2>2. glibc' \in Seq(Glibc)
    BY <1>0, <1>7 DEF GlibcOpen
  <2> QED
    BY <1>7, <2>1, <2>2 DEF GlibcOpen, TypeOK, Links
<1>8. ASSUME NEW g \in Glibc, GlibcClose(g) PROVE TypeOK'
  <2>1. l_next' \in Links /\ l_prev' \in Links
    BY <1>0, <1>8 DEF GlibcClose, Links
  <2>2. glibc' \in Seq(Glibc)
    BY <1>0, <1>8, WithoutIs DEF GlibcClose
  <2> QED
    BY <1>8, <2>1, <2>2 DEF GlibcClose, TypeOK, Links
<1> QED
  BY <1>1, <1>2, <1>3, <1>4, <1>5, <1>6, <1>7, <1>8 DEF Next

(* Whatever is loaded and unloaded, also when the first library goes and   *)
(* the lists are damaged, every link points to a link map or to nothing,   *)
(* and apkenv_r_debug_head is always one of the shim linker's own.         *)
THEOREM TypeCorrect == Spec => []TypeOK
  BY InitType, NextType, PTL DEF Spec

-----------------------------------------------------------------------------
(* The lists, while the first library stays loaded.                        *)

(* The links nx and pv spell out the list l, and it ends there.            *)
Spelled(nx, pv, l) == \A k \in 1..(Len(l) - 1) : nx[l[k]] = l[k + 1] /\ pv[l[k + 1]] = l[k]

(* Removing an element that is not the first, as the linker and glibc both *)
(* do it.                                                                  *)
Unlinks(nx, pv, l, x, nx2, pv2, m) ==
    /\ nx \in Links /\ pv \in Links /\ l \in Seq(Maps) /\ Injective(l) /\ Spelled(nx, pv, l)
    /\ x \in Elems(l) /\ x # l[1] /\ nx[Final(l)] = NULL
    /\ nx2 = [nx EXCEPT ![pv[x]] = nx[x]]
    /\ pv2 = (IF nx[x] = NULL THEN pv ELSE [pv EXCEPT ![nx[x]] = pv[x]])
    /\ m = Without(l, x)

Unlinked(nx, pv, l, x, nx2, pv2, m) ==
    /\ m # << >> /\ m[1] = l[1] /\ Injective(m) /\ Elems(m) \subseteq Elems(l) /\ x \notin Elems(m)
    /\ Spelled(nx2, pv2, m) /\ nx2[Final(m)] = NULL
    /\ Final(m) = (IF x = Final(l) THEN pv[x] ELSE Final(l))
    /\ \A y \in Maps \ Elems(l) : nx2[y] = nx[y] /\ pv2[y] = pv[y]

(* The back link of an element after the first.                            *)
LEMMA BackLink ==
    ASSUME NEW nx, NEW pv, NEW l \in Seq(Maps), Spelled(nx, pv, l), NEW x \in Elems(l), x # l[1]
    PROVE  pv[x] \in Elems(l) /\ pv[x] \in Maps
<1>1. PICK p \in 1..Len(l) : l[p] = x
  BY DEF Elems
<1>2. p - 1 \in 1..(Len(l) - 1) /\ p - 1 \in 1..Len(l) /\ (p - 1) + 1 = p
  BY <1>1
<1>3. pv[l[(p - 1) + 1]] = l[p - 1]
  BY <1>2 DEF Spelled
<1>4. l[p - 1] \in Elems(l) /\ l[p - 1] \in Maps
  BY <1>2 DEF Elems
<1> QED
  BY <1>1, <1>2, <1>3, <1>4

LEMMA UnlinkSpelled ==
    ASSUME NEW nx, NEW pv, NEW l, NEW x, NEW nx2, NEW pv2, NEW m, Unlinks(nx, pv, l, x, nx2, pv2, m)
    PROVE  Unlinked(nx, pv, l, x, nx2, pv2, m)
<1>0. /\ nx \in Links /\ pv \in Links /\ l \in Seq(Maps) /\ Injective(l) /\ Spelled(nx, pv, l)
      /\ x \in Elems(l) /\ x # l[1] /\ nx[Final(l)] = NULL
      /\ nx2 = [nx EXCEPT ![pv[x]] = nx[x]]
      /\ pv2 = (IF nx[x] = NULL THEN pv ELSE [pv EXCEPT ![nx[x]] = pv[x]])
  BY DEF Unlinks
<1>1. m = Without(l, x)
  BY DEF Unlinks
<1>2. PICK p \in 1..Len(l) :
             /\ l[p] = x /\ m \in Seq(Maps) /\ Len(m) = Len(l) - 1
             /\ \A k \in 1..(Len(l) - 1) : m[k] = IF k < p THEN l[k] ELSE l[k + 1]
  BY <1>0, <1>1, WithoutIs
<1>3. PICK n \in Nat : n = Len(l) /\ DOMAIN l = 1..n /\ DOMAIN m = 1..(n - 1) /\ Len(m) = n - 1
  <2>1. Len(l) \in Nat /\ DOMAIN l = 1..Len(l)
    BY <1>0
  <2>2. DOMAIN m = 1..Len(m) /\ Len(m) = Len(l) - 1
    BY <1>2
  <2> QED
    BY <2>1, <2>2
<1>4. p \in 2..n /\ p - 1 \in 1..(n - 1) /\ n >= 2
  BY <1>0, <1>2, <1>3
<1>5. \A k \in 1..n : l[k] \in Maps /\ l[k] \in Elems(l) /\ l[k] # NULL
  BY <1>0, <1>3, DebugMapAssumption DEF Elems, Maps
<1>6. \A j, k \in 1..n : l[j] = l[k] => j = k
  BY <1>0, <1>3 DEF Injective
<1>7. pv[x] = l[p - 1]
  <2>1. pv[l[(p - 1) + 1]] = l[p - 1] /\ (p - 1) + 1 = p
    BY <1>0, <1>3, <1>4 DEF Spelled
  <2> QED
    BY <1>0, <1>2, <2>1
<1>8. nx[x] = IF p = n THEN NULL ELSE l[p + 1]
  <2>1. CASE p = n
    BY <1>0, <1>2, <1>3, <2>1 DEF Final
  <2>2. CASE p # n
    BY <1>0, <1>2, <1>3, <1>4, <2>2 DEF Spelled
  <2> QED
    BY <1>0, <2>1, <2>2
<1>9. \A y \in Maps : nx2[y] = IF y = l[p - 1] THEN nx[x] ELSE nx[y]
  BY <1>0, <1>5, <1>7 DEF Links
<1>10. \A y \in Maps : pv2[y] = IF p # n /\ y = l[p + 1] THEN l[p - 1] ELSE pv[y]
  <2>1. CASE p = n
    BY <1>0, <1>8, <2>1
  <2>2. CASE p # n
    <3>1. p + 1 \in 1..n
      BY <1>0, <1>4, <2>2
    <3>2. nx[x] = l[p + 1] /\ nx[x] # NULL /\ nx[x] \in Maps
      BY <1>0, <1>5, <1>8, <2>2, <3>1
    <3> QED
      BY <1>0, <1>7, <2>2, <3>2 DEF Links
  <2> QED
    BY <1>0, <2>1, <2>2
<1>11. Spelled(nx2, pv2, m)
  <2>1. SUFFICES ASSUME NEW k \in 1..(n - 2) PROVE nx2[m[k]] = m[k + 1] /\ pv2[m[k + 1]] = m[k]
    BY <1>0, <1>3 DEF Spelled
  <2>2. k \in 1..(n - 1) /\ k + 1 \in 1..(n - 1) /\ k + 2 \in 1..n /\ k \in Nat /\ k \in 1..n /\ k + 1 \in 1..n
    BY <1>0, <1>3, <1>4, <2>1
  <2>3. m[k] = (IF k < p THEN l[k] ELSE l[k + 1]) /\ m[k + 1] = (IF k + 1 < p THEN l[k + 1] ELSE l[(k + 1) + 1])
    BY <1>0, <1>2, <1>3, <2>2
  <2>4. nx[l[k]] = l[k + 1] /\ pv[l[k + 1]] = l[k] /\ nx[l[k + 1]] = l[(k + 1) + 1] /\ pv[l[(k + 1) + 1]] = l[k + 1]
    BY <1>0, <1>3, <2>2 DEF Spelled
  <2>5. CASE k < p - 1
    <3>1. m[k] = l[k] /\ m[k + 1] = l[k + 1] /\ k # p - 1 /\ k + 1 # p + 1
      BY <1>0, <1>3, <2>2, <2>3, <2>5
    <3>2. l[k] # l[p - 1] /\ (p # n => l[k + 1] # l[p + 1])
      <4>1. p - 1 \in 1..n /\ (p # n => p + 1 \in 1..n)
        BY <1>0, <1>4
      <4> QED
        BY <1>0, <1>6, <2>2, <3>1, <4>1
    <3>3. l[k] \in Maps /\ l[k + 1] \in Maps
      BY <1>0, <1>5, <2>2
    <3>4. nx2[l[k]] = nx[l[k]]
      BY <1>0, <1>9, <3>2, <3>3
    <3>5. pv2[l[k + 1]] = pv[l[k + 1]]
      BY <1>0, <1>10, <3>2, <3>3
    <3> QED
      BY <1>0, <2>4, <3>1, <3>4, <3>5
  <2>6. CASE k = p - 1
    <3>1. m[k] = l[p - 1] /\ m[k + 1] = l[p + 1] /\ p # n /\ p + 1 \in 1..n /\ p - 1 \in 1..n
      BY <1>0, <1>3, <1>4, <2>2, <2>3, <2>6
    <3> QED
      BY <1>0, <1>5, <1>8, <1>9, <1>10, <3>1
  <2>7. CASE k > p - 1
    <3>1. m[k] = l[k + 1] /\ m[k + 1] = l[(k + 1) + 1] /\ k + 1 # p - 1 /\ (k + 1) + 1 # p + 1 /\ (k + 1) + 1 \in 1..n
      BY <1>0, <1>3, <1>4, <2>2, <2>3, <2>7
    <3>2. l[k + 1] # l[p - 1] /\ (p # n => l[(k + 1) + 1] # l[p + 1])
      <4>1. p - 1 \in 1..n /\ (p # n => p + 1 \in 1..n)
        BY <1>0, <1>4
      <4> QED
        BY <1>0, <1>6, <2>2, <3>1, <4>1
    <3>3. l[k + 1] \in Maps /\ l[(k + 1) + 1] \in Maps
      BY <1>0, <1>5, <2>2, <3>1
    <3>4. nx2[l[k + 1]] = nx[l[k + 1]]
      BY <1>0, <1>9, <3>2, <3>3
    <3>5. pv2[l[(k + 1) + 1]] = pv[l[(k + 1) + 1]]
      BY <1>0, <1>10, <3>2, <3>3
    <3> QED
      BY <1>0, <2>4, <3>1, <3>4, <3>5
  <2> QED
    BY <1>0, <1>4, <2>2, <2>5, <2>6, <2>7
<1>12. Injective(m)
  <2>1. SUFFICES ASSUME NEW j \in 1..(n - 1), NEW k \in 1..(n - 1), m[j] = m[k] PROVE j = k
    BY <1>0, <1>3 DEF Injective
  <2>2. j \in 1..n /\ j + 1 \in 1..n /\ k \in 1..n /\ k + 1 \in 1..n
    BY <1>0, <1>3, <2>1
  <2>3. m[j] = (IF j < p THEN l[j] ELSE l[j + 1]) /\ m[k] = (IF k < p THEN l[k] ELSE l[k + 1])
    BY <1>0, <1>2, <1>3, <2>1
  <2>4. (IF j < p THEN j ELSE j + 1) = (IF k < p THEN k ELSE k + 1)
    BY <1>0, <1>6, <2>1, <2>2, <2>3
  <2> QED
    BY <1>0, <1>4, <2>2, <2>4
<1>13. Elems(m) \subseteq Elems(l) /\ x \notin Elems(m)
  <2>1. SUFFICES ASSUME NEW k \in 1..(n - 1) PROVE m[k] \in Elems(l) /\ m[k] # x
    BY <1>0, <1>3 DEF Elems
  <2>2. k \in 1..n /\ k + 1 \in 1..n /\ m[k] = IF k < p THEN l[k] ELSE l[k + 1]
    BY <1>0, <1>2, <1>3, <2>1
  <2>3. CASE k < p
    BY <1>0, <1>2, <1>4, <1>5, <1>6, <2>2, <2>3
  <2>4. CASE ~(k < p)
    <3>1. k + 1 # p
      BY <1>0, <1>4, <2>2, <2>4
    <3> QED
      BY <1>0, <1>2, <1>3, <1>5, <1>6, <2>2, <2>4, <3>1
  <2> QED
    BY <1>0, <2>3, <2>4
<1>14. m # << >> /\ m[1] = l[1]
  BY <1>0, <1>2, <1>3, <1>4
<1>15. Final(m) = (IF x = Final(l) THEN pv[x] ELSE Final(l)) /\ nx2[Final(m)] = NULL /\ pv[x] \in Maps
  <2>1. Final(m) = m[n - 1] /\ Final(l) = l[n] /\ n - 1 \in 1..(n - 1) /\ n \in 1..n
    BY <1>0, <1>3, <1>4 DEF Final
  <2>2. m[n - 1] = IF n - 1 < p THEN l[n - 1] ELSE l[(n - 1) + 1]
    BY <1>0, <1>2, <1>3, <2>1
  <2>3. x = Final(l) <=> p = n
    BY <1>0, <1>2, <1>3, <1>6, <2>1
  <2>4. p - 1 \in 1..n
    BY <1>0, <1>4
  <2>5. CASE p = n
    <3>1. Final(m) = l[p - 1]
      BY <1>0, <1>4, <2>1, <2>2, <2>5
    <3> QED
      BY <1>0, <1>5, <1>7, <1>8, <1>9, <2>3, <2>4, <2>5, <3>1
  <2>6. CASE p # n
    <3>1. Final(m) = l[n] /\ n # p - 1
      BY <1>0, <1>3, <1>4, <2>1, <2>2, <2>6
    <3>2. l[n] # l[p - 1]
      BY <1>0, <1>6, <2>1, <2>4, <3>1
    <3> QED
      BY <1>0, <1>5, <1>7, <1>9, <2>1, <2>3, <2>4, <2>6, <3>1, <3>2
  <2> QED
    BY <1>0, <2>5, <2>6
<1>16. ASSUME NEW y \in Maps \ Elems(l) PROVE nx2[y] = nx[y] /\ pv2[y] = pv[y]
  <2>1. y # l[p - 1] /\ (p # n => y # l[p + 1])
    <3>1. p - 1 \in 1..n /\ (p # n => p + 1 \in 1..n)
      BY <1>0, <1>4
    <3> QED
      BY <1>0, <1>5, <3>1
  <2> QED
    BY <1>0, <1>9, <1>10, <2>1
<1> QED
  BY <1>11, <1>12, <1>13, <1>14, <1>15, <1>16 DEF Unlinked

(* Adding an element at the end.                                           *)
Appends(nx, pv, l, x, nx2, pv2, m) ==
    /\ nx \in Links /\ pv \in Links /\ l \in Seq(Maps) /\ l # << >> /\ Injective(l) /\ Spelled(nx, pv, l)
    /\ x \in Maps \ Elems(l)
    /\ nx2 = [nx EXCEPT ![Final(l)] = x, ![x] = NULL]
    /\ pv2 = [pv EXCEPT ![x] = Final(l)]
    /\ m = Append(l, x)

Appended(nx, pv, l, x, nx2, pv2, m) ==
    /\ m # << >> /\ m[1] = l[1] /\ Injective(m) /\ Elems(m) = Elems(l) \cup {x}
    /\ Spelled(nx2, pv2, m) /\ Final(m) = x /\ nx2[x] = NULL
    /\ \A y \in Maps \ (Elems(l) \cup {x}) : nx2[y] = nx[y] /\ pv2[y] = pv[y]

LEMMA AppendSpelled ==
    ASSUME NEW nx, NEW pv, NEW l, NEW x, NEW nx2, NEW pv2, NEW m, Appends(nx, pv, l, x, nx2, pv2, m)
    PROVE  Appended(nx, pv, l, x, nx2, pv2, m)
<1>0. /\ nx \in Links /\ pv \in Links /\ l \in Seq(Maps) /\ l # << >> /\ Injective(l) /\ Spelled(nx, pv, l)
      /\ x \in Maps \ Elems(l)
      /\ nx2 = [nx EXCEPT ![Final(l)] = x, ![x] = NULL]
      /\ pv2 = [pv EXCEPT ![x] = Final(l)]
  BY DEF Appends
<1>1. PICK n \in Nat \ {0} : n = Len(l) /\ DOMAIN l = 1..n
  BY <1>0
<1>2. m = Append(l, x)
  BY DEF Appends
<1>3. /\ m \in Seq(Maps) /\ Len(m) = n + 1 /\ DOMAIN m = 1..(n + 1) /\ m[n + 1] = x
      /\ \A k \in 1..n : m[k] = l[k]
  BY <1>0, <1>1, <1>2
<1>4. \A k \in 1..n : l[k] \in Maps /\ l[k] \in Elems(l) /\ l[k] # x
  BY <1>0, <1>1 DEF Elems
<1>5. \A j, k \in 1..n : l[j] = l[k] => j = k
  BY <1>0, <1>1 DEF Injective
<1>6. Final(l) = l[n] /\ n \in 1..n
  BY <1>0, <1>1 DEF Final
<1>7. \A y \in Maps : nx2[y] = IF y = x THEN NULL ELSE IF y = l[n] THEN x ELSE nx[y]
  BY <1>0, <1>4, <1>6 DEF Links
<1>8. \A y \in Maps : pv2[y] = IF y = x THEN l[n] ELSE pv[y]
  BY <1>0, <1>6 DEF Links
<1>9. Spelled(nx2, pv2, m)
  <2>0. Len(m) - 1 = n
    BY <1>0, <1>1, <1>3
  <2>1. SUFFICES ASSUME NEW k \in 1..n PROVE nx2[m[k]] = m[k + 1] /\ pv2[m[k + 1]] = m[k]
    BY <1>0, <2>0 DEF Spelled
  <2>2. CASE k = n
    BY <1>0, <1>3, <1>4, <1>6, <1>7, <1>8, <2>2
  <2>3. CASE k # n
    <3>1. k \in 1..(n - 1) /\ k + 1 \in 1..n
      BY <1>0, <1>1, <2>1, <2>3
    <3>2. nx[l[k]] = l[k + 1] /\ pv[l[k + 1]] = l[k]
      BY <1>0, <1>1, <3>1 DEF Spelled
    <3>3. m[k] = l[k] /\ m[k + 1] = l[k + 1] /\ l[k] # l[n]
      BY <1>0, <1>3, <1>5, <1>6, <2>1, <2>3, <3>1
    <3> QED
      BY <1>0, <1>4, <1>7, <1>8, <2>1, <3>1, <3>2, <3>3
  <2> QED
    BY <1>0, <2>2, <2>3
<1>10. Injective(m)
  <2>1. SUFFICES ASSUME NEW j \in 1..(n + 1), NEW k \in 1..(n + 1), m[j] = m[k] PROVE j = k
    BY <1>0, <1>3 DEF Injective
  <2>2. (j # n + 1 => j \in 1..n) /\ (k # n + 1 => k \in 1..n)
    BY <1>0, <1>1
  <2> QED
    BY <1>0, <1>3, <1>4, <1>5, <2>1, <2>2
<1>11. Elems(m) = Elems(l) \cup {x}
  <2>1. ASSUME NEW k \in 1..(n + 1) PROVE m[k] \in Elems(l) \cup {x}
    <3>1. k = n + 1 \/ k \in 1..n
      BY <1>0, <1>1
    <3> QED
      BY <1>0, <1>3, <1>4, <3>1
  <2>2. ASSUME NEW k \in 1..n PROVE l[k] \in Elems(m)
    <3>1. k \in DOMAIN m /\ m[k] = l[k]
      BY <1>0, <1>1, <1>3, <2>2
    <3> QED
      BY <1>0, <3>1 DEF Elems
  <2>3. n + 1 \in DOMAIN m
    BY <1>0, <1>1, <1>3
  <2>4. Elems(m) \subseteq Elems(l) \cup {x}
    BY <1>0, <1>3, <2>1 DEF Elems
  <2>5. Elems(l) \subseteq Elems(m)
    BY <1>0, <1>1, <2>2 DEF Elems
  <2>6. x \in Elems(m)
    BY <1>0, <1>3, <2>3 DEF Elems
  <2> QED
    BY <1>0, <2>4, <2>5, <2>6
<1>12. m # << >> /\ m[1] = l[1] /\ Final(m) = x /\ nx2[x] = NULL
  <2>1. m # << >>
    BY <1>0, <1>1, <1>3
  <2>2. m[1] = l[1]
    <3>1. 1 \in 1..n
      BY <1>0, <1>1
    <3> QED
      BY <1>0, <1>3, <3>1
  <2>3. Final(m) = x
    BY <1>0, <1>3 DEF Final
  <2>4. nx2[x] = NULL
    BY <1>0, <1>7
  <2> QED
    BY <1>0, <2>1, <2>2, <2>3, <2>4
<1>13. \A y \in Maps \ (Elems(l) \cup {x}) : nx2[y] = nx[y] /\ pv2[y] = pv[y]
  <2>1. l[n] \in Elems(l)
    BY <1>0, <1>4, <1>6
  <2> QED
    BY <1>0, <1>7, <1>8, <2>1
<1> QED
  BY <1>9, <1>10, <1>11, <1>12, <1>13 DEF Appended

(* Both lists, and where each ends: glibc's last link map has no successor *)
(* except while the linker's list hangs on it.                             *)
ListInv ==
    /\ glibc # << >> /\ glibc[1] = r_map /\ Injective(glibc) /\ Injective(loaded)
    /\ silent \cap Elems(loaded) = {}
    /\ head = (IF loaded = << >> THEN NULL ELSE loaded[1])
    /\ tail = (IF loaded = << >> THEN NULL ELSE Final(loaded))
    /\ Spelled(l_next, l_prev, glibc) /\ Spelled(l_next, l_prev, loaded)
    /\ loaded # << >> => l_next[Final(loaded)] = NULL
    /\ l_next[Final(glibc)] = (IF pc = "spliced" THEN head ELSE NULL)
    /\ \A a \in silent : l_next[a] = NULL /\ l_prev[a] = NULL
    /\ pc = "spliced" => loaded # << >> /\ tmap = Final(glibc)

(* The types of the two lists, once.                                       *)
LEMMA ListTypes ==
    ASSUME TypeOK
    PROVE  /\ l_next \in Links /\ l_prev \in Links /\ NULL \notin Maps
           /\ glibc \in Seq(Maps) /\ loaded \in Seq(Maps)
           /\ Elems(glibc) \subseteq Glibc /\ Elems(loaded) \subseteq Android
           /\ Glibc \subseteq Maps /\ Android \subseteq Maps /\ Glibc \cap Android = {}
           /\ Steps \in Nat /\ silent \subseteq Android
  BY ChainType, DebugMapAssumption DEF TypeOK, Links, Maps, Elems

(* The last element of a list.                                             *)
LEMMA FinalIn ==
    ASSUME NEW S, NEW l \in Seq(S), l # << >>
    PROVE  /\ Final(l) \in Elems(l) /\ l[1] \in Elems(l) /\ l[1] \in S /\ Final(l) \in S
           /\ Len(l) \in Nat \ {0}
  BY DEF Final, Elems

(* Outside a notification the walk finds glibc's list.                     *)
LEMMA ChainApart ==
    ASSUME TypeOK, ListInv, pc # "spliced"
    PROVE  Chain = glibc
<1>1. l_next \in [Maps -> Maps \cup {NULL}] /\ Steps \in Nat /\ glibc \in Seq(Maps)
  BY ListTypes DEF Links
<1>2. Len(glibc) <= Steps
  BY DEF Steps, TypeOK
<1> QED
  BY <1>1, <1>2, ChainIs DEF ListInv, Spelled

(* During one it finds both.                                               *)
LEMMA ChainJoined ==
    ASSUME TypeOK, ListInv, pc = "spliced"
    PROVE  Chain = glibc \o loaded
<1>1. l_next \in [Maps -> Maps \cup {NULL}] /\ Steps \in Nat /\ glibc \in Seq(Maps) /\ loaded \in Seq(Maps)
  BY ListTypes DEF Links
<1>2. PICK g \in Nat \ {0} : g = Len(glibc)
  BY <1>1 DEF ListInv
<1>3. PICK h \in Nat \ {0} : h = Len(loaded)
  BY <1>1 DEF ListInv
<1>4. PICK l : l = glibc \o loaded
  OBVIOUS
<1>5. /\ l \in Seq(Maps) /\ Len(l) = g + h
      /\ \A k \in 1..g : l[k] = glibc[k]
      /\ \A k \in (g + 1)..(g + h) : l[k] = loaded[k - g]
  BY <1>1, <1>2, <1>3, <1>4
<1>6. l # << >> /\ l[1] = r_map /\ Len(l) <= Steps
  <2>1. 1 \in 1..g /\ g + h # 0
    BY <1>2, <1>3
  <2>2. l[1] = glibc[1]
    BY <1>5, <2>1
  <2>3. Len(l) <= Steps
    BY <1>2, <1>3, <1>5 DEF Steps
  <2> QED
    BY <1>5, <2>1, <2>2, <2>3 DEF ListInv
<1>7. l_next[Final(l)] = NULL
  <2>1. g + h \in (g + 1)..(g + h) /\ (g + h) - g = h
    BY <1>2, <1>3
  <2>2. l[g + h] = loaded[h]
    BY <1>5, <2>1
  <2> QED
    BY <1>3, <1>5, <2>2 DEF Final, ListInv
<1>8. ASSUME NEW k \in 1..(Len(l) - 1) PROVE l_next[l[k]] = l[k + 1]
  <2>0. k \in 1..(g + h - 1) /\ k \in Nat
    BY <1>2, <1>3, <1>5, <1>8
  <2>1. CASE k < g
    <3>1. k \in 1..(Len(glibc) - 1) /\ k \in 1..g /\ k + 1 \in 1..g
      BY <1>2, <2>0, <2>1
    <3> QED
      BY <1>5, <3>1 DEF ListInv, Spelled
  <2>2. CASE k = g
    <3>1. k \in 1..g /\ k + 1 \in (g + 1)..(g + h) /\ (k + 1) - g = 1
      BY <1>2, <1>3, <2>0, <2>2
    <3>2. l[k] = Final(glibc) /\ l[k + 1] = loaded[1]
      BY <1>2, <1>5, <2>2, <3>1 DEF Final
    <3>3. l_next[Final(glibc)] = loaded[1]
      BY DEF ListInv
    <3> QED
      BY <3>2, <3>3
  <2>3. CASE k > g
    <3>1. /\ k \in (g + 1)..(g + h) /\ k + 1 \in (g + 1)..(g + h)
          /\ (k + 1) - g = (k - g) + 1 /\ k - g \in 1..(Len(loaded) - 1)
      BY <1>2, <1>3, <2>0, <2>3
    <3>2. l[k] = loaded[k - g] /\ l[k + 1] = loaded[(k - g) + 1]
      BY <1>5, <3>1
    <3>3. l_next[loaded[k - g]] = loaded[(k - g) + 1]
      BY <3>1 DEF ListInv, Spelled
    <3> QED
      BY <3>2, <3>3
  <2> QED
    BY <1>2, <2>0, <2>1, <2>2, <2>3
<1>9. Chain = l
  BY <1>1, <1>5, <1>6, <1>7, <1>8, ChainIs
<1> QED
  BY <1>4, <1>9

LEMMA InitLists ==
    Init => ListInv
<1> SUFFICES ASSUME Init PROVE ListInv
  OBVIOUS
<1>1. glibc = <<r_map>> /\ loaded = << >> /\ silent = {} /\ head = NULL /\ tail = NULL /\ pc = "idle"
  BY DEF Init
<1>2. glibc # << >> /\ glibc[1] = r_map /\ Len(glibc) = 1 /\ DOMAIN glibc = {1} /\ Len(loaded) = 0 /\ DOMAIN loaded = {}
  BY <1>1
<1>3. Injective(glibc) /\ Injective(loaded)
  BY <1>2 DEF Injective
<1>4. Spelled(l_next, l_prev, glibc) /\ Spelled(l_next, l_prev, loaded)
  BY <1>2 DEF Spelled
<1>5. l_next[Final(glibc)] = NULL
  <2>1. r_map \in Maps
    BY DebugMapAssumption DEF Maps
  <2> QED
    BY <1>2, <2>1 DEF Init, Final
<1> QED
  BY <1>1, <1>2, <1>3, <1>4, <1>5 DEF ListInv

LEMMA InsertLists ==
    ASSUME TypeOK, ListInv, NEW a \in Android, Insert(a)
    PROVE  ListInv'
<1>1. /\ Idle /\ a \notin Elems(loaded) \cup silent /\ pc # "spliced" /\ pc' = "edited"
      /\ loaded' = Append(loaded, a) /\ tail' = a
      /\ UNCHANGED <<tmap, fault, glibc, silent>>
  BY DEF Insert, Idle
<1>2. /\ l_next \in Links /\ l_prev \in Links /\ NULL \notin Maps
      /\ glibc \in Seq(Maps) /\ loaded \in Seq(Maps)
      /\ Elems(glibc) \subseteq Glibc /\ Elems(loaded) \subseteq Android
      /\ Glibc \subseteq Maps /\ Android \subseteq Maps /\ Glibc \cap Android = {} /\ silent \subseteq Android
  BY ListTypes
<1>3. a \in Maps
  BY <1>2
<1>4. /\ loaded' # << >> /\ loaded'[1] = head' /\ Injective(loaded') /\ Elems(loaded') = Elems(loaded) \cup {a}
      /\ Spelled(l_next', l_prev', loaded') /\ Final(loaded') = a /\ l_next'[a] = NULL
      /\ \A y \in Maps \ (Elems(loaded) \cup {a}) : l_next'[y] = l_next[y] /\ l_prev'[y] = l_prev[y]
  <2>1. CASE loaded = << >>
    <3>1. tail = NULL
      BY <2>1 DEF ListInv
    <3>2. /\ head' = a
          /\ l_next' = [l_next EXCEPT ![a] = NULL]
          /\ l_prev' = [l_prev EXCEPT ![a] = NULL]
      BY <3>1 DEF Insert
    <3>3. loaded' = <<a>>
      BY <1>1, <2>1
    <3>4. Elems(loaded) = {} /\ Elems(loaded') = {a} /\ Injective(loaded') /\ Final(loaded') = a /\ loaded'[1] = a /\ loaded' # << >>
      BY <2>1, <3>3 DEF Elems, Injective, Final
    <3>5. Spelled(l_next', l_prev', loaded')
      BY <3>3 DEF Spelled
    <3>6. \A y \in Maps : y # a => l_next'[y] = l_next[y] /\ l_prev'[y] = l_prev[y]
      BY <1>2, <3>2 DEF Links
    <3>7. l_next'[a] = NULL
      BY <1>2, <1>3, <3>2 DEF Links
    <3> QED
      BY <3>2, <3>4, <3>5, <3>6, <3>7
  <2>2. CASE loaded # << >>
    <3>1. tail = Final(loaded) /\ head = loaded[1] /\ Final(loaded) \in Maps
      BY <1>2, <2>2, FinalIn DEF ListInv
    <3>2. /\ head' = head
          /\ l_next' = [l_next EXCEPT ![Final(loaded)] = a, ![a] = NULL]
          /\ l_prev' = [l_prev EXCEPT ![a] = Final(loaded)]
      BY <1>2, <3>1 DEF Insert
    <3>3. Injective(loaded) /\ Spelled(l_next, l_prev, loaded)
      BY DEF ListInv
    <3>4. a \in Maps \ Elems(loaded)
      BY <1>1, <1>3
    <3>5. PICK nx2 : nx2 = l_next'
      OBVIOUS
    <3>6. PICK pv2 : pv2 = l_prev'
      OBVIOUS
    <3>7. PICK m : m = Append(loaded, a)
      OBVIOUS
    <3>8. Appended(l_next, l_prev, loaded, a, nx2, pv2, m)
      <4>1. nx2 = [l_next EXCEPT ![Final(loaded)] = a, ![a] = NULL] /\ pv2 = [l_prev EXCEPT ![a] = Final(loaded)]
        BY <3>2, <3>5, <3>6
      <4>2. Appends(l_next, l_prev, loaded, a, nx2, pv2, m)
        BY <1>2, <2>2, <3>3, <3>4, <3>7, <4>1 DEF Appends
      <4> QED
        BY <4>2, AppendSpelled
    <3> QED
      BY <1>1, <3>1, <3>2, <3>5, <3>6, <3>7, <3>8 DEF Appended
  <2> QED
    BY <2>1, <2>2
<1>5. \A y \in Glibc : l_next'[y] = l_next[y] /\ l_prev'[y] = l_prev[y]
  BY <1>2, <1>4
<1>6. Spelled(l_next', l_prev', glibc)
  <2>1. \A k \in 1..(Len(glibc) - 1) : glibc[k] \in Glibc /\ glibc[k + 1] \in Glibc
    BY DEF TypeOK
  <2>2. Spelled(l_next, l_prev, glibc)
    BY DEF ListInv
  <2> QED
    BY <1>5, <2>1, <2>2 DEF Spelled
<1>7. l_next'[Final(glibc)] = NULL
  <2>1. Final(glibc) \in Glibc
    BY FinalIn DEF TypeOK, ListInv
  <2> QED
    BY <1>1, <1>5, <2>1 DEF ListInv
<1>8. \A s \in silent : l_next'[s] = NULL /\ l_prev'[s] = NULL
  <2>1. \A s \in silent : s \in Maps \ (Elems(loaded) \cup {a})
    BY <1>1, <1>2 DEF ListInv
  <2> QED
    BY <1>4, <2>1 DEF ListInv
<1>9. silent \cap Elems(loaded') = {}
  BY <1>1, <1>4 DEF ListInv
<1>10. glibc # << >> /\ glibc[1] = r_map /\ Injective(glibc)
  BY DEF ListInv
<1> QED
  BY <1>1, <1>4, <1>6, <1>7, <1>8, <1>9, <1>10 DEF ListInv

LEMMA OpenSilentlyLists ==
    ASSUME TypeOK, ListInv, NEW a \in Android, OpenSilently(a)
    PROVE  ListInv'
<1>1. /\ Idle /\ a \notin Elems(loaded) \cup silent /\ pc # "spliced"
      /\ l_next' = [l_next EXCEPT ![a] = NULL] /\ l_prev' = [l_prev EXCEPT ![a] = NULL]
      /\ silent' = silent \cup {a}
      /\ UNCHANGED <<head, tail, pc, tmap, fault, glibc, loaded>>
  BY DEF OpenSilently, Idle
<1>2. /\ l_next \in Links /\ l_prev \in Links /\ NULL \notin Maps
      /\ glibc \in Seq(Maps) /\ loaded \in Seq(Maps)
      /\ Elems(glibc) \subseteq Glibc /\ Elems(loaded) \subseteq Android
      /\ Glibc \subseteq Maps /\ Android \subseteq Maps /\ Glibc \cap Android = {} /\ silent \subseteq Android
  BY ListTypes
<1>3. \A y \in Maps : l_next'[y] = (IF y = a THEN NULL ELSE l_next[y]) /\ l_prev'[y] = (IF y = a THEN NULL ELSE l_prev[y])
  BY <1>1, <1>2 DEF Links
<1>4. \A y \in Elems(glibc) \cup Elems(loaded) : y \in Maps /\ l_next'[y] = l_next[y] /\ l_prev'[y] = l_prev[y]
  BY <1>1, <1>2, <1>3
<1>5. Spelled(l_next', l_prev', glibc)
  <2>1. \A k \in 1..(Len(glibc) - 1) : glibc[k] \in Elems(glibc) /\ glibc[k + 1] \in Elems(glibc)
    BY <1>2 DEF Elems
  <2>2. Spelled(l_next, l_prev, glibc)
    BY DEF ListInv
  <2> QED
    BY <1>4, <2>1, <2>2 DEF Spelled
<1>6. Spelled(l_next', l_prev', loaded)
  <2>1. \A k \in 1..(Len(loaded) - 1) : loaded[k] \in Elems(loaded) /\ loaded[k + 1] \in Elems(loaded)
    BY <1>2 DEF Elems
  <2>2. Spelled(l_next, l_prev, loaded)
    BY DEF ListInv
  <2> QED
    BY <1>4, <2>1, <2>2 DEF Spelled
<1>7. l_next'[Final(glibc)] = NULL
  <2>1. Final(glibc) \in Elems(glibc)
    BY <1>2, FinalIn DEF ListInv
  <2> QED
    BY <1>1, <1>4, <2>1 DEF ListInv
<1>8. loaded # << >> => l_next'[Final(loaded)] = NULL
  <2>1. loaded # << >> => Final(loaded) \in Elems(loaded)
    BY <1>2, FinalIn
  <2> QED
    BY <1>4, <2>1 DEF ListInv
<1>9. \A s \in silent' : l_next'[s] = NULL /\ l_prev'[s] = NULL
  <2>1. \A s \in silent : s \in Maps /\ l_next[s] = NULL /\ l_prev[s] = NULL
    BY <1>2 DEF ListInv
  <2> QED
    BY <1>1, <1>2, <1>3, <2>1
<1>10. silent' \cap Elems(loaded) = {}
  BY <1>1 DEF ListInv
<1> QED
  BY <1>1, <1>5, <1>6, <1>7, <1>8, <1>9, <1>10 DEF ListInv

LEMMA RemoveLists ==
    ASSUME TypeOK, ListInv, ~MayUnloadFirst, NEW a \in Android, Remove(a)
    PROVE  ListInv'
<1>1. /\ Idle /\ a \in Elems(loaded) \cup silent /\ pc # "spliced" /\ a # head /\ pc' = "edited"
      /\ tail' = (IF tail = a THEN l_prev[a] ELSE tail)
      /\ loaded' = Without(loaded, a) /\ silent' = silent \ {a}
      /\ UNCHANGED <<head, tmap, fault, glibc>>
  BY DEF Remove, Idle
<1>2. /\ l_next \in Links /\ l_prev \in Links /\ NULL \notin Maps
      /\ glibc \in Seq(Maps) /\ loaded \in Seq(Maps)
      /\ Elems(glibc) \subseteq Glibc /\ Elems(loaded) \subseteq Android
      /\ Glibc \subseteq Maps /\ Android \subseteq Maps /\ Glibc \cap Android = {} /\ silent \subseteq Android
  BY ListTypes
<1>3. /\ glibc # << >> /\ glibc[1] = r_map /\ Injective(glibc) /\ Injective(loaded)
      /\ silent \cap Elems(loaded) = {}
      /\ Spelled(l_next, l_prev, glibc) /\ Spelled(l_next, l_prev, loaded)
      /\ l_next[Final(glibc)] = NULL
      /\ \A s \in silent : l_next[s] = NULL /\ l_prev[s] = NULL
  BY <1>1 DEF ListInv
<1>4. CASE a \in silent
  <2>1. a \notin Elems(loaded) /\ l_next[a] = NULL /\ l_prev[a] = NULL
    BY <1>3, <1>4
  <2>2. l_next' = l_next /\ l_prev' = l_prev
    BY <2>1 DEF Remove
  <2>3. loaded' = loaded
    BY <1>1, <2>1 DEF Without
  <2>4. tail # a
    <3>1. loaded # << >> => Final(loaded) \in Elems(loaded)
      BY <1>2, FinalIn
    <3> QED
      BY <1>2, <2>1, <3>1 DEF ListInv
  <2>5. head' = head /\ tail' = tail /\ glibc' = glibc /\ silent' \subseteq silent /\ pc # "spliced" /\ pc' # "spliced"
    BY <1>1, <2>4
  <2> QED
    BY <2>2, <2>3, <2>5 DEF ListInv
<1>5. CASE a \notin silent
  <2>1. a \in Elems(loaded)
    BY <1>1, <1>5
  <2>2. loaded # << >>
    BY <2>1 DEF Elems
  <2>3. head = loaded[1] /\ tail = Final(loaded) /\ l_next[Final(loaded)] = NULL
    BY <2>2 DEF ListInv
  <2>4. l_prev[a] # NULL /\ l_prev[a] \in Elems(loaded)
    <3>1. a # loaded[1]
      BY <1>1, <2>3
    <3>2. l_prev[a] \in Elems(loaded) /\ l_prev[a] \in Maps
      BY <1>2, <1>3, <2>1, <3>1, BackLink
    <3> QED
      BY <1>2, <3>2
  <2>5. PICK nx2 : nx2 = l_next'
    OBVIOUS
  <2>6. PICK pv2 : pv2 = l_prev'
    OBVIOUS
  <2>7. PICK m : m = Without(loaded, a)
    OBVIOUS
  <2>8. Unlinks(l_next, l_prev, loaded, a, nx2, pv2, m)
    <3>1. nx2 = [l_next EXCEPT ![l_prev[a]] = l_next[a]]
      BY <2>4, <2>5 DEF Remove
    <3>2. pv2 = (IF l_next[a] = NULL THEN l_prev ELSE [l_prev EXCEPT ![l_next[a]] = l_prev[a]])
      BY <2>6 DEF Remove
    <3> QED
      BY <1>1, <1>2, <1>3, <2>1, <2>3, <2>7, <3>1, <3>2 DEF Unlinks
  <2>9. Unlinked(l_next, l_prev, loaded, a, nx2, pv2, m)
    BY <2>8, UnlinkSpelled
  <2>10. /\ loaded' # << >> /\ loaded'[1] = head' /\ Injective(loaded') /\ Elems(loaded') \subseteq Elems(loaded)
         /\ Spelled(l_next', l_prev', loaded') /\ l_next'[Final(loaded')] = NULL
         /\ Final(loaded') = tail'
         /\ \A y \in Maps \ Elems(loaded) : l_next'[y] = l_next[y] /\ l_prev'[y] = l_prev[y]
    <3>1. loaded' = m /\ l_next' = nx2 /\ l_prev' = pv2
      BY <1>1, <2>5, <2>6, <2>7
    <3>2. tail' = (IF a = Final(loaded) THEN l_prev[a] ELSE Final(loaded))
      BY <1>1, <2>3
    <3> QED
      BY <1>1, <2>3, <2>9, <3>1, <3>2 DEF Unlinked
  <2>11. \A y \in Glibc : l_next'[y] = l_next[y] /\ l_prev'[y] = l_prev[y]
    BY <1>2, <2>10
  <2>12. Spelled(l_next', l_prev', glibc)
    <3>1. \A k \in 1..(Len(glibc) - 1) : glibc[k] \in Glibc /\ glibc[k + 1] \in Glibc
      BY DEF TypeOK
    <3> QED
      BY <1>3, <2>11, <3>1 DEF Spelled
  <2>13. l_next'[Final(glibc)] = NULL
    <3>1. Final(glibc) \in Glibc
      BY FinalIn DEF TypeOK, ListInv
    <3> QED
      BY <1>3, <2>11, <3>1
  <2>14. \A s \in silent' : l_next'[s] = NULL /\ l_prev'[s] = NULL
    <3>1. \A s \in silent' : s \in silent /\ s \in Maps \ Elems(loaded)
      BY <1>1, <1>2, <1>3
    <3> QED
      BY <1>3, <2>10, <3>1
  <2>15. silent' \cap Elems(loaded') = {}
    BY <1>1, <1>3, <2>10
  <2> QED
    BY <1>1, <1>3, <2>10, <2>12, <2>13, <2>14, <2>15 DEF ListInv
<1> QED
  BY <1>4, <1>5

LEMMA SpliceLists ==
    ASSUME TypeOK, ListInv, Splice
    PROVE  ListInv'
<1>1. pc = "edited" /\ UNCHANGED <<head, tail, glibc, loaded, silent>>
  BY DEF Splice
<1>2. /\ l_next \in Links /\ l_prev \in Links /\ NULL \notin Maps
      /\ glibc \in Seq(Maps) /\ loaded \in Seq(Maps)
      /\ Elems(glibc) \subseteq Glibc /\ Elems(loaded) \subseteq Android
      /\ Glibc \subseteq Maps /\ Android \subseteq Maps /\ Glibc \cap Android = {} /\ silent \subseteq Android
  BY ListTypes
<1>3. PICK g : g = Final(glibc) /\ g \in Elems(glibc) /\ g \in Maps
  BY <1>2, FinalIn DEF ListInv
<1>4. Final(Chain) = g
  BY <1>1, <1>3, ChainApart
<1>5. tmap' = g /\ l_next' = [l_next EXCEPT ![g] = head]
  BY <1>4 DEF Splice
<1>6. l_next[g] = NULL
  BY <1>1, <1>3 DEF ListInv
<1>7. CASE loaded = << >>
  <2>1. head = NULL /\ pc' = pc /\ l_prev' = l_prev
    BY <1>7 DEF ListInv, Splice
  <2>2. \A y \in Maps : l_next'[y] = l_next[y]
    BY <1>2, <1>3, <1>5, <1>6, <2>1 DEF Links
  <2>3. Spelled(l_next', l_prev', glibc)
    <3>1. \A k \in 1..(Len(glibc) - 1) : glibc[k] \in Maps
      BY <1>2
    <3>2. Spelled(l_next, l_prev, glibc)
      BY DEF ListInv
    <3> QED
      BY <2>1, <2>2, <3>1, <3>2 DEF Spelled
  <2>4. Spelled(l_next', l_prev', loaded)
    <3>1. Len(loaded) = 0
      BY <1>7
    <3> QED
      BY <3>1 DEF Spelled
  <2>5. l_next'[Final(glibc)] = NULL
    BY <1>3, <1>6, <2>2
  <2>6. \A s \in silent : l_next'[s] = NULL /\ l_prev'[s] = NULL
    BY <1>2, <2>1, <2>2 DEF ListInv
  <2> QED
    BY <1>1, <1>7, <2>1, <2>3, <2>4, <2>5, <2>6 DEF ListInv
<1>8. CASE loaded # << >>
  <2>1. head = loaded[1] /\ head \in Elems(loaded) /\ Final(loaded) \in Elems(loaded)
    BY <1>2, <1>8, FinalIn DEF ListInv
  <2>2. head # NULL /\ head \in Android /\ g \notin Android /\ g # head
    BY <1>2, <1>3, <2>1
  <2>3. pc' = "spliced" /\ l_prev' = [l_prev EXCEPT ![head] = g]
    BY <1>4, <2>2 DEF Splice
  <2>4. \A y \in Maps : l_next'[y] = (IF y = g THEN head ELSE l_next[y]) /\ l_prev'[y] = (IF y = head THEN g ELSE l_prev[y])
    BY <1>2, <1>5, <2>3 DEF Links
  <2>5. Spelled(l_next', l_prev', glibc)
    <3>1. SUFFICES ASSUME NEW k \in 1..(Len(glibc) - 1)
                   PROVE  l_next'[glibc[k]] = glibc[k + 1] /\ l_prev'[glibc[k + 1]] = glibc[k]
      BY DEF Spelled
    <3>2. l_next[glibc[k]] = glibc[k + 1] /\ l_prev[glibc[k + 1]] = glibc[k]
      BY DEF ListInv, Spelled
    <3>3. glibc[k] \in Glibc /\ glibc[k + 1] \in Glibc
      BY DEF TypeOK
    <3>4. glibc[k] # g
      BY <1>2, <1>6, <3>2, <3>3
    <3> QED
      BY <1>2, <2>2, <2>4, <3>2, <3>3, <3>4
  <2>6. Spelled(l_next', l_prev', loaded)
    <3>1. SUFFICES ASSUME NEW k \in 1..(Len(loaded) - 1)
                   PROVE  l_next'[loaded[k]] = loaded[k + 1] /\ l_prev'[loaded[k + 1]] = loaded[k]
      BY DEF Spelled
    <3>2. l_next[loaded[k]] = loaded[k + 1] /\ l_prev[loaded[k + 1]] = loaded[k]
      BY DEF ListInv, Spelled
    <3>3. loaded[k] \in Android /\ loaded[k + 1] \in Android
      BY DEF TypeOK
    <3>4. loaded[k + 1] # head
      <4>1. Injective(loaded) /\ DOMAIN loaded = 1..Len(loaded) /\ Len(loaded) \in Nat
        BY <1>2 DEF ListInv
      <4>2. k + 1 \in 1..Len(loaded) /\ 1 \in 1..Len(loaded) /\ k + 1 # 1
        BY <4>1, <3>1
      <4> QED
        BY <2>1, <4>1, <4>2 DEF Injective
    <3> QED
      BY <1>2, <2>2, <2>4, <3>2, <3>3, <3>4
  <2>7. l_next'[Final(loaded)] = NULL
    <3>1. Final(loaded) \in Maps /\ Final(loaded) # g
      BY <1>2, <1>3, <2>1
    <3> QED
      BY <1>8, <2>4, <3>1 DEF ListInv
  <2>8. l_next'[Final(glibc)] = head
    BY <1>3, <2>4
  <2>9. \A s \in silent : l_next'[s] = NULL /\ l_prev'[s] = NULL
    <3>1. \A s \in silent : s \in Maps /\ s # g /\ s # head
      BY <1>2, <1>3, <2>1 DEF ListInv
    <3> QED
      BY <2>4, <3>1 DEF ListInv
  <2>10. tmap' = Final(glibc')
    BY <1>1, <1>3, <1>5
  <2> QED
    BY <1>1, <1>8, <2>3, <2>5, <2>6, <2>7, <2>8, <2>9, <2>10 DEF ListInv
<1> QED
  BY <1>7, <1>8

LEMMA RestoreLists ==
    ASSUME TypeOK, ListInv, Restore
    PROVE  ListInv'
<1>1. /\ pc = "spliced" /\ pc' = "idle" /\ UNCHANGED <<l_prev, head, tail, fault, glibc, loaded, silent>>
      /\ l_next' = [l_next EXCEPT ![tmap] = NULL]
  BY DEF Restore
<1>2. /\ l_next \in Links /\ l_prev \in Links /\ NULL \notin Maps
      /\ glibc \in Seq(Maps) /\ loaded \in Seq(Maps)
      /\ Elems(glibc) \subseteq Glibc /\ Elems(loaded) \subseteq Android
      /\ Glibc \subseteq Maps /\ Android \subseteq Maps /\ Glibc \cap Android = {} /\ silent \subseteq Android
  BY ListTypes
<1>3. PICK g : g = Final(glibc) /\ g \in Elems(glibc) /\ g \in Maps
  BY <1>2, FinalIn DEF ListInv
<1>4. tmap = g /\ loaded # << >>
  BY <1>1, <1>3 DEF ListInv
<1>5. \A y \in Maps : l_next'[y] = (IF y = g THEN NULL ELSE l_next[y])
  BY <1>1, <1>2, <1>4 DEF Links
<1>6. Spelled(l_next', l_prev', glibc)
  <2>1. SUFFICES ASSUME NEW k \in 1..(Len(glibc) - 1)
                 PROVE  l_next'[glibc[k]] = glibc[k + 1] /\ l_prev'[glibc[k + 1]] = glibc[k]
    BY DEF Spelled
  <2>2. l_next[glibc[k]] = glibc[k + 1] /\ l_prev[glibc[k + 1]] = glibc[k]
    BY DEF ListInv, Spelled
  <2>3. glibc[k] \in Maps
    BY <1>2
  <2>4. glibc[k] # g
    <3>1. Injective(glibc) /\ DOMAIN glibc = 1..Len(glibc) /\ Len(glibc) \in Nat
      BY <1>2 DEF ListInv
    <3>2. k \in 1..Len(glibc) /\ Len(glibc) \in 1..Len(glibc) /\ k # Len(glibc)
      <4>1. PICK n \in Nat : n = Len(glibc)
        BY <3>1
      <4>2. k \in 1..(n - 1)
        BY <4>1
      <4>3. k \in 1..n /\ n \in 1..n /\ k # n
        BY <4>2
      <4> QED
        BY <4>1, <4>3
    <3> QED
      BY <1>3, <3>1, <3>2 DEF Injective, Final
  <2> QED
    BY <1>1, <1>5, <2>2, <2>3, <2>4
<1>7. \A y \in Android : l_next'[y] = l_next[y]
  BY <1>2, <1>3, <1>5
<1>8. Spelled(l_next', l_prev', loaded)
  <2>1. \A k \in 1..(Len(loaded) - 1) : loaded[k] \in Android
    BY DEF TypeOK
  <2>2. Spelled(l_next, l_prev, loaded)
    BY DEF ListInv
  <2> QED
    BY <1>1, <1>7, <2>1, <2>2 DEF Spelled
<1>9. l_next'[Final(loaded)] = NULL
  <2>1. Final(loaded) \in Android
    BY <1>4, FinalIn DEF TypeOK
  <2> QED
    BY <1>4, <1>7, <2>1 DEF ListInv
<1>10. l_next'[Final(glibc)] = NULL
  BY <1>3, <1>5
<1>11. \A s \in silent : l_next'[s] = NULL /\ l_prev'[s] = NULL
  BY <1>1, <1>2, <1>7 DEF ListInv
<1> QED
  BY <1>1, <1>4, <1>6, <1>8, <1>9, <1>10, <1>11 DEF ListInv

LEMMA GlibcOpenLists ==
    ASSUME TypeOK, ListInv, NEW g \in Glibc, GlibcOpen(g)
    PROVE  ListInv'
<1>1. /\ pc # "spliced" /\ g \notin Elems(glibc)
      /\ glibc' = Append(glibc, g)
      /\ UNCHANGED <<head, tail, pc, tmap, fault, loaded, silent>>
  BY DEF GlibcOpen, Idle
<1>2. /\ l_next \in Links /\ l_prev \in Links /\ NULL \notin Maps
      /\ glibc \in Seq(Maps) /\ loaded \in Seq(Maps)
      /\ Elems(glibc) \subseteq Glibc /\ Elems(loaded) \subseteq Android
      /\ Glibc \subseteq Maps /\ Android \subseteq Maps /\ Glibc \cap Android = {} /\ silent \subseteq Android
  BY ListTypes
<1>3. PICK nx2 : nx2 = l_next'
  OBVIOUS
<1>4. PICK pv2 : pv2 = l_prev'
  OBVIOUS
<1>5. PICK m : m = Append(glibc, g)
  OBVIOUS
<1>6. Appends(l_next, l_prev, glibc, g, nx2, pv2, m)
  <2>1. Chain = glibc
    BY <1>1, ChainApart
  <2>2. nx2 = [l_next EXCEPT ![Final(glibc)] = g, ![g] = NULL] /\ pv2 = [l_prev EXCEPT ![g] = Final(glibc)]
    BY <1>3, <1>4, <2>1 DEF GlibcOpen
  <2>3. glibc # << >> /\ Injective(glibc) /\ Spelled(l_next, l_prev, glibc)
    BY DEF ListInv
  <2> QED
    BY <1>1, <1>2, <1>5, <2>2, <2>3 DEF Appends
<1>7. Appended(l_next, l_prev, glibc, g, nx2, pv2, m)
  BY <1>6, AppendSpelled
<1>8. /\ glibc' # << >> /\ glibc'[1] = r_map /\ Injective(glibc') /\ Spelled(l_next', l_prev', glibc')
      /\ l_next'[Final(glibc')] = NULL
      /\ \A y \in Maps \ (Elems(glibc) \cup {g}) : l_next'[y] = l_next[y] /\ l_prev'[y] = l_prev[y]
  <2>1. glibc' = m /\ l_next' = nx2 /\ l_prev' = pv2 /\ glibc[1] = r_map
    BY <1>1, <1>3, <1>4, <1>5 DEF ListInv
  <2> QED
    BY <1>7, <2>1 DEF Appended
<1>9. \A y \in Android : l_next'[y] = l_next[y] /\ l_prev'[y] = l_prev[y]
  BY <1>2, <1>8
<1>10. Spelled(l_next', l_prev', loaded)
  <2>1. \A k \in 1..(Len(loaded) - 1) : loaded[k] \in Android /\ loaded[k + 1] \in Android
    BY DEF TypeOK
  <2>2. Spelled(l_next, l_prev, loaded)
    BY DEF ListInv
  <2> QED
    BY <1>9, <2>1, <2>2 DEF Spelled
<1>11. loaded # << >> => l_next'[Final(loaded)] = NULL
  <2>1. loaded # << >> => Final(loaded) \in Android
    BY FinalIn DEF TypeOK
  <2> QED
    BY <1>9, <2>1 DEF ListInv
<1>12. \A s \in silent : l_next'[s] = NULL /\ l_prev'[s] = NULL
  BY <1>2, <1>9 DEF ListInv
<1> QED
  BY <1>1, <1>8, <1>10, <1>11, <1>12 DEF ListInv

LEMMA GlibcCloseLists ==
    ASSUME TypeOK, ListInv, NEW g \in Glibc, GlibcClose(g)
    PROVE  ListInv'
<1>1. /\ pc # "spliced" /\ g \in Elems(glibc) \ {r_map}
      /\ glibc' = Without(glibc, g)
      /\ UNCHANGED <<head, tail, pc, tmap, fault, loaded, silent>>
  BY DEF GlibcClose, Idle
<1>2. /\ l_next \in Links /\ l_prev \in Links /\ NULL \notin Maps
      /\ glibc \in Seq(Maps) /\ loaded \in Seq(Maps)
      /\ Elems(glibc) \subseteq Glibc /\ Elems(loaded) \subseteq Android
      /\ Glibc \subseteq Maps /\ Android \subseteq Maps /\ Glibc \cap Android = {} /\ silent \subseteq Android
  BY ListTypes
<1>3. PICK nx2 : nx2 = l_next'
  OBVIOUS
<1>4. PICK pv2 : pv2 = l_prev'
  OBVIOUS
<1>5. PICK m : m = Without(glibc, g)
  OBVIOUS
<1>6. Unlinks(l_next, l_prev, glibc, g, nx2, pv2, m)
  <2>1. nx2 = [l_next EXCEPT ![l_prev[g]] = l_next[g]]
    BY <1>3 DEF GlibcClose
  <2>2. pv2 = (IF l_next[g] = NULL THEN l_prev ELSE [l_prev EXCEPT ![l_next[g]] = l_prev[g]])
    BY <1>4 DEF GlibcClose
  <2>3. Injective(glibc) /\ Spelled(l_next, l_prev, glibc) /\ g # glibc[1] /\ l_next[Final(glibc)] = NULL
    BY <1>1 DEF ListInv
  <2> QED
    BY <1>1, <1>2, <1>5, <2>1, <2>2, <2>3 DEF Unlinks
<1>7. Unlinked(l_next, l_prev, glibc, g, nx2, pv2, m)
  BY <1>6, UnlinkSpelled
<1>8. /\ glibc' # << >> /\ glibc'[1] = r_map /\ Injective(glibc') /\ Spelled(l_next', l_prev', glibc')
      /\ l_next'[Final(glibc')] = NULL
      /\ \A y \in Maps \ Elems(glibc) : l_next'[y] = l_next[y] /\ l_prev'[y] = l_prev[y]
  <2>1. glibc' = m /\ l_next' = nx2 /\ l_prev' = pv2 /\ glibc[1] = r_map
    BY <1>1, <1>3, <1>4, <1>5 DEF ListInv
  <2> QED
    BY <1>7, <2>1 DEF Unlinked
<1>9. \A y \in Android : l_next'[y] = l_next[y] /\ l_prev'[y] = l_prev[y]
  BY <1>2, <1>8
<1>10. Spelled(l_next', l_prev', loaded)
  <2>1. \A k \in 1..(Len(loaded) - 1) : loaded[k] \in Android /\ loaded[k + 1] \in Android
    BY DEF TypeOK
  <2>2. Spelled(l_next, l_prev, loaded)
    BY DEF ListInv
  <2> QED
    BY <1>9, <2>1, <2>2 DEF Spelled
<1>11. loaded # << >> => l_next'[Final(loaded)] = NULL
  <2>1. loaded # << >> => Final(loaded) \in Android
    BY FinalIn DEF TypeOK
  <2> QED
    BY <1>9, <2>1 DEF ListInv
<1>12. \A s \in silent : l_next'[s] = NULL /\ l_prev'[s] = NULL
  BY <1>2, <1>9 DEF ListInv
<1> QED
  BY <1>1, <1>8, <1>10, <1>11, <1>12 DEF ListInv

LEMMA NextLists ==
    ASSUME ~MayUnloadFirst
    PROVE  TypeOK /\ ListInv /\ [Next]_vars => ListInv'
<1> SUFFICES ASSUME TypeOK, ListInv, [Next]_vars PROVE ListInv'
  OBVIOUS
<1>1. CASE UNCHANGED vars
  BY <1>1 DEF ListInv, vars, links
<1> QED
  BY <1>1, InsertLists, OpenSilentlyLists, RemoveLists, SpliceLists, RestoreLists, GlibcOpenLists, GlibcCloseLists
     DEF Next

LEMMA Lists ==
    ASSUME ~MayUnloadFirst
    PROVE  Spec => [](TypeOK /\ ListInv)
<1>1. Init => TypeOK /\ ListInv
  BY InitType, InitLists
<1>2. TypeOK /\ ListInv /\ [Next]_vars => TypeOK' /\ ListInv'
  BY NextType, NextLists
<1> QED
  BY <1>1, <1>2, PTL DEF Spec

(* While the library at apkenv_r_debug_head stays loaded (the run          *)
(* debug_map_unload shows what happens when it does not): at each hit of   *)
(* the breakpoint the debugger finds glibc's libraries and then exactly    *)
(* the shim linker's, in load order.                                       *)
THEOREM DebuggerSeesAll ==
    ASSUME ~MayUnloadFirst
    PROVE  Spec => []DebuggerView
<1>1. TypeOK /\ ListInv => DebuggerView
  BY ChainJoined DEF DebuggerView
<1> QED
  BY <1>1, Lists, PTL

(* Under the same condition glibc finds its own list between two           *)
(* notifications, whatever either side loaded and unloaded.                *)
THEOREM GlibcListRestored ==
    ASSUME ~MayUnloadFirst
    PROVE  Spec => []RestoredForGlibc
<1>1. TypeOK /\ ListInv => RestoredForGlibc
  BY ChainApart DEF RestoredForGlibc, Idle
<1> QED
  BY <1>1, Lists, PTL

(* And the shim linker's own list can be walked both ways, from            *)
(* apkenv_r_debug_head to apkenv_r_debug_tail.                             *)
THEOREM OwnListWhole ==
    ASSUME ~MayUnloadFirst
    PROVE  Spec => []OwnListLinked
<1>1. TypeOK /\ ListInv => OwnListLinked
  BY DEF OwnListLinked, ListInv, Spelled
<1> QED
  BY <1>1, Lists, PTL
=============================================================================
