--------------------------- MODULE ResolverProofs ---------------------------
(***************************************************************************)
(* Proofs about Resolver, with Symbols and SearchPath, for every file      *)
(* system, configuration, search path and symbol table of WorldAssumption  *)
(* and SearchAssumption.                                                   *)
(***************************************************************************)
EXTENDS Resolver, FiniteSetTheorems, WellFoundedInduction, TLAPS

-----------------------------------------------------------------------------
(* Smallest and largest members.                                           *)

LEMMA MinNat ==
  ASSUME NEW S, S \subseteq Nat, S # {}
  PROVE  Min(S) \in S /\ \A y \in S : Min(S) <= y
  <1>1. PICK x \in S : \A y \in S : ~(<<y, x>> \in OpToRel(<, Nat))
    BY NatLessThanWellFounded, WFMin
  <1>2. ASSUME NEW y \in S PROVE x <= y
    <2>1. x \in Nat /\ y \in Nat
      OBVIOUS
    <2>2. ~(y < x)
      BY <1>1, <2>1 DEF OpToRel
    <2>. QED
      BY <2>1, <2>2
  <1>. QED
    BY <1>2 DEF Min

LEMMA MinIs ==
  ASSUME NEW S, S \subseteq Nat, NEW m \in S, \A y \in S : m <= y
  PROVE  Min(S) = m
  <1>1. Min(S) \in S /\ Min(S) <= m
    BY MinNat
  <1>2. Min(S) \in Nat /\ m \in Nat /\ m <= Min(S)
    BY <1>1
  <1>. QED
    BY <1>1, <1>2

LEMMA MinOr0Facts ==
  ASSUME NEW S, S \subseteq Nat \ {0}
  PROVE  /\ MinOr0(S) \in Nat /\ (MinOr0(S) = 0 <=> S = {})
         /\ S # {} => MinOr0(S) \in S /\ \A y \in S : MinOr0(S) <= y
  <1>1. CASE S = {}
    BY <1>1 DEF MinOr0
  <1>2. CASE S # {}
    <2>1. S \subseteq Nat /\ MinOr0(S) = Min(S)
      BY <1>2 DEF MinOr0
    <2>2. MinOr0(S) \in S /\ \A y \in S : MinOr0(S) <= y
      BY <1>2, <2>1, MinNat
    <2>3. MinOr0(S) # 0 /\ MinOr0(S) \in Nat
      BY <2>2
    <2>. QED
      BY <1>2, <2>2, <2>3
  <1>. QED
    BY <1>1, <1>2

LEMMA MinOr0Is ==
  ASSUME NEW S, S \subseteq Nat \ {0}, NEW m \in S, \A y \in S : m <= y
  PROVE  MinOr0(S) = m
  <1>1. S \subseteq Nat /\ MinOr0(S) = Min(S)
    BY DEF MinOr0
  <1>. QED
    BY <1>1, MinIs

LEMMA MinOr0Empty == MinOr0({}) = 0
  BY DEF MinOr0

(* Of the sets "x and what is above it" one has no other inside it.        *)
LEMMA MaxFacts ==
  ASSUME NEW S, S \subseteq Int, IsFiniteSet(S), S # {}
  PROVE  Max(S) \in S /\ \A y \in S : y <= Max(S)
  <1>. DEFINE Above(x) == {y \in S : y >= x}
              Fam == {Above(x) : x \in S}
  <1>1. IsWellFoundedOn(StrictSubsetOrdering(S), SUBSET S)
    BY FS_StrictSubsetOrderingWellFounded, FS_FiniteSubsetsOfFinite
  <1>2. Fam \subseteq SUBSET S /\ Fam # {}
    OBVIOUS
  <1>3. PICK U \in Fam : \A V \in Fam : ~ (<<V, U>> \in StrictSubsetOrdering(S))
    <2>. HIDE DEF Fam
    <2>. QED
      BY <1>1, <1>2, WFMin
  <1>4. PICK x \in S : U = Above(x)
    OBVIOUS
  <1>5. ASSUME NEW y \in S, y > x PROVE FALSE
    <2>0. x \in Int /\ y \in Int /\ \A z \in S : z \in Int
      OBVIOUS
    <2>1. Above(y) \subseteq U /\ x \in U /\ x \notin Above(y)
      <3>1. ASSUME NEW z \in Above(y) PROVE z \in Above(x)
        BY <1>5, <2>0, <3>1
      <3>2. x \in Above(x) /\ x \notin Above(y)
        BY <1>5, <2>0
      <3>. QED
        BY <3>1, <3>2, <1>4
    <2>2. <<Above(y), U>> \in StrictSubsetOrdering(S)
      BY <2>1, <1>2 DEF StrictSubsetOrdering
    <2>. QED
      BY <2>2, <1>3
  <1>6. \A y \in S : x >= y
    BY <1>5
  <1>. QED
    BY <1>6 DEF Max

-----------------------------------------------------------------------------
(* Hash lookup.                                                            *)

(* The loop through a chain that leads from every entry to the next one of *)
(* its class: it finds the first hit of the class.                         *)
SysvEq(w, N, hits, chain) == w = [n \in 0 .. N |-> IF n = 0 THEN 0 ELSE IF n \in hits THEN n ELSE w[chain[n]]]

HitsFrom(N, hits, cls, n) == {k \in 1 .. N : k >= n /\ cls[k] = cls[n] /\ k \in hits}
SysvFirst(N, hits, cls) == [n \in 0 .. N |-> IF n = 0 THEN 0 ELSE MinOr0(HitsFrom(N, hits, cls, n))]
LaterIn(N, cls, n) == {k \in 1 .. N : k > n /\ cls[k] = cls[n]}

LEMMA SysvExists ==
  ASSUME NEW N \in Nat, NEW hits, NEW chain, NEW cls,
         \A n \in 1 .. N : chain[n] = MinOr0(LaterIn(N, cls, n))
  PROVE  SysvEq(SysvFirst(N, hits, cls), N, hits, chain)
  <1>0. PICK v : v = SysvFirst(N, hits, cls)
    OBVIOUS
  <1>00. v = [n \in 0 .. N |-> IF n = 0 THEN 0 ELSE MinOr0(HitsFrom(N, hits, cls, n))]
    BY <1>0 DEF SysvFirst
  <1>1. ASSUME NEW n \in 1 .. N PROVE v[n] = IF n \in hits THEN n ELSE v[chain[n]]
    <2>1. PICK H : H = HitsFrom(N, hits, cls, n)
      OBVIOUS
    <2>2. H \subseteq Nat \ {0} /\ v[n] = MinOr0(H)
      BY <1>00, <2>1 DEF HitsFrom
    <2>3. CASE n \in hits
      <3>1. n \in H /\ \A y \in H : n <= y
        BY <2>1, <2>3 DEF HitsFrom
      <3>. QED
        BY <2>2, <2>3, <3>1, MinOr0Is
    <2>4. CASE n \notin hits
      <3>1. PICK L : L = LaterIn(N, cls, n)
        OBVIOUS
      <3>2. L \subseteq Nat \ {0} /\ chain[n] = MinOr0(L)
        BY <3>1 DEF LaterIn
      <3>3. CASE L = {}
        <4>1. H = {}
          <5>1. ASSUME NEW k \in H PROVE FALSE
            <6>1. k \in 1 .. N /\ k >= n /\ cls[k] = cls[n] /\ k \in hits /\ k # n
              BY <2>1, <2>4, <5>1 DEF HitsFrom
            <6>2. k \in L
              BY <6>1, <3>1 DEF LaterIn
            <6>. QED
              BY <6>2, <3>3
          <5>. QED
            BY <5>1
        <4>2. chain[n] = 0
          BY <3>2, <3>3, MinOr0Empty
        <4>3. v[n] = 0
          BY <2>2, <4>1, MinOr0Empty
        <4>4. v[0] = 0
          BY <1>00
        <4>. QED
          BY <2>4, <4>2, <4>3, <4>4
      <3>4. CASE L # {}
        <4>1. PICK c \in L : c = chain[n] /\ \A y \in L : c <= y
          BY <3>2, <3>4, MinOr0Facts
        <4>2. c \in 1 .. N /\ c > n /\ cls[c] = cls[n]
          BY <3>1, <4>1 DEF LaterIn
        <4>3. HitsFrom(N, hits, cls, c) \subseteq H
          BY <2>1, <4>2 DEF HitsFrom
        <4>4. ASSUME NEW k \in H PROVE k \in HitsFrom(N, hits, cls, c)
          <5>1. k \in 1 .. N /\ k >= n /\ cls[k] = cls[n] /\ k \in hits /\ k # n
            BY <2>1, <2>4, <4>4 DEF HitsFrom
          <5>2. k \in L
            BY <5>1, <3>1 DEF LaterIn
          <5>3. c <= k
            BY <5>2, <4>1
          <5>. QED
            BY <5>1, <5>3, <4>2 DEF HitsFrom
        <4>5. HitsFrom(N, hits, cls, c) = H
          BY <4>3, <4>4
        <4>6. v[c] = MinOr0(HitsFrom(N, hits, cls, c))
          BY <1>00, <4>2
        <4>. QED
          BY <2>2, <2>4, <4>1, <4>5, <4>6
      <3>. QED
        BY <3>3, <3>4
    <2>. QED
      BY <2>3, <2>4
  <1>2. v[0] = 0
    BY <1>00
  <1>3. PICK f : f = [n \in 0 .. N |-> IF n = 0 THEN 0 ELSE IF n \in hits THEN n ELSE v[chain[n]]]
    OBVIOUS
  <1>4. ASSUME NEW n \in 0 .. N PROVE f[n] = v[n]
    <2>1. CASE n = 0
      BY <1>2, <1>3, <2>1
    <2>2. CASE n # 0
      <3>1. n \in 1 .. N
        BY <2>2
      <3>2. f[n] = IF n \in hits THEN n ELSE v[chain[n]]
        BY <1>3, <2>2
      <3>. QED
        BY <1>1, <3>1, <3>2
    <2>. QED
      BY <2>1, <2>2
  <1>5. v = [n \in 0 .. N |-> v[n]] /\ f = [n \in 0 .. N |-> f[n]]
    BY <1>00, <1>3
  <1>6. v = f
    BY <1>4, <1>5
  <1>7. SysvEq(v, N, hits, chain)
    BY <1>3, <1>6 DEF SysvEq
  <1>. QED
    BY <1>0, <1>7

Chained(N, chain, cls) == \A n \in 1 .. N : chain[n] = MinOr0(LaterIn(N, cls, n))
FindsFirst(w, N, hits, cls) == w[0] = 0 /\ \A n \in 1 .. N : w[n] = MinOr0(HitsFrom(N, hits, cls, n))

(* Two functions that satisfy the equation of the loop are equal.          *)
LEMMA SysvWalk ==
  ASSUME NEW N \in Nat, NEW hits, NEW chain, NEW cls, Chained(N, chain, cls),
         NEW w, SysvEq(w, N, hits, chain)
  PROVE  FindsFirst(w, N, hits, cls)
  <1>0. \A n \in 1 .. N : chain[n] = MinOr0(LaterIn(N, cls, n))
    BY DEF Chained
  <1>1. PICK v : v = SysvFirst(N, hits, cls)
    OBVIOUS
  <1>3. SysvEq(v, N, hits, chain)
    BY <1>0, <1>1, SysvExists
  <1>5. w[0] = 0 /\ \A n \in 1 .. N : w[n] = IF n \in hits THEN n ELSE w[chain[n]]
    BY DEF SysvEq
  <1>6. v[0] = 0 /\ \A n \in 1 .. N : v[n] = IF n \in hits THEN n ELSE v[chain[n]]
    BY <1>3 DEF SysvEq
  <1>7. v[0] = 0 /\ w[0] = 0
    BY <1>5, <1>6
  <1>. DEFINE Bad == {n \in Nat : n <= N /\ w[N - n] # v[N - n]}
  <1>8. SUFFICES ASSUME Bad # {} PROVE FALSE
    <2>1. ASSUME NEW n \in 1 .. N PROVE w[n] = v[n]
      <3>1. N - n \in Nat /\ N - n <= N /\ N - (N - n) = n
        OBVIOUS
      <3>2. N - n \notin Bad
        BY <1>8
      <3>. QED
        BY <3>1, <3>2
    <2>2. \A n \in 1 .. N : v[n] = MinOr0(HitsFrom(N, hits, cls, n))
      BY <1>1 DEF SysvFirst
    <2>. QED
      BY <1>5, <2>1, <2>2 DEF FindsFirst
  <1>9. PICK m : m = Min(Bad)
    OBVIOUS
  <1>10. m \in Bad /\ \A y \in Bad : m <= y
    <2>1. Bad \subseteq Nat
      OBVIOUS
    <2>. HIDE DEF Bad
    <2>. QED
      BY <1>8, <1>9, <2>1, MinNat
  <1>11. PICK n \in Nat : n = N - m /\ n <= N /\ w[n] # v[n] /\ m = N - n
    <2>1. m \in Nat /\ m <= N /\ w[N - m] # v[N - m]
      BY <1>10
    <2>2. N - m \in Nat /\ N - m <= N /\ m = N - (N - m)
      BY <2>1
    <2>. QED
      BY <2>1, <2>2
  <1>12. n \in 1 .. N /\ n \notin hits
    BY <1>5, <1>6, <1>7, <1>11
  <1>13. PICK L : L = LaterIn(N, cls, n)
    OBVIOUS
  <1>14. L \subseteq Nat \ {0} /\ chain[n] = MinOr0(L)
    BY <1>0, <1>12, <1>13 DEF LaterIn
  <1>15. L # {}
    BY <1>5, <1>6, <1>7, <1>11, <1>12, <1>14, MinOr0Empty
  <1>16. PICK c \in L : c = chain[n]
    BY <1>14, <1>15, MinOr0Facts
  <1>17. c \in 1 .. N /\ c > n
    BY <1>13, <1>16 DEF LaterIn
  <1>18. N - c \in Nat /\ N - c <= N /\ N - (N - c) = c /\ N - c < m /\ m \in Nat
    BY <1>11, <1>17
  <1>19. N - c \notin Bad
    BY <1>10, <1>18
  <1>20. w[c] = v[c]
    BY <1>18, <1>19
  <1>. QED
    BY <1>5, <1>6, <1>11, <1>12, <1>16, <1>20

(* What both tables promise: every defined global or weak name is found.   *)
Defs(so, x) == {n \in DOMAIN so.symtab : Is(so, n, x)}

SysvOK(so, x, N, cls, b) ==
  /\ DOMAIN so.symtab = 1 .. N /\ Len(so.symtab) = N
  /\ \A n \in 1 .. N : so.table.chain[n] = MinOr0(LaterIn(N, cls, n))
  /\ so.table.bucket[sysvhash[x] % Cardinality(DOMAIN so.table.bucket)] = MinOr0({n \in 1 .. N : cls[n] = b})
  /\ \A n \in Defs(so, x) : cls[n] = b

LEMMA SysvLookup ==
  ASSUME NEW so, NEW x, NEW N \in Nat, NEW cls, NEW b, SysvOK(so, x, N, cls, b)
  PROVE  elf_lookup_sysv(so, x) = MinOr0(Defs(so, x))
  <1>0. /\ DOMAIN so.symtab = 1 .. N /\ Len(so.symtab) = N
        /\ \A n \in 1 .. N : so.table.chain[n] = MinOr0(LaterIn(N, cls, n))
        /\ so.table.bucket[sysvhash[x] % Cardinality(DOMAIN so.table.bucket)] = MinOr0({n \in 1 .. N : cls[n] = b})
        /\ \A n \in Defs(so, x) : cls[n] = b
    BY DEF SysvOK
  <1>1. PICK hits : hits = Defs(so, x)
    OBVIOUS
  <1>2. hits \subseteq 1 .. N /\ \A n \in 1 .. N : n \in hits <=> Is(so, n, x)
    BY <1>0, <1>1 DEF Defs
  <1>. DEFINE E(w) == w = [n \in 0 .. Len(so.symtab) |-> IF n = 0 THEN 0 ELSE IF Is(so, n, x) THEN n ELSE w[so.table.chain[n]]]
  <1>3. ASSUME NEW w PROVE E(w) <=> SysvEq(w, N, hits, so.table.chain)
    <2>1. PICK f : f = [n \in 0 .. N |-> IF n = 0 THEN 0 ELSE IF Is(so, n, x) THEN n ELSE w[so.table.chain[n]]]
      OBVIOUS
    <2>2. PICK g : g = [n \in 0 .. N |-> IF n = 0 THEN 0 ELSE IF n \in hits THEN n ELSE w[so.table.chain[n]]]
      OBVIOUS
    <2>3. ASSUME NEW n \in 0 .. N PROVE f[n] = g[n]
      <3>1. n # 0 => n \in 1 .. N
        OBVIOUS
      <3>. QED
        BY <1>2, <2>1, <2>2, <3>1
    <2>4. f = g
      BY <2>1, <2>2, <2>3
    <2>. QED
      BY <1>0, <2>1, <2>2, <2>4 DEF SysvEq
  <1>4. SysvEq(SysvFirst(N, hits, cls), N, hits, so.table.chain)
    BY <1>0, SysvExists
  <1>5. E(SysvFirst(N, hits, cls))
    BY <1>3, <1>4
  <1>6. PICK w : E(w) /\ elf_lookup_sysv(so, x) = w[so.table.bucket[sysvhash[x] % Cardinality(DOMAIN so.table.bucket)]]
    BY <1>5, Zenon DEF elf_lookup_sysv
  <1>7. SysvEq(w, N, hits, so.table.chain)
    BY <1>3, <1>6
  <1>. HIDE DEF E
  <1>8. w[0] = 0 /\ \A n \in 1 .. N : w[n] = MinOr0(HitsFrom(N, hits, cls, n))
    <2>1. Chained(N, so.table.chain, cls)
      BY <1>0 DEF Chained
    <2>2. FindsFirst(w, N, hits, cls)
      BY <1>7, <2>1, SysvWalk
    <2>. QED
      BY <2>2 DEF FindsFirst
  <1>9. PICK B : B = {n \in 1 .. N : cls[n] = b}
    OBVIOUS
  <1>10. B \subseteq Nat \ {0} /\ elf_lookup_sysv(so, x) = w[MinOr0(B)] /\ hits \subseteq B
    BY <1>0, <1>1, <1>2, <1>6, <1>9
  <1>11. CASE B = {}
    <2>1. hits = {} /\ elf_lookup_sysv(so, x) = 0
      BY <1>8, <1>10, <1>11, MinOr0Empty
    <2>. QED
      BY <1>1, <2>1, MinOr0Empty
  <1>12. CASE B # {}
    <2>1. PICK m \in B : m = MinOr0(B) /\ \A y \in B : m <= y
      BY <1>10, <1>12, MinOr0Facts
    <2>2. HitsFrom(N, hits, cls, m) = hits
      BY <1>1, <1>2, <1>9, <1>10, <2>1 DEF HitsFrom
    <2>3. m \in 1 .. N
      BY <1>9, <2>1
    <2>. QED
      BY <1>1, <1>8, <1>10, <2>1, <2>2, <2>3
  <1>. QED
    BY <1>11, <1>12

(* The loop through the symbols of a bucket of a GNU table stops at the    *)
(* first hit or at the first end mark.                                     *)
GnuEq(w, N, hits, ends) == w = [n \in 1 .. N |-> IF n \in hits THEN n ELSE IF n \in ends THEN 0 ELSE w[n + 1]]
Stops(N, hits, ends, n) == {k \in n .. N : k \in hits \cup ends}
HitOr0(hits, m) == IF m \in hits THEN m ELSE 0
GnuFirst(N, hits, ends) == [n \in 1 .. N |-> HitOr0(hits, Min(Stops(N, hits, ends, n)))]
FirstStop(w, N, hits, ends) == \A n \in 1 .. N : w[n] = HitOr0(hits, Min(Stops(N, hits, ends, n)))

LEMMA GnuExists ==
  ASSUME NEW N \in Nat, NEW hits, NEW ends, N \in ends
  PROVE  GnuEq(GnuFirst(N, hits, ends), N, hits, ends)
  <1>1. PICK v : v = GnuFirst(N, hits, ends)
    OBVIOUS
  <1>2. v = [n \in 1 .. N |-> v[n]] /\ FirstStop(v, N, hits, ends)
    BY <1>1 DEF GnuFirst, FirstStop
  <1>3. ASSUME NEW n \in 1 .. N PROVE v[n] = IF n \in hits THEN n ELSE IF n \in ends THEN 0 ELSE v[n + 1]
    <2>1. PICK S : S = Stops(N, hits, ends, n)
      OBVIOUS
    <2>2. v[n] = HitOr0(hits, Min(S)) /\ S \subseteq Nat
      BY <1>2, <2>1 DEF FirstStop, Stops
    <2>3. CASE n \in hits \cup ends
      <3>1. n \in S /\ \A y \in S : n <= y
        BY <2>1, <2>3 DEF Stops
      <3>2. Min(S) = n
        BY <2>2, <3>1, MinIs
      <3>. QED
        BY <2>2, <2>3, <3>2 DEF HitOr0
    <2>4. CASE n \notin hits \cup ends
      <3>1. n + 1 \in 1 .. N
        BY <2>4
      <3>2. Stops(N, hits, ends, n + 1) = S
        BY <2>1, <2>4 DEF Stops
      <3>3. v[n + 1] = HitOr0(hits, Min(S))
        BY <1>2, <3>1, <3>2 DEF FirstStop
      <3>. QED
        BY <2>2, <2>4, <3>3
    <2>. QED
      BY <2>3, <2>4
  <1>4. PICK f : f = [n \in 1 .. N |-> IF n \in hits THEN n ELSE IF n \in ends THEN 0 ELSE v[n + 1]]
    OBVIOUS
  <1>5. \A n \in 1 .. N : f[n] = v[n]
    BY <1>3, <1>4
  <1>6. f = v
    BY <1>2, <1>4, <1>5
  <1>7. GnuEq(v, N, hits, ends)
    BY <1>4, <1>6 DEF GnuEq
  <1>. QED
    BY <1>1, <1>7

LEMMA GnuWalk ==
  ASSUME NEW N \in Nat, NEW hits, NEW ends, N \in ends, NEW w, GnuEq(w, N, hits, ends)
  PROVE  FirstStop(w, N, hits, ends)
  <1>1. PICK v : v = GnuFirst(N, hits, ends)
    OBVIOUS
  <1>2. GnuEq(v, N, hits, ends)
    BY <1>1, GnuExists
  <1>3. \A n \in 1 .. N : w[n] = IF n \in hits THEN n ELSE IF n \in ends THEN 0 ELSE w[n + 1]
    BY DEF GnuEq
  <1>4. \A n \in 1 .. N : v[n] = IF n \in hits THEN n ELSE IF n \in ends THEN 0 ELSE v[n + 1]
    BY <1>2 DEF GnuEq
  <1>. DEFINE Bad == {n \in Nat : n < N /\ w[N - n] # v[N - n]}
  <1>5. SUFFICES ASSUME Bad # {} PROVE FALSE
    <2>1. ASSUME NEW n \in 1 .. N PROVE w[n] = v[n]
      <3>1. N - n \in Nat /\ N - n < N /\ N - (N - n) = n
        OBVIOUS
      <3>2. N - n \notin Bad
        BY <1>5
      <3>. QED
        BY <3>1, <3>2
    <2>2. \A n \in 1 .. N : v[n] = HitOr0(hits, Min(Stops(N, hits, ends, n)))
      BY <1>1 DEF GnuFirst
    <2>. QED
      BY <2>1, <2>2 DEF FirstStop
  <1>6. PICK m : m = Min(Bad)
    OBVIOUS
  <1>7. m \in Bad /\ \A y \in Bad : m <= y
    <2>1. Bad \subseteq Nat
      OBVIOUS
    <2>. HIDE DEF Bad
    <2>. QED
      BY <1>5, <1>6, <2>1, MinNat
  <1>8. PICK n \in 1 .. N : w[n] # v[n] /\ m = N - n
    <2>1. m \in Nat /\ m < N /\ w[N - m] # v[N - m]
      BY <1>7
    <2>2. N - m \in 1 .. N /\ m = N - (N - m)
      BY <2>1
    <2>. QED
      BY <2>1, <2>2
  <1>9. n \notin hits /\ n \notin ends /\ w[n + 1] # v[n + 1]
    BY <1>3, <1>4, <1>8
  <1>10. n < N /\ m \in Nat /\ m - 1 \in Nat /\ m - 1 < N /\ N - (m - 1) = n + 1 /\ m - 1 < m
    BY <1>8, <1>9
  <1>11. m - 1 \notin Bad
    BY <1>7, <1>10
  <1>. QED
    BY <1>9, <1>10, <1>11

(* The GNU table of a symbol table.                                        *)
GHash(s, n) == gnuhash[s[n].name]
At(s, n) == GHash(s, n) % NBucket
Hashed(s) == {n \in DOMAIN s : s[n].def}
LastOfBucket(s, n) == ~(n + 1 \in Hashed(s) /\ At(s, n + 1) = At(s, n))

LEMMA ModRange ==
  ASSUME NEW h \in Nat, NEW q \in Nat \ {0}
  PROVE  h % q \in 0 .. q - 1
  OBVIOUS

LEMMA LowBit ==
  ASSUME NEW h \in Nat, NEW b \in {0, 1}
  PROVE  (2 * (h \div 2) + b) \div 2 = h \div 2 /\ (2 * (h \div 2) + b) % 2 = b
  OBVIOUS

LEMMA SymFacts ==
  ASSUME NEW s \in Seq(Symbol)
  PROVE  /\ Len(s) \in Nat /\ DOMAIN s = 1 .. Len(s)
         /\ \A n \in DOMAIN s : /\ s[n].name \in SymNames /\ s[n].def \in BOOLEAN /\ s[n].value \in Nat /\ s[n].size \in Nat
                               /\ s[n].bind \in {"GLOBAL", "WEAK", "LOCAL"}
                               /\ GHash(s, n) \in Nat /\ At(s, n) \in 0 .. NBucket - 1
                               /\ sysvhash[s[n].name] \in Nat /\ sysvhash[s[n].name] % NBucket \in 0 .. NBucket - 1
  <1>1. Len(s) \in Nat /\ DOMAIN s = 1 .. Len(s) /\ \A n \in 1 .. Len(s) : s[n] \in Symbol
    OBVIOUS
  <1>2. ASSUME NEW n \in DOMAIN s
        PROVE  s[n].name \in SymNames /\ s[n].def \in BOOLEAN /\ s[n].value \in Nat /\ s[n].size \in Nat
               /\ s[n].bind \in {"GLOBAL", "WEAK", "LOCAL"}
    <2>1. s[n] \in Symbol
      BY <1>1
    <2>. QED
      BY <2>1 DEF Symbol
  <1>3. ASSUME NEW n \in DOMAIN s PROVE GHash(s, n) \in Nat /\ sysvhash[s[n].name] \in Nat
    BY <1>2, HashAssumption DEF GHash
  <1>4. NBucket \in Nat \ {0}
    BY HashAssumption
  <1>. QED
    BY <1>1, <1>2, <1>3, <1>4, ModRange DEF At

LEMMA GnuTableFacts ==
  ASSUME NEW s \in Seq(Symbol), NEW t, t = GnuTable(s)
  PROVE  /\ t.style = "gnu" /\ DOMAIN t.bucket = 0 .. NBucket - 1 /\ DOMAIN t.chain = Hashed(s)
         /\ \A b \in 0 .. NBucket - 1 : t.bucket[b] = MinOr0({n \in Hashed(s) : At(s, n) = b})
         /\ \A n \in Hashed(s) : /\ t.chain[n] \div 2 = GHash(s, n) \div 2
                                /\ (t.chain[n] % 2 = 1 <=> LastOfBucket(s, n))
                                /\ BloomBit(GHash(s, n)) \subseteq t.bloom[BloomWord(GHash(s, n))]
  <1>1. /\ t.style = "gnu"
        /\ t.bucket = [b \in 0 .. NBucket - 1 |-> MinOr0({n \in Hashed(s) : At(s, n) = b})]
        /\ t.chain = [n \in Hashed(s) |-> 2 * (GHash(s, n) \div 2) + (IF n + 1 \in Hashed(s) /\ At(s, n + 1) = At(s, n) THEN 0 ELSE 1)]
        /\ t.bloom = [w \in 0 .. MaskWords - 1 |-> UNION {BloomBit(GHash(s, n)) : n \in {k \in Hashed(s) : BloomWord(GHash(s, k)) = w}}]
    BY DEF GnuTable, Hashed, At, GHash
  <1>2. ASSUME NEW n \in Hashed(s)
        PROVE  t.chain[n] \div 2 = GHash(s, n) \div 2 /\ (t.chain[n] % 2 = 1 <=> LastOfBucket(s, n))
    <2>1. GHash(s, n) \in Nat
      BY SymFacts DEF Hashed
    <2>2. PICK b \in {0, 1} : b = (IF n + 1 \in Hashed(s) /\ At(s, n + 1) = At(s, n) THEN 0 ELSE 1)
      OBVIOUS
    <2>3. t.chain[n] = 2 * (GHash(s, n) \div 2) + b
      BY <1>1, <2>2
    <2>4. b = 1 <=> LastOfBucket(s, n)
      BY <2>2 DEF LastOfBucket
    <2>. QED
      BY <2>1, <2>3, <2>4, LowBit
  <1>3. ASSUME NEW n \in Hashed(s) PROVE BloomBit(GHash(s, n)) \subseteq t.bloom[BloomWord(GHash(s, n))]
    <2>1. PICK w : w = BloomWord(GHash(s, n))
      OBVIOUS
    <2>2. w \in 0 .. MaskWords - 1
      <3>1. GHash(s, n) \in Nat /\ BloomBits \in Nat \ {0} /\ MaskWords \in Nat \ {0}
        BY SymFacts, HashAssumption DEF Hashed
      <3>2. GHash(s, n) \div BloomBits \in Nat
        BY <3>1
      <3>. QED
        BY <2>1, <3>1, <3>2, ModRange DEF BloomWord
    <2>3. t.bloom[w] = UNION {BloomBit(GHash(s, k)) : k \in {j \in Hashed(s) : BloomWord(GHash(s, j)) = w}}
      BY <1>1, <2>2
    <2>. QED
      BY <2>1, <2>3
  <1>. QED
    BY <1>1, <1>2, <1>3

LEMMA SortedFacts ==
  ASSUME NEW s \in Seq(Symbol), SortedForGnu(s), NEW n \in Hashed(s), NEW k \in DOMAIN s, n <= k
  PROVE  k \in Hashed(s) /\ At(s, n) <= At(s, k)
  <1>1. n \in DOMAIN s /\ s[n].def /\ n \in Nat /\ k \in Nat /\ At(s, n) \in Nat /\ At(s, k) \in Nat
    BY SymFacts DEF Hashed
  <1>2. CASE n = k
    BY <1>1, <1>2
  <1>3. CASE n < k
    <2>1. s[k].def /\ gnuhash[s[n].name] % NBucket <= gnuhash[s[k].name] % NBucket
      BY <1>1, <1>3 DEF SortedForGnu
    <2>. QED
      BY <2>1 DEF Hashed, At, GHash
  <1>. QED
    BY <1>1, <1>2, <1>3

LEMMA GnuLookup ==
  ASSUME NEW so, NEW s \in Seq(Symbol), so.symtab = s, SortedForGnu(s), so.table = GnuTable(s), NEW x \in SymNames
  PROVE  elf_lookup_gnu(so, x) = MinOr0(Defs(so, x))
  <1>1. PICK t : t = so.table
    OBVIOUS
  <1>2. PICK N \in Nat : N = Len(s) /\ DOMAIN s = 1 .. N
    BY SymFacts
  <1>3. PICK h \in Nat : h = gnuhash[x]
    BY HashAssumption
  <1>4. PICK b \in 0 .. NBucket - 1 : b = h % NBucket
    BY HashAssumption, ModRange
  <1>5. Cardinality(DOMAIN t.bucket) = NBucket
    <2>1. DOMAIN t.bucket = 0 .. NBucket - 1
      BY <1>1, GnuTableFacts
    <2>2. NBucket \in Nat \ {0}
      BY HashAssumption
    <2>. QED
      BY <2>1, <2>2, FS_Interval
  <1>6. PICK F : F = {n \in Hashed(s) : At(s, n) = b}
    OBVIOUS
  <1>7. F \subseteq Hashed(s) /\ Hashed(s) \subseteq 1 .. N /\ t.bucket[b] = MinOr0(F)
    BY <1>1, <1>2, <1>4, <1>6, GnuTableFacts DEF Hashed
  <1>8. PICK hits : hits = Defs(so, x)
    OBVIOUS
  <1>9. ASSUME NEW n \in hits PROVE n \in F /\ GHash(s, n) = h
    BY <1>3, <1>4, <1>6, <1>8, <1>9 DEF Defs, Is, is_symbol_global_and_defined, Hashed, At, GHash
  <1>10. \A n \in 1 .. N : n \in hits <=> t.chain[n] \div 2 = h \div 2 /\ Is(so, n, x)
    <2>1. ASSUME NEW n \in 1 .. N, n \in hits PROVE t.chain[n] \div 2 = h \div 2 /\ Is(so, n, x)
      <3>1. n \in Hashed(s) /\ GHash(s, n) = h
        BY <1>7, <1>9, <2>1
      <3>2. t.chain[n] \div 2 = h \div 2
        BY <1>1, <3>1, GnuTableFacts
      <3>. QED
        BY <1>8, <2>1, <3>2 DEF Defs
    <2>2. ASSUME NEW n \in 1 .. N, Is(so, n, x) PROVE n \in hits
      BY <1>2, <1>8, <2>2 DEF Defs
    <2>. QED
      BY <2>1, <2>2
  <1>11. PICK ends : ends = {n \in 1 .. N : t.chain[n] % 2 = 1}
    OBVIOUS
  <1>. DEFINE E(w) == w = [n \in 1 .. Len(so.symtab) |->
                            IF so.table.chain[n] \div 2 = gnuhash[x] \div 2 /\ Is(so, n, x) THEN n
                            ELSE IF so.table.chain[n] % 2 = 1 THEN 0 ELSE w[n + 1]]
  <1>12. ASSUME NEW w PROVE E(w) <=> GnuEq(w, N, hits, ends)
    <2>1. PICK f : f = [n \in 1 .. N |-> IF t.chain[n] \div 2 = h \div 2 /\ Is(so, n, x) THEN n
                                        ELSE IF t.chain[n] % 2 = 1 THEN 0 ELSE w[n + 1]]
      OBVIOUS
    <2>2. PICK g : g = [n \in 1 .. N |-> IF n \in hits THEN n ELSE IF n \in ends THEN 0 ELSE w[n + 1]]
      OBVIOUS
    <2>3. ASSUME NEW n \in 1 .. N PROVE f[n] = g[n]
      <3>1. n \in ends <=> t.chain[n] % 2 = 1
        BY <1>11
      <3>. QED
        BY <1>10, <2>1, <2>2, <3>1
    <2>4. f = g
      BY <2>1, <2>2, <2>3
    <2>5. E(w) <=> w = f
      BY <1>1, <1>2, <1>3, <2>1
    <2>. QED
      BY <2>2, <2>4, <2>5 DEF GnuEq
  <1>13. CASE F = {}
    <2>1. hits = {} /\ t.bucket[b] = 0
      BY <1>7, <1>9, <1>13, MinOr0Empty
    <2>2. elf_lookup_gnu(so, x) = 0
      BY <1>1, <1>3, <1>4, <1>5, <2>1, Zenon DEF elf_lookup_gnu
    <2>. QED
      BY <1>8, <2>1, <2>2, MinOr0Empty
  <1>14. CASE ~(BloomBit(h) \subseteq t.bloom[BloomWord(h)])
    <2>1. hits = {}
      <3>1. ASSUME NEW n \in hits PROVE FALSE
        <4>1. n \in Hashed(s) /\ GHash(s, n) = h
          BY <1>7, <1>9
        <4>2. BloomBit(h) \subseteq t.bloom[BloomWord(h)]
          BY <1>1, <4>1, GnuTableFacts
        <4>. QED
          BY <1>14, <4>2
      <3>. QED
        BY <3>1
    <2>2. elf_lookup_gnu(so, x) = 0
      BY <1>1, <1>3, <1>14, Zenon DEF elf_lookup_gnu
    <2>. QED
      BY <1>8, <2>1, <2>2, MinOr0Empty
  <1>15. CASE F # {} /\ BloomBit(h) \subseteq t.bloom[BloomWord(h)]
    <2>1. F \subseteq Nat \ {0}
      BY <1>7
    <2>2. PICK a \in F : a = t.bucket[b] /\ a # 0 /\ \A y \in F : a <= y
      BY <1>7, <1>15, <2>1, MinOr0Facts
    <2>3. a \in 1 .. N /\ a \in Hashed(s) /\ At(s, a) = b
      BY <1>6, <1>7, <2>2
    <2>4. N \in DOMAIN s /\ a <= N /\ N + 1 \notin DOMAIN s
      BY <1>2, <2>3
    <2>5. N \in Hashed(s) /\ LastOfBucket(s, N)
      BY <2>3, <2>4, SortedFacts DEF LastOfBucket, Hashed
    <2>6. N \in ends
      BY <1>1, <1>2, <1>11, <2>4, <2>5, GnuTableFacts
    <2>7. GnuEq(GnuFirst(N, hits, ends), N, hits, ends)
      BY <2>6, GnuExists
    <2>8. E(GnuFirst(N, hits, ends))
      BY <1>12, <2>7
    <2>9. PICK w : E(w) /\ elf_lookup_gnu(so, x) = w[a]
      <3>1. so.table.bucket[gnuhash[x] % Cardinality(DOMAIN so.table.bucket)] = a
        BY <1>1, <1>3, <1>4, <1>5, <2>2
      <3>2. BloomBit(gnuhash[x]) \subseteq so.table.bloom[BloomWord(gnuhash[x])]
        BY <1>1, <1>3, <1>15
      <3>. QED
        BY <2>2, <2>8, <3>1, <3>2, Zenon DEF elf_lookup_gnu
    <2>10. GnuEq(w, N, hits, ends)
      BY <1>12, <2>9
    <2>. HIDE DEF E
    <2>11. FirstStop(w, N, hits, ends)
      BY <2>6, <2>10, GnuWalk
    <2>12. PICK S : S = Stops(N, hits, ends, a)
      OBVIOUS
    <2>13. S \subseteq Nat /\ N \in S
      BY <2>3, <2>6, <2>12 DEF Stops
    <2>14. PICK m \in S : m = Min(S) /\ \A y \in S : m <= y
      BY <2>13, MinNat
    <2>15. elf_lookup_gnu(so, x) = HitOr0(hits, m) /\ m \in a .. N /\ m \in hits \cup ends
      BY <2>3, <2>9, <2>11, <2>12, <2>14 DEF FirstStop, Stops
    <2>16. \A y \in hits : m <= y
      <3>1. ASSUME NEW y \in hits PROVE y \in S
        <4>1. y \in F /\ y \in 1 .. N
          BY <1>7, <1>9, <3>1
        <4>2. a <= y /\ y \in a .. N
          BY <2>2, <2>3, <4>1
        <4>. QED
          BY <2>12, <4>2 DEF Stops
      <3>. QED
        BY <2>14, <3>1
    <2>17. CASE m \in hits
      <3>1. hits \subseteq Nat \ {0}
        BY <1>7, <1>9
      <3>2. MinOr0(hits) = m
        BY <2>16, <2>17, <3>1, MinOr0Is
      <3>. QED
        BY <1>8, <2>15, <2>17, <3>2 DEF HitOr0
    <2>18. CASE m \notin hits
      <3>1. m \in ends /\ m \in 1 .. N
        BY <2>3, <2>15, <2>18
      <3>. DEFINE Out == {k \in a .. m : k \notin F}
      <3>2. Out = {}
        <4>1. SUFFICES ASSUME Out # {} PROVE FALSE
          OBVIOUS
        <4>2. Out \subseteq Nat
          BY <2>3
        <4>3. PICK k \in Out : \A y \in Out : k <= y
          <5>. HIDE DEF Out
          <5>. QED
            BY <4>1, <4>2, MinNat
        <4>4. k \in a .. m /\ k \notin F /\ k # a
          BY <2>2
        <4>5. k - 1 \in a .. m /\ k - 1 < m /\ k - 1 < k /\ k - 1 \in 1 .. N
          BY <2>3, <2>15, <4>4
        <4>6. k - 1 \in F
          BY <4>3, <4>5
        <4>7. k - 1 \notin ends
          <5>1. k - 1 \in ends => k - 1 \in S
            BY <2>3, <2>12, <4>5 DEF Stops
          <5>2. k - 1 \notin S
            <6>1. m \in Nat /\ k \in Nat
              BY <2>13, <2>14, <4>2
            <6>2. ~(m <= k - 1)
              BY <4>5, <6>1
            <6>. QED
              BY <2>14, <6>2
          <5>. QED
            BY <5>1, <5>2
        <4>8. k - 1 \in Hashed(s) /\ At(s, k - 1) = b
          BY <1>6, <4>6
        <4>9. ~LastOfBucket(s, k - 1)
          BY <1>1, <1>11, <4>5, <4>7, <4>8, GnuTableFacts
        <4>10. (k - 1) + 1 = k
          BY <4>4, <2>3
        <4>11. k \in Hashed(s) /\ At(s, k) = b
          BY <4>8, <4>9, <4>10 DEF LastOfBucket
        <4>. QED
          BY <1>6, <4>4, <4>11
      <3>3. m \in F
        BY <2>3, <2>15, <3>2
      <3>4. m \in Hashed(s) /\ At(s, m) = b
        BY <1>6, <3>3
      <3>5. LastOfBucket(s, m)
        BY <1>1, <1>11, <3>1, <3>4, GnuTableFacts
      <3>6. ASSUME NEW y \in hits PROVE FALSE
        <4>1. y \in Hashed(s) /\ At(s, y) = b /\ y \in 1 .. N /\ m < y
          BY <1>6, <1>7, <1>9, <2>16, <2>18, <3>1
        <4>2. m + 1 \in DOMAIN s /\ m <= m + 1 /\ m + 1 <= y /\ y \in DOMAIN s
          BY <1>2, <3>1, <4>1
        <4>3. m + 1 \in Hashed(s) /\ At(s, m) <= At(s, m + 1)
          BY <3>4, <4>2, SortedFacts
        <4>4. At(s, m + 1) <= At(s, y)
          BY <4>2, <4>3, SortedFacts
        <4>5. At(s, m + 1) # b /\ At(s, m + 1) \in Nat /\ b \in Nat
          <5>1. At(s, m + 1) \in 0 .. NBucket - 1
            BY <4>2, SymFacts
          <5>. QED
            BY <3>4, <3>5, <4>3, <5>1 DEF LastOfBucket
        <4>. QED
          BY <3>4, <4>1, <4>3, <4>4, <4>5
      <3>7. hits = {}
        BY <3>6
      <3>. QED
        BY <1>8, <2>15, <2>18, <3>7, MinOr0Empty DEF HitOr0
    <2>. QED
      BY <2>17, <2>18
  <1>. QED
    BY <1>13, <1>14, <1>15

LEMMA SysvFileLookup ==
  ASSUME NEW so, NEW s \in Seq(Symbol), so.symtab = s, so.table = SysvTable(s), NEW x \in SymNames
  PROVE  elf_lookup_sysv(so, x) = MinOr0(Defs(so, x))
  <1>1. PICK N \in Nat : N = Len(s) /\ DOMAIN s = 1 .. N
    BY SymFacts
  <1>2. PICK cls : cls = [n \in 1 .. N |-> sysvhash[s[n].name] % NBucket]
    OBVIOUS
  <1>3. PICK b \in 0 .. NBucket - 1 : b = sysvhash[x] % NBucket
    BY HashAssumption, ModRange
  <1>4. /\ so.table.bucket = [c \in 0 .. NBucket - 1 |-> MinOr0(SysvBucket(s, c))]
        /\ so.table.chain = [n \in DOMAIN s |-> MinOr0({k \in SysvBucket(s, sysvhash[s[n].name] % NBucket) : k > n})]
    BY DEF SysvTable
  <1>5. \A n \in 1 .. N : so.table.chain[n] = MinOr0(LaterIn(N, cls, n))
    <2>1. ASSUME NEW n \in 1 .. N PROVE {k \in SysvBucket(s, sysvhash[s[n].name] % NBucket) : k > n} = LaterIn(N, cls, n)
      BY <1>1, <1>2 DEF SysvBucket, LaterIn
    <2>. QED
      BY <1>1, <1>4, <2>1
  <1>6. PICK t : t = so.table.bucket
    OBVIOUS
  <1>61. DOMAIN t = 0 .. NBucket - 1 /\ NBucket \in Nat \ {0} /\ t[b] = MinOr0(SysvBucket(s, b))
    BY <1>3, <1>4, <1>6, HashAssumption
  <1>62. Cardinality(DOMAIN t) = NBucket
    BY <1>61, FS_Interval
  <1>63. SysvBucket(s, b) = {n \in 1 .. N : cls[n] = b}
    BY <1>1, <1>2 DEF SysvBucket
  <1>64. t[sysvhash[x] % Cardinality(DOMAIN t)] = t[b]
    BY <1>3, <1>62
  <1>7. so.table.bucket[sysvhash[x] % Cardinality(DOMAIN so.table.bucket)] = MinOr0({n \in 1 .. N : cls[n] = b})
    BY <1>6, <1>61, <1>63, <1>64
  <1>8. \A n \in Defs(so, x) : cls[n] = b
    BY <1>1, <1>2, <1>3 DEF Defs, Is
  <1>9. SysvOK(so, x, N, cls, b)
    BY <1>1, <1>5, <1>7, <1>8 DEF SysvOK
  <1>. QED
    BY <1>9, SysvLookup

LEMMA FileLookup ==
  ASSUME NEW so, NEW f \in Fs, so.symtab = FileOf[f].symtab, so.table = HashTable(so.symtab, FileOf[f].tags),
         NEW x \in SymNames
  PROVE  elf_lookup(so, x) = MinOr0(Defs(so, x))
  <1>1. PICK s \in Seq(Symbol) : s = so.symtab /\ s = FileOf[f].symtab
    BY WorldAssumption
  <1>2. CASE "DT_GNU_HASH" \in FileOf[f].tags
    <2>1. so.table = GnuTable(s) /\ SortedForGnu(s)
      BY <1>1, <1>2, WorldAssumption DEF HashTable
    <2>2. so.table.style = "gnu"
      BY <2>1 DEF GnuTable
    <2>. QED
      BY <1>1, <2>1, <2>2, GnuLookup DEF elf_lookup, is_gnu_hash
  <1>3. CASE "DT_GNU_HASH" \notin FileOf[f].tags
    <2>1. so.table = SysvTable(s)
      BY <1>1, <1>3 DEF HashTable
    <2>2. so.table.style = "sysv"
      BY <2>1 DEF SysvTable
    <2>. QED
      BY <1>1, <2>1, <2>2, SysvFileLookup DEF elf_lookup, is_gnu_hash
  <1>. QED
    BY <1>2, <1>3

(* The table of libdl: one bucket, each entry leads to the next one.       *)
LEMMA LibdlLookup ==
  ASSUME NEW x \in SymNames
  PROVE  elf_lookup(libdl_info, x) = MinOr0(Defs(libdl_info, x))
  <1>1. /\ libdl_info.symtab = libdl_symtab /\ libdl_info.table.style = "sysv"
        /\ libdl_info.table.bucket = [b \in {0} |-> 1] /\ libdl_info.table.chain = libdl_chains
    BY DEF libdl_info
  <1>2. DOMAIN libdl_symtab = 1 .. 6 /\ Len(libdl_symtab) = 6
    BY DEF libdl_symtab
  <1>3. PICK cls : cls = [n \in 1 .. 6 |-> 0]
    OBVIOUS
  <1>4. ASSUME NEW n \in 1 .. 6 PROVE libdl_chains[n] = MinOr0(LaterIn(6, cls, n))
    <2>1. PICK L : L = LaterIn(6, cls, n)
      OBVIOUS
    <2>2. L = {k \in 1 .. 6 : k > n} /\ L \subseteq Nat \ {0}
      BY <1>3, <2>1 DEF LaterIn
    <2>3. CASE n = 6
      <3>1. L = {}
        BY <2>2, <2>3
      <3>2. libdl_chains[6] = 0
        BY DEF libdl_chains
      <3>. QED
        BY <2>1, <2>3, <3>1, <3>2, MinOr0Empty
    <2>4. CASE n # 6
      <3>1. n + 1 \in L /\ \A y \in L : n + 1 <= y
        BY <2>2, <2>4
      <3>2. MinOr0(L) = n + 1
        BY <2>2, <3>1, MinOr0Is
      <3>3. n = 1 \/ n = 2 \/ n = 3 \/ n = 4 \/ n = 5
        BY <2>4
      <3>4. libdl_chains[n] = n + 1
        BY <3>3 DEF libdl_chains
      <3>. QED
        BY <2>1, <3>2, <3>4
    <2>. QED
      BY <2>3, <2>4
  <1>5. Cardinality(DOMAIN libdl_info.table.bucket) = 1
    <2>1. DOMAIN libdl_info.table.bucket = {0}
      BY <1>1
    <2>. QED
      BY <2>1, FS_Singleton
  <1>6. sysvhash[x] % 1 = 0
    <2>1. sysvhash[x] \in Nat
      BY HashAssumption
    <2>. QED
      BY <2>1
  <1>7. libdl_info.table.bucket[sysvhash[x] % Cardinality(DOMAIN libdl_info.table.bucket)]
          = MinOr0({n \in 1 .. 6 : cls[n] = 0})
    <2>1. PICK B : B = {n \in 1 .. 6 : cls[n] = 0}
      OBVIOUS
    <2>2. B \subseteq Nat \ {0} /\ 1 \in B /\ \A y \in B : 1 <= y
      BY <1>3, <2>1
    <2>3. MinOr0(B) = 1
      BY <2>2, MinOr0Is
    <2>. QED
      BY <1>1, <1>5, <1>6, <2>1, <2>3
  <1>8. \A n \in Defs(libdl_info, x) : cls[n] = 0
    BY <1>1, <1>2, <1>3 DEF Defs
  <1>9. PICK so : so = libdl_info
    OBVIOUS
  <1>10. PICK N \in Nat : N = 6
    OBVIOUS
  <1>11. SysvOK(so, x, N, cls, 0)
    BY <1>1, <1>2, <1>4, <1>7, <1>8, <1>9, <1>10 DEF SysvOK
  <1>12. elf_lookup_sysv(so, x) = MinOr0(Defs(so, x))
    BY <1>11, SysvLookup
  <1>. QED
    BY <1>1, <1>9, <1>12 DEF elf_lookup, is_gnu_hash

-----------------------------------------------------------------------------
(* The search path.                                                        *)

StartEq(st, p, n) == st = [j \in 1 .. n + 1 |-> IF j = 1 THEN 0 ELSE st[j - 1] + p[j - 1].len + 1]

LEMMA StartLonger ==
  ASSUME NEW p, NEW n \in Nat, NEW g, StartEq(g, p, n)
  PROVE  \E h : StartEq(h, p, n + 1)
  <1>1. \A j \in 1 .. n + 1 : g[j] = IF j = 1 THEN 0 ELSE g[j - 1] + p[j - 1].len + 1
    BY DEF StartEq
  <1>2. PICK h : h = [j \in 1 .. n + 2 |-> IF j = n + 2 THEN g[n + 1] + p[n + 1].len + 1 ELSE g[j]]
    OBVIOUS
  <1>3. ASSUME NEW j \in 1 .. n + 2 PROVE h[j] = IF j = 1 THEN 0 ELSE h[j - 1] + p[j - 1].len + 1
    <2>1. CASE j = n + 2
      <3>1. h[j] = g[n + 1] + p[n + 1].len + 1 /\ h[n + 1] = g[n + 1] /\ j # 1 /\ j - 1 = n + 1
        BY <1>2, <2>1
      <3>. QED
        BY <3>1
    <2>2. CASE j # n + 2
      <3>1. j \in 1 .. n + 1 /\ (j # 1 => j - 1 \in 1 .. n + 1 /\ j - 1 # n + 2)
        BY <2>2
      <3>2. h[j] = g[j] /\ (j # 1 => h[j - 1] = g[j - 1])
        BY <1>2, <2>2, <3>1
      <3>. QED
        BY <1>1, <3>1, <3>2
    <2>. QED
      BY <2>1, <2>2
  <1>4. PICK f : f = [j \in 1 .. n + 2 |-> IF j = 1 THEN 0 ELSE h[j - 1] + p[j - 1].len + 1]
    OBVIOUS
  <1>5. \A j \in 1 .. n + 2 : f[j] = h[j]
    BY <1>3, <1>4
  <1>6. f = h
    BY <1>2, <1>4, <1>5
  <1>7. (n + 1) + 1 = n + 2
    OBVIOUS
  <1>8. StartEq(h, p, n + 1)
    BY <1>4, <1>6, <1>7 DEF StartEq
  <1>. QED
    BY <1>8

LEMMA StartExists ==
  ASSUME NEW p, NEW n \in Nat
  PROVE  \E g : StartEq(g, p, n)
  <1>. DEFINE Bad == {k \in Nat : ~\E g : StartEq(g, p, k)}
  <1>1. SUFFICES ASSUME Bad # {} PROVE FALSE
    OBVIOUS
  <1>2. PICK m \in Bad : \A y \in Bad : m <= y
    <2>1. Bad \subseteq Nat
      OBVIOUS
    <2>. HIDE DEF Bad
    <2>. QED
      BY <1>1, <2>1, MinNat
  <1>3. StartEq([j \in 1 .. 1 |-> 0], p, 0)
    <2>1. PICK g : g = [j \in 1 .. 1 |-> 0]
      OBVIOUS
    <2>2. PICK f : f = [j \in 1 .. 0 + 1 |-> IF j = 1 THEN 0 ELSE g[j - 1] + p[j - 1].len + 1]
      OBVIOUS
    <2>3. 0 + 1 = 1 /\ \A j \in 1 .. 1 : j = 1
      OBVIOUS
    <2>4. \A j \in 1 .. 1 : f[j] = 0 /\ g[j] = 0
      BY <2>1, <2>2, <2>3
    <2>5. f = g
      BY <2>1, <2>2, <2>3, <2>4
    <2>. QED
      BY <2>1, <2>2, <2>5 DEF StartEq
  <1>4. m # 0 /\ m \in Nat
    BY <1>3
  <1>5. m - 1 \in Nat /\ (m - 1) + 1 = m /\ ~(m <= m - 1)
    BY <1>4
  <1>6. m - 1 \notin Bad
    BY <1>2, <1>5
  <1>7. PICK g : StartEq(g, p, m - 1)
    BY <1>5, <1>6
  <1>8. \E h : StartEq(h, p, m)
    BY <1>5, <1>7, StartLonger
  <1>. QED
    BY <1>2, <1>8

(* Component k starts behind all of component j and its delimiter.         *)
Follows(p, j, k) == Start(p, j) + p[j].len + 1 <= Start(p, k)

PathOK(p) == Len(p) \in Nat /\ DOMAIN p = 1 .. Len(p) /\ \A k \in 1 .. Len(p) : p[k].len \in Nat

LEMMA StartFacts ==
  ASSUME NEW p, PathOK(p), NEW N \in Nat, N = Len(p)
  PROVE  /\ Start(p, 1) = 0
         /\ \A k \in 1 .. N : Start(p, k + 1) = Start(p, k) + p[k].len + 1
         /\ \A k \in 1 .. N + 1 : Start(p, k) \in Nat
  <1>1. PICK st : StartEq(st, p, N) /\ \A k : Start(p, k) = st[k]
    <2>1. \E g : g = [j \in 1 .. Len(p) + 1 |-> IF j = 1 THEN 0 ELSE g[j - 1] + p[j - 1].len + 1]
      BY StartExists DEF StartEq
    <2>2. PICK st : st = (CHOOSE g : g = [j \in 1 .. Len(p) + 1 |-> IF j = 1 THEN 0 ELSE g[j - 1] + p[j - 1].len + 1])
      OBVIOUS
    <2>3. st = [j \in 1 .. Len(p) + 1 |-> IF j = 1 THEN 0 ELSE st[j - 1] + p[j - 1].len + 1]
      BY <2>1, <2>2, Zenon
    <2>4. \A k : Start(p, k) = st[k]
      BY <2>2, Zenon DEF Start
    <2>. QED
      BY <2>3, <2>4 DEF StartEq
  <1>2. Start(p, 1) = 0
    <2>1. 1 \in 1 .. N + 1
      OBVIOUS
    <2>2. st[1] = 0
      BY <1>1, <2>1 DEF StartEq
    <2>. QED
      BY <1>1, <2>2
  <1>3. ASSUME NEW k \in 1 .. N PROVE Start(p, k + 1) = Start(p, k) + p[k].len + 1
    <2>1. k + 1 \in 1 .. N + 1 /\ k + 1 # 1 /\ (k + 1) - 1 = k
      OBVIOUS
    <2>2. st[k + 1] = st[(k + 1) - 1] + p[(k + 1) - 1].len + 1
      BY <1>1, <2>1 DEF StartEq
    <2>. QED
      BY <1>1, <2>1, <2>2
  <1>. DEFINE Bad == {k \in Nat : k \in 1 .. N + 1 /\ Start(p, k) \notin Nat}
  <1>4. Bad = {}
    <2>1. SUFFICES ASSUME Bad # {} PROVE FALSE
      OBVIOUS
    <2>2. PICK m \in Bad : \A y \in Bad : m <= y
      <3>1. Bad \subseteq Nat
        OBVIOUS
      <3>. HIDE DEF Bad
      <3>. QED
        BY <2>1, <3>1, MinNat
    <2>3. m \in 1 .. N + 1 /\ m # 1 /\ Start(p, m) \notin Nat
      BY <1>2
    <2>4. m - 1 \in 1 .. N /\ m - 1 \in Nat /\ ~(m <= m - 1) /\ (m - 1) + 1 = m /\ m - 1 \in 1 .. N + 1
      BY <2>3
    <2>5. m - 1 \notin Bad
      BY <2>2, <2>4
    <2>6. Start(p, m - 1) \in Nat
      BY <2>4, <2>5
    <2>7. Start(p, m) = Start(p, m - 1) + p[m - 1].len + 1
      BY <1>3, <2>4
    <2>8. p[m - 1].len \in Nat
      BY <2>4 DEF PathOK
    <2>. QED
      BY <2>3, <2>6, <2>7, <2>8
  <1>. QED
    BY <1>2, <1>3, <1>4

LEMMA StartOrder ==
  ASSUME NEW p, PathOK(p), NEW j \in 1 .. Len(p), NEW k \in 1 .. Len(p) + 1, j < k
  PROVE  Follows(p, j, k)
  <1>0. PICK N \in Nat : N = Len(p)
    BY DEF PathOK
  <1>. DEFINE Bad == {i \in Nat : j < i /\ i <= N + 1 /\ ~Follows(p, j, i)}
  <1>1. SUFFICES ASSUME Bad # {} PROVE FALSE
    <2>1. k \in Nat /\ k <= N + 1 /\ k \notin Bad
      BY <1>0, <1>1
    <2>. QED
      BY <2>1
  <1>2. PICK m \in Bad : \A y \in Bad : m <= y
    <2>1. Bad \subseteq Nat
      OBVIOUS
    <2>. HIDE DEF Bad
    <2>. QED
      BY <1>1, <2>1, MinNat
  <1>3. m \in Nat /\ j < m /\ m <= N + 1 /\ ~Follows(p, j, m)
    OBVIOUS
  <1>4. m - 1 \in 1 .. N /\ (m - 1) + 1 = m /\ j <= m - 1 /\ ~(m <= m - 1)
    BY <1>0, <1>3
  <1>5. /\ Start(p, m) = Start(p, m - 1) + p[m - 1].len + 1 /\ Start(p, m - 1) \in Nat
        /\ Start(p, j) \in Nat /\ p[m - 1].len \in Nat /\ p[j].len \in Nat
    <2>1. m - 1 \in 1 .. N + 1 /\ j \in 1 .. N + 1
      BY <1>0, <1>4
    <2>. QED
      BY <1>0, <1>4, <2>1, StartFacts DEF PathOK
  <1>6. m - 1 \notin Bad
    BY <1>2, <1>4
  <1>7. j = m - 1 \/ Follows(p, j, m - 1)
    BY <1>3, <1>4, <1>6
  <1>. HIDE DEF Bad
  <1>8. PICK a \in Nat, b \in Nat, c \in Nat, d \in Nat :
          a = Start(p, m - 1) /\ b = Start(p, j) /\ c = p[m - 1].len /\ d = p[j].len
    BY <1>5
  <1>9. Start(p, m) = a + c + 1
    BY <1>5, <1>8
  <1>10. ~(b + d + 1 <= a + c + 1)
    BY <1>3, <1>8, <1>9 DEF Follows
  <1>11. CASE j = m - 1
    <2>1. b = a /\ d = c
      BY <1>8, <1>11
    <2>. QED
      BY <1>10, <2>1
  <1>12. CASE Follows(p, j, m - 1)
    <2>1. b + d + 1 <= a
      BY <1>8, <1>12 DEF Follows
    <2>. QED
      BY <1>10, <2>1
  <1>. QED
    BY <1>7, <1>11, <1>12

(* The members of a set in order.                                          *)
Below(S, k) == {j \in S : j < k}
UpTo(S, k) == {j \in S : j <= k}

LEMMA BelowFinite ==
  ASSUME NEW S, IsFiniteSet(S), S \subseteq Nat, NEW k
  PROVE  IsFiniteSet(Below(S, k)) /\ Cardinality(Below(S, k)) \in Nat /\ Cardinality(S) \in Nat
         /\ Cardinality(Below(S, k)) <= Cardinality(S)
  <1>1. Below(S, k) \subseteq S
    BY DEF Below
  <1>. QED
    BY <1>1, FS_Subset, FS_CardinalityType

LEMMA BelowOne ==
  ASSUME NEW S, IsFiniteSet(S), S \subseteq Nat, NEW k \in S
  PROVE  UpTo(S, k) = Below(S, k) \cup {k} /\ Cardinality(UpTo(S, k)) = Cardinality(Below(S, k)) + 1
  <1>0. k \in Nat /\ \A j \in S : j \in Nat
    OBVIOUS
  <1>1. UpTo(S, k) = Below(S, k) \cup {k}
    <2>1. \A j \in S : j <= k <=> j < k \/ j = k
      BY <1>0
    <2>. QED
      BY <2>1 DEF Below, UpTo
  <1>2. k \notin Below(S, k)
    BY <1>0 DEF Below
  <1>3. IsFiniteSet(Below(S, k))
    BY BelowFinite
  <1>. QED
    BY <1>1, <1>2, <1>3, FS_AddElement

IsNth(S, n, k) == k \in S /\ Cardinality(Below(S, k)) = n - 1

LEMMA NthExists ==
  ASSUME NEW S, IsFiniteSet(S), S \subseteq Nat, NEW n \in 1 .. Cardinality(S)
  PROVE  IsNth(S, n, Nth(S, n))
  <1>0. PICK C \in Nat : C = Cardinality(S)
    BY FS_CardinalityType
  <1>. DEFINE Bad == {i \in Nat : i \in 1 .. C /\ ~\E k \in S : IsNth(S, i, k)}
  <1>1. Bad = {}
    <2>1. SUFFICES ASSUME Bad # {} PROVE FALSE
      OBVIOUS
    <2>2. PICK m \in Bad : \A y \in Bad : m <= y
      <3>1. Bad \subseteq Nat
        OBVIOUS
      <3>. HIDE DEF Bad
      <3>. QED
        BY <2>1, <3>1, MinNat
    <2>3. m \in 1 .. C /\ (~\E k \in S : IsNth(S, m, k)) /\ m \in Nat
      OBVIOUS
    <2>4. CASE m = 1
      <3>1. S # {}
        BY <1>0, <2>3, FS_EmptySet
      <3>2. PICK k \in S : \A y \in S : k <= y
        BY <3>1, MinNat
      <3>3. Below(S, k) = {}
        <4>1. k \in Nat /\ \A j \in S : j \in Nat /\ k <= j
          BY <3>2
        <4>2. \A j \in S : ~(j < k)
          BY <4>1
        <4>. QED
          BY <4>2 DEF Below
      <3>4. IsNth(S, 1, k)
        BY <3>3, FS_EmptySet DEF IsNth
      <3>. QED
        BY <2>3, <2>4, <3>4
    <2>5. CASE m # 1
      <3>1. m - 1 \in 1 .. C /\ m - 1 \in Nat /\ ~(m <= m - 1)
        BY <2>3, <2>5
      <3>2. m - 1 \notin Bad
        BY <2>2, <3>1
      <3>3. PICK k \in S : IsNth(S, m - 1, k)
        BY <3>1, <3>2
      <3>4. PICK U : U = {j \in S : j > k}
        OBVIOUS
      <3>5. Cardinality(UpTo(S, k)) = m - 1
        <4>1. Cardinality(Below(S, k)) = m - 2
          BY <2>3, <3>3 DEF IsNth
        <4>. QED
          <5>1. Cardinality(UpTo(S, k)) = Cardinality(Below(S, k)) + 1
            BY BelowOne
          <5>. QED
            BY <2>3, <4>1, <5>1
      <3>6. U # {}
        <4>1. ASSUME U = {} PROVE FALSE
          <5>1. UpTo(S, k) = S
            <6>1. k \in Nat /\ \A j \in S : j \in Nat /\ ~(j > k)
              BY <3>4, <4>1
            <6>2. \A j \in S : j <= k
              BY <6>1
            <6>. QED
              BY <6>2 DEF UpTo
          <5>. QED
            BY <1>0, <2>3, <3>5, <5>1
        <4>. QED
          BY <4>1
      <3>7. PICK q \in U : \A y \in U : q <= y
        <4>1. U \subseteq Nat
          BY <3>4
        <4>. QED
          BY <3>6, <4>1, MinNat
      <3>8. q \in S /\ q > k
        BY <3>4, <3>7
      <3>9. Below(S, q) = UpTo(S, k)
        <4>1. ASSUME NEW j \in S PROVE j < q <=> j <= k
          <5>1. j \in Nat /\ k \in Nat /\ q \in Nat
            BY <3>8
          <5>2. j > k => q <= j
            BY <3>4, <3>7
          <5>. QED
            BY <3>8, <5>1, <5>2
        <4>. QED
          BY <4>1 DEF Below, UpTo
      <3>10. IsNth(S, m, q)
        BY <3>5, <3>8, <3>9 DEF IsNth
      <3>. QED
        BY <2>3, <3>8, <3>10
    <2>. QED
      BY <2>4, <2>5
  <1>2. \E k \in S : IsNth(S, n, k)
    <2>1. n \in 1 .. C /\ n \in Nat /\ n \notin Bad
      BY <1>0, <1>1
    <2>. QED
      BY <2>1
  <1>3. \E k \in S : Cardinality({j \in S : j < k}) = n - 1
    BY <1>2 DEF IsNth, Below
  <1>4. Nth(S, n) \in S /\ Cardinality({j \in S : j < Nth(S, n)}) = n - 1
    BY <1>3, Zenon DEF Nth
  <1>. QED
    BY <1>4 DEF IsNth, Below

LEMMA MinTwo ==
  ASSUME NEW a \in Int, NEW b \in Int
  PROVE  Min({a, b}) = IF a <= b THEN a ELSE b
  <1>1. PICK m \in {a, b} : \A y \in {a, b} : m <= y
    <2>1. CASE a <= b
      BY <2>1
    <2>2. CASE ~(a <= b)
      BY <2>2
    <2>. QED
      BY <2>1, <2>2
  <1>2. Min({a, b}) \in {a, b} /\ \A y \in {a, b} : Min({a, b}) <= y
    BY <1>1 DEF Min
  <1>. QED
    BY <1>2

NonEmptyAt(p) == {k \in DOMAIN p : p[k].len > 0}

(* What strsep sees of the components in the copy of the string.           *)
LEMMA FoundFacts ==
  ASSUME NEW p, PathOK(p), Len(p) # 0
  PROVE  /\ StrLen(p) \in Nat /\ Copied(p) \in Nat
         /\ Copied(p) = IF StrLen(p) <= LDPATH_BUFSIZE - 1 THEN StrLen(p) ELSE LDPATH_BUFSIZE - 1
         /\ Found(p) \subseteq NonEmptyAt(p) /\ NonEmptyAt(p) \subseteq 1 .. Len(p)
         /\ \A k \in 1 .. Len(p) : /\ Start(p, k) \in Nat /\ p[k].len \in Nat /\ Start(p, k) + p[k].len <= StrLen(p)
                                  /\ (k \in Found(p) <=> p[k].len > 0 /\ Start(p, k) < Copied(p))
                                  /\ (Visible(p, k) = p[k].len <=> Start(p, k) + p[k].len <= Copied(p))
  <1>0. PICK N \in Nat : N = Len(p) /\ N # 0 /\ DOMAIN p = 1 .. N
    BY DEF PathOK
  <1>1. N + 1 \in 1 .. N + 1 /\ \A k \in 1 .. N : k \in 1 .. N + 1 /\ k < N + 1
    OBVIOUS
  <1>2. PICK e \in Nat : e = Start(p, N + 1)
    BY <1>0, <1>1, StartFacts
  <1>3. ASSUME NEW k \in 1 .. N PROVE Start(p, k) \in Nat /\ p[k].len \in Nat /\ Start(p, k) + p[k].len + 1 <= e
    <2>1. Follows(p, k, N + 1)
      BY <1>0, <1>1, StartOrder
    <2>. QED
      BY <1>0, <1>1, <1>2, <2>1, StartFacts DEF Follows, PathOK
  <1>4. StrLen(p) = e - 1 /\ e - 1 \in Nat
    <2>1. 1 \in 1 .. N
      BY <1>0
    <2>. QED
      BY <1>0, <1>2, <1>3, <2>1 DEF StrLen
  <1>5. PICK B \in Nat : B = LDPATH_BUFSIZE /\ B > 2
    BY BoundsAssumption
  <1>6. Copied(p) = (IF e - 1 <= B - 1 THEN e - 1 ELSE B - 1) /\ Copied(p) \in Nat
    BY <1>4, <1>5, MinTwo DEF Copied
  <1>7. PICK c \in Nat : c = Copied(p)
    BY <1>6
  <1>8. ASSUME NEW k \in 1 .. N
        PROVE  /\ (Visible(p, k) > 0 <=> p[k].len > 0 /\ Start(p, k) < c)
               /\ (Visible(p, k) = p[k].len <=> Start(p, k) + p[k].len <= c)
    <2>1. PICK a \in Nat : a = Start(p, k)
      BY <1>3
    <2>2. PICK l \in Nat : l = p[k].len
      BY <1>3
    <2>3. Visible(p, k) = IF l <= c - a THEN l ELSE c - a
      <3>1. c - a \in Int /\ l \in Int
        OBVIOUS
      <3>. QED
        BY <1>7, <2>1, <2>2, <3>1, MinTwo DEF Visible
    <2>. QED
      BY <2>1, <2>2, <2>3
  <1>9. \A k \in 1 .. N : k \in Found(p) <=> p[k].len > 0 /\ Start(p, k) < c
    BY <1>0, <1>8 DEF Found
  <1>10. Found(p) \subseteq NonEmptyAt(p) /\ NonEmptyAt(p) \subseteq 1 .. N
    BY <1>0, <1>9 DEF NonEmptyAt, Found
  <1>11. ASSUME NEW k \in 1 .. N PROVE Start(p, k) + p[k].len <= StrLen(p)
    BY <1>3, <1>4
  <1>. QED
    BY <1>0, <1>3, <1>4, <1>5, <1>6, <1>7, <1>8, <1>9, <1>10, <1>11

(* A set of components is taken up to some point.                          *)
Initial(T, S) == T \subseteq S /\ \A k \in T : \A j \in S : j < k => j \in T

LEMMA FoundInitial ==
  ASSUME NEW p, PathOK(p), Len(p) # 0
  PROVE  Initial(Found(p), NonEmptyAt(p))
  <1>1. ASSUME NEW k \in Found(p), NEW j \in NonEmptyAt(p), j < k PROVE j \in Found(p)
    <2>1. j \in 1 .. Len(p) /\ k \in 1 .. Len(p) /\ k \in 1 .. Len(p) + 1 /\ p[j].len > 0 /\ Len(p) \in Nat
      <3>1. j \in 1 .. Len(p) /\ k \in 1 .. Len(p) /\ Len(p) \in Nat
        BY FoundFacts DEF PathOK
      <3>. QED
        BY <3>1 DEF NonEmptyAt
    <2>2. Follows(p, j, k)
      BY <1>1, <2>1, StartOrder
    <2>3. /\ Start(p, j) \in Nat /\ Start(p, k) \in Nat /\ p[j].len \in Nat /\ Copied(p) \in Nat
          /\ Start(p, k) < Copied(p)
      BY <2>1, FoundFacts
    <2>4. Start(p, j) < Copied(p)
      BY <2>2, <2>3 DEF Follows
    <2>. QED
      BY <2>1, <2>4, FoundFacts
  <1>. QED
    BY <1>1, FoundFacts DEF Initial

(* A component that is cut is the last one found, and is then forgotten.   *)
LEMMA CutIsLast ==
  ASSUME NEW p, PathOK(p), Len(p) # 0, NEW k \in Found(p), Visible(p, k) # p[k].len
  PROVE  (\A j \in Found(p) : j <= k) /\ Truncated(p) /\ ~SecondToLastIsNul(p)
  <1>0. PICK N \in Nat : N = Len(p) /\ DOMAIN p = 1 .. N
    BY DEF PathOK
  <1>1. PICK c \in Nat : c = Copied(p)
    BY FoundFacts
  <1>2. PICK B \in Nat : B = LDPATH_BUFSIZE /\ B > 2
    BY BoundsAssumption
  <1>3. /\ k \in 1 .. N /\ k \in 1 .. N + 1 /\ Start(p, k) \in Nat /\ p[k].len \in Nat /\ Start(p, k) < c
        /\ c < Start(p, k) + p[k].len /\ Start(p, k) + p[k].len <= StrLen(p) /\ StrLen(p) \in Nat
    <2>1. k \in 1 .. N
      BY <1>0, FoundFacts
    <2>2. /\ Start(p, k) \in Nat /\ p[k].len \in Nat /\ Start(p, k) < c /\ Start(p, k) + p[k].len <= StrLen(p)
          /\ StrLen(p) \in Nat /\ ~(Start(p, k) + p[k].len <= c)
      BY <1>0, <1>1, <2>1, FoundFacts
    <2>. QED
      BY <2>1, <2>2
  <1>4. c = B - 1 /\ StrLen(p) >= B
    <2>1. c = IF StrLen(p) <= B - 1 THEN StrLen(p) ELSE B - 1
      BY <1>1, <1>2, FoundFacts
    <2>. QED
      BY <1>2, <1>3, <2>1
  <1>5. ASSUME NEW j \in 1 .. N
        PROVE  /\ Start(p, j) \in Nat /\ p[j].len \in Nat
               /\ j > k => Start(p, j) > c
               /\ j < k => Start(p, j) + p[j].len + 1 <= Start(p, k)
    <2>1. Start(p, j) \in Nat /\ p[j].len \in Nat /\ j \in 1 .. N + 1
      BY <1>0, FoundFacts
    <2>2. CASE j > k
      <3>1. Follows(p, k, j)
        BY <1>0, <1>3, <2>1, <2>2, StartOrder
      <3>. QED
        BY <1>3, <2>1, <2>2, <3>1 DEF Follows
    <2>3. CASE j < k
      <3>1. Follows(p, j, k)
        BY <1>0, <1>3, <2>1, <2>3, StartOrder
      <3>. QED
        BY <1>3, <2>1, <2>3, <3>1 DEF Follows
    <2>. QED
      BY <2>1, <2>2, <2>3
  <1>6. ASSUME NEW j \in Found(p) PROVE j <= k
    <2>1. j \in 1 .. N /\ Start(p, j) < c
      BY <1>0, <1>1, FoundFacts
    <2>. QED
      BY <1>3, <1>5, <2>1
  <1>7. ASSUME NEW j \in 1 .. N PROVE Start(p, j) + p[j].len # B - 2
    BY <1>2, <1>3, <1>4, <1>5
  <1>. QED
    BY <1>0, <1>2, <1>4, <1>6, <1>7 DEF Truncated, SecondToLastIsNul

LEMMA TakenFacts ==
  ASSUME NEW p, PathOK(p), Len(p) # 0
  PROVE  /\ Taken(p) \subseteq 1 .. Len(p) /\ IsFiniteSet(Taken(p)) /\ Taken(p) \subseteq Found(p)
         /\ Initial(Taken(p), NonEmptyAt(p))
         /\ Cardinality(Taken(p)) \in Nat /\ Cardinality(Taken(p)) <= LDPATH_MAX
  <1>0. PICK N \in Nat : N = Len(p) /\ DOMAIN p = 1 .. N
    BY DEF PathOK
  <1>1. PICK F : F = Found(p)
    OBVIOUS
  <1>2. F \subseteq 1 .. N /\ F \subseteq Nat /\ IsFiniteSet(F)
    <2>1. F \subseteq 1 .. N
      BY <1>0, <1>1, FoundFacts
    <2>2. IsFiniteSet(1 .. N) /\ 1 .. N \subseteq Nat
      BY FS_Interval
    <2>. QED
      BY <2>1, <2>2, FS_Subset
  <1>3. PICK T : T = Taken(p)
    OBVIOUS
  <1>4. T = {k \in F : Cardinality(Below(F, k)) < LDPATH_MAX}
    BY <1>1, <1>3 DEF Taken, Below
  <1>5. T \subseteq F /\ T \subseteq 1 .. N /\ T \subseteq Nat /\ IsFiniteSet(T)
    BY <1>2, <1>4, FS_Subset
  <1>6. LDPATH_MAX \in Nat \ {0}
    BY BoundsAssumption
  <1>7. ASSUME NEW k \in T, NEW j \in F, j < k PROVE j \in T
    <2>1. k \in F /\ Cardinality(Below(F, k)) < LDPATH_MAX /\ \A i \in F : i \in Nat
      BY <1>2, <1>4, <1>7
    <2>2. Below(F, j) \subseteq Below(F, k)
      <3>1. ASSUME NEW i \in F, i < j PROVE i < k
        BY <1>7, <2>1, <3>1
      <3>. QED
        BY <3>1 DEF Below
    <2>3. IsFiniteSet(Below(F, k)) /\ Cardinality(Below(F, k)) \in Nat
      BY <1>2, BelowFinite
    <2>4. Cardinality(Below(F, j)) \in Nat /\ Cardinality(Below(F, j)) <= Cardinality(Below(F, k))
      <3>1. Cardinality(Below(F, j)) \in Nat
        BY <1>2, BelowFinite
      <3>2. Cardinality(Below(F, j)) <= Cardinality(Below(F, k))
        BY <2>2, <2>3, FS_Subset
      <3>. QED
        BY <3>1, <3>2
    <2>5. Cardinality(Below(F, j)) < LDPATH_MAX
      BY <1>6, <2>1, <2>3, <2>4
    <2>. QED
      BY <1>4, <2>5
  <1>8. ASSUME NEW k \in T, NEW j \in NonEmptyAt(p), j < k PROVE j \in T
    <2>1. j \in F
      BY <1>1, <1>5, <1>8, FoundInitial DEF Initial
    <2>. QED
      BY <1>7, <1>8, <2>1
  <1>9. Initial(T, NonEmptyAt(p))
    <2>1. T \subseteq NonEmptyAt(p)
      BY <1>1, <1>5, FoundFacts
    <2>. QED
      BY <1>8, <2>1 DEF Initial
  <1>10. Cardinality(T) \in Nat
    BY <1>5, FS_CardinalityType
  <1>11. Cardinality(T) <= LDPATH_MAX
    <2>1. CASE T = {}
      BY <1>6, <2>1, FS_EmptySet
    <2>2. CASE T # {}
      <3>1. T \subseteq Int
        BY <1>5
      <3>2. PICK k \in T : \A y \in T : y <= k
        BY <1>5, <2>2, <3>1, MaxFacts
      <3>3. T = UpTo(T, k)
        BY <3>2 DEF UpTo
      <3>4. Cardinality(T) = Cardinality(Below(T, k)) + 1
        BY <1>5, <3>3, BelowOne
      <3>5. Below(T, k) = Below(F, k)
        BY <1>5, <1>7 DEF Below
      <3>6. Cardinality(Below(F, k)) < LDPATH_MAX /\ Cardinality(Below(F, k)) \in Nat
        <4>1. Cardinality(Below(F, k)) < LDPATH_MAX
          BY <1>4
        <4>. QED
          BY <1>2, <4>1, BelowFinite
      <3>. QED
        BY <1>6, <3>4, <3>5, <3>6
    <2>. QED
      BY <2>1, <2>2
  <1>. QED
    BY <1>0, <1>1, <1>3, <1>5, <1>9, <1>10, <1>11

(* The entries of the path, and which component each one is.               *)
Whole(p, q) ==
  \A n \in DOMAIN q : \E k \in DOMAIN p :
    /\ p[k].len > 0 /\ p[k].dir = q[n]
    /\ Cardinality({j \in 1 .. k : p[j].len > 0}) = n

LEMMA AllEntries ==
  ASSUME NEW p \in PathStrings
  PROVE  PathOK(p) /\ Len(p) # 0 /\ p # <<>> /\ \A k \in DOMAIN p : p[k].len > 0 => p[k].dir \in Dirs
  <1>1. p \in Seq(Component) /\ p # <<>> /\ \A k \in DOMAIN p : p[k].len > 0 => p[k].dir \in Dirs
    BY SearchAssumption
  <1>2. Len(p) \in Nat /\ DOMAIN p = 1 .. Len(p) /\ Len(p) # 0
    BY <1>1
  <1>3. \A k \in 1 .. Len(p) : p[k] \in Component
    BY <1>1
  <1>4. \A k \in 1 .. Len(p) : p[k].len \in Nat
    BY <1>3 DEF Component
  <1>. QED
    BY <1>1, <1>2, <1>4 DEF PathOK

LEMMA ParsedFacts ==
  ASSUME NEW p \in PathStrings, NEW q, q = Parsed(p)
  PROVE  q \in Seq(Dirs \cup {"cut"}) /\ Len(q) <= LDPATH_MAX /\ Whole(p, q)
  <1>1. PathOK(p) /\ Len(p) # 0 /\ \A k \in DOMAIN p : p[k].len > 0 => p[k].dir \in Dirs
    BY AllEntries
  <1>2. PICK N \in Nat : N = Len(p) /\ DOMAIN p = 1 .. N
    BY <1>1 DEF PathOK
  <1>3. PICK T : T = Taken(p)
    OBVIOUS
  <1>4. /\ T \subseteq 1 .. N /\ IsFiniteSet(T) /\ T \subseteq Found(p) /\ Initial(T, NonEmptyAt(p))
        /\ Cardinality(T) \in Nat /\ Cardinality(T) <= LDPATH_MAX
    BY <1>1, <1>2, <1>3, TakenFacts
  <1>5. T \subseteq Nat /\ NonEmptyAt(p) \subseteq 1 .. N
    BY <1>1, <1>2, <1>4, FoundFacts
  <1>6. PICK C \in Nat : C = Cardinality(T)
    BY <1>4
  <1>7. \A n \in 1 .. C : IsNth(T, n, Nth(T, n))
    BY <1>4, <1>5, <1>6, NthExists
  <1>8. PICK all : all = [n \in 1 .. C |-> Entry(p, Nth(T, n))]
    OBVIOUS
  <1>9. ASSUME NEW n \in 1 .. C PROVE all[n] \in Dirs \cup {"cut"}
    <2>1. PICK k : k = Nth(T, n) /\ k \in T
      BY <1>7 DEF IsNth
    <2>2. k \in DOMAIN p /\ p[k].len > 0
      BY <1>2, <1>4, <2>1 DEF Initial, NonEmptyAt
    <2>3. p[k].dir \in Dirs
      BY <1>1, <2>2
    <2>4. all[n] = Entry(p, k)
      BY <1>8, <2>1
    <2>. QED
      BY <2>3, <2>4 DEF Entry
  <1>10. all \in Seq(Dirs \cup {"cut"}) /\ Len(all) = C
    <2>1. all \in [1 .. C -> Dirs \cup {"cut"}]
      BY <1>8, <1>9
    <2>. QED
      BY <2>1
  <1>11. q = IF ForgetLast(p) THEN Front(all) ELSE all
    BY <1>3, <1>6, <1>8, Zenon DEF Parsed
  <1>12. PICK M \in Nat : /\ M <= C /\ Len(q) = M /\ DOMAIN q = 1 .. M /\ q \in Seq(Dirs \cup {"cut"})
                          /\ (ForgetLast(p) => M < C) /\ \A n \in 1 .. M : q[n] = all[n]
    <2>1. CASE ~ForgetLast(p)
      <3>1. q = all
        BY <1>11, <2>1
      <3>. QED
        BY <1>10, <2>1, <3>1
    <2>2. CASE ForgetLast(p)
      <3>1. T # {}
        BY <1>3, <2>2 DEF ForgetLast
      <3>2. C # 0
        BY <1>4, <1>6, <3>1, FS_EmptySet
      <3>3. q = SubSeq(all, 1, C - 1)
        BY <1>10, <1>11, <2>2 DEF Front
      <3>4. C - 1 \in Nat /\ C - 1 <= Len(all)
        BY <1>10, <3>2
      <3>5. q \in Seq(Dirs \cup {"cut"}) /\ Len(q) = C - 1 /\ \A n \in 1 .. C - 1 : q[n] = all[n]
        BY <1>10, <3>3, <3>4
      <3>6. DOMAIN q = 1 .. C - 1 /\ C - 1 <= C /\ C - 1 < C
        BY <3>2, <3>5
      <3>. QED
        BY <3>4, <3>5, <3>6
    <2>. QED
      BY <2>1, <2>2
  <1>13. Len(q) <= LDPATH_MAX
    BY <1>4, <1>6, <1>12, BoundsAssumption
  <1>14. ASSUME NEW n \in DOMAIN q
         PROVE  \E k \in DOMAIN p : /\ p[k].len > 0 /\ p[k].dir = q[n]
                                    /\ Cardinality({j \in 1 .. k : p[j].len > 0}) = n
    <2>1. n \in 1 .. M /\ n \in 1 .. C
      BY <1>12, <1>14
    <2>2. PICK k : k = Nth(T, n) /\ k \in T /\ Cardinality(Below(T, k)) = n - 1
      BY <1>7, <2>1 DEF IsNth
    <2>3. k \in 1 .. N /\ k \in DOMAIN p /\ k \in NonEmptyAt(p) /\ p[k].len > 0 /\ k \in Found(p) /\ k \in Nat
      <3>1. k \in 1 .. N /\ k \in NonEmptyAt(p) /\ k \in Found(p)
        BY <1>4, <2>2 DEF Initial
      <3>. QED
        BY <1>2, <3>1 DEF NonEmptyAt
    <2>4. q[n] = Entry(p, k)
      BY <1>8, <1>12, <2>1, <2>2
    <2>5. Visible(p, k) = p[k].len
      <3>1. SUFFICES ASSUME Visible(p, k) # p[k].len PROVE FALSE
        OBVIOUS
      <3>2. (\A j \in Found(p) : j <= k) /\ Truncated(p) /\ ~SecondToLastIsNul(p)
        BY <1>1, <2>3, <3>1, CutIsLast
      <3>3. ForgetLast(p)
        BY <1>3, <2>2, <3>2 DEF ForgetLast
      <3>4. T = UpTo(T, k)
        BY <1>4, <3>2 DEF UpTo
      <3>5. Cardinality(T) = Cardinality(Below(T, k)) + 1
        BY <1>4, <1>5, <2>2, <3>4, BelowOne
      <3>. QED
        BY <1>6, <1>12, <2>1, <2>2, <3>3, <3>5
    <2>6. {j \in 1 .. k : p[j].len > 0} = UpTo(T, k)
      <3>1. ASSUME NEW j \in T, j <= k PROVE j \in 1 .. k /\ p[j].len > 0
        BY <1>4, <2>3, <3>1 DEF Initial, NonEmptyAt
      <3>2. ASSUME NEW j \in 1 .. k, p[j].len > 0 PROVE j \in T /\ j <= k
        <4>1. j \in NonEmptyAt(p)
          BY <1>2, <2>3, <3>2 DEF NonEmptyAt
        <4>2. j = k \/ j < k
          BY <2>3, <3>2
        <4>. QED
          BY <1>4, <2>2, <2>3, <4>1, <4>2 DEF Initial
      <3>. QED
        BY <3>1, <3>2 DEF UpTo
    <2>7. Cardinality(UpTo(T, k)) = n
      <3>1. Cardinality(UpTo(T, k)) = Cardinality(Below(T, k)) + 1
        BY <1>4, <1>5, <2>2, BelowOne
      <3>. QED
        BY <2>1, <2>2, <3>1
    <2>. QED
      BY <2>3, <2>4, <2>5, <2>6, <2>7 DEF Entry
  <1>. QED
    BY <1>12, <1>13, <1>14 DEF Whole

-----------------------------------------------------------------------------
(* Configuration and search path as the program runs.                      *)

PathInv ==
  /\ ldpaths \in Seq(Dirs \cup {"cut"}) /\ Len(ldpaths) <= LDPATH_MAX
  /\ sopaths \in Seq(Dirs) /\ Len(sopaths) <= SOPATH_MAX
  /\ Whole(parsed, ldpaths)

CfgInv ==
  /\ CfgDirs \in Cfgs /\ phase \in {"cfg", "run", "exited"} /\ lines \in Seq(Line) /\ die \in BOOLEAN
  /\ dir \in Nat \ {0} /\ (phase = "cfg" => dir \in 1 .. Len(CfgDirs) /\ unread \subseteq CfgDirs[dir])
  /\ lib_override_map \in Seq(Line) /\ lib_override_map_size \in Nat /\ Len(lib_override_map) <= lib_override_map_size

(* Only Configure and SetPaths change the environment.                     *)
Others ==
  \/ DlopenLoad \/ DlopenHost \/ DlopenFails \/ NeededLoaded \/ NeededElsewhere \/ NeededLoad
  \/ LinkDone \/ LinkFails \/ dlsym \/ dlerror \/ UNCHANGED vars

LEMMA StepCases ==
  ASSUME [Next]_vars
  PROVE  Configure \/ SetPaths \/ Others
  BY DEF Next, Others, Rest

LEMMA OthersEnv ==
  ASSUME Others
  PROVE  UNCHANGED env
  BY DEF Others, DlopenLoad, DlopenHost, DlopenFails, NeededLoaded, NeededElsewhere, NeededLoad,
         LinkDone, LinkFails, dlsym, dlerror, Bind, vars

LEMMA InitEnv ==
  ASSUME Init
  PROVE  PathInv /\ CfgInv
  <1>1. PathInv
    <2>1. ldpaths = <<>> /\ sopaths = <<SystemLib>> /\ parsed = <<>>
      BY DEF Init, InitCfg
    <2>2. SystemLib \in Dirs /\ SOPATH_MAX \in Nat \ {0} /\ LDPATH_MAX \in Nat \ {0}
      BY SearchAssumption, BoundsAssumption
    <2>3. Whole(parsed, ldpaths)
      BY <2>1 DEF Whole
    <2>. QED
      BY <2>1, <2>2, <2>3 DEF PathInv
  <1>2. CfgInv
    <2>1. /\ CfgDirs \in Cfgs /\ phase = "cfg" /\ dir = 1 /\ unread = CfgDirs[1] /\ lines = <<>>
          /\ lib_override_map = <<>> /\ lib_override_map_size = 0 /\ die \in BOOLEAN
      BY DEF Init, InitCfg
    <2>2. CfgDirs \in Seq(SUBSET Seq(Line)) /\ CfgDirs # <<>>
      BY <2>1, SearchAssumption
    <2>3. 1 \in 1 .. Len(CfgDirs)
      BY <2>2
    <2>. QED
      BY <2>1, <2>3 DEF CfgInv
  <1>. QED
    BY <1>1, <1>2

LEMMA CfgFacts ==
  ASSUME CfgInv
  PROVE  /\ CfgDirs \in Seq(SUBSET Seq(Line)) /\ Len(CfgDirs) \in Nat /\ DOMAIN CfgDirs = 1 .. Len(CfgDirs)
         /\ \A d \in 1 .. Len(CfgDirs) : CfgDirs[d] \subseteq Seq(Line)
  <1>1. CfgDirs \in Seq(SUBSET Seq(Line))
    BY SearchAssumption DEF CfgInv
  <1>2. Len(CfgDirs) \in Nat /\ DOMAIN CfgDirs = 1 .. Len(CfgDirs) /\ \A d \in 1 .. Len(CfgDirs) : CfgDirs[d] \in SUBSET Seq(Line)
    BY <1>1
  <1>. QED
    BY <1>1, <1>2

LEMMA PathStep ==
  ASSUME PathInv, [Next]_vars
  PROVE  PathInv'
  <1>1. CASE UNCHANGED pathVars
    BY <1>1 DEF PathInv, pathVars, Whole
  <1>2. CASE Configure
    BY <1>1, <1>2 DEF Configure, read_cfg_file, process_cfg_line, read_cfg_dir
  <1>3. CASE dl_parse_library_path
    <2>1. PICK q \in PathStrings : ldpaths' = Parsed(q) /\ parsed' = q /\ sopaths' = sopaths
      BY <1>3 DEF dl_parse_library_path
    <2>2. ldpaths' \in Seq(Dirs \cup {"cut"}) /\ Len(ldpaths') <= LDPATH_MAX /\ Whole(q, ldpaths')
      BY <2>1, ParsedFacts
    <2>3. Whole(parsed, ldpaths)'
      BY <2>1, <2>2 DEF Whole
    <2>. QED
      BY <2>1, <2>2, <2>3 DEF PathInv
  <1>4. CASE add_sopath
    <2>1. PICK d \in AddedSopaths : Len(sopaths) < SOPATH_MAX /\ sopaths' = Append(sopaths, d) /\ ldpaths' = ldpaths /\ parsed' = parsed
      BY <1>4 DEF add_sopath
    <2>2. d \in Dirs /\ SOPATH_MAX \in Nat
      BY SearchAssumption, BoundsAssumption
    <2>3. sopaths' \in Seq(Dirs) /\ Len(sopaths') <= SOPATH_MAX
      BY <2>1, <2>2 DEF PathInv
    <2>4. Whole(parsed, ldpaths)'
      BY <2>1 DEF PathInv, Whole
    <2>. QED
      BY <2>1, <2>3, <2>4 DEF PathInv
  <1>5. CASE Others
    BY <1>1, <1>5, OthersEnv DEF env
  <1>. QED
    BY <1>2, <1>3, <1>4, <1>5, StepCases DEF SetPaths

LEMMA CfgStep ==
  ASSUME CfgInv, [Next]_vars
  PROVE  CfgInv'
  <1>1. CASE UNCHANGED <<cfgVars, die>>
    BY <1>1 DEF CfgInv, cfgVars
  <1>2. CASE SetPaths
    BY <1>1, <1>2 DEF SetPaths, dl_parse_library_path, add_sopath
  <1>3. CASE Others
    BY <1>1, <1>3, OthersEnv DEF env
  <1>4. CASE Configure /\ read_cfg_file
    <2>1. PICK f \in unread : unread' = unread \ {f} /\ lines' = f
      BY <1>4 DEF read_cfg_file
    <2>2. phase = "cfg" /\ UNCHANGED <<CfgDirs, phase, dir, lib_override_map, lib_override_map_size, die>>
      BY <1>4 DEF read_cfg_file, Configure
    <2>3. dir \in 1 .. Len(CfgDirs) /\ unread \subseteq CfgDirs[dir]
      BY <2>2 DEF CfgInv
    <2>4. f \in Seq(Line)
      BY <2>1, <2>3, CfgFacts
    <2>. QED
      BY <2>1, <2>2, <2>3, <2>4 DEF CfgInv
  <1>5. CASE Configure /\ process_cfg_line
    <2>1. phase = "cfg" /\ lines # <<>> /\ lines' = Tail(lines) /\ UNCHANGED <<CfgDirs, dir, unread, die>> /\ lines \in Seq(Line)
      BY <1>5 DEF process_cfg_line, Configure, CfgInv
    <2>2. lines' \in Seq(Line) /\ Head(lines) \in Line
      BY <2>1
    <2>3. /\ lib_override_map' \in Seq(Line) /\ lib_override_map_size' \in Nat
          /\ Len(lib_override_map') <= lib_override_map_size' /\ phase' \in {"cfg", "run", "exited"}
      <3>1. CASE UNCHANGED <<lib_override_map, lib_override_map_size>> /\ phase' \in {"cfg", "exited"}
        BY <3>1 DEF CfgInv
      <3>2. CASE lib_override_map_append(Head(lines)) /\ phase' = phase
        <4>1. lib_override_map' = Append(lib_override_map, Head(lines)) /\ lib_override_map_size' = GrownSize
          BY <3>2 DEF lib_override_map_append
        <4>2. lib_override_map' \in Seq(Line) /\ Len(lib_override_map') = Len(lib_override_map) + 1
          BY <2>2, <4>1 DEF CfgInv
        <4>3. PICK n \in Nat : n = Len(lib_override_map) /\ (lib_override_map = <<>> <=> n = 0)
          BY DEF CfgInv
        <4>4. PICK z \in Nat : z = lib_override_map_size /\ n <= z
          BY <4>3 DEF CfgInv
        <4>5. LIB_OVERRIDE_MAP_DEFAULT_SIZE \in Nat \ {0}
          BY BoundsAssumption
        <4>6. GrownSize = IF n = 0 THEN LIB_OVERRIDE_MAP_DEFAULT_SIZE ELSE IF n = z THEN 2 * z ELSE z
          BY <4>3, <4>4 DEF GrownSize, MapFull
        <4>7. GrownSize \in Nat /\ n + 1 <= GrownSize
          BY <4>4, <4>5, <4>6
        <4>. QED
          BY <2>1, <3>2, <4>1, <4>2, <4>3, <4>7
      <3>. QED
        BY <1>5, <2>1, <3>1, <3>2 DEF process_cfg_line
    <2>4. phase' = "cfg" => dir' \in 1 .. Len(CfgDirs') /\ unread' \subseteq CfgDirs'[dir']
      BY <2>1 DEF CfgInv
    <2>. QED
      BY <2>1, <2>2, <2>3, <2>4 DEF CfgInv
  <1>6. CASE Configure /\ read_cfg_dir
    <2>1. /\ phase = "cfg" /\ dir' = dir + 1 /\ dir \in Nat \ {0}
          /\ UNCHANGED <<CfgDirs, lines, lib_override_map, lib_override_map_size, die>>
          /\ \/ dir < Len(CfgDirs) /\ unread' = CfgDirs[dir + 1] /\ phase' = phase
             \/ ~(dir < Len(CfgDirs)) /\ phase' = "run"
      BY <1>6 DEF read_cfg_dir, Configure, CfgInv
    <2>2. phase' = "cfg" => dir' \in 1 .. Len(CfgDirs') /\ unread' \subseteq CfgDirs'[dir']
      BY <2>1, CfgFacts
    <2>3. phase' \in {"cfg", "run", "exited"} /\ dir' \in Nat \ {0}
      BY <2>1
    <2>. QED
      BY <2>1, <2>2, <2>3 DEF CfgInv
  <1>. QED
    BY <1>2, <1>3, <1>4, <1>5, <1>6, StepCases DEF Configure

(* However BIONIC_LD_LIBRARY_PATH is cut, no entry of the search path is a *)
(* directory that the string does not name: dl_parse_library_path forgets  *)
(* the component that the end of the buffer cut, for every buffer and path *)
(* size.                                                                   *)
THEOREM SearchPathWhole == Spec => []PathsWhole
  <1>1. Init => PathInv
    BY InitEnv
  <1>2. PathInv /\ [Next]_vars => PathInv'
    BY PathStep
  <1>3. PathInv => PathsWhole
    BY DEF PathInv, PathsWhole, Whole
  <1>. QED
    BY <1>1, <1>2, <1>3, PTL DEF Spec

-----------------------------------------------------------------------------
(* Which override is the first for a name, while the directories are read. *)

Has(m, n) == {k \in DOMAIN m : m[k][1] = n}
NoneIn(c, d, n) == \A g \in c[d] : Given(g, n) = {}
Winner(c, n, v) ==
  \E d \in DOMAIN c : /\ \E g \in c[d] : Given(g, n) # {} /\ v = g[Min(Given(g, n))][2]
                      /\ \A e \in 1 .. d - 1 : NoneIn(c, e, n)

(* j lines of file f of directory d are read, u are the unread files.      *)
KeyOK(c, d, u, f, j, m, n) ==
  IF Has(m, n) # {} THEN Winner(c, n, m[Min(Has(m, n))][2])
  ELSE /\ \A e \in 1 .. d - 1 : NoneIn(c, e, n)
       /\ \A g \in c[d] \ u : g # f => Given(g, n) = {}
       /\ \A k \in 1 .. j : k \notin Given(f, n)

HasAfter(m, m2, l, n) ==
  /\ Has(m, n) \subseteq Nat /\ DOMAIN m = 1 .. Len(m) /\ Len(m) \in Nat
  /\ l[1] # n => Has(m2, n) = Has(m, n)
  /\ l[1] = n => Has(m2, n) = Has(m, n) \cup {Len(m) + 1}
  /\ m2[Len(m) + 1] = l
  /\ \A k \in DOMAIN m : m2[k] = m[k] /\ k < Len(m) + 1

LEMMA HasAppend ==
  ASSUME NEW m \in Seq(Line), NEW l \in Line, NEW n, NEW m2, m2 = Append(m, l)
  PROVE  HasAfter(m, m2, l, n)
  <1>1. /\ DOMAIN m = 1 .. Len(m) /\ Len(m) \in Nat /\ m2[Len(m) + 1] = l /\ \A k \in DOMAIN m : m2[k] = m[k] /\ k < Len(m) + 1
        /\ DOMAIN m2 = 1 .. Len(m) + 1
    OBVIOUS
  <1>2. DOMAIN m2 = DOMAIN m \cup {Len(m) + 1}
    BY <1>1
  <1>. HIDE DEF Line
  <1>3. /\ l[1] # n => Has(m2, n) = Has(m, n)
        /\ l[1] = n => Has(m2, n) = Has(m, n) \cup {Len(m) + 1}
    BY <1>1, <1>2 DEF Has
  <1>. QED
    BY <1>1, <1>3 DEF Has, HasAfter

LEMMA KeySkip ==
  ASSUME NEW c, NEW d, NEW u, NEW f, NEW j \in Nat, NEW m, NEW n, KeyOK(c, d, u, f, j, m, n), j + 1 \notin Given(f, n)
  PROVE  KeyOK(c, d, u, f, j + 1, m, n)
  <1>1. \A k \in 1 .. j + 1 : k \in 1 .. j \/ k = j + 1
    OBVIOUS
  <1>. QED
    BY <1>1 DEF KeyOK

LEMMA KeyAppend ==
  ASSUME NEW c, NEW d \in Nat, d \in DOMAIN c, NEW u, NEW f \in Seq(Line), f \in c[d], NEW j \in Nat, j + 1 \in DOMAIN f,
         NEW m \in Seq(Line), Len(f[j + 1]) = 2, NEW n, KeyOK(c, d, u, f, j, m, n), NEW m2, m2 = Append(m, f[j + 1])
  PROVE  KeyOK(c, d, u, f, j + 1, m2, n)
  <1>0. PICK l \in Line : l = f[j + 1]
    OBVIOUS
  <1>1. /\ Has(m, n) \subseteq Nat /\ DOMAIN m = 1 .. Len(m) /\ Len(m) \in Nat
        /\ l[1] # n => Has(m2, n) = Has(m, n)
        /\ l[1] = n => Has(m2, n) = Has(m, n) \cup {Len(m) + 1}
        /\ m2[Len(m) + 1] = l
        /\ \A k \in DOMAIN m : m2[k] = m[k] /\ k < Len(m) + 1
    <2>1. HasAfter(m, m2, l, n)
      BY <1>0, HasAppend
    <2>. QED
      BY <2>1 DEF HasAfter
  <1>2. CASE Has(m, n) # {}
    <2>1. PICK a \in Has(m, n) : a = Min(Has(m, n)) /\ \A y \in Has(m, n) : a <= y
      BY <1>1, <1>2, MinNat
    <2>2. a \in DOMAIN m /\ a \in Nat /\ a <= Len(m) + 1 /\ m2[a] = m[a]
      BY <1>1, <2>1 DEF Has
    <2>3. a \in Has(m2, n) /\ Has(m2, n) \subseteq Nat /\ \A y \in Has(m2, n) : a <= y
      BY <1>1, <2>1, <2>2
    <2>4. Min(Has(m2, n)) = a
      BY <2>3, MinIs
    <2>5. Has(m2, n) # {}
      BY <2>3
    <2>. QED
      BY <1>2, <2>1, <2>2, <2>4, <2>5 DEF KeyOK
  <1>3. CASE Has(m, n) = {} /\ l[1] # n
    <2>1. j + 1 \notin Given(f, n)
      BY <1>0, <1>3 DEF Given
    <2>2. KeyOK(c, d, u, f, j + 1, m, n)
      BY <2>1, KeySkip
    <2>3. Has(m2, n) = {}
      BY <1>1, <1>3
    <2>. QED
      BY <1>3, <2>2, <2>3 DEF KeyOK
  <1>4. CASE Has(m, n) = {} /\ l[1] = n
    <2>1. Has(m2, n) = {Len(m) + 1}
      BY <1>1, <1>4
    <2>2. Min(Has(m2, n)) = Len(m) + 1
      <3>1. Len(m) + 1 \in Has(m2, n) /\ Has(m2, n) \subseteq Nat /\ \A y \in Has(m2, n) : Len(m) + 1 <= y
        BY <1>1, <2>1
      <3>. QED
        BY <3>1, MinIs
    <2>3. j + 1 \in Given(f, n) /\ Given(f, n) \subseteq Nat
      BY <1>0, <1>4 DEF Given
    <2>4. (\A e \in 1 .. d - 1 : NoneIn(c, e, n)) /\ \A k \in 1 .. j : k \notin Given(f, n)
      BY <1>4 DEF KeyOK
    <2>5. \A k \in Given(f, n) : j + 1 <= k
      <3>1. ASSUME NEW k \in Given(f, n) PROVE j + 1 <= k
        <4>1. k \in DOMAIN f /\ DOMAIN f = 1 .. Len(f)
          BY DEF Given
        <4>2. k \notin 1 .. j
          BY <2>4
        <4>. QED
          BY <4>1, <4>2
      <3>. QED
        BY <3>1
    <2>6. Min(Given(f, n)) = j + 1
      BY <2>3, <2>5, MinIs
    <2>7. Winner(c, n, l[2])
      BY <1>0, <2>3, <2>4, <2>6 DEF Winner
    <2>8. m2[Min(Has(m2, n))][2] = l[2] /\ Has(m2, n) # {}
      BY <1>1, <2>1, <2>2
    <2>. QED
      BY <2>7, <2>8 DEF KeyOK
  <1>. QED
    BY <1>2, <1>3, <1>4

(* lines is what is left of file f behind its first j lines.               *)
Reading(f, j) ==
  /\ f \in Seq(Line) /\ j \in 0 .. Len(f) /\ Len(lines) = Len(f) - j
  /\ \A i \in 1 .. Len(lines) : lines[i] = f[j + i]
  /\ j < Len(f) => f \in CfgDirs[dir]
  /\ \A n : KeyOK(CfgDirs, dir, unread, f, j, lib_override_map, n)

Settled(c, m, n) ==
  IF Has(m, n) # {} THEN Winner(c, n, m[Min(Has(m, n))][2]) ELSE \A d \in DOMAIN c : NoneIn(c, d, n)

OverrideInv ==
  /\ phase = "cfg" => \E f, j : Reading(f, j)
  /\ phase = "run" => \A n : Settled(CfgDirs, lib_override_map, n)

LEMMA InitOverride ==
  ASSUME Init
  PROVE  OverrideInv
  <1>1. /\ phase = "cfg" /\ dir = 1 /\ unread = CfgDirs[1] /\ lines = <<>> /\ lib_override_map = <<>>
    BY DEF Init, InitCfg
  <1>2. ASSUME NEW n PROVE KeyOK(CfgDirs, dir, unread, <<>>, 0, lib_override_map, n)
    <2>1. Has(lib_override_map, n) = {}
      BY <1>1 DEF Has
    <2>2. 1 .. dir - 1 = {} /\ CfgDirs[dir] \ unread = {}
      BY <1>1
    <2>3. 1 .. 0 = {}
      OBVIOUS
    <2>. QED
      BY <2>1, <2>2, <2>3 DEF KeyOK
  <1>3. <<>> \in Seq(Line) /\ Len(<<>>) = 0 /\ 0 \in 0 .. 0 /\ 1 .. 0 = {}
    OBVIOUS
  <1>4. Reading(<<>>, 0)
    BY <1>1, <1>2, <1>3 DEF Reading
  <1>. QED
    BY <1>1, <1>4 DEF OverrideInv

(* A file that is read has no override for a name that the map misses.     *)
LEMMA ReadFile ==
  ASSUME NEW f, NEW j, Reading(f, j), lines = <<>>, NEW n, Has(lib_override_map, n) = {}
  PROVE  Given(f, n) = {}
  <1>1. j = Len(f) /\ DOMAIN f = 1 .. Len(f) /\ Len(f) \in Nat
    <2>1. Len(lines) = 0
      OBVIOUS
    <2>. QED
      BY <2>1 DEF Reading
  <1>2. \A k \in 1 .. j : k \notin Given(f, n)
    BY DEF Reading, KeyOK
  <1>. QED
    BY <1>1, <1>2 DEF Given

LEMMA ReadFileStep ==
  ASSUME CfgInv, OverrideInv, Configure, read_cfg_file
  PROVE  OverrideInv'
  <1>1. /\ phase = "cfg" /\ lines = <<>> /\ UNCHANGED <<CfgDirs, phase, dir, lib_override_map>>
    BY DEF read_cfg_file
  <1>2. PICK g \in unread : unread' = unread \ {g} /\ lines' = g
    BY DEF read_cfg_file
  <1>3. PICK f, j : Reading(f, j)
    BY <1>1 DEF OverrideInv
  <1>4. dir \in 1 .. Len(CfgDirs) /\ g \in CfgDirs[dir] /\ g \in Seq(Line)
    <2>1. dir \in 1 .. Len(CfgDirs) /\ g \in CfgDirs[dir]
      BY <1>1, <1>2 DEF CfgInv
    <2>. QED
      BY <2>1, CfgFacts
  <1>5. ASSUME NEW n PROVE KeyOK(CfgDirs, dir, unread', g, 0, lib_override_map, n)
    <2>0. 1 .. 0 = {}
      OBVIOUS
    <2>1. KeyOK(CfgDirs, dir, unread, f, j, lib_override_map, n)
      BY <1>3 DEF Reading
    <2>2. CASE Has(lib_override_map, n) # {}
      BY <2>1, <2>2 DEF KeyOK
    <2>3. CASE Has(lib_override_map, n) = {}
      <3>1. Given(f, n) = {}
        BY <1>1, <1>3, <2>3, ReadFile
      <3>2. ASSUME NEW q \in CfgDirs[dir] \ unread', q # g PROVE Given(q, n) = {}
        <4>1. q \in CfgDirs[dir] \ unread
          BY <1>2, <3>2
        <4>. QED
          BY <2>1, <2>3, <3>1, <4>1 DEF KeyOK
      <3>. QED
        BY <2>0, <2>1, <2>3, <3>2 DEF KeyOK
    <2>. QED
      BY <2>2, <2>3
  <1>6. Reading(g, 0)'
    <2>1. Len(g) \in Nat /\ 0 \in 0 .. Len(g) /\ Len(lines') = Len(g) - 0
      BY <1>2, <1>4
    <2>2. \A i \in 1 .. Len(lines') : lines'[i] = g[0 + i]
      BY <1>2, <1>4
    <2>. QED
      BY <1>1, <1>4, <1>5, <2>1, <2>2 DEF Reading
  <1>. QED
    BY <1>1, <1>6 DEF OverrideInv

LEMMA ReadDirStep ==
  ASSUME CfgInv, OverrideInv, Configure, read_cfg_dir
  PROVE  OverrideInv'
  <1>1. /\ phase = "cfg" /\ lines = <<>> /\ unread = {} /\ dir' = dir + 1 /\ UNCHANGED <<CfgDirs, lines, lib_override_map>>
        /\ \/ dir < Len(CfgDirs) /\ unread' = CfgDirs[dir + 1] /\ phase' = phase
           \/ ~(dir < Len(CfgDirs)) /\ phase' = "run"
    BY DEF read_cfg_dir
  <1>2. PICK f, j : Reading(f, j)
    BY <1>1 DEF OverrideInv
  <1>3. dir \in 1 .. Len(CfgDirs) /\ DOMAIN CfgDirs = 1 .. Len(CfgDirs) /\ Len(CfgDirs) \in Nat
    BY <1>1, CfgFacts DEF CfgInv
  <1>4. ASSUME NEW n, Has(lib_override_map, n) = {}, NEW e \in 1 .. dir PROVE NoneIn(CfgDirs, e, n)
    <2>1. KeyOK(CfgDirs, dir, unread, f, j, lib_override_map, n)
      BY <1>2 DEF Reading
    <2>2. CASE e \in 1 .. dir - 1
      BY <1>4, <2>1, <2>2 DEF KeyOK
    <2>3. CASE e = dir
      <3>1. Given(f, n) = {}
        BY <1>1, <1>2, <1>4, ReadFile
      <3>2. \A g \in CfgDirs[dir] : Given(g, n) = {}
        BY <1>1, <1>4, <2>1, <3>1 DEF KeyOK
      <3>. QED
        BY <2>3, <3>2 DEF NoneIn
    <2>. QED
      BY <1>3, <2>2, <2>3
  <1>5. ASSUME NEW n, Has(lib_override_map, n) # {} PROVE Winner(CfgDirs, n, lib_override_map[Min(Has(lib_override_map, n))][2])
    <2>1. KeyOK(CfgDirs, dir, unread, f, j, lib_override_map, n)
      BY <1>2 DEF Reading
    <2>. QED
      BY <1>5, <2>1 DEF KeyOK
  <1>6. CASE dir < Len(CfgDirs) /\ unread' = CfgDirs[dir + 1] /\ phase' = phase
    <2>1. ASSUME NEW n PROVE KeyOK(CfgDirs, dir + 1, CfgDirs[dir + 1], <<>>, 0, lib_override_map, n)
      <3>1. 1 .. 0 = {} /\ 1 .. (dir + 1) - 1 = 1 .. dir
        BY <1>3
      <3>. QED
        BY <1>4, <1>5, <3>1 DEF KeyOK
    <2>2. <<>> \in Seq(Line) /\ Len(<<>>) = 0 /\ 0 \in 0 .. 0 /\ 1 .. 0 = {}
      OBVIOUS
    <2>3. Reading(<<>>, 0)'
      BY <1>1, <1>6, <2>1, <2>2 DEF Reading
    <2>. QED
      BY <1>1, <1>6, <2>3 DEF OverrideInv
  <1>7. CASE ~(dir < Len(CfgDirs)) /\ phase' = "run"
    <2>0. dir \in Nat /\ dir <= Len(CfgDirs)
      BY <1>3
    <2>1. dir = Len(CfgDirs)
      <3>1. PICK x \in Nat : x = dir
        BY <2>0
      <3>2. PICK y \in Nat : y = Len(CfgDirs)
        BY <1>3
      <3>3. ~(x < y) /\ x <= y
        BY <1>7, <2>0, <3>1, <3>2
      <3>. QED
        BY <3>1, <3>2, <3>3
    <2>2. \A n : Settled(CfgDirs, lib_override_map, n)
      BY <1>3, <1>4, <1>5, <2>1 DEF Settled
    <2>3. (\A n : Settled(CfgDirs, lib_override_map, n))'
      BY <1>1, <2>2
    <2>. QED
      BY <1>7, <2>3 DEF OverrideInv
  <1>. QED
    BY <1>1, <1>6, <1>7

LEMMA LineStep ==
  ASSUME CfgInv, OverrideInv, Configure, process_cfg_line
  PROVE  OverrideInv'
  <1>1. phase = "cfg" /\ lines # <<>> /\ lines' = Tail(lines) /\ UNCHANGED <<CfgDirs, dir, unread>> /\ lines \in Seq(Line)
    BY DEF process_cfg_line, CfgInv
  <1>2. PICK f, j : Reading(f, j)
    BY <1>1 DEF OverrideInv
  <1>3. /\ f \in Seq(Line) /\ Len(f) \in Nat /\ DOMAIN f = 1 .. Len(f) /\ j \in Nat /\ j + 1 \in 1 .. Len(f) /\ j < Len(f)
        /\ Head(lines) = f[j + 1] /\ f \in CfgDirs[dir]
    <2>1. Len(lines) \in Nat /\ Len(lines) # 0 /\ Head(lines) = lines[1]
      BY <1>1
    <2>2. f \in Seq(Line) /\ j \in 0 .. Len(f) /\ Len(lines) = Len(f) - j
      BY <1>2 DEF Reading
    <2>3. j < Len(f) /\ Len(f) \in Nat /\ j + 1 \in 1 .. Len(f) /\ 1 \in 1 .. Len(lines)
      BY <2>1, <2>2
    <2>. QED
      BY <1>2, <2>1, <2>2, <2>3 DEF Reading
  <1>4. dir \in 1 .. Len(CfgDirs) /\ dir \in Nat /\ dir \in DOMAIN CfgDirs /\ lib_override_map \in Seq(Line)
    BY <1>1, CfgFacts DEF CfgInv
  <1>5. /\ Len(lines') = Len(f) - (j + 1) /\ \A i \in 1 .. Len(lines') : lines'[i] = f[(j + 1) + i]
    <2>1. Len(lines) = Len(f) - j /\ \A i \in 1 .. Len(lines) : lines[i] = f[j + i]
      BY <1>2 DEF Reading
    <2>2. Len(lines') = Len(lines) - 1 /\ \A i \in 1 .. Len(lines) - 1 : lines'[i] = lines[i + 1]
      BY <1>1
    <2>3. Len(lines) \in Nat
      BY <1>1
    <2>4. ASSUME NEW i \in 1 .. Len(lines') PROVE lines'[i] = f[(j + 1) + i]
      <3>1. i + 1 \in 1 .. Len(lines) /\ i \in 1 .. Len(lines) - 1 /\ j + (i + 1) = (j + 1) + i
        BY <1>3, <2>2, <2>3
      <3>2. lines'[i] = f[j + (i + 1)]
        BY <2>1, <2>2, <3>1
      <3>. QED
        BY <3>1, <3>2
    <2>. QED
      BY <1>3, <2>1, <2>2, <2>3, <2>4
  <1>6. ASSUME \A n : KeyOK(CfgDirs, dir, unread, f, j + 1, lib_override_map', n), phase' \in {"cfg", "exited"} PROVE OverrideInv'
    <2>1. j + 1 \in 0 .. Len(f)
      BY <1>3
    <2>2. Reading(f, j + 1)'
      BY <1>1, <1>3, <1>5, <1>6, <2>1 DEF Reading
    <2>. QED
      BY <1>6, <2>2 DEF OverrideInv
  <1>7. \A n : KeyOK(CfgDirs, dir, unread, f, j, lib_override_map, n)
    BY <1>2 DEF Reading
  <1>8. CASE lib_override_map' = lib_override_map /\ phase' \in {"cfg", "exited"} /\ Len(Head(lines)) # 2
    <2>1. ASSUME NEW n PROVE KeyOK(CfgDirs, dir, unread, f, j + 1, lib_override_map, n)
      <3>1. j + 1 \notin Given(f, n)
        BY <1>3, <1>8 DEF Given
      <3>. QED
        BY <1>3, <1>7, <3>1, KeySkip
    <2>. QED
      BY <1>6, <1>8, <2>1
  <1>9. CASE Len(Head(lines)) = 2 /\ lib_override_map_append(Head(lines)) /\ phase' = phase
    <2>1. PICK m2 : m2 = lib_override_map' /\ m2 = Append(lib_override_map, f[j + 1]) /\ Len(f[j + 1]) = 2
      BY <1>3, <1>9 DEF lib_override_map_append
    <2>2. ASSUME NEW n PROVE KeyOK(CfgDirs, dir, unread, f, j + 1, m2, n)
      BY <1>3, <1>4, <1>7, <2>1, KeyAppend
    <2>. QED
      BY <1>1, <1>6, <1>9, <2>1, <2>2
  <1>10. Len(<<"skip">>) # 2 /\ Len(<<"bad">>) # 2
    OBVIOUS
  <1>. QED
    BY <1>1, <1>8, <1>9, <1>10 DEF process_cfg_line

LEMMA OverrideStep ==
  ASSUME CfgInv, OverrideInv, [Next]_vars
  PROVE  OverrideInv'
  <1>1. CASE UNCHANGED cfgVars
    BY <1>1 DEF OverrideInv, Reading, cfgVars
  <1>2. CASE SetPaths
    BY <1>1, <1>2 DEF SetPaths, dl_parse_library_path, add_sopath
  <1>3. CASE Others
    BY <1>1, <1>3, OthersEnv DEF env
  <1>4. CASE Configure
    BY <1>4, ReadFileStep, ReadDirStep, LineStep DEF Configure
  <1>. QED
    BY <1>2, <1>3, <1>4, StepCases

-----------------------------------------------------------------------------
(* The list of soinfos.                                                    *)

Binding == [kind : {"lib", "host", "bionic", "stub", "zero", "fail"}, so : Nat, sym : Nat \cup SymNames]
Tables == {HashTable(FileOf[f].symtab, FileOf[f].tags) : f \in Fs}

Loaded ==
  [name : Names, from : Dirs, base : Regions, size : {RegionSize}, flags : {{}, {"LINKED"}, {"ERROR"}},
   needed : Seq(Nat), symtab : Seq(Symbol), table : Tables, req : Request, bound : Seq(Binding)]

FromFile(e) ==
  /\ <<e.from, e.name>> \in Fs /\ e.symtab = FileOf[<<e.from, e.name>>].symtab
  /\ e.table = HashTable(e.symtab, FileOf[<<e.from, e.name>>].tags)

FailedSo(e) == "ERROR" \in e.flags
LinkedSo(e) == "LINKED" \in e.flags /\ "ERROR" \notin e.flags

SoList(l) ==
  /\ l \in Seq(Loaded \cup {libdl_info}) /\ Len(l) >= 1 /\ l[1] = libdl_info
  /\ \A h \in 2 .. Len(l) : l[h] \in Loaded /\ FromFile(l[h])

NamesDiffer(l) == \A h, k \in 2 .. Len(l) : l[h].name = l[k].name => h = k
BasesDiffer(l) == \A h, k \in 2 .. Len(l) : ~FailedSo(l[h]) /\ ~FailedSo(l[k]) /\ l[h].base = l[k].base => h = k
NeededLinked(l, e) == \A i \in DOMAIN e.needed : e.needed[i] \in 1 .. Len(l) /\ LinkedSo(l[e.needed[i]])

ListOK(l) ==
  SoList(l) /\ NamesDiffer(l) /\ BasesDiffer(l) /\ \A h \in 2 .. Len(l) : NeededLinked(l, l[h])

LEMMA LibdlFacts ==
  /\ libdl_info.flags = {"LINKED"} /\ libdl_info.base = 0 /\ libdl_info.size = 0 /\ libdl_info.needed = <<>>
  /\ LinkedSo(libdl_info) /\ ~FailedSo(libdl_info)
  <1>1. libdl_info.flags = {"LINKED"} /\ libdl_info.base = 0 /\ libdl_info.size = 0 /\ libdl_info.needed = <<>>
    BY DEF libdl_info
  <1>2. "ERROR" # "LINKED"
    OBVIOUS
  <1>. QED
    BY <1>1, <1>2 DEF LinkedSo, FailedSo

LEMMA LoadedFields ==
  ASSUME NEW e \in Loaded
  PROVE  /\ e.name \in Names /\ e.from \in Dirs /\ e.base \in Regions /\ e.size = RegionSize
         /\ e.flags \in {{}, {"LINKED"}, {"ERROR"}} /\ e.needed \in Seq(Nat) /\ e.symtab \in Seq(Symbol)
         /\ e.req \in Request /\ e.bound \in Seq(Binding)
  BY DEF Loaded

(* Libraries keep their file and region while they are linked.             *)
SameSo(r, e) ==
  /\ e.name = r.name /\ e.from = r.from /\ e.base = r.base /\ e.size = r.size
  /\ e.symtab = r.symtab /\ e.table = r.table /\ e.req = r.req

LEMMA SetNeeded ==
  ASSUME NEW r \in Loaded, NEW x \in Seq(Nat), NEW e, e = [r EXCEPT !.needed = x]
  PROVE  e \in Loaded /\ SameSo(r, e) /\ e.needed = x /\ e.flags = r.flags /\ e.bound = r.bound
  BY DEF Loaded, SameSo

LEMMA SetFlags ==
  ASSUME NEW r \in Loaded, NEW x \in {{}, {"LINKED"}, {"ERROR"}}, NEW e, e = [r EXCEPT !.flags = x]
  PROVE  e \in Loaded /\ SameSo(r, e) /\ e.needed = r.needed /\ e.flags = x /\ e.bound = r.bound
  BY DEF Loaded, SameSo

LEMMA SetBound ==
  ASSUME NEW r \in Loaded, NEW x \in Seq(Binding), NEW e, e = [r EXCEPT !.bound = x]
  PROVE  e \in Loaded /\ SameSo(r, e) /\ e.needed = r.needed /\ e.flags = r.flags /\ e.bound = x
  BY DEF Loaded, SameSo

Grown(l, m, e) ==
  /\ Len(m) = Len(l) + 1 /\ m[Len(l) + 1] = e /\ \A h \in 1 .. Len(l) : m[h] = l[h]

LEMMA ListAppend ==
  ASSUME NEW l, ListOK(l), NEW e \in Loaded, FromFile(e), e.needed = <<>>,
         \A h \in 2 .. Len(l) : l[h].name # e.name, \A h \in 2 .. Len(l) : l[h].base = e.base => FailedSo(l[h]),
         NEW m, m = Append(l, e)
  PROVE  ListOK(m) /\ Grown(l, m, e)
  <1>1. l \in Seq(Loaded \cup {libdl_info}) /\ Len(l) >= 1 /\ Len(l) \in Nat /\ l[1] = libdl_info
    BY DEF ListOK, SoList
  <1>. HIDE DEF Loaded
  <1>2. Grown(l, m, e) /\ m \in Seq(Loaded \cup {libdl_info})
    BY <1>1 DEF Grown
  <1>3. PICK N \in Nat : N = Len(l) /\ N >= 1 /\ Len(m) = N + 1
    BY <1>1, <1>2 DEF Grown
  <1>4. \A h \in 1 .. N + 1 : h \in 1 .. N \/ h = N + 1
    OBVIOUS
  <1>5. m[N + 1] = e /\ \A h \in 1 .. N : m[h] = l[h]
    BY <1>2, <1>3 DEF Grown
  <1>6. ASSUME NEW h \in 2 .. N + 1 PROVE (h \in 2 .. N /\ m[h] = l[h]) \/ (h = N + 1 /\ m[h] = e)
    <2>1. (h \in 2 .. N /\ h \in 1 .. N) \/ h = N + 1
      OBVIOUS
    <2>. QED
      BY <1>5, <2>1
  <1>7. SoList(m)
    <2>1. m[1] = libdl_info /\ Len(m) >= 1
      BY <1>1, <1>3, <1>5
    <2>2. \A h \in 2 .. N : l[h] \in Loaded /\ FromFile(l[h])
      BY <1>3 DEF ListOK, SoList
    <2>3. \A h \in 2 .. N + 1 : m[h] \in Loaded /\ FromFile(m[h])
      BY <1>6, <2>2
    <2>. QED
      BY <1>2, <1>3, <2>1, <2>3 DEF SoList
  <1>8. NamesDiffer(m)
    <2>1. \A h, k \in 2 .. N : l[h].name = l[k].name => h = k
      BY <1>3 DEF ListOK, NamesDiffer
    <2>2. \A h, k \in 2 .. N + 1 : m[h].name = m[k].name => h = k
      BY <1>3, <1>6, <2>1
    <2>. QED
      BY <1>3, <2>2 DEF NamesDiffer
  <1>9. BasesDiffer(m)
    <2>1. \A h, k \in 2 .. N : ~FailedSo(l[h]) /\ ~FailedSo(l[k]) /\ l[h].base = l[k].base => h = k
      BY <1>3 DEF ListOK, BasesDiffer
    <2>2. \A h, k \in 2 .. N + 1 : ~FailedSo(m[h]) /\ ~FailedSo(m[k]) /\ m[h].base = m[k].base => h = k
      BY <1>3, <1>6, <2>1
    <2>. QED
      BY <1>3, <2>2 DEF BasesDiffer
  <1>10. ASSUME NEW h \in 2 .. N + 1 PROVE NeededLinked(m, m[h])
    <2>1. CASE h = N + 1
      <3>1. m[h].needed = <<>>
        BY <1>5, <2>1
      <3>2. DOMAIN m[h].needed = {}
        BY <3>1
      <3>. QED
        BY <3>2 DEF NeededLinked
    <2>2. CASE h \in 2 .. N /\ m[h] = l[h]
      <3>1. \A i \in DOMAIN l[h].needed : l[h].needed[i] \in 1 .. N /\ LinkedSo(l[l[h].needed[i]])
        BY <1>3, <2>2 DEF ListOK, NeededLinked
      <3>2. \A i \in DOMAIN l[h].needed : l[h].needed[i] \in 1 .. N + 1 /\ LinkedSo(m[l[h].needed[i]])
        <4>1. 1 .. N \subseteq 1 .. N + 1
          OBVIOUS
        <4>. QED
          BY <1>5, <3>1, <4>1, Zenon
      <3>. QED
        BY <1>3, <2>2, <3>2 DEF NeededLinked
    <2>. QED
      BY <1>6, <2>1, <2>2
  <1>. QED
    BY <1>2, <1>3, <1>7, <1>8, <1>9, <1>10 DEF ListOK

Changed(l, m, t, e) ==
  /\ Len(m) = Len(l) /\ m[t] = e /\ \A h \in 1 .. Len(l) : h # t => m[h] = l[h]

LEMMA ListUpdate ==
  ASSUME NEW l, ListOK(l), NEW t \in 2 .. Len(l), l[t].flags = {}, NEW e \in Loaded, SameSo(l[t], e),
         NeededLinked(l, e), NEW m, m = [l EXCEPT ![t] = e]
  PROVE  ListOK(m) /\ Changed(l, m, t, e)
  <1>1. l \in Seq(Loaded \cup {libdl_info}) /\ Len(l) >= 1 /\ Len(l) \in Nat /\ l[1] = libdl_info
    BY DEF ListOK, SoList
  <1>. HIDE DEF Loaded
  <1>2. Changed(l, m, t, e) /\ m \in Seq(Loaded \cup {libdl_info})
    BY <1>1 DEF Changed
  <1>3. PICK N \in Nat : N = Len(l) /\ N >= 1 /\ Len(m) = N
    BY <1>1, <1>2 DEF Changed
  <1>4. m[t] = e /\ \A h \in 1 .. N : h # t => m[h] = l[h]
    BY <1>2, <1>3 DEF Changed
  <1>5. ~LinkedSo(l[t]) /\ ~FailedSo(l[t])
    BY DEF LinkedSo, FailedSo
  <1>6. \A h \in 2 .. N : SameSo(l[h], m[h])
    BY <1>3, <1>4 DEF SameSo
  <1>7. SoList(m)
    <2>1. m[1] = libdl_info /\ Len(m) >= 1
      BY <1>1, <1>3, <1>4
    <2>2. \A h \in 2 .. N : l[h] \in Loaded /\ FromFile(l[h])
      BY <1>3 DEF ListOK, SoList
    <2>3. \A h \in 2 .. N : FromFile(m[h])
      BY <1>6, <2>2 DEF SameSo, FromFile
    <2>4. \A h \in 2 .. N : m[h] \in Loaded
      BY <1>4, <2>2
    <2>. QED
      BY <1>2, <1>3, <2>1, <2>3, <2>4 DEF SoList
  <1>8. NamesDiffer(m)
    BY <1>3, <1>6 DEF ListOK, NamesDiffer, SameSo
  <1>9. BasesDiffer(m)
    <2>1. \A h, k \in 2 .. N : ~FailedSo(l[h]) /\ ~FailedSo(l[k]) /\ l[h].base = l[k].base => h = k
      BY <1>3 DEF ListOK, BasesDiffer
    <2>2. \A h \in 2 .. N : m[h].base = l[h].base /\ (FailedSo(l[h]) => FailedSo(m[h]))
      BY <1>3, <1>4, <1>5, <1>6 DEF SameSo
    <2>3. \A h, k \in 2 .. N : ~FailedSo(m[h]) /\ ~FailedSo(m[k]) /\ m[h].base = m[k].base => h = k
      BY <2>1, <2>2
    <2>. QED
      BY <1>3, <2>3 DEF BasesDiffer
  <1>10. \A h \in 1 .. N : LinkedSo(l[h]) => LinkedSo(m[h])
    BY <1>4, <1>5
  <1>11. ASSUME NEW h \in 2 .. N PROVE NeededLinked(m, m[h])
    <2>1. NeededLinked(l, m[h])
      BY <1>3, <1>4 DEF ListOK
    <2>. QED
      BY <1>3, <1>10, <2>1 DEF NeededLinked
  <1>. QED
    BY <1>2, <1>3, <1>7, <1>8, <1>9, <1>11 DEF ListOK

LEMMA ListFacts ==
  ASSUME NEW l, ListOK(l)
  PROVE  /\ Len(l) \in Nat /\ Len(l) >= 1 /\ DOMAIN l = 1 .. Len(l) /\ l[1] = libdl_info
         /\ \A h \in 2 .. Len(l) : l[h] \in Loaded /\ FromFile(l[h]) /\ h \in 1 .. Len(l)
  <1>1. l \in Seq(Loaded \cup {libdl_info}) /\ Len(l) >= 1 /\ l[1] = libdl_info
        /\ \A h \in 2 .. Len(l) : l[h] \in Loaded /\ FromFile(l[h])
    BY DEF ListOK, SoList
  <1>2. Len(l) \in Nat /\ DOMAIN l = 1 .. Len(l)
    BY <1>1
  <1>3. \A h \in 2 .. Len(l) : h \in 1 .. Len(l)
    OBVIOUS
  <1>. QED
    BY <1>1, <1>2, <1>3

(* elf_lookup finds the definition of a name, if there is one.             *)
Exact(e, x) ==
  /\ elf_lookup(e, x) = MinOr0(Defs(e, x)) /\ elf_lookup(e, x) \in Nat
  /\ elf_lookup(e, x) = 0 <=> Defs(e, x) = {}
  /\ elf_lookup(e, x) # 0 => elf_lookup(e, x) \in DOMAIN e.symtab /\ Is(e, elf_lookup(e, x), x)

LEMMA LookupRight ==
  ASSUME NEW l, ListOK(l), NEW h \in 1 .. Len(l), NEW x \in SymNames
  PROVE  Exact(l[h], x)
  <1>1. PICK e : e = l[h]
    OBVIOUS
  <1>2. elf_lookup(e, x) = MinOr0(Defs(e, x)) /\ Defs(e, x) \subseteq Nat \ {0}
    <2>1. CASE h = 1
      <3>1. e = libdl_info
        BY <1>1, <2>1, ListFacts
      <3>2. DOMAIN libdl_info.symtab = 1 .. 6
        BY DEF libdl_info, libdl_symtab
      <3>3. Defs(e, x) \subseteq Nat \ {0}
        BY <3>1, <3>2 DEF Defs
      <3>. QED
        BY <3>1, <3>3, LibdlLookup
    <2>2. CASE h # 1
      <3>1. h \in 2 .. Len(l)
        BY <2>2
      <3>2. e \in Loaded /\ FromFile(e)
        BY <1>1, <3>1, ListFacts
      <3>3. PICK f \in Fs : f = <<e.from, e.name>> /\ e.symtab = FileOf[f].symtab /\ e.table = HashTable(e.symtab, FileOf[f].tags)
        BY <3>2 DEF FromFile
      <3>4. e.symtab \in Seq(Symbol)
        BY <3>2, LoadedFields
      <3>5. DOMAIN e.symtab \subseteq Nat \ {0}
        BY <3>4
      <3>6. Defs(e, x) \subseteq Nat \ {0}
        BY <3>5 DEF Defs
      <3>. QED
        BY <3>3, <3>6, FileLookup
    <2>. QED
      BY <2>1, <2>2
  <1>3. /\ MinOr0(Defs(e, x)) \in Nat /\ (MinOr0(Defs(e, x)) = 0 <=> Defs(e, x) = {})
        /\ Defs(e, x) # {} => MinOr0(Defs(e, x)) \in Defs(e, x)
    BY <1>2, MinOr0Facts
  <1>4. Exact(e, x)
    BY <1>2, <1>3 DEF Exact, Defs
  <1>. QED
    BY <1>1, <1>4

StackOK(s, l) ==
  /\ s \in Seq(2 .. Len(l)) /\ (\A i, j \in DOMAIN s : i < j => s[i] < s[j])
  /\ \A i \in DOMAIN s : l[s[i]].flags = {}

LEMMA StackPush ==
  ASSUME NEW l, Len(l) \in Nat, Len(l) >= 1, NEW s, StackOK(s, l), NEW e, e.flags = {}, NEW m, Grown(l, m, e),
         NEW s2, s2 = Append(s, Len(l) + 1)
  PROVE  StackOK(s2, m)
  <1>0. PICK N \in Nat : N = Len(l) /\ N >= 1
    OBVIOUS
  <1>1. Len(m) = N + 1 /\ m[N + 1] = e /\ \A h \in 1 .. N : m[h] = l[h]
    BY <1>0 DEF Grown
  <1>2. s \in Seq(2 .. N) /\ Len(s) \in Nat /\ DOMAIN s = 1 .. Len(s) /\ \A i \in DOMAIN s : s[i] \in 2 .. N
    BY <1>0 DEF StackOK
  <1>3. s \in Seq(2 .. N + 1) /\ N + 1 \in 2 .. N + 1
    <2>1. 2 .. N \subseteq 2 .. N + 1
      OBVIOUS
    <2>. QED
      BY <1>0, <1>2, <2>1
  <1>4. s2 \in Seq(2 .. N + 1) /\ DOMAIN s2 = 1 .. Len(s) + 1 /\ s2[Len(s) + 1] = N + 1 /\ \A i \in 1 .. Len(s) : s2[i] = s[i]
    BY <1>0, <1>2, <1>3
  <1>5. ASSUME NEW i \in DOMAIN s2 PROVE (i \in DOMAIN s /\ s2[i] = s[i]) \/ (i = Len(s) + 1 /\ s2[i] = N + 1)
    BY <1>2, <1>4
  <1>6. ASSUME NEW i \in DOMAIN s2, NEW j \in DOMAIN s2, i < j PROVE s2[i] < s2[j]
    <2>1. i \in DOMAIN s /\ s2[i] = s[i]
      BY <1>2, <1>4, <1>5, <1>6
    <2>2. CASE j \in DOMAIN s /\ s2[j] = s[j]
      BY <1>6, <2>1, <2>2 DEF StackOK
    <2>3. CASE j = Len(s) + 1 /\ s2[j] = N + 1
      BY <1>2, <2>1, <2>3
    <2>. QED
      BY <1>5, <2>2, <2>3
  <1>7. ASSUME NEW i \in DOMAIN s2 PROVE m[s2[i]].flags = {}
    <2>1. CASE i \in DOMAIN s /\ s2[i] = s[i]
      <3>1. s[i] \in 1 .. N /\ l[s[i]].flags = {}
        BY <1>2, <2>1 DEF StackOK
      <3>. QED
        BY <1>1, <2>1, <3>1
    <2>2. CASE i = Len(s) + 1 /\ s2[i] = N + 1
      BY <1>1, <2>2
    <2>. QED
      BY <1>5, <2>1, <2>2
  <1>. QED
    BY <1>1, <1>4, <1>6, <1>7 DEF StackOK

LEMMA TopFacts ==
  ASSUME NEW s, NEW l, StackOK(s, l), s # <<>>
  PROVE  /\ Len(s) \in Nat /\ Len(s) # 0 /\ DOMAIN s = 1 .. Len(s) /\ Last(s) = s[Len(s)]
         /\ Last(s) \in 2 .. Len(l) /\ l[Last(s)].flags = {}
         /\ \A i \in 1 .. Len(s) - 1 : s[i] # Last(s)
  <1>1. Len(s) \in Nat /\ Len(s) # 0 /\ DOMAIN s = 1 .. Len(s) /\ Last(s) = s[Len(s)] /\ \A i \in DOMAIN s : s[i] \in 2 .. Len(l)
    BY DEF StackOK, Last
  <1>2. Len(s) \in DOMAIN s /\ \A i \in 1 .. Len(s) - 1 : i \in DOMAIN s /\ i < Len(s)
    BY <1>1
  <1>3. ASSUME NEW i \in 1 .. Len(s) - 1 PROVE s[i] # s[Len(s)]
    <2>1. s[i] < s[Len(s)] /\ s[i] \in 2 .. Len(l) /\ s[Len(s)] \in 2 .. Len(l)
      BY <1>1, <1>2 DEF StackOK
    <2>. QED
      BY <2>1
  <1>. QED
    BY <1>1, <1>2, <1>3 DEF StackOK

LEMMA StackStay ==
  ASSUME NEW s, NEW l, StackOK(s, l), NEW t, NEW e, e.flags = {}, NEW m, Changed(l, m, t, e), Len(l) \in Nat
  PROVE  StackOK(s, m)
  <1>1. Len(m) = Len(l) /\ m[t] = e /\ \A h \in 1 .. Len(l) : h # t => m[h] = l[h]
    BY DEF Changed
  <1>2. \A i \in DOMAIN s : s[i] \in 1 .. Len(l) /\ l[s[i]].flags = {}
    <2>1. s \in Seq(2 .. Len(l))
      BY DEF StackOK
    <2>2. \A i \in DOMAIN s : s[i] \in 2 .. Len(l)
      BY <2>1
    <2>. QED
      BY <2>2 DEF StackOK
  <1>3. \A i \in DOMAIN s : m[s[i]].flags = {}
    BY <1>1, <1>2
  <1>. QED
    BY <1>1, <1>3 DEF StackOK

\* What a prefix of a sequence is: its elements, its length and its positions.
LEMMA PrefixFacts ==
  ASSUME NEW T, NEW s \in Seq(T), NEW n \in Nat, n <= Len(s), NEW s2, s2 = SubSeq(s, 1, n)
  PROVE  s2 \in Seq(T) /\ Len(s2) = n /\ DOMAIN s2 = 1 .. n /\ \A i \in 1 .. n : s2[i] = s[i]
  <1>1. Len(s2) = n
    OBVIOUS
  <1>2. \A i \in 1 .. n : s2[i] = s[i]
    OBVIOUS
  <1>3. \A i \in 1 .. n : s[i] \in T
    OBVIOUS
  <1>4. s2 \in Seq(T)
    OBVIOUS
  <1>5. DOMAIN s2 = 1 .. n
    BY <1>1, <1>4
  <1>. QED
    BY <1>1, <1>2, <1>4, <1>5

LEMMA StackPop ==
  ASSUME NEW s, NEW l, StackOK(s, l), s # <<>>, NEW e, NEW m, Changed(l, m, Last(s), e), Len(l) \in Nat,
         NEW s2, s2 = Front(s)
  PROVE  StackOK(s2, m)
  <1>0. Len(s) \in Nat /\ Len(s) # 0 /\ DOMAIN s = 1 .. Len(s)
    BY TopFacts
  <1>1. PICK n \in Nat : n = Len(s) - 1 /\ n <= Len(s) /\ DOMAIN s = 1 .. Len(s) /\ Len(s) = n + 1
    <2>1. Len(s) - 1 \in Nat /\ Len(s) - 1 <= Len(s) /\ Len(s) = Len(s) - 1 + 1
      BY <1>0
    <2>. QED
      BY <1>0, <2>1
  <1>2. s2 = SubSeq(s, 1, n) /\ s \in Seq(2 .. Len(l))
    BY <1>1 DEF Front, StackOK
  <1>3. s2 \in Seq(2 .. Len(l)) /\ Len(s2) = n /\ DOMAIN s2 = 1 .. n /\ \A i \in 1 .. n : s2[i] = s[i]
    <2>1. PICK T : T = 2 .. Len(l)
      OBVIOUS
    <2>2. s \in Seq(T) /\ n \in Nat /\ n <= Len(s) /\ s2 = SubSeq(s, 1, n)
      BY <1>1, <1>2, <2>1
    <2>3. s2 \in Seq(T) /\ Len(s2) = n /\ DOMAIN s2 = 1 .. n /\ \A i \in 1 .. n : s2[i] = s[i]
      BY <2>2, PrefixFacts
    <2>. QED
      BY <2>1, <2>3
  <1>4. \A i \in 1 .. n : i \in DOMAIN s /\ s[i] # Last(s) /\ s[i] \in 1 .. Len(l)
    <2>1. \A i \in 1 .. n : i \in DOMAIN s
      BY <1>1
    <2>2. \A i \in DOMAIN s : s[i] \in 2 .. Len(l)
      BY <1>2
    <2>3. \A i \in 1 .. n : s[i] # Last(s)
      BY <1>1, TopFacts
    <2>. QED
      BY <2>1, <2>2, <2>3
  <1>5. Len(m) = Len(l) /\ \A h \in 1 .. Len(l) : h # Last(s) => m[h] = l[h]
    BY DEF Changed
  <1>6. \A i \in 1 .. n : m[s2[i]].flags = {}
    <2>1. \A i \in 1 .. n : l[s[i]].flags = {}
      BY <1>4 DEF StackOK
    <2>. QED
      BY <1>3, <1>4, <1>5, <2>1
  <1>7. \A i, j \in 1 .. n : i < j => s2[i] < s2[j]
    BY <1>3, <1>4 DEF StackOK
  <1>. QED
    BY <1>3, <1>5, <1>6, <1>7 DEF StackOK

-----------------------------------------------------------------------------
(* What dlopen finds, and that there is room for it.                       *)

LEMMA HitsNat ==
  ASSUME PathInv, NEW q
  PROVE  /\ LdHits(q) \subseteq Nat /\ SoHits(q) \subseteq Nat
         /\ \A k \in LdHits(q) : k \in DOMAIN ldpaths /\ Exists(ldpaths[k], q.name)
         /\ \A k \in SoHits(q) : k \in DOMAIN sopaths /\ Exists(sopaths[k], q.name)
  <1>1. DOMAIN ldpaths \subseteq Nat /\ DOMAIN sopaths \subseteq Nat
    BY DEF PathInv
  <1>. QED
    BY <1>1 DEF LdHits, SoHits, Behind

LEMMA OpenFacts ==
  ASSUME PathInv, NEW q
  PROVE  open_library(q) = None \/ <<open_library(q), q.name>> \in Fs
  <1>1. CASE LdHits(q) # {}
    <2>1. Min(LdHits(q)) \in LdHits(q)
      BY <1>1, HitsNat, MinNat
    <2>2. Exists(ldpaths[Min(LdHits(q))], q.name)
      BY <2>1, HitsNat
    <2>. QED
      BY <1>1, <2>2 DEF open_library, Exists
  <1>2. CASE LdHits(q) = {} /\ SoHits(q) # {}
    <2>1. Min(SoHits(q)) \in SoHits(q)
      BY <1>2, HitsNat, MinNat
    <2>2. Exists(sopaths[Min(SoHits(q))], q.name)
      BY <2>1, HitsNat
    <2>. QED
      BY <1>2, <2>2 DEF open_library, Exists
  <1>3. CASE LdHits(q) = {} /\ SoHits(q) = {}
    BY <1>3 DEF open_library
  <1>. QED
    BY <1>1, <1>2, <1>3

LEMMA OpenTypes ==
  ASSUME PathInv, NEW q, open_library(q) # None
  PROVE  <<open_library(q), q.name>> \in Fs /\ open_library(q) \in Dirs /\ q.name \in Names
  <1>1. <<open_library(q), q.name>> \in Fs
    BY OpenFacts
  <1>2. <<open_library(q), q.name>> \in Dirs \X Names
    BY <1>1, SearchAssumption
  <1>. QED
    BY <1>1, <1>2

FileNames == {f[2] : f \in Fs}

LEMMA FileNamesFinite == IsFiniteSet(FileNames)
  <1>. DEFINE g == [f \in Fs |-> f[2]]
  <1>1. g \in [Fs -> FileNames] /\ \A t \in FileNames : \E f \in Fs : g[f] = t
    BY DEF FileNames
  <1>2. g \in Surjection(Fs, FileNames)
    BY <1>1 DEF Surjection
  <1>3. IsFiniteSet(Fs)
    BY SearchAssumption
  <1>. QED
    BY <1>2, <1>3, FS_Surjection

(* A library of every name has room: regions in use belong to libraries    *)
(* with names of their own.                                                *)
LEMMA Room ==
  ASSUME NEW l, ListOK(l), NEW n \in FileNames, \A h \in 2 .. Len(l) : l[h].name # n
  PROVE  \E b \in Regions : \A h \in 2 .. Len(l) : l[h].base = b => FailedSo(l[h])
  <1>. SUFFICES ASSUME \A b \in Regions : \E h \in 2 .. Len(l) : l[h].base = b /\ ~FailedSo(l[h])
                PROVE  FALSE
    OBVIOUS
  <1>. DEFINE H(b) == CHOOSE h \in 2 .. Len(l) : l[h].base = b /\ ~FailedSo(l[h])
              T == FileNames \ {n}
              g == [b \in Regions |-> l[H(b)].name]
  <1>1. \A b \in Regions : H(b) \in 2 .. Len(l) /\ l[H(b)].base = b
    OBVIOUS
  <1>2. \A h \in 2 .. Len(l) : l[h].name \in T
    <2>1. ASSUME NEW h \in 2 .. Len(l) PROVE l[h].name \in FileNames
      <3>1. <<l[h].from, l[h].name>> \in Fs
        BY ListFacts DEF FromFile
      <3>2. <<l[h].from, l[h].name>>[2] = l[h].name
        OBVIOUS
      <3>. QED
        BY <3>1, <3>2, Zenon DEF FileNames
    <2>. QED
      BY <2>1
  <1>. HIDE DEF H, T
  <1>3. g \in [Regions -> T]
    BY <1>1, <1>2
  <1>4. IsFiniteSet(T) /\ Cardinality(T) < Cardinality(Regions) /\ IsFiniteSet(Regions)
    <2>1. IsFiniteSet(T) /\ Cardinality(T) = Cardinality(FileNames) - 1
      BY FileNamesFinite, FS_RemoveElement DEF T
    <2>2. Cardinality(FileNames) <= Cardinality(Regions) /\ IsFiniteSet(Regions)
      BY WorldAssumption DEF FileNames
    <2>3. Cardinality(FileNames) \in Nat /\ Cardinality(Regions) \in Nat
      BY <2>2, FileNamesFinite, FS_CardinalityType
    <2>. QED
      BY <2>1, <2>2, <2>3
  <1>5. PICK x, y \in Regions : x # y /\ g[x] = g[y]
    <2>. HIDE DEF g
    <2>. QED
      BY <1>3, <1>4, FS_PigeonHole
  <1>6. l[H(x)].name = l[H(y)].name
    BY <1>5
  <1>7. H(x) = H(y)
    BY <1>1, <1>6 DEF ListOK, NamesDiffer
  <1>. QED
    BY <1>1, <1>5, <1>7

-----------------------------------------------------------------------------
(* How the actions change the list.                                        *)

Errors ==
  {None, "CANNOT_LOAD_LIBRARY", "INVALID_LIBRARY_HANDLE", "BAD_SYMBOL_NAME", "SYMBOL_NOT_FOUND", "SYMBOL_NOT_GLOBAL"}

DlInv ==
  /\ ListOK(solist) /\ StackOK(linking, solist) /\ (Len(solist) > 1 => phase = "run")
  /\ dl_err_str \in Errors /\ HostSyms \subseteq host_global

NewSo(r, e) ==
  /\ e \in Loaded /\ FromFile(e) /\ e.needed = <<>> /\ e.flags = {} /\ e.bound = <<>>
  /\ e.req = r /\ e.name = Resolved(r).name /\ e.from = FileDir(r)

LEMMA FreeFacts ==
  ASSUME ListOK(solist), NEW n \in FileNames, \A h \in 2 .. Len(solist) : solist[h].name # n
  PROVE  /\ Min(FreeRegions) \in Regions
         /\ \A h \in 2 .. Len(solist) : solist[h].base = Min(FreeRegions) => FailedSo(solist[h])
  <1>1. PICK b \in Regions : \A h \in 2 .. Len(solist) : solist[h].base = b => FailedSo(solist[h])
    BY Room
  <1>2. Regions \subseteq Nat \ {0}
    BY WorldAssumption
  <1>3. DOMAIN solist = 1 .. Len(solist) /\ Len(solist) \in Nat /\ solist[1].base = 0
    BY ListFacts, LibdlFacts
  <1>4. \A h \in 1 .. Len(solist) : h = 1 \/ h \in 2 .. Len(solist)
    BY <1>3
  <1>5. b \in FreeRegions
    BY <1>1, <1>2, <1>3, <1>4 DEF FreeRegions, So, Failed, FailedSo
  <1>6. Min(FreeRegions) \in FreeRegions
    <2>1. FreeRegions \subseteq Nat
      BY <1>2 DEF FreeRegions
    <2>. QED
      BY <1>5, <2>1, MinNat
  <1>7. \A h \in 2 .. Len(solist) : h \in DOMAIN solist
    BY <1>3
  <1>. QED
    BY <1>6, <1>7 DEF FreeRegions, So, Failed, FailedSo

LEMMA LoadStep ==
  ASSUME DlInv, PathInv, NEW r \in Request, Load(r)
  PROVE  /\ \E e : NewSo(r, e) /\ Grown(solist, solist', e)
         /\ ListOK(solist') /\ StackOK(linking', solist') /\ linking' = Append(linking, Len(solist) + 1)
  <1>1. Known(r) = {} /\ FileDir(r) # None /\ linking' = Append(linking, Len(solist) + 1)
    BY DEF Load
  <1>2. PICK n : n = Resolved(r).name
    OBVIOUS
  <1>3. PICK d : d = FileDir(r)
    OBVIOUS
  <1>4. <<d, n>> \in Fs /\ d \in Dirs /\ n \in Names
    BY <1>1, <1>2, <1>3, OpenTypes DEF FileDir
  <1>5. n \in FileNames
    <2>1. <<d, n>>[2] = n
      OBVIOUS
    <2>. QED
      BY <1>4, <2>1, Zenon DEF FileNames
  <1>6. ListOK(solist) /\ StackOK(linking, solist)
    BY DEF DlInv
  <1>7. \A h \in 2 .. Len(solist) : solist[h].name # n
    <2>1. \A h \in 2 .. Len(solist) : h \in DOMAIN solist
      BY <1>6, ListFacts
    <2>. QED
      BY <1>1, <1>2, <2>1 DEF Known, So
  <1>8. PICK b : b = Min(FreeRegions)
    OBVIOUS
  <1>9. b \in Regions /\ \A h \in 2 .. Len(solist) : solist[h].base = b => FailedSo(solist[h])
    BY <1>5, <1>6, <1>7, <1>8, FreeFacts
  <1>10. PICK f : f = FileOf[<<d, n>>]
    OBVIOUS
  <1>11. PICK e : e = [name |-> n, from |-> d, base |-> b, size |-> RegionSize, flags |-> {}, needed |-> <<>>,
                       symtab |-> f.symtab, table |-> HashTable(f.symtab, f.tags), req |-> r, bound |-> <<>>]
    OBVIOUS
  <1>12. solist' = Append(solist, e)
    BY <1>2, <1>3, <1>8, <1>10, <1>11 DEF Load
  <1>13. f.symtab \in Seq(Symbol) /\ HashTable(f.symtab, f.tags) \in Tables
    BY <1>4, <1>10, WorldAssumption DEF Tables
  <1>14. /\ e.name = n /\ e.from = d /\ e.base = b /\ e.flags = {} /\ e.needed = <<>> /\ e.symtab = f.symtab
         /\ e.table = HashTable(f.symtab, f.tags) /\ e.req = r /\ e.bound = <<>>
    BY <1>11
  <1>15. e \in Loaded
    <2>1. <<>> \in Seq(Nat) /\ <<>> \in Seq(Binding)
      OBVIOUS
    <2>. HIDE DEF Request
    <2>. QED
      BY <1>4, <1>9, <1>11, <1>13, <2>1 DEF Loaded
  <1>16. FromFile(e)
    BY <1>4, <1>10, <1>14 DEF FromFile
  <1>17. ListOK(solist') /\ Grown(solist, solist', e)
    BY <1>6, <1>7, <1>9, <1>12, <1>14, <1>15, <1>16, ListAppend
  <1>18. StackOK(linking', solist')
    <2>1. Len(solist) \in Nat /\ Len(solist) >= 1
      BY <1>6, ListFacts
    <2>. QED
      BY <1>1, <1>6, <1>14, <1>17, <2>1, StackPush
  <1>. QED
    BY <1>1, <1>2, <1>3, <1>14, <1>15, <1>16, <1>17, <1>18 DEF NewSo

(* The innermost library, its file and what it needs.                      *)
LEMMA TopSo ==
  ASSUME DlInv, linking # <<>>
  PROVE  /\ top \in 2 .. Len(solist) /\ top \in DOMAIN solist /\ solist[top] \in Loaded /\ solist[top].flags = {}
         /\ <<solist[top].from, solist[top].name>> \in Fs /\ FileOfSo(top).needed \in Seq(Request)
         /\ MoreNeeded => NextNeeded \in Request
  <1>1. top \in 2 .. Len(solist) /\ solist[top].flags = {}
    BY TopFacts DEF DlInv, top
  <1>2. top \in DOMAIN solist /\ solist[top] \in Loaded /\ FromFile(solist[top])
    BY <1>1, ListFacts DEF DlInv
  <1>3. <<solist[top].from, solist[top].name>> \in Fs
    BY <1>2 DEF FromFile
  <1>4. FileOfSo(top).needed \in Seq(Request)
    BY <1>3, WorldAssumption DEF FileOfSo, So
  <1>5. solist[top].needed \in Seq(Nat)
    BY <1>2, LoadedFields
  <1>6. MoreNeeded => NextNeeded \in Request
    <2>1. PICK q \in Seq(Request) : q = FileOfSo(top).needed
      BY <1>4
    <2>2. PICK k \in Nat : k = Len(solist[top].needed)
      BY <1>5
    <2>3. MoreNeeded => k < Len(q)
      BY <2>1, <2>2 DEF MoreNeeded, So
    <2>4. NextNeeded = q[k + 1]
      BY <2>1, <2>2 DEF NextNeeded, So
    <2>5. k < Len(q) => q[k + 1] \in Request
      OBVIOUS
    <2>. QED
      BY <2>3, <2>4, <2>5
  <1>. QED
    BY <1>1, <1>2, <1>3, <1>4, <1>6

LEMMA BindStep ==
  ASSUME DlInv, linking # <<>>, NEW h \in 1 .. Len(solist), LinkedSo(solist[h]), Bind(h)
  PROVE  /\ \E e : /\ Changed(solist, solist', top, e) /\ e \in Loaded /\ SameSo(solist[top], e)
                   /\ e.needed = Append(solist[top].needed, h) /\ e.flags = {} /\ e.bound = solist[top].bound
         /\ ListOK(solist') /\ StackOK(linking', solist') /\ linking' = linking
  <1>1. /\ ListOK(solist) /\ StackOK(linking, solist) /\ linking' = linking /\ Len(solist) \in Nat
    BY ListFacts DEF DlInv, Bind
  <1>2. PICK t \in 2 .. Len(solist) : t = top
    BY TopSo
  <1>3. PICK c : c = solist[t]
    OBVIOUS
  <1>4. c \in Loaded /\ c.flags = {} /\ c.needed \in Seq(Nat)
    BY <1>2, <1>3, TopSo, LoadedFields
  <1>5. PICK x : x = Append(c.needed, h)
    OBVIOUS
  <1>6. x \in Seq(Nat) /\ DOMAIN x = 1 .. Len(c.needed) + 1 /\ x[Len(c.needed) + 1] = h /\ \A i \in 1 .. Len(c.needed) : x[i] = c.needed[i]
    BY <1>1, <1>4, <1>5
  <1>7. PICK e : e = [c EXCEPT !.needed = x]
    OBVIOUS
  <1>8. e \in Loaded /\ SameSo(c, e) /\ e.needed = x /\ e.flags = c.flags /\ e.bound = c.bound
    BY <1>4, <1>6, <1>7, SetNeeded
  <1>9. solist' = [solist EXCEPT ![t] = e]
    BY <1>2, <1>3, <1>5, <1>7 DEF Bind
  <1>10. NeededLinked(solist, e)
    <2>1. NeededLinked(solist, c)
      BY <1>1, <1>2, <1>3 DEF ListOK
    <2>2. DOMAIN c.needed = 1 .. Len(c.needed) /\ Len(c.needed) \in Nat
      BY <1>4
    <2>3. ASSUME NEW i \in DOMAIN x PROVE x[i] \in 1 .. Len(solist) /\ LinkedSo(solist[x[i]])
      <3>1. i \in DOMAIN c.needed \/ i = Len(c.needed) + 1
        BY <1>6, <2>2
      <3>. QED
        BY <1>6, <2>1, <2>2, <3>1 DEF NeededLinked
    <2>. QED
      BY <1>8, <2>3 DEF NeededLinked
  <1>11. ListOK(solist') /\ Changed(solist, solist', t, e)
    BY <1>1, <1>2, <1>3, <1>4, <1>8, <1>9, <1>10, ListUpdate
  <1>12. StackOK(linking', solist')
    BY <1>1, <1>4, <1>8, <1>11, StackStay
  <1>. QED
    BY <1>1, <1>2, <1>3, <1>4, <1>5, <1>8, <1>11, <1>12

-----------------------------------------------------------------------------
(* apkenv__do_lookup and what the relocations make of it.                  *)

ScopeSet(h) == {h} \cup Range(solist[h].needed)

LookedUp(h, x, d) ==
  /\ d \in Nat
  /\ d = 0 => \A k \in ScopeSet(h) : Defs(solist[k], x) = {}
  /\ d # 0 => /\ d \in ScopeSet(h) /\ d \in 1 .. Len(solist) /\ elf_lookup(solist[d], x) # 0
              /\ elf_lookup(solist[d], x) \in DOMAIN solist[d].symtab /\ Is(solist[d], elf_lookup(solist[d], x), x)

LEMMA ScopeFacts ==
  ASSUME ListOK(solist), NEW h \in 2 .. Len(solist)
  PROVE  /\ DOMAIN Scope(h) \subseteq Nat /\ \A k \in DOMAIN Scope(h) : Scope(h)[k] \in ScopeSet(h)
         /\ \A d \in ScopeSet(h) : \E k \in DOMAIN Scope(h) : Scope(h)[k] = d
         /\ ScopeSet(h) \subseteq 1 .. Len(solist)
  <1>1. PICK q : q = solist[h].needed
    OBVIOUS
  <1>2. q \in Seq(Nat) /\ \A i \in DOMAIN q : q[i] \in 1 .. Len(solist)
    <2>1. solist[h] \in Loaded
      BY ListFacts
    <2>2. NeededLinked(solist, solist[h])
      BY DEF ListOK
    <2>. QED
      BY <1>1, <2>1, <2>2, LoadedFields DEF NeededLinked
  <1>3. Scope(h) = <<h>> \o q
    BY <1>1 DEF Scope, So
  <1>4. PICK c : c = Scope(h)
    OBVIOUS
  <1>5. PICK n \in Nat : n = Len(q) /\ DOMAIN q = 1 .. n
    BY <1>2
  <1>6. h \in Nat
    OBVIOUS
  <1>7. DOMAIN c = 1 .. n + 1 /\ c[1] = h /\ \A i \in 1 .. n : c[i + 1] = q[i]
    BY <1>2, <1>3, <1>4, <1>5, <1>6
  <1>8. ScopeSet(h) = {h} \cup {q[i] : i \in 1 .. n}
    BY <1>1, <1>5 DEF ScopeSet, Range
  <1>9. ASSUME NEW k \in DOMAIN c PROVE c[k] \in ScopeSet(h)
    <2>1. CASE k = 1
      BY <1>7, <1>8, <2>1
    <2>2. CASE k # 1
      <3>1. PICK i \in 1 .. n : k = i + 1
        <4>1. k - 1 \in 1 .. n /\ k = (k - 1) + 1
          BY <1>7, <2>2
        <4>. QED
          BY <4>1
      <3>. QED
        BY <1>7, <1>8, <3>1
    <2>. QED
      BY <2>1, <2>2
  <1>10. ASSUME NEW d \in ScopeSet(h) PROVE \E k \in DOMAIN c : c[k] = d
    <2>1. CASE d = h
      <3>1. 1 \in DOMAIN c
        BY <1>7
      <3>. QED
        BY <1>7, <2>1, <3>1
    <2>2. CASE d # h
      <3>1. PICK i \in 1 .. n : d = q[i]
        BY <1>8, <2>2
      <3>2. i + 1 \in DOMAIN c
        BY <1>7
      <3>. QED
        BY <1>7, <3>1, <3>2
    <2>. QED
      BY <2>1, <2>2
  <1>11. ScopeSet(h) \subseteq 1 .. Len(solist)
    <2>1. h \in 1 .. Len(solist)
      BY ListFacts
    <2>. QED
      BY <1>2, <1>5, <1>8, <2>1
  <1>12. DOMAIN c \subseteq Nat
    BY <1>7
  <1>. QED
    BY <1>4, <1>9, <1>10, <1>11, <1>12

LEMMA DoLookup ==
  ASSUME ListOK(solist), NEW h \in 2 .. Len(solist), NEW x \in SymNames
  PROVE  LookedUp(h, x, do_lookup(h, x))
  <1>1. PICK c : c = Scope(h)
    OBVIOUS
  <1>. DEFINE ks == {k \in DOMAIN c : elf_lookup(solist[c[k]], x) # 0}
  <1>2. do_lookup(h, x) = IF ks = {} THEN 0 ELSE c[Min(ks)]
    BY <1>1 DEF do_lookup, FirstIn, So
  <1>3. /\ DOMAIN c \subseteq Nat /\ (\A k \in DOMAIN c : c[k] \in ScopeSet(h))
        /\ (\A d \in ScopeSet(h) : \E k \in DOMAIN c : c[k] = d) /\ ScopeSet(h) \subseteq 1 .. Len(solist)
    BY <1>1, ScopeFacts
  <1>4. \A d \in ScopeSet(h) : Exact(solist[d], x)
    BY <1>3, LookupRight
  <1>5. CASE ks = {}
    <2>1. ASSUME NEW d \in ScopeSet(h) PROVE Defs(solist[d], x) = {}
      <3>1. PICK k \in DOMAIN c : c[k] = d
        BY <1>3
      <3>2. elf_lookup(solist[d], x) = 0
        BY <1>5, <3>1
      <3>. QED
        BY <1>4, <3>2 DEF Exact
    <2>2. do_lookup(h, x) = 0
      BY <1>2, <1>5
    <2>. QED
      BY <2>1, <2>2 DEF LookedUp
  <1>6. CASE ks # {}
    <2>1. ks \subseteq Nat
      BY <1>3
    <2>2. PICK m \in ks : do_lookup(h, x) = c[m]
      <3>1. Min(ks) \in ks /\ do_lookup(h, x) = c[Min(ks)]
        BY <1>2, <1>6, <2>1, MinNat
      <3>. QED
        BY <3>1
    <2>3. PICK d \in ScopeSet(h) : d = do_lookup(h, x) /\ elf_lookup(solist[d], x) # 0
      BY <1>3, <2>2
    <2>4. d \in 1 .. Len(solist) /\ d # 0 /\ d \in Nat
      BY <1>3
    <2>5. elf_lookup(solist[d], x) \in DOMAIN solist[d].symtab /\ Is(solist[d], elf_lookup(solist[d], x), x)
      BY <1>4, <2>3 DEF Exact
    <2>. QED
      BY <2>3, <2>4, <2>5 DEF LookedUp
  <1>. QED
    BY <1>5, <1>6

(* The answers of Resolution and when they are given.                      *)
Resolves(h, s, b) ==
  /\ b \in Binding
  /\ <<"bionic_", s.name>> \in host_global => b.kind = "bionic"
  /\ b.kind = "lib" => /\ b.so \in ScopeSet(h) /\ b.so \in 1 .. Len(solist) /\ b.sym \in DOMAIN solist[b.so].symtab
                       /\ Is(solist[b.so], b.sym, s.name)
  /\ b.kind \in {"zero", "stub", "host"} => \A d \in ScopeSet(h) : Defs(solist[d], s.name) = {}

LEMMA ResolutionFacts ==
  ASSUME ListOK(solist), NEW h \in 2 .. Len(solist), NEW s \in Symbol
  PROVE  Resolves(h, s, Resolution(h, s))
  <1>1. PICK x \in SymNames : x = s.name
    BY DEF Symbol
  <1>2. PICK d : d = do_lookup(h, x)
    OBVIOUS
  <1>3. LookedUp(h, x, d)
    BY <1>2, DoLookup
  <1>4. CASE Wrapped(x)
    <2>1. Resolution(h, s) = [kind |-> "bionic", so |-> 0, sym |-> x]
      BY <1>1, <1>4 DEF Resolution, Wrap
    <2>2. [kind |-> "bionic", so |-> 0, sym |-> x] \in Binding
      BY DEF Binding
    <2>. QED
      BY <2>1, <2>2 DEF Resolves
  <1>5. CASE ~Wrapped(x) /\ d # 0
    <2>1. PICK y : y = elf_lookup(solist[d], x)
      OBVIOUS
    <2>2. Resolution(h, s) = [kind |-> "lib", so |-> d, sym |-> y]
      BY <1>1, <1>2, <1>5, <2>1 DEF Resolution, Address, So
    <2>3. y \in Nat
      <3>1. Exact(solist[d], x)
        BY <1>3, <1>5, LookupRight DEF LookedUp
      <3>. QED
        BY <2>1, <3>1 DEF Exact
    <2>4. [kind |-> "lib", so |-> d, sym |-> y] \in Binding
      BY <1>3, <2>3 DEF Binding, LookedUp
    <2>. QED
      BY <1>1, <1>3, <1>5, <2>1, <2>2, <2>4 DEF Resolves, LookedUp, Wrapped
  <1>6. CASE ~Wrapped(x) /\ d = 0
    <2>1. Resolution(h, s) \in {Host(x), Nothing("stub"), Nothing("zero"), Nothing("fail")}
      BY <1>1, <1>2, <1>6 DEF Resolution
    <2>2. Resolution(h, s) \in Binding /\ Resolution(h, s).kind # "lib"
      BY <2>1 DEF Binding, Host, Nothing
    <2>. QED
      BY <1>1, <1>3, <1>6, <2>2 DEF Resolves, LookedUp, Wrapped
  <1>. QED
    BY <1>4, <1>5, <1>6

BoundRight(h, bs) ==
  /\ bs \in Seq(Binding) /\ DOMAIN bs = DOMAIN solist[h].symtab
  /\ \A n \in DOMAIN bs : Resolves(h, solist[h].symtab[n], bs[n])

LEMMA BindingsFacts ==
  ASSUME ListOK(solist), NEW h \in 2 .. Len(solist)
  PROVE  BoundRight(h, Bindings(h))
  <1>1. PICK st : st = solist[h].symtab
    OBVIOUS
  <1>2. st \in Seq(Symbol)
    BY <1>1, ListFacts, LoadedFields
  <1>3. Bindings(h) = [n \in DOMAIN st |-> Resolution(h, st[n])]
    BY <1>1 DEF Bindings, So
  <1>4. \A n \in DOMAIN st : Resolves(h, st[n], Resolution(h, st[n]))
    <2>1. \A n \in DOMAIN st : st[n] \in Symbol
      BY <1>2
    <2>. QED
      BY <2>1, ResolutionFacts
  <1>5. \A n \in DOMAIN st : Resolution(h, st[n]) \in Binding
    BY <1>4 DEF Resolves
  <1>6. Bindings(h) \in Seq(Binding)
    <2>1. PICK k \in Nat : DOMAIN st = 1 .. k
      BY <1>2
    <2>2. Bindings(h) \in [1 .. k -> Binding]
      BY <1>3, <1>5, <2>1
    <2>. QED
      BY <2>2
  <1>. QED
    BY <1>1, <1>3, <1>4, <1>6 DEF BoundRight

LEMMA LinkStep ==
  ASSUME DlInv, linking # <<>>, NEW f \in {{"LINKED"}, {"ERROR"}}, NEW bs \in Seq(Binding),
         solist' = [solist EXCEPT ![top] = [[solist[top] EXCEPT !.bound = bs] EXCEPT !.flags = f]],
         linking' = Front(linking)
  PROVE  /\ \E e : /\ Changed(solist, solist', top, e) /\ e \in Loaded /\ SameSo(solist[top], e)
                   /\ e.needed = solist[top].needed /\ e.flags = f /\ e.bound = bs
         /\ ListOK(solist') /\ StackOK(linking', solist')
  <1>1. /\ ListOK(solist) /\ StackOK(linking, solist) /\ Len(solist) \in Nat
    BY ListFacts DEF DlInv
  <1>2. PICK t \in 2 .. Len(solist) : t = top
    BY TopSo
  <1>3. PICK c : c = solist[t]
    OBVIOUS
  <1>4. c \in Loaded /\ c.flags = {}
    BY <1>2, <1>3, TopSo
  <1>5. PICK e1 : e1 = [c EXCEPT !.bound = bs]
    OBVIOUS
  <1>6. e1 \in Loaded /\ SameSo(c, e1) /\ e1.needed = c.needed /\ e1.bound = bs
    BY <1>4, <1>5, SetBound
  <1>7. PICK e : e = [e1 EXCEPT !.flags = f]
    OBVIOUS
  <1>8. e \in Loaded /\ SameSo(e1, e) /\ e.needed = e1.needed /\ e.flags = f /\ e.bound = e1.bound
    BY <1>6, <1>7, SetFlags
  <1>9. SameSo(c, e)
    BY <1>6, <1>8 DEF SameSo
  <1>10. solist' = [solist EXCEPT ![t] = e]
    BY <1>2, <1>3, <1>5, <1>7
  <1>11. NeededLinked(solist, e)
    BY <1>1, <1>2, <1>3, <1>6, <1>8 DEF ListOK, NeededLinked
  <1>12. ListOK(solist') /\ Changed(solist, solist', t, e)
    BY <1>1, <1>2, <1>3, <1>4, <1>8, <1>9, <1>10, <1>11, ListUpdate
  <1>13. StackOK(linking', solist')
    <2>1. Changed(solist, solist', Last(linking), e)
      BY <1>2, <1>12 DEF top
    <2>. QED
      BY <1>1, <2>1, StackPop
  <1>. QED
    BY <1>2, <1>3, <1>6, <1>8, <1>9, <1>12, <1>13

-----------------------------------------------------------------------------
(* The five kinds of steps.                                                *)

NewStep(r, e) ==
  /\ r \in Request /\ NewSo(r, e) /\ Known(r) = {} /\ Grown(solist, solist', e)
  /\ phase = "run" /\ UNCHANGED <<env, host_global>>

(* A need that glibc would be asked for if no file had it.  What glibc has *)
(* of a library's needs is among them, and they get fewer as libraries are *)
(* loaded, whatever becomes of the search path.                            *)
Unlisted(r) == Known(r) = {} /\ Resolved(r).name \in DOMAIN HostLibs

NeedStep(h, e) ==
  /\ linking # <<>> /\ MoreNeeded /\ Changed(solist, solist', top, e) /\ e \in Loaded /\ SameSo(solist[top], e)
  /\ e.needed = Append(solist[top].needed, h) /\ e.flags = {} /\ e.bound = solist[top].bound
  /\ UNCHANGED env /\ host_global \subseteq host_global'
  /\ Unlisted(NextNeeded) => HostLibs[Resolved(NextNeeded).name] \subseteq host_global'

EndStep(f, bs, e) ==
  /\ linking # <<>> /\ ~MoreNeeded /\ Changed(solist, solist', top, e) /\ e \in Loaded /\ SameSo(solist[top], e)
  /\ e.needed = solist[top].needed /\ e.flags = f /\ e.bound = bs
  /\ (f = {"LINKED"} /\ bs = Bindings(top)) \/ f = {"ERROR"}
  /\ UNCHANGED <<env, host_global>>

QuietStep == solist' = solist /\ linking' = linking /\ host_global \subseteq host_global'

StepKind ==
  (\E r, e : NewStep(r, e)) \/ (\E h, e : NeedStep(h, e)) \/ (\E f, bs, e : EndStep(f, bs, e)) \/ QuietStep

ListKept == ListOK(solist') /\ StackOK(linking', solist')

LEMMA RunningIs ==
  ASSUME DlInv, linking # <<>>
  PROVE  phase = "run"
  <1>1. top \in 2 .. Len(solist)
    BY TopSo
  <1>2. Len(solist) \in Nat
    BY ListFacts DEF DlInv
  <1>3. Len(solist) > 1
    BY <1>1, <1>2
  <1>. QED
    BY <1>3 DEF DlInv

LEMMA LoadKind ==
  ASSUME DlInv, PathInv, DlopenLoad \/ NeededLoad
  PROVE  (\E r, e : NewStep(r, e)) /\ ListKept
  <1>1. PICK r \in Request : Load(r)
    <2>1. CASE DlopenLoad
      BY <2>1, WorldAssumption DEF DlopenLoad
    <2>2. CASE NeededLoad
      <3>1. linking # <<>> /\ MoreNeeded /\ Load(NextNeeded)
        BY <2>2 DEF NeededLoad, MoreNeeded
      <3>. QED
        BY <3>1, TopSo
    <2>. QED
      BY <2>1, <2>2
  <1>2. phase = "run" /\ UNCHANGED <<env, host_global>>
    BY RunningIs DEF DlopenLoad, NeededLoad, Running, MoreNeeded
  <1>3. PICK e : NewSo(r, e) /\ Grown(solist, solist', e)
    BY <1>1, LoadStep
  <1>4. ListKept
    BY <1>1, LoadStep DEF ListKept
  <1>5. Known(r) = {}
    BY <1>1 DEF Load
  <1>6. NewStep(r, e)
    BY <1>2, <1>3, <1>5 DEF NewStep
  <1>. QED
    BY <1>4, <1>6

LEMMA NeedKind ==
  ASSUME DlInv, NeededLoaded \/ NeededElsewhere
  PROVE  (\E h, e : NeedStep(h, e)) /\ ListKept
  <1>0. linking # <<>> /\ MoreNeeded /\ ListOK(solist)
    BY DEF NeededLoaded, NeededElsewhere, MoreNeeded, DlInv
  <1>1. 1 \in 1 .. Len(solist) /\ LinkedSo(solist[1]) /\ DOMAIN solist = 1 .. Len(solist)
    <2>1. Len(solist) \in Nat /\ Len(solist) >= 1 /\ solist[1] = libdl_info /\ DOMAIN solist = 1 .. Len(solist)
      BY <1>0, ListFacts
    <2>. QED
      BY <2>1, LibdlFacts
  <1>2. PICK h \in 1 .. Len(solist) : LinkedSo(solist[h]) /\ Bind(h)
    <2>1. CASE NeededLoaded
      <3>1. PICK k \in Known(NextNeeded) : Bind(IF Linked(k) THEN k ELSE LIBDL)
        BY <2>1 DEF NeededLoaded
      <3>2. CASE Linked(k)
        <4>1. Bind(k)
          BY <3>1, <3>2
        <4>2. k \in 1 .. Len(solist) /\ LinkedSo(solist[k])
          BY <1>1, <3>2 DEF Known, Linked, Failed, LinkedSo, So
        <4>. QED
          BY <4>1, <4>2
      <3>3. CASE ~Linked(k)
        <4>1. Bind(1)
          BY <3>1, <3>3 DEF LIBDL
        <4>. QED
          BY <1>1, <4>1
      <3>. QED
        BY <3>2, <3>3
    <2>2. CASE NeededElsewhere
      <3>1. Bind(1)
        BY <2>2 DEF NeededElsewhere, LIBDL
      <3>. QED
        BY <1>1, <3>1
    <2>. QED
      BY <2>1, <2>2
  <1>3. PICK e : /\ Changed(solist, solist', top, e) /\ e \in Loaded /\ SameSo(solist[top], e)
                 /\ e.needed = Append(solist[top].needed, h) /\ e.flags = {} /\ e.bound = solist[top].bound
    BY <1>0, <1>2, BindStep
  <1>4. ListKept
    BY <1>0, <1>2, BindStep DEF ListKept
  <1>5. host_global \subseteq host_global' /\ (Unlisted(NextNeeded) => HostLibs[Resolved(NextNeeded).name] \subseteq host_global')
    <2>1. CASE NeededLoaded
      BY <2>1 DEF NeededLoaded, Unlisted
    <2>2. CASE NeededElsewhere
      <3>1. Unlisted(NextNeeded) => HostHas(NextNeeded)
        BY <2>2 DEF NeededElsewhere, Unlisted, HostHas
      <3>. QED
        BY <2>2, <3>1 DEF NeededElsewhere
    <2>. QED
      BY <2>1, <2>2
  <1>6. UNCHANGED env
    BY <1>2 DEF Bind
  <1>7. NeedStep(h, e)
    BY <1>0, <1>3, <1>5, <1>6 DEF NeedStep
  <1>. QED
    BY <1>4, <1>7

LEMMA EndKind ==
  ASSUME DlInv, LinkDone \/ LinkFails
  PROVE  (\E f, bs, e : EndStep(f, bs, e)) /\ ListKept
  <1>0. linking # <<>> /\ ~MoreNeeded /\ linking' = Front(linking) /\ UNCHANGED <<env, host_global>>
    BY DEF LinkDone, LinkFails, Ready
  <1>1. top \in 2 .. Len(solist) /\ top \in DOMAIN solist /\ solist[top] \in Loaded
    BY <1>0, TopSo
  <1>2. PICK f \in {{"LINKED"}, {"ERROR"}}, bs \in Seq(Binding) :
          /\ solist' = [solist EXCEPT ![top] = [[solist[top] EXCEPT !.bound = bs] EXCEPT !.flags = f]]
          /\ (f = {"LINKED"} /\ bs = Bindings(top)) \/ f = {"ERROR"}
    <2>1. CASE LinkDone
      <3>1. PICK bs : bs = Bindings(top)
        OBVIOUS
      <3>2. bs \in Seq(Binding)
        BY <1>1, <3>1, BindingsFacts DEF BoundRight, DlInv
      <3>3. solist' = [solist EXCEPT ![top].bound = bs, ![top].flags = {"LINKED"}]
        BY <2>1, <3>1 DEF LinkDone
      <3>4. solist' = [solist EXCEPT ![top] = [[solist[top] EXCEPT !.bound = bs] EXCEPT !.flags = {"LINKED"}]]
        BY <1>1, <3>3
      <3>. QED
        BY <3>1, <3>2, <3>4
    <2>2. CASE LinkFails
      <3>1. PICK c : c = solist[top]
        OBVIOUS
      <3>2. PICK bs \in Seq(Binding) : bs = c.bound
        BY <1>1, <3>1, LoadedFields
      <3>3. [c EXCEPT !.bound = bs] = c
        BY <1>1, <3>1, <3>2 DEF Loaded
      <3>4. solist' = [solist EXCEPT ![top] = [c EXCEPT !.flags = {"ERROR"}]]
        BY <2>2, <3>1 DEF LinkFails
      <3>5. solist' = [solist EXCEPT ![top] = [[solist[top] EXCEPT !.bound = bs] EXCEPT !.flags = {"ERROR"}]]
        BY <3>1, <3>3, <3>4
      <3>. QED
        BY <3>2, <3>5
    <2>. QED
      BY <2>1, <2>2
  <1>3. PICK e : /\ Changed(solist, solist', top, e) /\ e \in Loaded /\ SameSo(solist[top], e)
                 /\ e.needed = solist[top].needed /\ e.flags = f /\ e.bound = bs
    BY <1>0, <1>2, LinkStep
  <1>4. ListKept
    BY <1>0, <1>2, LinkStep DEF ListKept
  <1>5. EndStep(f, bs, e)
    BY <1>0, <1>2, <1>3 DEF EndStep
  <1>. QED
    BY <1>4, <1>5

LEMMA QuietKind ==
  ASSUME DlInv, Configure \/ SetPaths \/ DlopenHost \/ DlopenFails \/ dlsym \/ dlerror \/ UNCHANGED vars
  PROVE  QuietStep /\ ListKept
  <1>1. solist' = solist /\ linking' = linking /\ host_global \subseteq host_global'
    BY DEF Configure, SetPaths, DlopenHost, DlopenFails, dlsym, dlerror, vars, dlVars
  <1>. QED
    BY <1>1 DEF QuietStep, ListKept, DlInv

LEMMA Kinds ==
  ASSUME DlInv, PathInv, [Next]_vars
  PROVE  StepKind /\ ListKept
  BY LoadKind, NeedKind, EndKind, QuietKind, StepCases DEF StepKind, Others

LEMMA DlsymError ==
  ASSUME NEW handle, NEW x, dlsym_result(handle, x).kind = "error"
  PROVE  dlsym_result(handle, x).sym \in Errors
  <1>1. ASSUME NEW k, FoundIn(k, x).kind = "error" PROVE FoundIn(k, x).sym \in Errors
    BY <1>1 DEF FoundIn, Error, Errors, Address
  <1>2. \/ \E k : dlsym_result(handle, x) = FoundIn(k, x)
        \/ dlsym_result(handle, x) \in {Error("BAD_SYMBOL_NAME"), Wrap(x), Host(x), Error("INVALID_LIBRARY_HANDLE")}
    BY DEF dlsym_result
  <1>3. CASE \E k : dlsym_result(handle, x) = FoundIn(k, x)
    BY <1>1, <1>3
  <1>4. CASE dlsym_result(handle, x) \in {Error("BAD_SYMBOL_NAME"), Wrap(x), Host(x), Error("INVALID_LIBRARY_HANDLE")}
    BY <1>4 DEF Error, Wrap, Host, Errors
  <1>. QED
    BY <1>2, <1>3, <1>4

LEMMA DlStep ==
  ASSUME DlInv, PathInv, [Next]_vars
  PROVE  DlInv'
  <1>1. ListKept /\ StepKind
    BY Kinds
  <1>2. HostSyms \subseteq host_global'
    <2>1. host_global \subseteq host_global'
      BY <1>1 DEF StepKind, NewStep, NeedStep, EndStep, QuietStep
    <2>. QED
      BY <2>1 DEF DlInv
  <1>3. dl_err_str' \in Errors
    <2>1. CASE dlsym
      BY <2>1, DlsymError DEF dlsym, DlInv
    <2>2. CASE dl_err_str' \in {dl_err_str, None, "CANNOT_LOAD_LIBRARY"}
      BY <2>2 DEF DlInv, Errors
    <2>3. CASE Configure \/ SetPaths \/ (Others /\ ~dlsym)
      BY <2>2, <2>3 DEF Others, Configure, SetPaths, DlopenLoad, DlopenHost, DlopenFails, NeededLoaded, NeededElsewhere,
         NeededLoad, LinkDone, LinkFails, dlerror, Bind, vars, dlVars
    <2>. QED
      BY <2>1, <2>3, StepCases
  <1>4. Len(solist') > 1 => phase' = "run"
    <2>1. CASE Configure
      <3>1. phase = "cfg" /\ solist' = solist
        BY <2>1 DEF Configure, read_cfg_file, process_cfg_line, read_cfg_dir, dlVars
      <3>. QED
        BY <3>1 DEF DlInv
    <2>2. CASE SetPaths
      BY <2>2 DEF SetPaths, dl_parse_library_path, add_sopath, cfgVars, dlVars, DlInv
    <2>3. CASE Others
      <3>1. phase' = phase
        BY <2>3, OthersEnv DEF env, cfgVars
      <3>2. linking # <<>> => phase = "run"
        BY RunningIs
      <3>3. phase = "run" \/ solist' = solist
        BY <1>1, <3>2 DEF StepKind, NewStep, NeedStep, EndStep, QuietStep
      <3>. QED
        BY <3>1, <3>3 DEF DlInv
    <2>. QED
      BY <2>1, <2>2, <2>3, StepCases
  <1>. QED
    BY <1>1, <1>2, <1>3, <1>4 DEF DlInv, ListKept

LEMMA InitDl ==
  ASSUME Init
  PROVE  DlInv
  <1>1. solist = <<libdl_info>> /\ linking = <<>> /\ dl_err_str = None /\ host_global = HostSyms
    BY DEF Init
  <1>2. Len(solist) = 1 /\ solist[1] = libdl_info /\ solist \in Seq(Loaded \cup {libdl_info}) /\ 2 .. 1 = {}
    BY <1>1
  <1>3. ListOK(solist)
    BY <1>2 DEF ListOK, SoList, NamesDiffer, BasesDiffer
  <1>4. StackOK(linking, solist)
    BY <1>1, <1>2 DEF StackOK
  <1>. QED
    BY <1>1, <1>2, <1>3, <1>4 DEF DlInv, Errors

-----------------------------------------------------------------------------
(* Theorems about types and lookups.                                       *)

SafeInv == PathInv /\ CfgInv /\ OverrideInv /\ DlInv

LEMMA SafeInvariant == Spec => []SafeInv
  <1>1. Init => SafeInv
    BY InitEnv, InitOverride, InitDl DEF SafeInv
  <1>2. SafeInv /\ [Next]_vars => SafeInv'
    BY PathStep, CfgStep, OverrideStep, DlStep DEF SafeInv
  <1>. QED
    BY <1>1, <1>2, PTL DEF Spec

LEMMA SafeTypes ==
  ASSUME SafeInv
  PROVE  TypeOK
  <1>1. SearchTypeOK
    BY DEF SearchTypeOK, SafeInv, PathInv, CfgInv, Range
  <1>2. ListOK(solist) /\ DOMAIN solist = 1 .. Len(solist) /\ Len(solist) \in Nat
    BY ListFacts DEF SafeInv, DlInv
  <1>3. ASSUME NEW h \in DOMAIN solist
        PROVE  /\ So(h).base \in Regions \cup {0} /\ So(h).flags \subseteq {"LINKED", "ERROR"}
               /\ Range(So(h).needed) \subseteq DOMAIN solist
    <2>1. CASE h = 1
      <3>1. So(h) = libdl_info
        BY <1>2, <2>1, ListFacts DEF So
      <3>2. Range(<<>>) = {}
        BY DEF Range
      <3>. QED
        BY <3>1, <3>2, LibdlFacts
    <2>2. CASE h # 1
      <3>1. h \in 2 .. Len(solist)
        BY <1>2, <2>2
      <3>2. solist[h] \in Loaded
        BY <1>2, <3>1, ListFacts
      <3>3. solist[h].base \in Regions /\ solist[h].flags \in {{}, {"LINKED"}, {"ERROR"}}
        BY <3>2, LoadedFields
      <3>4. ScopeSet(h) \subseteq 1 .. Len(solist)
        BY <1>2, <3>1, ScopeFacts
      <3>. QED
        BY <1>2, <3>3, <3>4 DEF So, ScopeSet
    <2>. QED
      BY <2>1, <2>2
  <1>4. Range(linking) \subseteq DOMAIN solist
    <2>1. linking \in Seq(2 .. Len(solist))
      BY DEF SafeInv, DlInv, StackOK
    <2>2. \A i \in DOMAIN linking : linking[i] \in 2 .. Len(solist)
      BY <2>1
    <2>3. 2 .. Len(solist) \subseteq DOMAIN solist
      BY <1>2
    <2>. QED
      BY <2>2, <2>3 DEF Range
  <1>5. dl_err_str \in Errors /\ die \in BOOLEAN
    BY DEF SafeInv, DlInv, CfgInv
  <1>. QED
    BY <1>1, <1>3, <1>4, <1>5 DEF TypeOK, Errors

(* The arrays of the linker never overflow (override map, ld and so        *)
(* paths), every handle in a DT_NEEDED list or on the recursion of         *)
(* apkenv_link_image is one of the list, every loaded library has a region *)
(* and dlerror knows every error.                                          *)
THEOREM TypeCorrect == Spec => []TypeOK
  <1>1. SafeInv => TypeOK
    BY SafeTypes
  <1>. QED
    BY <1>1, SafeInvariant, PTL

(* apkenv__elf_lookup is exact for every symbol table ld can write, hash   *)
(* functions, bucket counts and bloom filter: walking either table finds   *)
(* the first definition of a name, and nothing when there is none.         *)
THEOREM HashLookupExact == Spec => []LookupExact
  <1>1. ASSUME SafeInv PROVE LookupExact
    <2>1. ListOK(solist) /\ DOMAIN solist = 1 .. Len(solist)
      BY <1>1, ListFacts DEF SafeInv, DlInv
    <2>2. \A h \in DOMAIN solist : \A x \in SymNames : Exact(solist[h], x)
      BY <2>1, LookupRight
    <2>3. \A h \in DOMAIN solist : \A x \in SymNames : elf_lookup(solist[h], x) = MinOr0(Defs(solist[h], x))
      BY <2>2 DEF Exact
    <2>. QED
      BY <2>3 DEF LookupExact, So, Defs
  <1>. QED
    BY <1>1, SafeInvariant, PTL

-----------------------------------------------------------------------------
(* The name a library is loaded under.                                     *)

NameOK(c, e) ==
  IF Stripped(e.req).dir # None THEN e.name = e.req.name
  ELSE \/ Winner(c, e.req.name, e.name)
       \/ e.name = e.req.name /\ \A d \in DOMAIN c : NoneIn(c, d, e.req.name)

NamesInv == \A h \in 2 .. Len(solist) : NameOK(CfgDirs, solist[h])

LEMMA StrippedFacts ==
  ASSUME NEW r \in Request
  PROVE  Stripped(r) \in Request /\ Stripped(r).name = r.name
  <1>1. CASE r.dir = SystemLib
    BY <1>1 DEF Stripped, Request
  <1>2. CASE r.dir # SystemLib
    BY <1>2 DEF Stripped
  <1>. QED
    BY <1>1, <1>2

LEMMA ResolvedName ==
  ASSUME NEW r \in Request, Settled(CfgDirs, lib_override_map, r.name), NEW e, e.req = r, e.name = Resolved(r).name
  PROVE  NameOK(CfgDirs, e)
  <1>1. PICK q \in Request : q = Stripped(r) /\ q.name = r.name
    BY StrippedFacts
  <1>2. PICK n : n = r.name
    OBVIOUS
  <1>3. CASE q.dir # None
    <2>1. {k \in DOMAIN lib_override_map : q.dir = None /\ lib_override_map[k][1] = q.name} = {}
      BY <1>3
    <2>2. Resolved(r) = q
      BY <1>1, <2>1 DEF Resolved, Overridden
    <2>. QED
      BY <1>1, <1>3, <2>2 DEF NameOK
  <1>4. CASE q.dir = None
    <2>1. {k \in DOMAIN lib_override_map : q.dir = None /\ lib_override_map[k][1] = q.name} = Has(lib_override_map, n)
      BY <1>1, <1>2, <1>4 DEF Has
    <2>2. CASE Has(lib_override_map, n) = {}
      <3>1. Resolved(r) = q
        BY <1>1, <2>1, <2>2 DEF Resolved, Overridden
      <3>2. \A d \in DOMAIN CfgDirs : NoneIn(CfgDirs, d, n)
        BY <1>2, <2>2 DEF Settled
      <3>. QED
        BY <1>1, <1>2, <1>4, <3>1, <3>2 DEF NameOK
    <2>3. CASE Has(lib_override_map, n) # {}
      <3>1. PICK v : v = lib_override_map[Min(Has(lib_override_map, n))][2]
        OBVIOUS
      <3>2. Resolved(r) = [q EXCEPT !.name = v]
        BY <1>1, <2>1, <2>3, <3>1 DEF Resolved, Overridden
      <3>3. [q EXCEPT !.name = v].name = v
        BY DEF Request
      <3>4. Winner(CfgDirs, n, v)
        BY <1>2, <2>3, <3>1 DEF Settled
      <3>. QED
        BY <1>1, <1>2, <1>4, <3>2, <3>3, <3>4 DEF NameOK
    <2>. QED
      BY <2>2, <2>3
  <1>. QED
    BY <1>3, <1>4

LEMMA CfgDirsFixed ==
  ASSUME [Next]_vars
  PROVE  CfgDirs' = CfgDirs
  <1>1. CASE Configure
    BY <1>1 DEF Configure, read_cfg_file, process_cfg_line, read_cfg_dir
  <1>2. CASE SetPaths
    BY <1>2 DEF SetPaths, dl_parse_library_path, add_sopath, cfgVars
  <1>3. CASE Others
    BY <1>3, OthersEnv DEF env, cfgVars
  <1>. QED
    BY <1>1, <1>2, <1>3, StepCases

(* Each library of the new list is one of the old list that kept its file, *)
(* or the new one.                                                         *)
LEMMA NewOrSame ==
  ASSUME DlInv, StepKind, NEW h \in 2 .. Len(solist')
  PROVE  \/ h \in 2 .. Len(solist) /\ SameSo(solist[h], solist'[h])
         \/ \E r, e : NewStep(r, e) /\ h = Len(solist) + 1 /\ solist'[h] = e
  <1>1. PICK N \in Nat : N = Len(solist)
    BY ListFacts DEF DlInv
  <1>2. CASE \E r, e : NewStep(r, e)
    <2>1. PICK r, e : NewStep(r, e)
      BY <1>2
    <2>2. Len(solist') = N + 1 /\ solist'[N + 1] = e /\ \A k \in 1 .. N : solist'[k] = solist[k]
      BY <1>1, <2>1 DEF NewStep, Grown
    <2>3. (h \in 2 .. N /\ h \in 1 .. N) \/ h = N + 1
      BY <2>2
    <2>4. CASE h \in 2 .. N /\ h \in 1 .. N
      BY <1>1, <2>2, <2>4 DEF SameSo
    <2>. QED
      BY <1>1, <2>1, <2>2, <2>3, <2>4
  <1>3. CASE QuietStep
    BY <1>3 DEF QuietStep, SameSo
  <1>4. CASE \E e : linking # <<>> /\ Changed(solist, solist', top, e) /\ SameSo(solist[top], e)
    <2>1. PICK e : linking # <<>> /\ Changed(solist, solist', top, e) /\ SameSo(solist[top], e)
      BY <1>4
    <2>2. Len(solist') = N /\ solist'[top] = e /\ \A k \in 1 .. N : k # top => solist'[k] = solist[k]
      BY <1>1, <2>1 DEF Changed
    <2>3. h \in 2 .. N /\ h \in 1 .. N
      BY <2>2
    <2>. QED
      BY <1>1, <2>1, <2>2, <2>3 DEF SameSo
  <1>. QED
    BY <1>2, <1>3, <1>4 DEF StepKind, NeedStep, EndStep

LEMMA NamesStep ==
  ASSUME SafeInv, NamesInv, [Next]_vars
  PROVE  NamesInv'
  <1>1. CfgDirs' = CfgDirs /\ StepKind
    BY CfgDirsFixed, Kinds DEF SafeInv
  <1>2. ASSUME NEW h \in 2 .. Len(solist') PROVE NameOK(CfgDirs, solist'[h])
    <2>1. CASE h \in 2 .. Len(solist) /\ SameSo(solist[h], solist'[h])
      BY <2>1 DEF NamesInv, NameOK, SameSo
    <2>2. CASE \E r, e : NewStep(r, e) /\ h = Len(solist) + 1 /\ solist'[h] = e
      <3>1. PICK r, e : NewStep(r, e) /\ solist'[h] = e
        BY <2>2
      <3>2. r \in Request /\ e.req = r /\ e.name = Resolved(r).name /\ phase = "run"
        BY <3>1 DEF NewStep, NewSo
      <3>3. Settled(CfgDirs, lib_override_map, r.name)
        BY <3>2 DEF SafeInv, OverrideInv
      <3>. QED
        BY <3>1, <3>2, <3>3, ResolvedName
    <2>. QED
      BY <1>1, <2>1, <2>2, NewOrSame DEF SafeInv
  <1>. QED
    BY <1>1, <1>2 DEF NamesInv

LEMMA NoOverride ==
  ASSUME NEW d, NEW n
  PROVE  NoneIn(CfgDirs, d, n) <=> OverridesIn(d, n) = {}
  BY DEF NoneIn, OverridesIn

LEMMA NamesOrder ==
  ASSUME CfgInv, NamesInv, ListOK(solist)
  PROVE  OverrideOrder
  <1>0. DOMAIN solist \ {LIBDL} \subseteq 2 .. Len(solist)
    <2>1. DOMAIN solist = 1 .. Len(solist) /\ Len(solist) \in Nat
      BY ListFacts
    <2>. QED
      BY <2>1 DEF LIBDL
  <1>. SUFFICES ASSUME NEW h \in 2 .. Len(solist), NEW n, n = solist[h].req.name,
                       NEW ds, ds = {d \in DOMAIN CfgDirs : OverridesIn(d, n) # {}}
                PROVE  solist[h].name \in IF Stripped(solist[h].req).dir # None \/ ds = {} THEN {n} ELSE OverridesIn(Min(ds), n)
    BY <1>0 DEF OverrideOrder, So
  <1>1. PICK e : e = solist[h]
    OBVIOUS
  <1>2. NameOK(CfgDirs, e)
    BY <1>1 DEF NamesInv
  <1>3. CASE Stripped(e.req).dir # None
    BY <1>1, <1>2, <1>3 DEF NameOK
  <1>4. CASE Stripped(e.req).dir = None /\ e.name = n /\ \A d \in DOMAIN CfgDirs : NoneIn(CfgDirs, d, n)
    <2>1. ds = {}
      BY <1>4, NoOverride
    <2>. QED
      BY <1>1, <1>4, <2>1
  <1>5. CASE Stripped(e.req).dir = None /\ Winner(CfgDirs, n, e.name)
    <2>1. PICK d \in DOMAIN CfgDirs : /\ \E g \in CfgDirs[d] : Given(g, n) # {} /\ e.name = g[Min(Given(g, n))][2]
                                      /\ \A c \in 1 .. d - 1 : NoneIn(CfgDirs, c, n)
      BY <1>5 DEF Winner
    <2>2. e.name \in OverridesIn(d, n)
      BY <2>1 DEF OverridesIn
    <2>3. DOMAIN CfgDirs = 1 .. Len(CfgDirs) /\ Len(CfgDirs) \in Nat
      BY CfgFacts
    <2>4. d \in ds /\ ds \subseteq Nat
      BY <2>2, <2>3
    <2>5. ASSUME NEW c \in ds PROVE d <= c
      <3>1. c \in 1 .. Len(CfgDirs) /\ ~NoneIn(CfgDirs, c, n)
        BY <2>3, NoOverride
      <3>2. c \notin 1 .. d - 1
        BY <2>1, <3>1
      <3>3. c \in Nat /\ d \in Nat /\ 1 <= c
        BY <2>3, <3>1
      <3>. QED
        BY <3>2, <3>3
    <2>6. Min(ds) = d
      BY <2>4, <2>5, MinIs
    <2>. QED
      BY <1>1, <1>5, <2>2, <2>4, <2>6
  <1>. QED
    BY <1>1, <1>2, <1>3, <1>4, <1>5 DEF NameOK

(* The first cfg.d directory with an override for a name decides, for all  *)
(* directories, files and orders in which readdir names the files: the map *)
(* that is searched from the front was filled from the directory of the    *)
(* highest priority on.                                                    *)
THEOREM EarlierConfigurationWins == Spec => []OverrideOrder
  <1>1. Init => NamesInv
    <2>1. Init => Len(solist) = 1
      BY DEF Init
    <2>2. 2 .. 1 = {}
      OBVIOUS
    <2>. QED
      BY <2>1, <2>2 DEF NamesInv
  <1>2. SafeInv /\ NamesInv /\ [Next]_vars => NamesInv'
    BY NamesStep
  <1>3. SafeInv /\ NamesInv => OverrideOrder
    BY NamesOrder DEF SafeInv, DlInv
  <1>. QED
    BY <1>1, <1>2, <1>3, SafeInvariant, PTL DEF Spec

-----------------------------------------------------------------------------
(* The needs that glibc may be asked for get fewer.                        *)

LEMMA RunSteps ==
  ASSUME phase = "run", [Next]_vars
  PROVE  UNCHANGED cfgVars /\ (SetPaths \/ UNCHANGED pathVars)
  <1>1. ~Configure
    BY DEF Configure, read_cfg_file, process_cfg_line, read_cfg_dir
  <1>2. CASE SetPaths
    BY <1>2 DEF SetPaths, dl_parse_library_path, add_sopath
  <1>3. CASE Others
    BY <1>3, OthersEnv DEF env
  <1>. QED
    BY <1>1, <1>2, <1>3, StepCases

LEMMA NamesKept ==
  ASSUME DlInv, ListKept, StepKind
  PROVE  /\ \A d \in 1 .. Len(solist) : d \in 1 .. Len(solist') /\ solist'[d].name = solist[d].name
                                        /\ solist'[d].symtab = solist[d].symtab
         /\ DOMAIN solist = 1 .. Len(solist) /\ DOMAIN solist' = 1 .. Len(solist')
  <1>1. PICK N \in Nat : N = Len(solist) /\ DOMAIN solist = 1 .. N /\ solist[1] = libdl_info
    BY ListFacts DEF DlInv
  <1>2. PICK M \in Nat : M = Len(solist') /\ DOMAIN solist' = 1 .. M /\ solist'[1] = libdl_info
    <2>1. ListOK(solist')
      BY DEF ListKept
    <2>. QED
      BY <2>1, ListFacts
  <1>3. M = N \/ M = N + 1
    BY <1>1, <1>2 DEF StepKind, NewStep, NeedStep, EndStep, QuietStep, Grown, Changed
  <1>4. ASSUME NEW d \in 1 .. N PROVE d \in 1 .. M /\ solist'[d].name = solist[d].name /\ solist'[d].symtab = solist[d].symtab
    <2>1. d \in 1 .. M
      BY <1>3
    <2>2. CASE d = 1
      BY <1>1, <1>2, <2>1, <2>2
    <2>3. CASE d # 1
      <3>1. d \in 2 .. Len(solist') /\ d # Len(solist) + 1
        BY <1>1, <1>2, <2>1, <2>3
      <3>2. SameSo(solist[d], solist'[d])
        BY <3>1, NewOrSame
      <3>. QED
        BY <2>1, <3>2 DEF SameSo
    <2>. QED
      BY <2>2, <2>3
  <1>. QED
    BY <1>1, <1>2, <1>4

LEMMA UnlistedEarlier ==
  ASSUME SafeInv, ListKept, StepKind, [Next]_vars, phase = "run", NEW r, Unlisted(r)'
  PROVE  Unlisted(r) /\ Resolved(r)' = Resolved(r)
  <1>1. PICK q : q = Resolved(r)
    OBVIOUS
  <1>2. lib_override_map' = lib_override_map
    BY RunSteps DEF cfgVars
  <1>3. Resolved(r)' = q
    BY <1>1, <1>2 DEF Resolved, Overridden, Stripped
  <1>4. Known(r)' = {} /\ q.name \in DOMAIN HostLibs
    BY <1>3 DEF Unlisted
  <1>5. Known(r) = {}
    <2>. SUFFICES ASSUME NEW h \in DOMAIN solist, solist[h].name = q.name PROVE FALSE
      BY <1>1 DEF Known, So
    <2>1. h \in DOMAIN solist' /\ solist'[h].name = q.name
      BY NamesKept DEF SafeInv
    <2>2. h \in Known(r)'
      BY <1>3, <2>1 DEF Known, So
    <2>. QED
      BY <1>4, <2>2
  <1>. QED
    BY <1>1, <1>3, <1>4, <1>5 DEF Unlisted

-----------------------------------------------------------------------------
(* What a library is bound to.                                             *)

NeededOf(e) == FileOf[<<e.from, e.name>>].needed

(* The host's libraries among the needs that were processed are global.    *)
HostsDone(e) ==
  \A i \in 1 .. Len(e.needed) :
    Unlisted(NeededOf(e)[i]) => HostLibs[Resolved(NeededOf(e)[i]).name] \subseteq host_global

BoundAt(l, e, scope, n) ==
  /\ e.bound[n].kind = "lib" => /\ e.bound[n].so \in scope /\ Is(l[e.bound[n].so], e.bound[n].sym, e.symtab[n].name)
                                /\ e.bound[n].sym \in DOMAIN l[e.bound[n].so].symtab
  /\ e.bound[n].kind \in {"zero", "stub", "host"} => \A d \in scope : Defs(l[d], e.symtab[n].name) = {}

BoundOK(l, h) ==
  /\ DOMAIN l[h].bound = DOMAIN l[h].symtab /\ {h} \cup Range(l[h].needed) \subseteq 1 .. Len(l)
  /\ \A n \in DOMAIN l[h].bound : BoundAt(l, l[h], {h} \cup Range(l[h].needed), n)

(* What the host may have promised a library at any time since it was      *)
(* linked.                                                                 *)
Owed(h) ==
  HostSyms \cup UNION {HostLibs[Resolved(r).name] : r \in {q \in Range(NeededOf(solist[h])) : Unlisted(q)}}

PromisesKept(h) ==
  \A n \in DOMAIN solist[h].bound :
    <<"bionic_", solist[h].symtab[n].name>> \in Owed(h) => solist[h].bound[n].kind = "bionic"

SoBound(h) ==
  /\ Len(solist[h].needed) <= Len(NeededOf(solist[h])) /\ HostsDone(solist[h])
  /\ LinkedSo(solist[h]) => BoundOK(solist, h) /\ PromisesKept(h)

BoundInv == \A h \in 2 .. Len(solist) : SoBound(h)

LEMMA StepSo ==
  ASSUME DlInv, StepKind, NEW h \in 2 .. Len(solist')
  PROVE  \/ h \in 2 .. Len(solist) /\ solist'[h] = solist[h]
         \/ \E r, e : NewStep(r, e) /\ solist'[h] = e
         \/ \E k, e : NeedStep(k, e) /\ h = top /\ solist'[h] = e
         \/ \E f, bs, e : EndStep(f, bs, e) /\ h = top /\ solist'[h] = e
  <1>1. PICK N \in Nat : N = Len(solist)
    BY ListFacts DEF DlInv
  <1>2. CASE \E r, e : NewStep(r, e)
    <2>1. PICK r, e : NewStep(r, e)
      BY <1>2
    <2>2. Len(solist') = N + 1 /\ solist'[N + 1] = e /\ \A k \in 1 .. N : solist'[k] = solist[k]
      BY <1>1, <2>1 DEF NewStep, Grown
    <2>3. (h \in 2 .. N /\ h \in 1 .. N) \/ h = N + 1
      BY <2>2
    <2>. QED
      BY <1>1, <2>1, <2>2, <2>3
  <1>3. CASE QuietStep
    BY <1>3 DEF QuietStep
  <1>4. ASSUME NEW e, Changed(solist, solist', top, e)
        PROVE  (h \in 2 .. Len(solist) /\ solist'[h] = solist[h]) \/ (h = top /\ solist'[h] = e)
    <2>1. Len(solist') = N /\ solist'[top] = e /\ \A k \in 1 .. N : k # top => solist'[k] = solist[k]
      BY <1>1, <1>4 DEF Changed
    <2>2. h \in 2 .. N /\ h \in 1 .. N
      BY <2>1
    <2>. QED
      BY <1>1, <2>1, <2>2
  <1>5. CASE \E k, e : NeedStep(k, e)
    <2>1. PICK k, e : NeedStep(k, e)
      BY <1>5
    <2>2. Changed(solist, solist', top, e)
      BY <2>1 DEF NeedStep
    <2>. QED
      BY <1>4, <2>1, <2>2
  <1>6. CASE \E f, bs, e : EndStep(f, bs, e)
    <2>1. PICK f, bs, e : EndStep(f, bs, e)
      BY <1>6
    <2>2. Changed(solist, solist', top, e)
      BY <2>1 DEF EndStep
    <2>. QED
      BY <1>4, <2>1, <2>2
  <1>. QED
    BY <1>2, <1>3, <1>5, <1>6 DEF StepKind

(* A list keeps what is bound as long as it keeps the symbol tables.       *)
LEMMA BoundKeep ==
  ASSUME NEW l, NEW m, NEW h, BoundOK(l, h), m[h] = l[h],
         \A d \in 1 .. Len(l) : d \in 1 .. Len(m) /\ m[d].symtab = l[d].symtab
  PROVE  BoundOK(m, h)
  <1>1. PICK scope : scope = {h} \cup Range(l[h].needed)
    OBVIOUS
  <1>2. PICK e : e = l[h]
    OBVIOUS
  <1>3. scope \subseteq 1 .. Len(l) /\ \A d \in scope : m[d].symtab = l[d].symtab /\ d \in 1 .. Len(m)
    BY <1>1 DEF BoundOK
  <1>4. \A d \in scope : \A x : Defs(m[d], x) = Defs(l[d], x)
    BY <1>3 DEF Defs, Is
  <1>5. \A d \in scope : \A k, x : Is(m[d], k, x) <=> Is(l[d], k, x)
    BY <1>3 DEF Is
  <1>6. ASSUME NEW n \in DOMAIN e.bound PROVE BoundAt(m, e, scope, n)
    <2>1. BoundAt(l, e, scope, n)
      BY <1>1, <1>2 DEF BoundOK
    <2>. QED
      BY <1>3, <1>4, <1>5, <2>1 DEF BoundAt
  <1>. QED
    BY <1>1, <1>2, <1>3, <1>6 DEF BoundOK

LEMMA OwedIs ==
  ASSUME NEW h, NEW y
  PROVE  y \in Owed(h) <=> \/ y \in HostSyms
                           \/ \E r \in Range(NeededOf(solist[h])) : Unlisted(r) /\ y \in HostLibs[Resolved(r).name]
  BY DEF Owed

LEMMA OwedNext ==
  ASSUME NEW h, NEW y
  PROVE  (y \in Owed(h)') <=> \/ y \in HostSyms
                              \/ \E r \in Range(NeededOf(solist'[h])) : Unlisted(r)' /\ y \in HostLibs[Resolved(r)'.name]
  BY DEF Owed, NeededOf

LEMMA PromisedOwed ==
  ASSUME NEW h
  PROVE  Promised(h) \subseteq Owed(h)
  <1>1. \A r : HostHas(r) => Unlisted(r)
    BY DEF HostHas, Elsewhere, Unlisted
  <1>. QED
    BY <1>1 DEF Promised, NeededHosts, FileOfSo, NeededOf, So, Owed

StepOK == SafeInv /\ ListKept /\ StepKind /\ [Next]_vars /\ phase = "run"

LEMMA OwedLess ==
  ASSUME StepOK, NEW h, NeededOf(solist'[h]) = NeededOf(solist[h])
  PROVE  Owed(h)' \subseteq Owed(h)
  <1>. SUFFICES ASSUME NEW y, y \in Owed(h)' PROVE y \in Owed(h)
    OBVIOUS
  <1>1. CASE y \in HostSyms
    BY <1>1, OwedIs
  <1>2. CASE \E r \in Range(NeededOf(solist'[h])) : Unlisted(r)' /\ y \in HostLibs[Resolved(r)'.name]
    <2>1. PICK r \in Range(NeededOf(solist[h])) : Unlisted(r)' /\ y \in HostLibs[Resolved(r)'.name]
      BY <1>2
    <2>2. Unlisted(r) /\ Resolved(r)' = Resolved(r)
      BY <2>1, UnlistedEarlier DEF StepOK
    <2>. QED
      BY <2>1, <2>2, OwedIs
  <1>. QED
    BY <1>1, <1>2, OwedNext

LEMMA HostsDoneKept ==
  ASSUME StepOK, NEW e, HostsDone(e)
  PROVE  HostsDone(e)'
  <1>1. host_global \subseteq host_global'
    BY DEF StepOK, StepKind, NewStep, NeedStep, EndStep, QuietStep
  <1>. SUFFICES ASSUME NEW i \in 1 .. Len(e.needed), Unlisted(NeededOf(e)[i])'
                PROVE  HostLibs[Resolved(NeededOf(e)[i])'.name] \subseteq host_global'
    BY DEF HostsDone
  <1>2. PICK r : r = NeededOf(e)[i]
    OBVIOUS
  <1>3. Unlisted(r) /\ Resolved(r)' = Resolved(r)
    BY <1>2, UnlistedEarlier DEF StepOK
  <1>. QED
    BY <1>1, <1>2, <1>3 DEF HostsDone

LEMMA BoundSame ==
  ASSUME StepOK, NEW h \in 2 .. Len(solist), solist'[h] = solist[h], SoBound(h)
  PROVE  SoBound(h)'
  <1>1. PICK e : e = solist[h]
    OBVIOUS
  <1>2. solist'[h] = e
    BY <1>1
  <1>3. Len(e.needed) <= Len(NeededOf(e)) /\ HostsDone(e)
    BY <1>1 DEF SoBound
  <1>4. HostsDone(e)'
    BY <1>3, HostsDoneKept
  <1>5. ASSUME LinkedSo(e) PROVE BoundOK(solist', h) /\ PromisesKept(h)'
    <2>1. BoundOK(solist, h) /\ PromisesKept(h)
      BY <1>1, <1>5 DEF SoBound
    <2>2. BoundOK(solist', h)
      BY <2>1, BoundKeep, NamesKept DEF StepOK, SafeInv
    <2>3. Owed(h)' \subseteq Owed(h)
      BY OwedLess
    <2>. QED
      BY <1>1, <1>2, <2>1, <2>2, <2>3 DEF PromisesKept
  <1>. QED
    BY <1>2, <1>3, <1>4, <1>5 DEF SoBound

LEMMA BoundNew ==
  ASSUME StepOK, NEW r, NEW e, NewStep(r, e), NEW h, solist'[h] = e
  PROVE  SoBound(h)'
  <1>1. e.needed = <<>> /\ e.flags = {} /\ e \in Loaded /\ FromFile(e)
    BY DEF NewStep, NewSo
  <1>2. Len(e.needed) = 0 /\ 1 .. 0 = {} /\ ~LinkedSo(e)
    BY <1>1 DEF LinkedSo
  <1>3. Len(NeededOf(e)) \in Nat
    <2>1. NeededOf(e) \in Seq(Request)
      BY <1>1, WorldAssumption DEF NeededOf, FromFile
    <2>. QED
      BY <2>1
  <1>. QED
    BY <1>2, <1>3 DEF SoBound, HostsDone

LEMMA BoundNeed ==
  ASSUME StepOK, NEW k, NEW e, NeedStep(k, e), solist'[top] = e, NEW h, h = top, SoBound(h)
  PROVE  SoBound(h)'
  <1>1. /\ linking # <<>> /\ MoreNeeded /\ SameSo(solist[h], e) /\ e.needed = Append(solist[h].needed, k)
        /\ e.flags = {} /\ e.bound = solist[h].bound
        /\ Unlisted(NextNeeded) => HostLibs[Resolved(NextNeeded).name] \subseteq host_global'
    BY DEF NeedStep
  <1>2. PICK c : c = solist[h]
    OBVIOUS
  <1>3. NeededOf(e) = NeededOf(c) /\ NeededOf(c) = FileOfSo(top).needed
    BY <1>1, <1>2 DEF NeededOf, SameSo, FileOfSo, So
  <1>4. c.needed \in Seq(Nat) /\ NeededOf(c) \in Seq(Request)
    BY <1>1, <1>2, <1>3, TopSo, LoadedFields DEF StepOK, SafeInv
  <1>5. PICK n \in Nat : n = Len(c.needed) /\ n < Len(NeededOf(c)) /\ Len(NeededOf(c)) \in Nat
    BY <1>1, <1>2, <1>3, <1>4 DEF MoreNeeded, So
  <1>6. Len(e.needed) = n + 1 /\ NextNeeded = NeededOf(c)[n + 1]
    BY <1>1, <1>2, <1>3, <1>4, <1>5 DEF NextNeeded, So
  <1>7. HostsDone(c)'
    BY <1>2, HostsDoneKept DEF SoBound
  <1>8. ASSUME NEW i \in 1 .. Len(e.needed), Unlisted(NeededOf(e)[i])'
        PROVE  HostLibs[Resolved(NeededOf(e)[i])'.name] \subseteq host_global'
    <2>1. CASE i \in 1 .. n
      BY <1>3, <1>5, <1>7, <1>8, <2>1 DEF HostsDone
    <2>2. CASE i = n + 1
      <3>1. PICK r : r = NeededOf(c)[n + 1]
        OBVIOUS
      <3>2. Unlisted(r)' /\ NextNeeded = r
        BY <1>3, <1>6, <1>8, <2>2, <3>1
      <3>3. Unlisted(r) /\ Resolved(r)' = Resolved(r)
        BY <3>2, UnlistedEarlier DEF StepOK
      <3>4. HostLibs[Resolved(r).name] \subseteq host_global'
        BY <1>1, <3>2, <3>3
      <3>. QED
        BY <1>3, <2>2, <3>1, <3>3, <3>4
    <2>3. i \in 1 .. n \/ i = n + 1
      BY <1>6
    <2>. QED
      BY <2>1, <2>2, <2>3
  <1>9. HostsDone(e)'
    BY <1>8 DEF HostsDone
  <1>10. ~LinkedSo(e) /\ Len(e.needed) <= Len(NeededOf(e))
    BY <1>1, <1>3, <1>5, <1>6 DEF LinkedSo
  <1>11. solist'[h] = e
    OBVIOUS
  <1>. QED
    BY <1>9, <1>10, <1>11 DEF SoBound

LEMMA BoundEnd ==
  ASSUME StepOK, NEW f, NEW bs, NEW e, EndStep(f, bs, e), solist'[top] = e, NEW h, h = top, SoBound(h)
  PROVE  SoBound(h)'
  <1>1. /\ linking # <<>> /\ ~MoreNeeded /\ SameSo(solist[h], e) /\ e.needed = solist[h].needed
        /\ e.flags = f /\ e.bound = bs /\ ((f = {"LINKED"} /\ bs = Bindings(h)) \/ f = {"ERROR"})
        /\ host_global' = host_global
    BY DEF EndStep
  <1>2. PICK c : c = solist[h]
    OBVIOUS
  <1>3. NeededOf(e) = NeededOf(c) /\ NeededOf(c) = FileOfSo(top).needed /\ solist'[h] = e
    BY <1>1, <1>2 DEF NeededOf, SameSo, FileOfSo, So
  <1>4. c.needed \in Seq(Nat) /\ NeededOf(c) \in Seq(Request) /\ h \in 2 .. Len(solist)
    BY <1>1, <1>2, <1>3, TopSo, LoadedFields DEF StepOK, SafeInv
  <1>5. Len(c.needed) <= Len(NeededOf(c)) /\ HostsDone(c)
    BY <1>2 DEF SoBound
  <1>6. HostsDone(e)'
    <2>1. HostsDone(e)
      BY <1>1, <1>2, <1>3, <1>5 DEF HostsDone
    <2>. QED
      BY <2>1, HostsDoneKept
  <1>7. ASSUME LinkedSo(e) PROVE BoundOK(solist', h) /\ PromisesKept(h)'
    <2>0. f # {"ERROR"} /\ bs = Bindings(h)
      BY <1>1, <1>7 DEF LinkedSo
    <2>1. BoundRight(h, bs)
      BY <1>4, <2>0, BindingsFacts DEF StepOK, SafeInv, DlInv
    <2>2. PICK scope : scope = {h} \cup Range(c.needed)
      OBVIOUS
    <2>3. scope \subseteq 1 .. Len(solist) /\ ScopeSet(h) = scope
      BY <1>2, <1>4, <2>2, ScopeFacts DEF StepOK, SafeInv, DlInv, ScopeSet
    <2>4. \A d \in scope : d \in 1 .. Len(solist') /\ solist'[d].symtab = solist[d].symtab
      BY <2>3, NamesKept DEF StepOK, SafeInv
    <2>5. \A d \in scope : \A x : Defs(solist'[d], x) = Defs(solist[d], x)
      BY <2>4 DEF Defs, Is
    <2>6. \A d \in scope : \A k, x : Is(solist'[d], k, x) <=> Is(solist[d], k, x)
      BY <2>4 DEF Is
    <2>7. ASSUME NEW n \in DOMAIN bs PROVE BoundAt(solist', e, scope, n)
      <3>1. Resolves(h, e.symtab[n], bs[n])
        BY <1>1, <2>1 DEF BoundRight, SameSo
      <3>. QED
        BY <1>1, <2>3, <2>4, <2>5, <2>6, <3>1 DEF BoundAt, Resolves
    <2>8. DOMAIN e.bound = DOMAIN e.symtab
      BY <1>1, <2>1 DEF BoundRight, SameSo
    <2>9. BoundOK(solist', h)
      BY <1>1, <1>2, <1>3, <2>2, <2>4, <2>7, <2>8 DEF BoundOK
    <2>10. Owed(h) \subseteq host_global
      <3>. SUFFICES ASSUME NEW y, y \in Owed(h) PROVE y \in host_global
        OBVIOUS
      <3>1. CASE y \in HostSyms
        BY <3>1 DEF StepOK, SafeInv, DlInv
      <3>2. CASE \E r \in Range(NeededOf(c)) : Unlisted(r) /\ y \in HostLibs[Resolved(r).name]
        <4>1. PICK i \in DOMAIN NeededOf(c) : Unlisted(NeededOf(c)[i]) /\ y \in HostLibs[Resolved(NeededOf(c)[i]).name]
          BY <3>2 DEF Range
        <4>2. Len(c.needed) = Len(NeededOf(c))
          <5>1. ~(Len(c.needed) < Len(NeededOf(c)))
            BY <1>1, <1>2, <1>3 DEF MoreNeeded, So
          <5>2. Len(c.needed) \in Nat /\ Len(NeededOf(c)) \in Nat
            BY <1>4
          <5>. QED
            BY <1>5, <5>1, <5>2
        <4>3. i \in 1 .. Len(c.needed)
          BY <1>4, <4>2
        <4>. QED
          BY <1>5, <4>1, <4>3 DEF HostsDone
      <3>. QED
        BY <1>2, <3>1, <3>2, OwedIs
    <2>11. Owed(h)' \subseteq host_global
      BY <1>2, <1>3, <2>10, OwedLess
    <2>12. ASSUME NEW n \in DOMAIN e.bound, <<"bionic_", e.symtab[n].name>> \in Owed(h)' PROVE e.bound[n].kind = "bionic"
      <3>1. Resolves(h, e.symtab[n], bs[n])
        BY <1>1, <2>1 DEF BoundRight, SameSo
      <3>. QED
        BY <1>1, <2>11, <2>12, <3>1 DEF Resolves
    <2>. QED
      BY <1>3, <2>9, <2>12 DEF PromisesKept
  <1>8. Len(e.needed) <= Len(NeededOf(e))
    BY <1>1, <1>2, <1>3, <1>5
  <1>. QED
    BY <1>3, <1>6, <1>7, <1>8 DEF SoBound

LEMMA BoundStep ==
  ASSUME SafeInv, BoundInv, [Next]_vars, SafeInv'
  PROVE  BoundInv'
  <1>1. StepKind /\ ListKept
    BY Kinds DEF SafeInv
  <1>. SUFFICES ASSUME NEW h \in 2 .. Len(solist') PROVE SoBound(h)'
    BY DEF BoundInv
  <1>2. phase = "run"
    <2>1. CASE \E r, e : NewStep(r, e)
      BY <2>1 DEF NewStep
    <2>2. CASE linking # <<>>
      BY <2>2, RunningIs DEF SafeInv
    <2>3. CASE QuietStep
      <3>1. Len(solist) > 1
        <4>1. Len(solist) \in Nat /\ solist' = solist
          BY <2>3, ListFacts DEF QuietStep, SafeInv, DlInv
        <4>. QED
          BY <4>1
      <3>. QED
        BY <3>1 DEF SafeInv, DlInv
    <2>. QED
      BY <1>1, <2>1, <2>2, <2>3 DEF StepKind, NeedStep, EndStep
  <1>3. StepOK
    BY <1>1, <1>2 DEF StepOK
  <1>4. linking # <<>> => SoBound(top)
    BY TopSo DEF BoundInv, SafeInv
  <1>5. CASE h \in 2 .. Len(solist) /\ solist'[h] = solist[h]
    BY <1>3, <1>5, BoundSame DEF BoundInv
  <1>6. CASE \E r, e : NewStep(r, e) /\ solist'[h] = e
    BY <1>3, <1>6, BoundNew
  <1>7. CASE \E k, e : NeedStep(k, e) /\ h = top /\ solist'[h] = e
    <2>1. PICK k, e : NeedStep(k, e) /\ h = top /\ solist'[h] = e
      BY <1>7
    <2>2. SoBound(h) /\ solist'[top] = e
      BY <1>4, <2>1 DEF NeedStep
    <2>. QED
      BY <1>3, <2>1, <2>2, BoundNeed
  <1>8. CASE \E f, bs, e : EndStep(f, bs, e) /\ h = top /\ solist'[h] = e
    <2>1. PICK f, bs, e : EndStep(f, bs, e) /\ h = top /\ solist'[h] = e
      BY <1>8
    <2>2. SoBound(h) /\ solist'[top] = e
      BY <1>4, <2>1 DEF EndStep
    <2>. QED
      BY <1>3, <2>1, <2>2, BoundEnd
  <1>. QED
    BY <1>1, <1>5, <1>6, <1>7, <1>8, StepSo DEF SafeInv

ScopeAt(h, b, x, scope) ==
  /\ <<"bionic_", x>> \in Promised(h) => b.kind = "bionic"
  /\ b.kind = "lib" => b.so \in scope /\ Linked(b.so) /\ Is(solist[b.so], b.sym, x)
  /\ b.kind \in {"zero", "stub", "host"} =>
       \A d \in scope : ~\E k \in DOMAIN solist[d].symtab : Is(solist[d], k, x)

LEMMA ScopeKept ==
  ASSUME SafeInv, BoundInv
  PROVE  BindingScope
  <1>0. ListOK(solist)
    BY DEF SafeInv, DlInv
  <1>1. ASSUME NEW h \in DOMAIN solist, Linked(h), h # LIBDL, NEW n \in DOMAIN solist[h].bound
        PROVE  ScopeAt(h, solist[h].bound[n], solist[h].symtab[n].name, {h} \cup Range(solist[h].needed))
    <2>1. PICK b : b = solist[h].bound[n]
      OBVIOUS
    <2>2. PICK x : x = solist[h].symtab[n].name
      OBVIOUS
    <2>3. PICK scope : scope = {h} \cup Range(solist[h].needed)
      OBVIOUS
    <2>4. h \in 2 .. Len(solist) /\ LinkedSo(solist[h])
      <3>1. DOMAIN solist = 1 .. Len(solist) /\ Len(solist) \in Nat
        BY <1>0, ListFacts
      <3>2. h \in 2 .. Len(solist)
        BY <1>1, <3>1 DEF LIBDL
      <3>. QED
        BY <1>1, <3>2 DEF Linked, Failed, LinkedSo, So
    <2>5. BoundOK(solist, h) /\ PromisesKept(h)
      BY <2>4 DEF BoundInv, SoBound
    <2>6. BoundAt(solist, solist[h], scope, n)
      BY <2>3, <2>5 DEF BoundOK
    <2>7. <<"bionic_", x>> \in Promised(h) => b.kind = "bionic"
      BY <2>1, <2>2, <2>5, PromisedOwed DEF PromisesKept
    <2>8. b.kind = "lib" => b.so \in scope /\ Linked(b.so) /\ Is(solist[b.so], b.sym, x)
      <3>1. \A d \in scope : LinkedSo(solist[d])
        <4>1. NeededLinked(solist, solist[h])
          BY <1>0, <2>4 DEF ListOK
        <4>. QED
          BY <2>3, <2>4, <4>1 DEF NeededLinked, Range
      <3>2. \A d \in scope : Linked(d)
        BY <3>1 DEF Linked, Failed, LinkedSo, So
      <3>. QED
        BY <2>1, <2>2, <2>6, <3>2 DEF BoundAt
    <2>9. b.kind \in {"zero", "stub", "host"} => \A d \in scope : ~\E k \in DOMAIN solist[d].symtab : Is(solist[d], k, x)
      BY <2>1, <2>2, <2>6 DEF BoundAt, Defs
    <2>10. ScopeAt(h, b, x, scope)
      BY <2>7, <2>8, <2>9 DEF ScopeAt
    <2>. QED
      BY <2>1, <2>2, <2>3, <2>10
  <1>. QED
    BY <1>1 DEF BindingScope, ScopeAt, So

(* apkenv_reloc_library binds a linked library only to definitions in the  *)
(* library and the linked libraries it needs directly, and to nothing      *)
(* (zero, stub, the host) only where those have none; the bionic_ wrappers *)
(* of the host libraries it needs come first, whatever else is loaded and  *)
(* linked, recursively, in between.                                        *)
THEOREM BindsWithinScope == Spec => []BindingScope
  <1>1. Init => BoundInv
    <2>1. Init => Len(solist) = 1
      BY DEF Init
    <2>2. 2 .. 1 = {}
      OBVIOUS
    <2>. QED
      BY <2>1, <2>2 DEF BoundInv
  <1>2. SafeInv /\ BoundInv /\ [Next]_vars /\ SafeInv' => BoundInv'
    BY BoundStep
  <1>3. SafeInv /\ BoundInv => BindingScope
    BY ScopeKept
  <1>. QED
    BY <1>1, <1>2, <1>3, SafeInvariant, PTL DEF Spec

-----------------------------------------------------------------------------
(* dladdr and dlsym.                                                       *)

GivesSym(h, x, r) ==
  /\ h \in 1 .. Len(solist) /\ ~FailedSo(solist[h])
  /\ r.so = h /\ r.sym = elf_lookup(solist[h], x) /\ r.sym # 0

LEMMA FoundInFacts ==
  ASSUME NEW k, NEW x, FoundIn(k, x).kind = "lib"
  PROVE  k # 0 /\ elf_lookup(solist[k], x) # 0 /\ FoundIn(k, x).so = k /\ FoundIn(k, x).sym = elf_lookup(solist[k], x)
  BY DEF FoundIn, Error, Address, So

LEMMA LookupIn ==
  ASSUME Len(solist) \in Nat, NEW x, NEW c \in Nat, c # 0
  PROVE  \/ lookup(x, c + 1) = 0
         \/ lookup(x, c + 1) \in 1 .. Len(solist) /\ ~FailedSo(solist[lookup(x, c + 1)])
  <1>1. PICK S : S = {h \in c + 1 .. Len(solist) : ~Failed(h) /\ elf_lookup(So(h), x) # 0}
    OBVIOUS
  <1>2. S \subseteq 1 .. Len(solist) /\ lookup(x, c + 1) = MinOr0(S)
    BY <1>1 DEF lookup
  <1>3. S \subseteq Nat \ {0}
    BY <1>2
  <1>4. \A h \in S : ~FailedSo(solist[h])
    BY <1>1 DEF Failed, FailedSo, So
  <1>5. MinOr0(S) = 0 \/ MinOr0(S) \in S
    BY <1>3, MinOr0Facts
  <1>. QED
    BY <1>2, <1>4, <1>5

LEMMA DlsymLib ==
  ASSUME ListOK(solist), NEW handle \in Handles, NEW x \in SymNames, dlsym_result(handle, x).kind = "lib"
  PROVE  \E h : GivesSym(h, x, dlsym_result(handle, x))
  <1>0. DOMAIN solist = 1 .. Len(solist) /\ Len(solist) \in Nat
    BY ListFacts
  <1>1. PICK r : r = dlsym_result(handle, x)
    OBVIOUS
  <1>2. ASSUME NEW k, r = FoundIn(k, x), k = 0 \/ (k \in 1 .. Len(solist) /\ ~FailedSo(solist[k]))
        PROVE  \E h : GivesSym(h, x, r)
    <2>1. FoundIn(k, x).kind = "lib"
      BY <1>1, <1>2
    <2>2. k # 0 /\ elf_lookup(solist[k], x) # 0 /\ r.so = k /\ r.sym = elf_lookup(solist[k], x)
      BY <1>2, <2>1, FoundInFacts
    <2>. QED
      BY <1>2, <2>2 DEF GivesSym
  <1>3. \/ r \in {Error("BAD_SYMBOL_NAME"), Wrap(x), Host(x), Error("INVALID_LIBRARY_HANDLE")}
        \/ LET c == find_containing_library(<<So(handle[2]).base, 0>>)
           IN  r = FoundIn(IF c = 0 THEN 0 ELSE lookup(x, c + 1), x)
        \/ r = FoundIn(IF do_we_have_this_handle(handle) THEN handle[2] ELSE 0, x)
    BY <1>1 DEF dlsym_result
  <1>4. CASE r \in {Error("BAD_SYMBOL_NAME"), Wrap(x), Host(x), Error("INVALID_LIBRARY_HANDLE")}
    BY <1>1, <1>4 DEF Error, Wrap, Host
  <1>5. CASE r = FoundIn(IF do_we_have_this_handle(handle) THEN handle[2] ELSE 0, x)
    <2>1. CASE do_we_have_this_handle(handle)
      <3>1. handle[2] \in 1 .. Len(solist) /\ handle[1] = "own" /\ r = FoundIn(handle[2], x)
        BY <1>0, <1>5, <2>1 DEF do_we_have_this_handle
      <3>2. handle \in {"own", "next"} \X Usable
        BY <3>1 DEF Handles
      <3>3. handle[2] \in Usable
        BY <3>2
      <3>4. ~FailedSo(solist[handle[2]])
        BY <3>3 DEF Usable, Linked, Failed, FailedSo, So
      <3>. QED
        BY <1>1, <1>2, <3>1, <3>4
    <2>2. CASE ~do_we_have_this_handle(handle)
      <3>1. r = FoundIn(0, x)
        BY <1>5, <2>2
      <3>. QED
        BY <1>1, <1>2, <3>1
    <2>. QED
      BY <2>1, <2>2
  <1>6. ASSUME NEW c, c = find_containing_library(<<So(handle[2]).base, 0>>),
               r = FoundIn(IF c = 0 THEN 0 ELSE lookup(x, c + 1), x)
        PROVE  \E h : GivesSym(h, x, r)
    <2>1. c \in Nat
      <3>1. PICK a : a = <<So(handle[2]).base, 0>>
        OBVIOUS
      <3>2. PICK S : S = {h \in DOMAIN solist : So(h).base = a[1] /\ a[2] < So(h).size}
        OBVIOUS
      <3>3. c = MinOr0(S)
        BY <1>6, <3>1, <3>2 DEF find_containing_library
      <3>4. S \subseteq Nat \ {0}
        BY <1>0, <3>2
      <3>. QED
        BY <3>3, <3>4, MinOr0Facts
    <2>2. CASE c = 0
      <3>1. r = FoundIn(0, x)
        BY <1>6, <2>2
      <3>. QED
        BY <1>2, <3>1
    <2>3. CASE c # 0
      <3>1. r = FoundIn(lookup(x, c + 1), x)
        BY <1>6, <2>3
      <3>2. \/ lookup(x, c + 1) = 0
            \/ lookup(x, c + 1) \in 1 .. Len(solist) /\ ~FailedSo(solist[lookup(x, c + 1)])
        BY <1>0, <2>1, <2>3, LookupIn
      <3>. QED
        BY <1>2, <3>1, <3>2
    <2>. QED
      BY <2>2, <2>3
  <1>. QED
    BY <1>1, <1>3, <1>4, <1>5, <1>6

(* The library that an address of library h is found in is h itself or one *)
(* that failed.                                                            *)
LEMMA ContainingLibrary ==
  ASSUME ListOK(solist), NEW h \in 2 .. Len(solist), ~FailedSo(solist[h]), NEW v \in Nat, v < RegionSize,
         NEW d, d = find_containing_library(<<solist[h].base, v>>)
  PROVE  d # 0 /\ (FailedSo(solist[d]) \/ d = h)
  <1>0. DOMAIN solist = 1 .. Len(solist) /\ Len(solist) \in Nat /\ h \in 1 .. Len(solist) /\ solist[1].base = 0
    BY ListFacts, LibdlFacts
  <1>1. PICK b : b = solist[h].base
    OBVIOUS
  <1>2. b \in Regions /\ b # 0 /\ solist[h].size = RegionSize
    <2>1. solist[h] \in Loaded
      BY ListFacts
    <2>2. b \in Regions /\ solist[h].size = RegionSize
      BY <1>1, <2>1, LoadedFields
    <2>. QED
      BY <2>2, WorldAssumption
  <1>3. PICK S : S = {k \in DOMAIN solist : So(k).base = b /\ v < So(k).size}
    OBVIOUS
  <1>4. d = MinOr0(S)
    BY <1>1, <1>3 DEF find_containing_library
  <1>5. h \in S
    BY <1>0, <1>1, <1>2, <1>3 DEF So
  <1>6. S \subseteq Nat \ {0} /\ S # {}
    BY <1>0, <1>3, <1>5
  <1>7. d \in S
    <2>1. S \subseteq Nat
      BY <1>6
    <2>2. Min(S) \in S
      BY <1>6, <2>1, MinNat
    <2>. QED
      BY <1>4, <1>6, <2>2 DEF MinOr0
  <1>8. d \in DOMAIN solist /\ solist[d].base = b /\ d # 0
    BY <1>3, <1>6, <1>7 DEF So
  <1>9. d \in 2 .. Len(solist)
    <2>1. d # 1
      BY <1>0, <1>2, <1>8
    <2>. QED
      BY <1>0, <1>8, <2>1
  <1>10. ~FailedSo(solist[d]) => d = h
    BY <1>0, <1>1, <1>8, <1>9 DEF ListOK, BasesDiffer
  <1>. QED
    BY <1>8, <1>10

LEMMA ContainingSymbol ==
  ASSUME NEW e \in Loaded, FromFile(e), SymbolsApart(e.symtab), NEW y \in DOMAIN e.symtab, e.symtab[y].def, e.symtab[y].size > 0
  PROVE  find_containing_symbol(e, e.symtab[y].value) = y
  <1>1. PICK s \in Seq(Symbol) : s = e.symtab
    BY LoadedFields
  <1>2. PICK v \in Nat : v = s[y].value /\ s[y].size \in Nat /\ s[y].size > 0
    BY <1>1, SymFacts
  <1>3. symbol_matches_soaddr(s[y], v)
    BY <1>1, <1>2 DEF symbol_matches_soaddr
  <1>4. ASSUME NEW k \in DOMAIN s, symbol_matches_soaddr(s[k], v) PROVE k = y
    <2>1. s[k].value \in Nat /\ s[k].size \in Nat /\ s[k].def /\ s[k].value <= v /\ v < s[k].value + s[k].size
      BY <1>4, SymFacts DEF symbol_matches_soaddr
    <2>2. k = y \/ v < s[k].value \/ s[k].value + s[k].size <= v
      BY <1>1, <1>2, <2>1 DEF SymbolsApart
    <2>. QED
      BY <1>2, <2>1, <2>2
  <1>5. PICK D : D = IF is_gnu_hash(e) THEN DOMAIN e.table.chain ELSE DOMAIN s
    OBVIOUS
  <1>6. y \in D /\ D \subseteq DOMAIN s
    <2>1. CASE is_gnu_hash(e)
      <3>1. e.table = GnuTable(s)
        <4>1. SysvTable(s).style = "sysv" /\ "sysv" # "gnu"
          BY DEF SysvTable
        <4>2. e.table = GnuTable(s) \/ e.table = SysvTable(s)
          BY <1>1 DEF FromFile, HashTable
        <4>. QED
          BY <2>1, <4>1, <4>2 DEF is_gnu_hash
      <3>2. DOMAIN e.table.chain = Hashed(s)
        BY <3>1, GnuTableFacts
      <3>. QED
        BY <1>1, <1>5, <2>1, <3>2 DEF Hashed
    <2>2. CASE ~is_gnu_hash(e)
      BY <1>1, <1>5, <2>2
    <2>. QED
      BY <2>1, <2>2
  <1>7. PICK S : S = {n \in D : symbol_matches_soaddr(s[n], v)}
    OBVIOUS
  <1>8. S = {y}
    BY <1>3, <1>4, <1>6, <1>7
  <1>9. find_containing_symbol(e, v) = MinOr0(S)
    BY <1>1, <1>5, <1>7 DEF find_containing_symbol
  <1>10. y \in Nat \ {0}
    BY <1>1, SymFacts
  <1>11. S \subseteq Nat \ {0} /\ y \in S /\ \A k \in S : y <= k
    BY <1>8, <1>10
  <1>. QED
    BY <1>1, <1>2, <1>9, <1>11, MinOr0Is

RoundAt(r) ==
  LET d == dladdr(<<solist[r.so].base, solist[r.so].symtab[r.sym].value>>)
  IN  r.kind = "lib" /\ solist[r.so].symtab[r.sym].size > 0
        => d.so # 0 /\ (Failed(d.so) \/ d = [so |-> r.so, sym |-> r.sym])

LEMMA RoundTripHolds ==
  ASSUME \A f \in Fs : SymbolsApart(FileOf[f].symtab), ListOK(solist)
  PROVE  RoundTrip
  <1>1. ASSUME NEW handle \in Handles, NEW x \in SymNames, NEW r, r = dlsym_result(handle, x), r.kind = "lib",
               solist[r.so].symtab[r.sym].size > 0,
               NEW d, d = dladdr(<<solist[r.so].base, solist[r.so].symtab[r.sym].value>>)
        PROVE  d.so # 0 /\ (Failed(d.so) \/ d = [so |-> r.so, sym |-> r.sym])
    <2>1. PICK h : GivesSym(h, x, r)
      BY <1>1, DlsymLib
    <2>2. h \in 1 .. Len(solist) /\ ~FailedSo(solist[h]) /\ r.so = h /\ r.sym = elf_lookup(solist[h], x) /\ r.sym # 0
      BY <2>1 DEF GivesSym
    <2>3. PICK y : y = r.sym
      OBVIOUS
    <2>4. PICK e : e = solist[h]
      OBVIOUS
    <2>5. y \in DOMAIN e.symtab /\ Is(e, y, x)
      <3>1. Exact(e, x)
        BY <2>2, <2>4, LookupRight
      <3>. QED
        BY <2>2, <2>3, <2>4, <3>1 DEF Exact
    <2>6. e.symtab[y].def /\ e.symtab[y].size > 0
      BY <1>1, <2>2, <2>3, <2>4, <2>5 DEF Is, is_symbol_global_and_defined
    <2>7. h \in 2 .. Len(solist)
      <3>1. h # 1
        <4>1. solist[1] = libdl_info
          BY ListFacts
        <4>2. libdl_info.symtab = libdl_symtab /\ \A n \in DOMAIN libdl_symtab : libdl_symtab[n].size = 0
          BY DEF libdl_info, libdl_symtab
        <4>. QED
          BY <2>4, <2>5, <2>6, <4>1, <4>2
      <3>. QED
        BY <2>2, <3>1
    <2>8. e \in Loaded /\ FromFile(e)
      BY <2>4, <2>7, ListFacts
    <2>9. SymbolsApart(e.symtab)
      BY <2>8 DEF FromFile
    <2>10. PICK v \in Nat : v = e.symtab[y].value /\ v < RegionSize
      <3>1. e.symtab \in Seq(Symbol)
        BY <2>8, LoadedFields
      <3>2. e.symtab[y].value \in Nat
        BY <2>5, <3>1, SymFacts
      <3>. QED
        BY <2>5, <2>6, <2>9, <3>2 DEF SymbolsApart
    <2>11. find_containing_symbol(e, v) = y
      BY <2>5, <2>6, <2>8, <2>9, <2>10, ContainingSymbol
    <2>12. PICK a : a = <<solist[h].base, v>>
      OBVIOUS
    <2>13. PICK c : c = find_containing_library(a)
      OBVIOUS
    <2>14. c # 0 /\ (FailedSo(solist[c]) \/ c = h)
      BY <2>2, <2>7, <2>10, <2>12, <2>13, ContainingLibrary
    <2>15. d = [so |-> c, sym |-> find_containing_symbol(solist[c], v)]
      <3>1. d = dladdr(a)
        BY <1>1, <2>2, <2>3, <2>4, <2>10, <2>12
      <3>2. a[2] = v
        BY <2>12
      <3>. QED
        BY <2>13, <2>14, <3>1, <3>2 DEF dladdr, So
    <2>16. d.so = c
      BY <2>15
    <2>17. CASE FailedSo(solist[c])
      BY <2>14, <2>16, <2>17 DEF FailedSo, Failed, So
    <2>18. CASE c = h
      BY <2>2, <2>3, <2>4, <2>11, <2>14, <2>15, <2>16, <2>18
    <2>. QED
      BY <2>14, <2>17, <2>18
  <1>2. \A handle \in Handles, x \in SymNames : RoundAt(dlsym_result(handle, x))
    BY <1>1 DEF RoundAt
  <1>. QED
    BY <1>2 DEF RoundTrip, RoundAt, So

(* For every list that dlopen can build of files whose symbols neither     *)
(* overlap nor leave their segments, bionic_dladdr finds an address that   *)
(* bionic_dlsym gave, and reports the library and the symbol that dlsym    *)
(* meant; the one exception is the answer of a library that failed to link *)
(* and still claims the region it was unmapped from (DladdrFindsMapped).   *)
THEOREM DladdrInvertsDlsym ==
  ASSUME \A f \in Fs : SymbolsApart(FileOf[f].symtab)
  PROVE  Spec => []RoundTrip
  <1>1. SafeInv => RoundTrip
    BY RoundTripHolds DEF SafeInv, DlInv
  <1>. QED
    BY <1>1, SafeInvariant, PTL
=============================================================================
