----------------------------- MODULE TlbProofs ------------------------------
(* The TLB never holds a mapping that the page table in use does not have,   *)
(* for every number of processes, pages and TLB entries.                     *)
(*                                                                           *)
(* While processes run, it is enough that a PTE with TLB_P set is present    *)
(* (Backed): a refill copies the pair's PTE unseen, whatever index it names. *)
(* The self tests also take pages away, with tlb_invalidate(), and for that  *)
(* TLB_P, the entries, tlb_algo_hi and tlb_algo_empty must agree (Agree).    *)
EXTENDS Tlb, SequenceTheorems, FiniteSetTheorems, TLAPS

Phases ==
    /\ phase = "check" => cur_pgdir = Boot
    /\ phase = "run" /\ instr # <<>> => cur_pgdir # Boot
    /\ Boot \notin live

(* A PTE with TLB_P set is present.                                          *)
Backed == \A d \in PgDirs, q \in Page : tlb_p[d][q] # NotInTlb => q \in mapped[d]

(* A page the TLB holds has TLB_P set, with the index of its entry.          *)
Held ==
    \A i \in Index, h \in Half :
        tlb[i].lo[h] # NoFrame => tlb[i].hi \in Pair /\ tlb_p[Boot][2 * tlb[i].hi + h] = i

(* TLB_P names an entry that holds the page.                                 *)
Named ==
    \A q \in Page : tlb_p[Boot][q] # NotInTlb =>
        /\ tlb[tlb_p[Boot][q]].hi = VPN2(q)
        /\ tlb[tlb_p[Boot][q]].lo[TLBLO(q)] # NoFrame

(* The two pages of a VPN2 are in one entry.                                 *)
Together ==
    \A q \in Page :
        tlb_p[Boot][q] # NotInTlb /\ tlb_p[Boot][TLBPAIR(q)] # NotInTlb =>
            tlb_p[Boot][q] = tlb_p[Boot][TLBPAIR(q)]

(* An entry with a VPN2 holds a page, and tlb_algo_hi knows its VPN2.        *)
Used ==
    \A i \in Index : tlb[i].hi # NoPair =>
        algo_hi[i] = tlb[i].hi /\ \E h \in Half : tlb[i].lo[h] # NoFrame

(* tlb_algo_empty lists every entry without a VPN2 once, and no other.       *)
Unused ==
    /\ \A k \in 1..Len(empty) : tlb[empty[k]].hi = NoPair
    /\ \A i \in Index : tlb[i].hi = NoPair => \E k \in 1..Len(empty) : empty[k] = i
    /\ \A j, k \in 1..Len(empty) : empty[j] = empty[k] => j = k

Agree == Held /\ Named /\ Together /\ Used /\ Unused

IInv == TypeOK /\ Phases /\ Backed /\ TlbCoherent /\ (phase = "check" => Agree)

(* What a refill of la amounts to, whichever way its index was found: idx is  *)
(* written with la and its twin, and the pages gone lose TLB_P.               *)
Refill(la, idx, twin, gone) ==
    /\ mapped' = [mapped EXCEPT ![cur_pgdir] = @ \cup {la}]
    /\ tlb_p' = [tlb_p EXCEPT ![cur_pgdir] =
                   [q \in Page |-> IF q = la THEN idx
                                   ELSE IF q \in gone THEN NotInTlb
                                   ELSE tlb_p[cur_pgdir][q]]]
    /\ tlb' = [tlb EXCEPT ![idx] =
                 [hi |-> VPN2(la),
                  lo |-> [h \in Half |-> IF h = TLBLO(la) THEN <<cur_pgdir, la>>
                                         ELSE twin]]]

(* The twin is left out, or it is la's pair and the page table has it.        *)
TwinBacked(la, twin) ==
    \/ twin = NoFrame
    \/ twin = <<cur_pgdir, TLBPAIR(la)>> /\ TLBPAIR(la) \in mapped[cur_pgdir]

(* The three ways: the pair's index, an empty one, or an evicted one.         *)
Paired(la) ==
    LET idx == tlb_p[cur_pgdir][TLBPAIR(la)]
    IN /\ idx # NotInTlb
       /\ Refill(la, idx, <<cur_pgdir, TLBPAIR(la)>>, {})
       /\ UNCHANGED <<empty, algo_hi, algo_ptr>>

Filled(la) ==
    LET idx == empty[Len(empty)]
    IN /\ tlb_p[cur_pgdir][TLBPAIR(la)] = NotInTlb /\ empty # <<>>
       /\ Refill(la, idx, NoFrame, {})
       /\ empty' = SubSeq(empty, 1, Len(empty) - 1)
       /\ algo_hi' = [algo_hi EXCEPT ![idx] = VPN2(la)]
       /\ UNCHANGED algo_ptr

Replaced(la) ==
    /\ tlb_p[cur_pgdir][TLBPAIR(la)] = NotInTlb /\ empty = <<>>
    /\ Refill(la, algo_ptr, NoFrame, {q \in Page : VPN2(q) = algo_hi[algo_ptr]})
    /\ algo_hi' = [algo_hi EXCEPT ![algo_ptr] = VPN2(la)]
    /\ algo_ptr' = (algo_ptr + 1) % TLBN
    /\ UNCHANGED empty

-----------------------------------------------------------------------------
(* The arithmetic of page numbers: a page is a VPN2 and a half, and its pair  *)
(* is the other half of the same VPN2.                                        *)
LEMMA Halves ==
    ASSUME NEW la \in Page
    PROVE  /\ VPN2(la) \in Pair /\ TLBLO(la) \in Half /\ la = 2 * VPN2(la) + TLBLO(la)
           /\ TLBPAIR(la) \in Page /\ TLBPAIR(la) # la /\ TLBPAIR(TLBPAIR(la)) = la
           /\ VPN2(TLBPAIR(la)) = VPN2(la) /\ TLBLO(TLBPAIR(la)) = 1 - TLBLO(la)
           /\ VPN2(la) # NoPair
  BY TlbAssumption, SMT DEF Page, Pair, Half, VPN2, TLBLO, TLBPAIR, NoPair

(* The other direction: a VPN2 and a half make a page.                        *)
LEMMA Joined ==
    ASSUME NEW p \in Pair, NEW h \in Half
    PROVE  2 * p + h \in Page /\ VPN2(2 * p + h) = p /\ TLBLO(2 * p + h) = h
  BY TlbAssumption, SMT DEF Page, Pair, Half, VPN2, TLBLO

(* Two pages of one VPN2 are the same page or each other's pair.              *)
LEMMA SamePair ==
    ASSUME NEW q \in Page, NEW r \in Page, VPN2(q) = VPN2(r)
    PROVE  q = r \/ q = TLBPAIR(r)
  BY TlbAssumption, SMT DEF Page, VPN2, TLBLO, TLBPAIR

(* A frame is not the invalid one.                                            *)
LEMMA RealFrame ==
    ASSUME NEW d, NEW q
    PROVE  <<d, q>> # NoFrame
  BY DEF NoFrame

(* No index is the mark of a PTE without TLB_P.                               *)
LEMMA RealIndex ==
    ASSUME NEW i \in Index
    PROVE  i # NotInTlb
  BY TlbAssumption, SMT DEF Index, NotInTlb

(* Taking the last index off tlb_algo_empty.                                  *)
LEMMA Popped ==
    ASSUME NEW s \in Seq(Index), Len(s) > 0, NEW t, t = SubSeq(s, 1, Len(s) - 1)
    PROVE  /\ t \in Seq(Index) /\ Len(t) = Len(s) - 1
           /\ \A k \in 1..(Len(s) - 1) : t[k] = s[k]
  <1> DEFINE n == Len(s) - 1
  <1>1. n \in Nat /\ \A k \in 1..n : s[k] \in Index
    OBVIOUS
  <1>2. t = SubSeq(s, 1, n)
    OBVIOUS
  <1> HIDE DEF n
  <1>3. /\ t \in Seq(Index)
        /\ Len(t) = IF 1 <= n THEN n - 1 + 1 ELSE 0
        /\ \A k \in 1..(n - 1 + 1) : t[k] = s[1 + k - 1]
    BY <1>1, <1>2, SubSeqProperties
  <1>4. Len(t) = n /\ n - 1 + 1 = n
    BY <1>1, <1>3
  <1>5. \A k \in 1..n : t[k] = s[k]
    <2> SUFFICES ASSUME NEW k \in 1..n
                 PROVE  t[k] = s[k]
      OBVIOUS
    <2>1. 1 + k - 1 = k
      BY <1>1
    <2> QED
      BY <1>3, <1>4, <2>1
  <1> QED
    BY <1>3, <1>4, <1>5 DEF n

(* A sequence of different indices is no longer than tlb_algo_empty[].        *)
LEMMA EmptyFits ==
    ASSUME NEW s \in Seq(Index), \A j, k \in 1..Len(s) : s[j] = s[k] => j = k
    PROVE  Len(s) <= TLBN
  <1>1. Len(s) \in Nat /\ TLBN \in Nat /\ s \in [1..Len(s) -> Index]
    BY TlbAssumption, LenProperties
  <1>2. /\ IsFiniteSet(1..Len(s))
        /\ Cardinality(1..Len(s)) = IF 1 > Len(s) THEN 0 ELSE Len(s) - 1 + 1
    BY <1>1, FS_Interval
  <1>3. /\ IsFiniteSet(Index)
        /\ Cardinality(Index) = IF 0 > TLBN - 1 THEN 0 ELSE TLBN - 1 - 0 + 1
    BY <1>1, FS_Interval DEF Index
  <1>4. Cardinality(1..Len(s)) = Len(s) /\ Cardinality(Index) = TLBN
    BY <1>1, <1>2, <1>3
  <1>5. ~(Cardinality(Index) < Cardinality(1..Len(s)))
    BY <1>1, <1>2, <1>3, FS_PigeonHole
  <1> QED
    BY <1>1, <1>4, <1>5

(* In the self tests a page that misses has TLB_P clear: the entry TLB_P      *)
(* names would be the only one with the page's VPN2, and would translate it.  *)
LEMMA MissClear ==
    ASSUME TypeOK, Agree, NEW la \in Page, addr_translate(la) = NoFrame
    PROVE  tlb_p[Boot][la] = NotInTlb
  <1> SUFFICES ASSUME tlb_p[Boot][la] # NotInTlb
               PROVE  FALSE
    OBVIOUS
  <1> DEFINE idx == tlb_p[Boot][la]
             match == {i \in Index : tlb[i].hi = VPN2(la)}
  <1>1. idx \in Index
    BY DEF TypeOK, PgDirs
  <1>2. tlb[idx].hi = VPN2(la) /\ tlb[idx].lo[TLBLO(la)] # NoFrame
    BY DEF Agree, Named
  <1>3. ASSUME NEW i \in Index, tlb[i].hi = VPN2(la)
        PROVE  i = idx
    <2>1. PICK h \in Half : tlb[i].lo[h] # NoFrame
      BY <1>3, Halves DEF Agree, Used
    <2> DEFINE q == 2 * VPN2(la) + h
    <2>2. q \in Page /\ VPN2(q) = VPN2(la)
      BY Halves, Joined
    <2>3. tlb_p[Boot][q] = i
      BY <1>3, <2>1 DEF Agree, Held
    <2>4. q = la \/ q = TLBPAIR(la)
      BY <2>2, SamePair
    <2> HIDE DEF q
    <2> QED
      BY <2>3, <2>4, RealIndex DEF Agree, Together
  <1>4. match = {idx}
    BY <1>1, <1>2, <1>3
  <1>5. Min(match) = idx
    BY <1>1, <1>4, SMT DEF Min, Index
  <1> QED
    BY <1>2, <1>4, <1>5 DEF addr_translate

(* tlb_miss_handler() is one of the three refills.                            *)
LEMMA ThreeWays ==
    ASSUME NEW la \in Page, tlb_miss_handler(la)
    PROVE  Paired(la) \/ Filled(la) \/ Replaced(la)
  <1>1. CASE tlb_p[cur_pgdir][TLBPAIR(la)] # NotInTlb
    BY <1>1 DEF tlb_miss_handler, Paired, Refill
  <1>2. CASE tlb_p[cur_pgdir][TLBPAIR(la)] = NotInTlb /\ empty # <<>>
    BY <1>2 DEF tlb_miss_handler, Filled, Refill
  <1>3. CASE tlb_p[cur_pgdir][TLBPAIR(la)] = NotInTlb /\ empty = <<>>
    BY <1>3 DEF tlb_miss_handler, Replaced, Refill, Evicted
  <1> QED
    BY <1>1, <1>2, <1>3

(* A refill keeps the types, and the new entry is one the page table backs if *)
(* its twin is.                                                               *)
LEMMA RefillSafe ==
    ASSUME TypeOK, Backed, TlbCoherent, phase = "check" \/ cur_pgdir # Boot,
           NEW la \in Page, NEW idx \in Index, NEW twin, NEW gone,
           TwinBacked(la, twin), Refill(la, idx, twin, gone), UNCHANGED <<phase, cur_pgdir>>
    PROVE  /\ mapped' \in [PgDirs -> SUBSET Page]
           /\ tlb_p' \in [PgDirs -> [Page -> {NotInTlb} \cup Index]]
           /\ tlb' \in [Index -> [hi : Pair \cup {NoPair}, lo : [Half -> {NoFrame} \cup Frame]]]
           /\ Backed' /\ TlbCoherent'
  <1>1. la = 2 * VPN2(la) + TLBLO(la) /\ VPN2(la) \in Pair /\ TLBPAIR(la) \in Page
    BY Halves
  <1>2. mapped' \in [PgDirs -> SUBSET Page]
    BY DEF TypeOK, Refill
  <1>3. tlb_p' \in [PgDirs -> [Page -> {NotInTlb} \cup Index]]
    BY DEF TypeOK, Refill
  <1>4. twin \in {NoFrame} \cup Frame /\ <<cur_pgdir, la>> \in Frame
    BY <1>1 DEF TypeOK, Frame, TwinBacked
  <1>5. tlb' \in [Index -> [hi : Pair \cup {NoPair}, lo : [Half -> {NoFrame} \cup Frame]]]
    BY <1>1, <1>4 DEF TypeOK, Refill
  <1>6. Backed'
    BY DEF TypeOK, Refill, Backed
  <1>7. mapped'[cur_pgdir] = mapped[cur_pgdir] \cup {la}
    BY DEF TypeOK, Refill
  <1>8. ASSUME NEW i \in Index, NEW h \in Half, tlb'[i].lo[h] # NoFrame
        PROVE  LET q == 2 * tlb'[i].hi + h
               IN tlb'[i].lo[h] = <<cur_pgdir, q>> /\ q \in mapped'[cur_pgdir]
    <2>1. CASE i # idx
      <3>1. tlb'[i] = tlb[i]
        BY <2>1 DEF TypeOK, Refill
      <3> QED
        BY <1>7, <1>8, <3>1 DEF TlbCoherent
    <2>2. CASE i = idx
      <3>1. /\ tlb'[i].hi = VPN2(la)
            /\ tlb'[i].lo[h] = IF h = TLBLO(la) THEN <<cur_pgdir, la>> ELSE twin
        BY <2>2 DEF TypeOK, Refill
      <3>2. CASE h = TLBLO(la)
        BY <1>1, <1>7, <3>1, <3>2
      <3>3. CASE h # TLBLO(la)
        <4>1. h = 1 - TLBLO(la)
          BY <3>3, Halves, SMT DEF Half
        <4>2. TLBPAIR(la) = 2 * VPN2(la) + h
          BY <1>1, <4>1, Halves
        <4> QED
          BY <1>7, <1>8, <3>1, <3>3, <4>2 DEF TwinBacked
      <3> QED
        BY <3>2, <3>3
    <2> QED
      BY <2>1, <2>2
  <1>9. TlbCoherent'
    BY <1>8 DEF TlbCoherent
  <1> QED
    BY <1>2, <1>3, <1>5, <1>6, <1>9

(* In the self tests a refill keeps TLB_P and the entries in agreement when   *)
(* no page but la's twin stays at idx and only pages of idx lose TLB_P.       *)
LEMMA RefillAgrees ==
    ASSUME TypeOK, Agree, cur_pgdir = Boot, phase = "check",
           NEW la \in Page, tlb_p[Boot][la] = NotInTlb,
           NEW idx \in Index, NEW twin, NEW gone,
           \A q \in Page \ gone : tlb_p[Boot][q] = idx => q = TLBPAIR(la),
           \A q \in Page \cap gone : tlb_p[Boot][q] \in {NotInTlb, idx},
           TLBPAIR(la) \notin gone,
           IF twin = NoFrame THEN tlb_p[Boot][TLBPAIR(la)] = NotInTlb
                             ELSE tlb_p[Boot][TLBPAIR(la)] = idx,
           Refill(la, idx, twin, gone)
    PROVE  /\ Held' /\ Named' /\ Together'
           /\ tlb'[idx].hi = VPN2(la) /\ \E h \in Half : tlb'[idx].lo[h] # NoFrame
           /\ \A i \in Index \ {idx} : tlb'[i] = tlb[i]
  <1> DEFINE pair == TLBPAIR(la)
  <1>1. /\ VPN2(la) \in Pair /\ TLBLO(la) \in Half /\ la = 2 * VPN2(la) + TLBLO(la)
        /\ pair \in Page /\ pair # la /\ TLBPAIR(pair) = la
        /\ VPN2(pair) = VPN2(la) /\ TLBLO(pair) = 1 - TLBLO(la)
        /\ pair = 2 * VPN2(la) + TLBLO(pair)
    BY Halves
  <1>2. /\ tlb'[idx].hi = VPN2(la)
        /\ \A h \in Half : tlb'[idx].lo[h] = IF h = TLBLO(la) THEN <<Boot, la>> ELSE twin
    BY DEF TypeOK, Refill
  <1>3. \A i \in Index \ {idx} : tlb'[i] = tlb[i]
    BY DEF TypeOK, Refill
  <1>4. \A q \in Page : tlb_p'[Boot][q] = IF q = la THEN idx
                                        ELSE IF q \in gone THEN NotInTlb
                                        ELSE tlb_p[Boot][q]
    BY DEF TypeOK, Refill
  <1>5. idx # NotInTlb /\ <<Boot, la>> # NoFrame
    BY RealIndex, RealFrame
  <1>6. \A q \in Page : tlb_p[Boot][q] \in {NotInTlb} \cup Index
    BY DEF TypeOK, PgDirs
  <1>7. Held'
    <2> SUFFICES ASSUME NEW i \in Index, NEW h \in Half, tlb'[i].lo[h] # NoFrame
                 PROVE  tlb'[i].hi \in Pair /\ tlb_p'[Boot][2 * tlb'[i].hi + h] = i
      BY DEF Held
    <2>1. CASE i # idx
      <3> DEFINE q == 2 * tlb[i].hi + h
      <3>1. tlb[i].hi \in Pair /\ tlb_p[Boot][q] = i
        BY <1>3, <2>1 DEF Agree, Held
      <3>2. q \in Page
        BY <3>1, Joined
      <3>3. i # NotInTlb
        BY RealIndex
      <3> HIDE DEF q
      <3>4. q # la /\ q \notin gone
        BY <2>1, <3>1, <3>2, <3>3
      <3>5. tlb_p'[Boot][q] = i
        BY <1>4, <3>1, <3>2, <3>4
      <3> QED
        BY <1>3, <2>1, <3>1, <3>5 DEF q
    <2>2. CASE i = idx /\ h = TLBLO(la)
      BY <1>1, <1>2, <1>4, <2>2
    <2>3. CASE i = idx /\ h # TLBLO(la)
      <3>1. h = TLBLO(pair)
        BY <1>1, <2>3, SMT DEF Half
      <3>2. tlb_p[Boot][pair] = idx
        BY <1>2, <2>3
      <3>3. tlb_p'[Boot][pair] = idx
        BY <1>1, <1>4, <3>2
      <3> QED
        BY <1>1, <1>2, <2>3, <3>1, <3>3
    <2> QED
      BY <2>1, <2>2, <2>3
  <1>8. Named'
    <2> SUFFICES ASSUME NEW q \in Page, tlb_p'[Boot][q] # NotInTlb
                 PROVE  /\ tlb'[tlb_p'[Boot][q]].hi = VPN2(q)
                        /\ tlb'[tlb_p'[Boot][q]].lo[TLBLO(q)] # NoFrame
      BY DEF Named
    <2>1. CASE q = la
      BY <1>1, <1>2, <1>4, <1>5, <2>1
    <2>2. CASE q # la /\ tlb_p[Boot][q] = idx
      <3>1. q = pair
        BY <1>4, <2>2
      <3>2. TLBLO(q) \in Half /\ TLBLO(q) # TLBLO(la)
        BY <1>1, <3>1, Halves, SMT DEF Half
      <3>3. twin # NoFrame
        BY <1>5, <2>2, <3>1
      <3>4. tlb_p'[Boot][q] = idx
        BY <1>4, <2>2
      <3> QED
        BY <1>1, <1>2, <3>1, <3>2, <3>3, <3>4
    <2>3. CASE q # la /\ tlb_p[Boot][q] # idx
      <3>1. tlb_p'[Boot][q] = tlb_p[Boot][q] /\ tlb_p[Boot][q] \in Index \ {idx}
        BY <1>4, <1>6, <2>3
      <3> QED
        BY <1>3, <3>1, RealIndex DEF Agree, Named
    <2> QED
      BY <2>1, <2>2, <2>3
  <1>9. Together'
    <2> SUFFICES ASSUME NEW q \in Page,
                        tlb_p'[Boot][q] # NotInTlb, tlb_p'[Boot][TLBPAIR(q)] # NotInTlb
                 PROVE  tlb_p'[Boot][q] = tlb_p'[Boot][TLBPAIR(q)]
      BY DEF Together
    <2>0. TLBPAIR(q) \in Page /\ TLBPAIR(TLBPAIR(q)) = q
      BY Halves
    <2>1. CASE q = la
      BY <1>1, <1>4, <2>1
    <2>2. CASE q = pair
      BY <1>1, <1>4, <2>2
    <2>3. CASE q # la /\ q # pair
      <3>1. TLBPAIR(q) # la
        BY <2>0, <2>3
      <3>2. /\ tlb_p'[Boot][q] = tlb_p[Boot][q]
            /\ tlb_p'[Boot][TLBPAIR(q)] = tlb_p[Boot][TLBPAIR(q)]
        BY <1>4, <2>0, <2>3, <3>1
      <3> QED
        BY <3>2 DEF Agree, Together
    <2> QED
      BY <2>1, <2>2, <2>3
  <1> QED
    BY <1>1, <1>2, <1>3, <1>5, <1>7, <1>8, <1>9

-----------------------------------------------------------------------------
(* The refills of the self tests, one way at a time.  First, of the index the *)
(* pair is in.                                                                *)
LEMMA PairedAgrees ==
    ASSUME TypeOK, Agree, cur_pgdir = Boot, phase = "check",
           NEW la \in Page, tlb_p[Boot][la] = NotInTlb, Paired(la)
    PROVE  Agree'
  <1> DEFINE pair == TLBPAIR(la)
             idx == tlb_p[Boot][pair]
  <1>1. pair \in Page /\ VPN2(pair) = VPN2(la) /\ VPN2(la) # NoPair
    BY Halves
  <1>2. idx \in Index /\ idx # NotInTlb
    BY <1>1 DEF TypeOK, PgDirs, Paired
  <1>3. tlb[idx].hi = VPN2(la)
    BY <1>1, <1>2 DEF Agree, Named
  <1>4. Refill(la, idx, <<Boot, pair>>, {}) /\ UNCHANGED <<empty, algo_hi>>
    BY DEF Paired
  <1>5. \A q \in Page : tlb_p[Boot][q] = idx => q = pair
    <2> SUFFICES ASSUME NEW q \in Page, tlb_p[Boot][q] = idx
                 PROVE  q = pair
      OBVIOUS
    <2>1. VPN2(q) = VPN2(la)
      BY <1>2, <1>3 DEF Agree, Named
    <2> QED
      BY <1>2, <2>1, SamePair
  <1>6. <<Boot, pair>> # NoFrame
    BY RealFrame
  <1> HIDE DEF idx
  <1>7. /\ Held' /\ Named' /\ Together'
        /\ tlb'[idx].hi = VPN2(la) /\ \E h \in Half : tlb'[idx].lo[h] # NoFrame
        /\ \A i \in Index \ {idx} : tlb'[i] = tlb[i]
    <2>1. tlb_p[Boot][TLBPAIR(la)] = idx
      BY DEF idx
    <2> QED
      BY <1>2, <1>4, <1>5, <1>6, <2>1, RefillAgrees
  <1>8. \A i \in Index : tlb'[i].hi = tlb[i].hi
    BY <1>3, <1>7
  <1>9. Used'
    BY <1>3, <1>4, <1>7 DEF Agree, Used
  <1>10. Unused'
    BY <1>4, <1>8, ElementOfSeq DEF TypeOK, Agree, Unused
  <1> QED
    BY <1>7, <1>9, <1>10 DEF Agree

(* The refill of an index taken off tlb_algo_empty.                           *)
LEMMA FilledAgrees ==
    ASSUME TypeOK, Agree, cur_pgdir = Boot, phase = "check",
           NEW la \in Page, tlb_p[Boot][la] = NotInTlb, Filled(la)
    PROVE  Agree'
  <1> DEFINE n == Len(empty)
             idx == empty[n]
  <1>1. empty \in Seq(Index) /\ n \in Nat /\ n > 0
    BY SMT DEF TypeOK, Filled
  <1>2. idx \in Index /\ \A k \in 1..n : empty[k] \in Index
    BY <1>1
  <1>3. tlb[idx].hi = NoPair
    BY <1>1 DEF Agree, Unused
  <1>4. \A q \in Page : tlb_p[Boot][q] # idx
    <2> SUFFICES ASSUME NEW q \in Page, tlb_p[Boot][q] = idx
                 PROVE  FALSE
      OBVIOUS
    <2>1. tlb[idx].hi = VPN2(q)
      BY <1>2, RealIndex DEF Agree, Named
    <2> QED
      BY <1>3, <2>1, Halves
  <1>5. /\ Refill(la, idx, NoFrame, {}) /\ tlb_p[Boot][TLBPAIR(la)] = NotInTlb
        /\ empty' = SubSeq(empty, 1, n - 1)
        /\ algo_hi' = [algo_hi EXCEPT ![idx] = VPN2(la)]
    BY DEF Filled
  <1> HIDE DEF idx
  <1>6. /\ Held' /\ Named' /\ Together'
        /\ tlb'[idx].hi = VPN2(la) /\ \E h \in Half : tlb'[idx].lo[h] # NoFrame
        /\ \A i \in Index \ {idx} : tlb'[i] = tlb[i]
    BY <1>2, <1>4, <1>5, RefillAgrees
  <1>7. Used'
    BY <1>2, <1>5, <1>6 DEF TypeOK, Agree, Used
  <1>8. Unused'
    <2>1. Len(empty') = n - 1 /\ \A k \in 1..(n - 1) : empty'[k] = empty[k]
      BY <1>1, <1>5, Popped
    <2>2. \A k \in 1..(n - 1) : k \in 1..n /\ empty[k] \in Index \ {idx}
      <3> SUFFICES ASSUME NEW k \in 1..(n - 1)
                   PROVE  k \in 1..n /\ empty[k] \in Index \ {idx}
        OBVIOUS
      <3>1. k \in 1..n /\ n \in 1..n /\ k # n
        BY <1>1
      <3> QED
        BY <1>2, <3>1 DEF Agree, Unused, idx
    <2>3. \A k \in 1..Len(empty') : tlb'[empty'[k]].hi = NoPair
      BY <1>6, <2>1, <2>2 DEF Agree, Unused
    <2>4. ASSUME NEW i \in Index, tlb'[i].hi = NoPair
          PROVE  \E k \in 1..Len(empty') : empty'[k] = i
      <3>1. i # idx
        BY <1>6, <2>4, Halves
      <3>2. tlb[i].hi = NoPair
        BY <1>6, <2>4, <3>1
      <3>3. PICK k \in 1..n : empty[k] = i
        BY <3>2 DEF Agree, Unused
      <3>4. k \in 1..(n - 1)
        BY <1>1, <3>1, <3>3 DEF idx
      <3> QED
        BY <2>1, <3>3, <3>4
    <2>5. \A j, k \in 1..Len(empty') : empty'[j] = empty'[k] => j = k
      BY <2>1, <2>2 DEF Agree, Unused
    <2> QED
      BY <2>3, <2>4, <2>5 DEF Unused
  <1> QED
    BY <1>6, <1>7, <1>8 DEF Agree

(* The refill of an evicted index: the pages that lose TLB_P are its own.     *)
LEMMA ReplacedAgrees ==
    ASSUME TypeOK, Agree, cur_pgdir = Boot, phase = "check",
           NEW la \in Page, tlb_p[Boot][la] = NotInTlb, Replaced(la)
    PROVE  Agree'
  <1> DEFINE idx == algo_ptr
             gone == {q \in Page : VPN2(q) = algo_hi[idx]}
  <1>1. idx \in Index /\ idx # NotInTlb
    BY RealIndex DEF TypeOK
  <1>2. \A i \in Index : tlb[i].hi # NoPair /\ algo_hi[i] = tlb[i].hi
    <2>1. Len(empty) = 0
      BY DEF Replaced
    <2> QED
      BY <2>1, SMT DEF Agree, Used, Unused
  <1>3. /\ Refill(la, idx, NoFrame, gone) /\ tlb_p[Boot][TLBPAIR(la)] = NotInTlb
        /\ UNCHANGED empty /\ Len(empty) = 0
        /\ algo_hi' = [algo_hi EXCEPT ![idx] = VPN2(la)]
    BY DEF Replaced
  <1>4. \A q \in Page \ gone : tlb_p[Boot][q] # idx
    BY <1>1, <1>2 DEF Agree, Named
  <1>5. PICK r \in Page : VPN2(r) = algo_hi[idx] /\ tlb_p[Boot][r] = idx
    <2>1. PICK h \in Half : tlb[idx].lo[h] # NoFrame
      BY <1>1, <1>2 DEF Agree, Used
    <2>2. tlb[idx].hi \in Pair /\ tlb_p[Boot][2 * tlb[idx].hi + h] = idx
      BY <1>1, <2>1 DEF Agree, Held
    <2> QED
      BY <1>1, <1>2, <2>2, Joined
  <1>6. \A q \in gone : q = r \/ q = TLBPAIR(r)
    BY <1>5, SamePair
  <1>7. \A q \in Page \cap gone : tlb_p[Boot][q] \in {NotInTlb, idx}
    BY <1>1, <1>5, <1>6 DEF Agree, Together
  <1>8. TLBPAIR(la) \notin gone
    <2> SUFFICES ASSUME VPN2(la) = algo_hi[idx]
                 PROVE  FALSE
      BY Halves
    <2>1. r = la \/ r = TLBPAIR(la)
      BY <1>5, SamePair
    <2> QED
      BY <1>1, <1>3, <1>5, <2>1
  <1> HIDE DEF gone
  <1>9. /\ Held' /\ Named' /\ Together'
        /\ tlb'[idx].hi = VPN2(la) /\ \E h \in Half : tlb'[idx].lo[h] # NoFrame
        /\ \A i \in Index \ {idx} : tlb'[i] = tlb[i]
    BY <1>1, <1>3, <1>4, <1>7, <1>8, RefillAgrees
  <1>10. Used'
    BY <1>1, <1>2, <1>3, <1>9 DEF TypeOK, Agree, Used
  <1>11. Unused'
    <2>1. \A i \in Index : tlb'[i].hi # NoPair
      BY <1>2, <1>9, Halves
    <2>2. Len(empty') = 0 /\ 1..0 = {}
      BY <1>3
    <2> QED
      BY <2>1, <2>2 DEF Unused
  <1> QED
    BY <1>9, <1>10, <1>11 DEF Agree

(* A TLB miss preserves the invariant.                                        *)
LEMMA MissInv == IInv /\ Miss => IInv'
  <1> SUFFICES ASSUME IInv, Miss
               PROVE  IInv'
    OBVIOUS
  <1>1. PICK k \in 1..Len(instr) :
            addr_translate(instr[k]) = NoFrame /\ tlb_miss_handler(instr[k])
    BY DEF Miss
  <1> DEFINE la == instr[k]
  <1>2. instr \in Seq(Page) /\ instr # <<>>
    BY <1>1, TlbAssumption, SMT DEF IInv, TypeOK
  <1>3. la \in Page
    BY <1>2
  <1> HIDE DEF la
  <1>4. /\ TypeOK /\ Phases /\ Backed /\ TlbCoherent /\ (phase = "check" => Agree)
        /\ UNCHANGED <<phase, live, cur_pgdir, instr>>
        /\ addr_translate(la) = NoFrame
    BY <1>1 DEF IInv, Miss, la
  <1>5. phase = "check" \/ cur_pgdir # Boot
    BY <1>2, <1>4 DEF TypeOK, Phases
  <1>6. Paired(la) \/ Filled(la) \/ Replaced(la)
    BY <1>1, <1>3, ThreeWays DEF la
  <1>7. TLBPAIR(la) \in Page /\ VPN2(la) \in Pair
    BY <1>3, Halves
  <1>8. cur_pgdir \in PgDirs /\ empty \in Seq(Index) /\ Len(empty) <= TLBN
    BY <1>4 DEF TypeOK
  <1>9. TypeOK' /\ Backed' /\ TlbCoherent'
    <2>1. CASE Paired(la)
      <3> DEFINE idx == tlb_p[cur_pgdir][TLBPAIR(la)]
      <3>1. idx \in Index /\ TLBPAIR(la) \in mapped[cur_pgdir]
        BY <1>4, <1>7, <1>8, <2>1 DEF TypeOK, Backed, Paired
      <3>2. /\ Refill(la, idx, <<cur_pgdir, TLBPAIR(la)>>, {})
            /\ UNCHANGED <<empty, algo_hi, algo_ptr>>
        BY <2>1 DEF Paired
      <3> HIDE DEF idx
      <3>6. /\ mapped' \in [PgDirs -> SUBSET Page]
            /\ tlb_p' \in [PgDirs -> [Page -> {NotInTlb} \cup Index]]
            /\ tlb' \in [Index -> [hi : Pair \cup {NoPair}, lo : [Half -> {NoFrame} \cup Frame]]]
            /\ Backed' /\ TlbCoherent'
        <4>1. TwinBacked(la, <<cur_pgdir, TLBPAIR(la)>>)
          BY <3>1 DEF TwinBacked
        <4> QED
          BY <1>3, <1>4, <1>5, <3>1, <3>2, <4>1, RefillSafe
      <3> QED
        BY <1>4, <3>2, <3>6 DEF TypeOK
    <2>2. CASE Filled(la)
      <3> DEFINE idx == empty[Len(empty)]
      <3>1. Len(empty) > 0 /\ Len(empty) \in Nat /\ TLBN \in Nat
        BY <1>8, <2>2, TlbAssumption, SMT DEF Filled
      <3>2. idx \in Index
        BY <1>8, <3>1
      <3>3. /\ Refill(la, idx, NoFrame, {})
            /\ empty' = SubSeq(empty, 1, Len(empty) - 1)
            /\ algo_hi' = [algo_hi EXCEPT ![idx] = VPN2(la)] /\ UNCHANGED algo_ptr
        BY <2>2 DEF Filled
      <3> HIDE DEF idx
      <3>4. empty' \in Seq(Index) /\ Len(empty') <= TLBN
        <4>1. empty' \in Seq(Index) /\ Len(empty') = Len(empty) - 1
          BY <1>8, <3>1, <3>3, Popped
        <4> QED
          BY <1>8, <3>1, <4>1
      <3>5. algo_hi' \in [Index -> Pair \cup {NoPair}]
        BY <1>4, <1>7, <3>3 DEF TypeOK
      <3>6. /\ mapped' \in [PgDirs -> SUBSET Page]
            /\ tlb_p' \in [PgDirs -> [Page -> {NotInTlb} \cup Index]]
            /\ tlb' \in [Index -> [hi : Pair \cup {NoPair}, lo : [Half -> {NoFrame} \cup Frame]]]
            /\ Backed' /\ TlbCoherent'
        <4>1. TwinBacked(la, NoFrame)
          BY DEF TwinBacked
        <4> QED
          BY <1>3, <1>4, <1>5, <3>2, <3>3, <4>1, RefillSafe
      <3> QED
        BY <1>4, <3>3, <3>4, <3>5, <3>6 DEF TypeOK
    <2>3. CASE Replaced(la)
      <3>1. PICK gone : Refill(la, algo_ptr, NoFrame, gone)
        BY <2>3 DEF Replaced
      <3>2. /\ algo_hi' = [algo_hi EXCEPT ![algo_ptr] = VPN2(la)]
            /\ algo_ptr' = (algo_ptr + 1) % TLBN /\ UNCHANGED empty
        BY <2>3 DEF Replaced
      <3>3. algo_ptr \in Index
        BY <1>4 DEF TypeOK
      <3>4. algo_ptr' \in Index
        BY <3>2, <3>3, TlbAssumption, SMT DEF Index
      <3>5. algo_hi' \in [Index -> Pair \cup {NoPair}]
        BY <1>4, <1>7, <3>2 DEF TypeOK
      <3>6. /\ mapped' \in [PgDirs -> SUBSET Page]
            /\ tlb_p' \in [PgDirs -> [Page -> {NotInTlb} \cup Index]]
            /\ tlb' \in [Index -> [hi : Pair \cup {NoPair}, lo : [Half -> {NoFrame} \cup Frame]]]
            /\ Backed' /\ TlbCoherent'
        <4>1. TwinBacked(la, NoFrame)
          BY DEF TwinBacked
        <4> QED
          BY <1>3, <1>4, <1>5, <3>1, <3>3, <4>1, RefillSafe
      <3> QED
        BY <1>4, <3>2, <3>4, <3>5, <3>6 DEF TypeOK
    <2> QED
      BY <1>6, <2>1, <2>2, <2>3
  <1>10. phase' = "check" => Agree'
    <2> SUFFICES ASSUME phase = "check"
                 PROVE  Agree'
      BY <1>4
    <2>1. Agree /\ cur_pgdir = Boot
      BY <1>4 DEF Phases
    <2>2. tlb_p[Boot][la] = NotInTlb
      BY <1>3, <1>4, <2>1, MissClear
    <2> QED
      BY <1>3, <1>4, <1>6, <2>1, <2>2, PairedAgrees, FilledAgrees, ReplacedAgrees
  <1>11. Phases'
    BY <1>4 DEF Phases
  <1> QED
    BY <1>9, <1>10, <1>11 DEF IInv

(* The self tests taking a page away preserves it.                            *)
LEMMA PageRemoveInv == IInv /\ PageRemove => IInv'
  <1> SUFFICES ASSUME IInv, PageRemove
               PROVE  IInv'
    OBVIOUS
  <1>1. PICK la \in mapped[Boot] :
            /\ tlb_invalidate(la)
            /\ mapped' = [mapped EXCEPT ![Boot] = @ \ {la}]
            /\ tlb_p' = [tlb_p EXCEPT ![Boot][la] = NotInTlb]
    BY DEF PageRemove
  <1> DEFINE pair == TLBPAIR(la)
             idx == tlb_p[Boot][la]
             paired == tlb_p[Boot][pair] # NotInTlb
  <1>2. /\ TypeOK /\ Phases /\ Backed /\ TlbCoherent /\ Agree
        /\ phase = "check" /\ cur_pgdir = Boot /\ instr = <<>> /\ Boot \in PgDirs
        /\ UNCHANGED <<phase, live, cur_pgdir, algo_hi, algo_ptr, instr>>
    BY DEF IInv, Phases, PageRemove, PgDirs
  <1>3. la \in Page
    BY <1>1, <1>2 DEF TypeOK
  <1>4. /\ VPN2(la) \in Pair /\ TLBLO(la) \in Half /\ VPN2(la) # NoPair
        /\ pair \in Page /\ pair # la
        /\ VPN2(pair) = VPN2(la) /\ TLBLO(pair) = 1 - TLBLO(la)
        /\ pair = 2 * VPN2(la) + TLBLO(pair)
    BY <1>3, Halves
  <1>5. \A q \in Page : tlb_p'[Boot][q] = IF q = la THEN NotInTlb ELSE tlb_p[Boot][q]
    BY <1>1, <1>2, <1>3 DEF TypeOK
  <1>6. mapped' \in [PgDirs -> SUBSET Page] /\ mapped'[Boot] = mapped[Boot] \ {la}
    BY <1>1, <1>2 DEF TypeOK
  <1>7. tlb_p' \in [PgDirs -> [Page -> {NotInTlb} \cup Index]]
    BY <1>1, <1>2, <1>3 DEF TypeOK
  <1>8. Backed'
    BY <1>1, <1>2, <1>3 DEF TypeOK, Backed
  <1>9. Together'
    BY <1>2, <1>5, Halves DEF Agree, Together
  <1>10. Phases'
    BY <1>2 DEF Phases
  <1>11. CASE idx = NotInTlb
    <2>1. UNCHANGED <<tlb, empty>>
      BY <1>1, <1>2, <1>11 DEF tlb_invalidate
    <2>2. \A q \in Page : tlb_p'[Boot][q] = tlb_p[Boot][q]
      BY <1>5, <1>11
    <2>3. Held'
      BY <1>2, <2>1, <2>2, Joined DEF Agree, Held
    <2>4. Named'
      BY <1>2, <2>1, <2>2 DEF Agree, Named
    <2>5. Used' /\ Unused'
      BY <1>2, <2>1 DEF Agree, Used, Unused
    <2>6. TlbCoherent'
      <3> SUFFICES ASSUME NEW i \in Index, NEW h \in Half, tlb[i].lo[h] # NoFrame
                   PROVE  LET q == 2 * tlb[i].hi + h
                          IN tlb[i].lo[h] = <<Boot, q>> /\ q \in mapped'[Boot]
        BY <1>2, <2>1 DEF TlbCoherent
      <3> DEFINE q == 2 * tlb[i].hi + h
      <3>1. tlb[i].lo[h] = <<Boot, q>> /\ q \in mapped[Boot]
        BY <1>2 DEF TlbCoherent
      <3>2. tlb_p[Boot][q] = i
        BY <1>2 DEF Agree, Held
      <3> HIDE DEF q
      <3>3. q # la
        BY <1>11, <3>2, RealIndex
      <3> QED
        BY <1>6, <3>1, <3>3 DEF q
    <2>7. TypeOK'
      BY <1>2, <1>6, <1>7, <2>1 DEF TypeOK
    <2> QED
      BY <1>8, <1>9, <1>10, <2>3, <2>4, <2>5, <2>6, <2>7 DEF IInv, Agree
  <1>12. CASE idx # NotInTlb
    <2>1. idx \in Index
      BY <1>2, <1>3, <1>12 DEF TypeOK
    <2>2. tlb[idx].hi = VPN2(la)
      BY <1>2, <1>3, <1>12 DEF Agree, Named
    <2>3. ASSUME NEW q \in Page, tlb_p[Boot][q] = idx
          PROVE  q = la \/ q = pair
      <3>1. VPN2(q) = VPN2(la)
        BY <1>2, <1>12, <2>2, <2>3 DEF Agree, Named
      <3> QED
        BY <1>3, <3>1, SamePair
    <2>4. paired => tlb_p[Boot][pair] = idx
      BY <1>2, <1>3, <1>12 DEF Agree, Together
    <2>5. /\ \A i \in Index \ {idx} : tlb'[i] = tlb[i]
          /\ paired => tlb'[idx] = [hi |-> VPN2(la),
                                   lo |-> [h \in Half |-> IF h = TLBLO(la) THEN NoFrame
                                                          ELSE <<Boot, pair>>]]
          /\ ~paired => tlb'[idx] = InvalidEntry
          /\ empty' = IF paired THEN empty ELSE Append(empty, idx)
      <3> DEFINE new == IF paired
                        THEN [hi |-> VPN2(la),
                              lo |-> [h \in Half |-> IF h = TLBLO(la) THEN NoFrame
                                                     ELSE <<Boot, pair>>]]
                        ELSE InvalidEntry
      <3>1. /\ tlb' = [tlb EXCEPT ![idx] = new]
            /\ empty' = IF paired THEN empty ELSE Append(empty, idx)
        BY <1>1, <1>2, <1>12 DEF tlb_invalidate
      <3>2. tlb'[idx] = new /\ \A i \in Index \ {idx} : tlb'[i] = tlb[i]
        <4> HIDE DEF new
        <4> QED
          BY <1>2, <2>1, <3>1 DEF TypeOK
      <3> QED
        BY <3>1, <3>2
    <2>6. tlb' \in [Index -> [hi : Pair \cup {NoPair}, lo : [Half -> {NoFrame} \cup Frame]]]
      <3>1. <<Boot, pair>> \in Frame
        BY <1>2, <1>4 DEF Frame
      <3> DEFINE E == [hi : Pair \cup {NoPair}, lo : [Half -> {NoFrame} \cup Frame]]
      <3>2. InvalidEntry \in E
        BY DEF InvalidEntry
      <3>3. [hi |-> VPN2(la),
             lo |-> [h \in Half |-> IF h = TLBLO(la) THEN NoFrame ELSE <<Boot, pair>>]] \in E
        BY <1>4, <3>1
      <3>4. tlb'[idx] \in E
        BY <2>5, <3>2, <3>3
      <3>5. tlb' = [tlb EXCEPT ![idx] = tlb'[idx]] /\ tlb \in [Index -> E]
        BY <1>1, <1>2, <1>12, <2>1 DEF tlb_invalidate, TypeOK
      <3> HIDE DEF E
      <3>6. tlb' \in [Index -> E]
        BY <3>4, <3>5
      <3> QED
        BY <3>6 DEF E
    <2> HIDE DEF idx
    <2>7. /\ \A h \in Half : tlb'[idx].lo[h] # NoFrame =>
                 paired /\ h = TLBLO(pair) /\ tlb'[idx].lo[h] = <<Boot, pair>>
          /\ paired => tlb'[idx].hi = VPN2(la) /\ tlb'[idx].lo[TLBLO(pair)] # NoFrame
          /\ ~paired => tlb'[idx].hi = NoPair
      <3>1. CASE paired
        <4>1. \A h \in Half : h # TLBLO(la) <=> h = TLBLO(pair)
          BY <1>4, SMT DEF Half
        <4>2. TLBLO(pair) \in Half /\ <<Boot, pair>> # NoFrame
          BY <1>4, Halves, RealFrame
        <4>3. /\ tlb'[idx].hi = VPN2(la)
              /\ \A h \in Half : tlb'[idx].lo[h] = IF h = TLBLO(la) THEN NoFrame
                                                    ELSE <<Boot, pair>>
          BY <2>5, <3>1
        <4> QED
          BY <3>1, <4>1, <4>2, <4>3
      <3>2. CASE ~paired
        BY <2>5, <3>2 DEF InvalidEntry
      <3> QED
        BY <3>1, <3>2
    <2>8. ASSUME NEW i \in Index, NEW h \in Half, tlb'[i].lo[h] # NoFrame
          PROVE  /\ tlb'[i].hi \in Pair /\ tlb_p'[Boot][2 * tlb'[i].hi + h] = i
                 /\ tlb'[i].lo[h] = <<Boot, 2 * tlb'[i].hi + h>>
                 /\ 2 * tlb'[i].hi + h \in mapped'[Boot]
      <3>1. CASE i # idx
        <4> DEFINE q == 2 * tlb[i].hi + h
        <4>1. tlb'[i] = tlb[i]
          BY <2>5, <3>1
        <4>2. tlb[i].hi \in Pair /\ tlb_p[Boot][q] = i
          BY <1>2, <2>8, <4>1 DEF Agree, Held
        <4>3. tlb[i].lo[h] = <<Boot, q>> /\ q \in mapped[Boot]
          BY <1>2, <2>8, <4>1 DEF TlbCoherent
        <4>4. q \in Page
          BY <4>2, Joined
        <4> HIDE DEF q
        <4>5. q # la
          BY <3>1, <4>2 DEF idx
        <4>6. tlb_p'[Boot][q] = i /\ q \in mapped'[Boot]
          BY <1>5, <1>6, <4>2, <4>3, <4>4, <4>5
        <4> QED
          BY <4>1, <4>2, <4>3, <4>6 DEF q
      <3>2. CASE i = idx
        <4>1. paired /\ h = TLBLO(pair) /\ tlb'[i].lo[h] = <<Boot, pair>>
              /\ tlb'[i].hi = VPN2(la)
          BY <2>7, <2>8, <3>2
        <4>2. tlb_p'[Boot][pair] = idx
          BY <1>4, <1>5, <2>4, <4>1
        <4>3. pair \in mapped'[Boot]
          BY <1>2, <1>4, <1>6, <4>1 DEF Backed
        <4> QED
          BY <1>4, <3>2, <4>1, <4>2, <4>3
      <3> QED
        BY <3>1, <3>2
    <2>9. Held'
      BY <2>8 DEF Held
    <2>10. TlbCoherent'
      BY <1>2, <2>8 DEF TlbCoherent
    <2>11. Named'
      <3> SUFFICES ASSUME NEW q \in Page, tlb_p'[Boot][q] # NotInTlb
                   PROVE  /\ tlb'[tlb_p'[Boot][q]].hi = VPN2(q)
                          /\ tlb'[tlb_p'[Boot][q]].lo[TLBLO(q)] # NoFrame
        BY DEF Named
      <3>1. q # la /\ tlb_p'[Boot][q] = tlb_p[Boot][q]
        BY <1>5
      <3>2. CASE tlb_p[Boot][q] = idx
        <4>1. q = pair /\ paired
          BY <2>3, <3>1, <3>2
        <4> QED
          BY <1>4, <2>7, <3>1, <3>2, <4>1
      <3>3. CASE tlb_p[Boot][q] # idx
        <4>1. tlb_p[Boot][q] \in Index \ {idx}
          BY <1>2, <3>1, <3>3 DEF TypeOK
        <4> QED
          BY <1>2, <2>5, <3>1, <4>1 DEF Agree, Named
      <3> QED
        BY <3>2, <3>3
    <2>12. Used'
      <3> SUFFICES ASSUME NEW i \in Index, tlb'[i].hi # NoPair
                   PROVE  /\ algo_hi[i] = tlb'[i].hi
                          /\ \E h \in Half : tlb'[i].lo[h] # NoFrame
        BY <1>2 DEF Used
      <3>1. CASE i # idx
        <4>1. tlb'[i] = tlb[i]
          BY <2>5, <3>1
        <4> QED
          BY <1>2, <4>1 DEF Agree, Used
      <3>2. CASE i = idx
        <4>1. TLBLO(pair) \in Half
          BY <1>4, Halves
        <4>2. tlb'[i].hi = VPN2(la) /\ tlb'[i].lo[TLBLO(pair)] # NoFrame
          BY <2>7, <3>2
        <4>3. algo_hi[i] = VPN2(la)
          BY <1>2, <1>4, <2>2, <3>2 DEF Agree, Used
        <4> QED
          BY <4>1, <4>2, <4>3
      <3> QED
        BY <3>1, <3>2
    <2>13. empty' \in Seq(Index) /\ Unused'
      <3>1. empty \in Seq(Index) /\ Len(empty) \in Nat /\ \A k \in 1..Len(empty) : empty[k] \in Index
        BY <1>2 DEF TypeOK
      <3>2. CASE paired
        <4>1. \A i \in Index : tlb'[i].hi = tlb[i].hi
          BY <2>2, <2>5, <2>7, <3>2
        <4>2. empty' = empty
          BY <2>5, <3>2
        <4> QED
          BY <1>2, <3>1, <4>1, <4>2 DEF Agree, Unused
      <3>3. CASE ~paired
        <4> DEFINE n == Len(empty)
        <4>1. /\ empty' \in Seq(Index) /\ Len(empty') = n + 1 /\ empty'[n + 1] = idx
              /\ \A k \in 1..n : empty'[k] = empty[k]
          BY <2>1, <2>5, <3>1, <3>3, AppendProperties
        <4>2. \A k \in 1..n : empty[k] \in Index \ {idx}
          BY <1>2, <1>4, <2>2, <3>1 DEF Agree, Unused
        <4>3. \A k \in 1..(n + 1) : k \in 1..n \/ k = n + 1
          BY <3>1
        <4>4. \A k \in 1..n : k \in 1..(n + 1)
          BY <3>1
        <4>5. n + 1 \in 1..(n + 1)
          BY <3>1
        <4> HIDE DEF n
        <4>6. \A k \in 1..(n + 1) : tlb'[empty'[k]].hi = NoPair
          <5>1. \A k \in 1..n : tlb[empty[k]].hi = NoPair
            BY <1>2 DEF Agree, Unused, n
          <5>2. ASSUME NEW k \in 1..n
                PROVE  tlb'[empty'[k]].hi = NoPair
            <6>1. empty'[k] = empty[k] /\ empty[k] \in Index \ {idx}
              BY <4>1, <4>2
            <6>2. tlb'[empty[k]] = tlb[empty[k]]
              BY <2>5, <6>1
            <6> QED
              BY <5>1, <6>1, <6>2
          <5>3. tlb'[empty'[n + 1]].hi = NoPair
            BY <2>7, <3>3, <4>1
          <5> QED
            BY <4>3, <5>2, <5>3
        <4>7. ASSUME NEW i \in Index, tlb'[i].hi = NoPair
              PROVE  \E k \in 1..(n + 1) : empty'[k] = i
          <5>1. CASE i = idx
            BY <4>1, <4>5, <5>1
          <5>2. CASE i # idx
            <6>1. PICK k \in 1..n : empty[k] = i
              BY <1>2, <2>5, <4>7, <5>2 DEF Agree, Unused, n
            <6> QED
              BY <4>1, <4>4, <6>1
          <5> QED
            BY <5>1, <5>2
        <4>8. \A j, k \in 1..(n + 1) : empty'[j] = empty'[k] => j = k
          <5>1. \A j, k \in 1..n : empty[j] = empty[k] => j = k
            BY <1>2 DEF Agree, Unused, n
          <5> QED
            BY <4>1, <4>2, <4>3, <5>1
        <4> QED
          BY <4>1, <4>6, <4>7, <4>8 DEF Unused
      <3> QED
        BY <3>2, <3>3
    <2>14. TypeOK'
      <3>1. Len(empty') <= TLBN
        BY <2>13, EmptyFits DEF Unused
      <3> QED
        BY <1>2, <1>6, <1>7, <2>6, <2>13, <3>1 DEF TypeOK
    <2> QED
      BY <1>8, <1>9, <1>10, <2>9, <2>10, <2>11, <2>12, <2>13, <2>14 DEF IInv, Agree
  <1> QED
    BY <1>11, <1>12

-----------------------------------------------------------------------------
(* Loading a page directory leaves nothing in the TLB.                        *)
LEMMA Flushed ==
    ASSUME TypeOK, NEW d \in PgDirs, load_pgdir(d)
    PROVE  /\ tlb' \in [Index -> [hi : Pair \cup {NoPair}, lo : [Half -> {NoFrame} \cup Frame]]]
           /\ empty' \in Seq(Index) /\ Len(empty') <= TLBN
           /\ cur_pgdir' = d /\ UNCHANGED <<algo_hi, algo_ptr>>
           /\ TlbCoherent'
  <1>1. InvalidEntry \in [hi : Pair \cup {NoPair}, lo : [Half -> {NoFrame} \cup Frame]]
    BY DEF InvalidEntry
  <1>2. tlb' \in [Index -> [hi : Pair \cup {NoPair}, lo : [Half -> {NoFrame} \cup Frame]]]
    BY <1>1 DEF load_pgdir
  <1>3. empty' \in Seq(Index) /\ Len(empty') = TLBN
    BY TlbAssumption, SMT DEF load_pgdir, Index
  <1>4. TlbCoherent'
    BY DEF load_pgdir, InvalidEntry, TlbCoherent
  <1> QED
    BY <1>2, <1>3, <1>4, TlbAssumption DEF load_pgdir

(* At power-on nothing is mapped and every index is empty.                    *)
LEMMA InitInv == Init => IInv
  <1> SUFFICES ASSUME Init
               PROVE  IInv
    OBVIOUS
  <1>1. InvalidEntry \in [hi : Pair \cup {NoPair}, lo : [Half -> {NoFrame} \cup Frame]]
    BY DEF InvalidEntry
  <1>2. empty \in Seq(Index) /\ Len(empty) = TLBN /\ \A k \in 1..TLBN : empty[k] = k - 1
    BY TlbAssumption, SMT DEF Init, Index
  <1>3. TypeOK
    <2>1. algo_ptr \in Index /\ TLBN <= TLBN
      BY TlbAssumption, SMT DEF Init, Index
    <2> QED
      BY <1>1, <1>2, <2>1 DEF Init, TypeOK, PgDirs, NoTlbP
  <1>4. Phases
    BY DEF Init, Phases
  <1>5. \A q \in Page : tlb_p[Boot][q] = NotInTlb
    BY DEF Init, NoTlbP, PgDirs
  <1>6. \A i \in Index : tlb[i].hi = NoPair /\ \A h \in Half : tlb[i].lo[h] = NoFrame
    BY DEF Init, InvalidEntry
  <1>7. Backed
    BY DEF Init, Backed, NoTlbP
  <1>8. TlbCoherent
    BY <1>6 DEF TlbCoherent
  <1>9. Held /\ Named /\ Together /\ Used
    BY <1>5, <1>6 DEF Held, Named, Together, Used
  <1>10. Unused
    <2>1. \A k \in 1..TLBN : empty[k] \in Index
      BY <1>2, TlbAssumption, SMT DEF Index
    <2>2. \A i \in Index : i + 1 \in 1..TLBN /\ empty[i + 1] = i
      BY <1>2, TlbAssumption, SMT DEF Index
    <2>3. \A j, k \in 1..TLBN : empty[j] = empty[k] => j = k
      BY <1>2, TlbAssumption, SMT
    <2> QED
      BY <1>2, <1>6, <2>1, <2>2, <2>3 DEF Unused
  <1> QED
    BY <1>3, <1>4, <1>7, <1>8, <1>9, <1>10 DEF IInv, Agree

(* Beginning and ending an instruction touch neither the TLB nor the tables.  *)
LEMMA InstrInv == IInv /\ (Issue \/ Retire) => IInv'
  <1> SUFFICES ASSUME IInv, Issue \/ Retire
               PROVE  IInv'
    OBVIOUS
  <1>1. /\ UNCHANGED <<phase, mapped, tlb_p, live, cur_pgdir, tlb, empty, algo_hi, algo_ptr>>
        /\ instr' \in {<<>>} \cup Instr
    BY DEF Issue, Retire, tableVars, tlbVars
  <1>2. TypeOK'
    BY <1>1 DEF IInv, TypeOK
  <1>3. Phases'
    BY <1>1 DEF IInv, Phases, Issue, Retire
  <1>4. Backed' /\ TlbCoherent'
    BY <1>1 DEF IInv, Backed, TlbCoherent
  <1>5. Agree => Agree'
    BY <1>1 DEF Agree, Held, Named, Together, Used, Unused
  <1> QED
    BY <1>1, <1>2, <1>3, <1>4, <1>5 DEF IInv

(* The end of the self tests: boot_pgdir maps nothing and is not used.        *)
LEMMA CheckDoneInv == IInv /\ CheckDone => IInv'
  <1> SUFFICES ASSUME IInv, CheckDone
               PROVE  IInv'
    OBVIOUS
  <1>1. phase' = "run" /\ cur_pgdir' = Boot /\ instr' = <<>> /\ UNCHANGED live
    BY DEF IInv, Phases, CheckDone
  <1>2. TypeOK'
    BY DEF IInv, TypeOK, CheckDone, tlbVars, NoTlbP, PgDirs
  <1>3. Backed'
    BY DEF IInv, TypeOK, Backed, CheckDone, NoTlbP
  <1>4. Phases' /\ TlbCoherent'
    BY <1>1 DEF IInv, Phases, TlbCoherent
  <1> QED
    BY <1>1, <1>2, <1>3, <1>4 DEF IInv

(* Loading a program, leaving one and switching to another all flush.         *)
LEMMA LoadInv ==
    ASSUME IInv, NEW d \in PgDirs, phase = "run", load_pgdir(d), instr' = <<>>,
           UNCHANGED phase, live' \subseteq PgDir, Backed',
           mapped' \in [PgDirs -> SUBSET Page],
           tlb_p' \in [PgDirs -> [Page -> {NotInTlb} \cup Index]]
    PROVE  IInv'
  <1>1. TypeOK
    BY DEF IInv
  <1>2. /\ tlb' \in [Index -> [hi : Pair \cup {NoPair}, lo : [Half -> {NoFrame} \cup Frame]]]
        /\ empty' \in Seq(Index) /\ Len(empty') <= TLBN
        /\ cur_pgdir' = d /\ UNCHANGED <<algo_hi, algo_ptr>>
        /\ TlbCoherent'
    BY <1>1, Flushed
  <1>3. TypeOK'
    BY <1>1, <1>2 DEF TypeOK
  <1>4. Phases'
    BY TlbAssumption DEF Phases
  <1> QED
    BY <1>2, <1>3, <1>4 DEF IInv

(* A table given new contents, with TLB_P clear everywhere, is backed.        *)
LEMMA NewTable ==
    ASSUME TypeOK, Backed, NEW d \in PgDirs, NEW S \in SUBSET Page,
           mapped' = [mapped EXCEPT ![d] = S], tlb_p' = [tlb_p EXCEPT ![d] = NoTlbP]
    PROVE  /\ mapped' \in [PgDirs -> SUBSET Page] /\ Backed'
           /\ tlb_p' \in [PgDirs -> [Page -> {NotInTlb} \cup Index]]
  BY DEF TypeOK, Backed, NoTlbP

(* do_execve(): a new table, and a flush.                                     *)
LEMMA ExecInv == ASSUME IInv, NEW d \in PgDir, Exec(d) PROVE IInv'
  <1>1. TypeOK /\ Backed /\ d \in PgDirs /\ Loaded \in SUBSET Page
    BY TlbAssumption DEF IInv, PgDirs
  <1>2. /\ mapped' \in [PgDirs -> SUBSET Page] /\ Backed'
        /\ tlb_p' \in [PgDirs -> [Page -> {NotInTlb} \cup Index]]
    BY <1>1, NewTable DEF Exec
  <1>3. live' \subseteq PgDir
    BY <1>1 DEF TypeOK, Exec
  <1> QED
    BY <1>1, <1>2, <1>3, LoadInv DEF Exec

(* do_exit(): boot_pgdir is loaded, the table torn down.                      *)
LEMMA ExitInv == ASSUME IInv, NEW d \in PgDir, Exit(d) PROVE IInv'
  <1>1. TypeOK /\ Backed /\ d \in PgDirs /\ Boot \in PgDirs /\ {} \in SUBSET Page
    BY DEF IInv, PgDirs
  <1>2. /\ mapped' \in [PgDirs -> SUBSET Page] /\ Backed'
        /\ tlb_p' \in [PgDirs -> [Page -> {NotInTlb} \cup Index]]
    BY <1>1, NewTable DEF Exit
  <1>3. live' \subseteq PgDir
    BY <1>1 DEF TypeOK, Exit
  <1> QED
    BY <1>1, <1>2, <1>3, LoadInv DEF Exit

(* proc_run(): the tables stay as they are, stale TLB_P included.             *)
LEMMA SwitchInv == ASSUME IInv, NEW d \in PgDirs, Switch(d) PROVE IInv'
  <1>1. UNCHANGED <<mapped, tlb_p, live>>
    BY DEF Switch, tableVars
  <1>2. /\ mapped' \in [PgDirs -> SUBSET Page] /\ Backed' /\ live' \subseteq PgDir
        /\ tlb_p' \in [PgDirs -> [Page -> {NotInTlb} \cup Index]]
    BY <1>1 DEF IInv, TypeOK, Backed
  <1> QED
    BY <1>2, LoadInv DEF Switch

(* A child's table is not the one in use, so the TLB has nothing of it.       *)
LEMMA ForkInv == ASSUME IInv, NEW d \in PgDir, NEW e \in PgDir, Fork(d, e) PROVE IInv'
  <1>1. /\ TypeOK /\ Backed /\ TlbCoherent /\ d \in PgDirs /\ e \in PgDirs
        /\ cur_pgdir = d /\ d # e /\ phase = "run" /\ instr = <<>>
        /\ UNCHANGED <<phase, cur_pgdir, tlb, empty, algo_hi, algo_ptr, instr>>
    BY DEF IInv, PgDirs, Fork, tlbVars
  <1>2. mapped[d] \in SUBSET Page
    BY <1>1 DEF TypeOK
  <1>3. /\ mapped' \in [PgDirs -> SUBSET Page] /\ Backed'
        /\ tlb_p' \in [PgDirs -> [Page -> {NotInTlb} \cup Index]]
    BY <1>1, <1>2, NewTable DEF Fork
  <1>4. live' \subseteq PgDir
    BY <1>1 DEF TypeOK, Fork
  <1>5. TypeOK'
    BY <1>1, <1>3, <1>4 DEF TypeOK
  <1>6. mapped'[d] = mapped[d]
    BY <1>1 DEF TypeOK, Fork
  <1>7. TlbCoherent'
    BY <1>1, <1>6 DEF TlbCoherent
  <1>8. Phases'
    BY <1>1, <1>4, TlbAssumption DEF Phases
  <1> QED
    BY <1>1, <1>3, <1>5, <1>7, <1>8 DEF IInv

(* A step that changes nothing.                                              *)
LEMMA StutterInv == IInv /\ UNCHANGED vars => IInv'
  <1> SUFFICES ASSUME IInv, UNCHANGED vars
               PROVE  IInv'
    OBVIOUS
  <1>1. UNCHANGED <<phase, live, mapped, tlb_p, cur_pgdir, tlb, empty, algo_hi, algo_ptr, instr>>
    BY DEF vars, tableVars, tlbVars
  <1>2. TypeOK' /\ Phases'
    BY <1>1 DEF IInv, TypeOK, Phases
  <1>3. Backed' /\ TlbCoherent'
    BY <1>1 DEF IInv, Backed, TlbCoherent
  <1>4. Agree => Agree'
    BY <1>1 DEF Agree, Held, Named, Together, Used, Unused
  <1> QED
    BY <1>1, <1>2, <1>3, <1>4 DEF IInv

(* Every step preserves the invariant.                                        *)
LEMMA NextInv == IInv /\ [Next]_vars => IInv'
  <1> SUFFICES ASSUME IInv, [Next]_vars
               PROVE  IInv'
    OBVIOUS
  <1>1. CASE UNCHANGED vars
    BY <1>1, StutterInv
  <1>2. CASE Issue \/ Retire
    BY <1>2, InstrInv
  <1>3. CASE Miss
    BY <1>3, MissInv
  <1>4. CASE PageRemove
    BY <1>4, PageRemoveInv
  <1>5. CASE CheckDone
    BY <1>5, CheckDoneInv
  <1>6. CASE \E d \in PgDir : Exec(d) \/ Exit(d)
    BY <1>6, ExecInv, ExitInv
  <1>7. CASE \E d, e \in PgDir : Fork(d, e)
    BY <1>7, ForkInv
  <1>8. CASE \E d \in PgDirs : Switch(d)
    BY <1>8, SwitchInv
  <1> QED
    BY <1>1, <1>2, <1>3, <1>4, <1>5, <1>6, <1>7, <1>8 DEF Next, Step

-----------------------------------------------------------------------------
(* IInv holds in every reachable state: of the page tables, tlb.c's           *)
(* bookkeeping and the entries of the emulated MMU.                           *)
THEOREM Invariance == Spec => []IInv
  BY InitInv, NextInv, PTL DEF Spec

(* Types; in particular tlb_invalidate() never writes past the end of         *)
(* tlb_algo_empty[], since the indices in it differ.                          *)
THEOREM TypeCorrect == Spec => []TypeOK
  <1>1. IInv => TypeOK
    BY DEF IInv
  <1> QED
    BY <1>1, Invariance, PTL

(* Isolation: tlb_miss_handler(), tlb_invalidate() and load_pgdir() never     *)
(* leave an entry in the TLB that the page table in use does not have.        *)
THEOREM Coherence == Spec => []TlbCoherent
  <1>1. IInv => TlbCoherent
    BY DEF IInv
  <1> QED
    BY <1>1, Invariance, PTL

(* During the self tests TLB_P of a PTE is set exactly when the TLB holds the *)
(* page, at the index the PTE names: what tlb_invalidate() relies on.         *)
THEOREM ExactInChecks == Spec => []TlbPExactInChecks
  <1>1. IInv => TlbPExactInChecks
    <2> SUFFICES ASSUME IInv, phase = "check", NEW q \in Page
                 PROVE  LET idx == tlb_p[Boot][q]
                        IN /\ idx # NotInTlb =>
                                 tlb[idx].hi = VPN2(q) /\ tlb[idx].lo[TLBLO(q)] # NoFrame
                           /\ idx = NotInTlb => \A i \in Index : tlb[i].hi = VPN2(q) =>
                                                    tlb[i].lo[TLBLO(q)] = NoFrame
      BY DEF TlbPExactInChecks, TlbPExact, IInv, Phases
    <2>1. Agree
      BY DEF IInv
    <2>2. TLBLO(q) \in Half /\ q = 2 * VPN2(q) + TLBLO(q)
      BY Halves
    <2>3. ASSUME NEW i \in Index, tlb[i].hi = VPN2(q), tlb[i].lo[TLBLO(q)] # NoFrame
          PROVE  tlb_p[Boot][q] # NotInTlb
      <3>1. tlb_p[Boot][2 * VPN2(q) + TLBLO(q)] = i
        BY <2>1, <2>2, <2>3 DEF Agree, Held
      <3> QED
        BY <2>2, <3>1, RealIndex
    <2> QED
      BY <2>1, <2>3 DEF Agree, Named
  <1> QED
    BY <1>1, Invariance, PTL
=============================================================================
