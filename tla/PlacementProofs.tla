--------------------------- MODULE PlacementProofs ---------------------------
(***************************************************************************)
(* What the placement of a patch guarantees, for every page size, every    *)
(* width of addresses and offsets, every list of mappings and every patch: *)
(* the place is free, everything of the patch is in it, and from there     *)
(* every jump and every short reference can be encoded and means what the  *)
(* code intends.                                                           *)
(***************************************************************************)
EXTENDS Placement, WellFoundedInduction, TLAPS

-----------------------------------------------------------------------------
(* Remainders.                                                             *)

(* Quotient and remainder are determined by their defining equation. *)
LEMMA DivModUnique ==
  \A m \in Nat \ {0} : \A x \in Int, q \in Int, r \in 0..(m - 1) :
    x = m * q + r => x % m = r /\ x \div m = q
OBVIOUS

(* A number is its remainder, or is above it by the modulus. *)
LEMMA ModOnce ==
  \A m \in Nat \ {0} : \A x \in 0..(2 * m - 1) : x % m = IF x < m THEN x ELSE x - m
OBVIOUS

(* Signed: a number of the range of a signed integer of half-range h is    *)
(* read back from its remainder.                                           *)
LEMMA SignedReads ==
  \A h \in Nat \ {0} : \A x \in (-h)..(h - 1) :
    LET u == x % (2 * h) IN x = IF u < h THEN u ELSE u - 2 * h
<1> SUFFICES ASSUME NEW h \in Nat \ {0}, NEW x \in (-h)..(h - 1)
             PROVE  LET u == x % (2 * h) IN x = IF u < h THEN u ELSE u - 2 * h
  BY Zenon
<1>1. CASE x >= 0
  <2>1. x % (2 * h) = x
    <3>1. 2 * h \in Nat \ {0} /\ x \in 0..(2 * h - 1) /\ x = (2 * h) * 0 + x
      BY <1>1
    <3> QED BY <3>1, DivModUnique
  <2> QED BY <1>1, <2>1
<1>2. CASE x < 0
  <2>1. x % (2 * h) = x + 2 * h
    <3>1. 2 * h \in Nat \ {0} /\ x + 2 * h \in 0..(2 * h - 1)
          /\ x = (2 * h) * (-1) + (x + 2 * h)
      BY <1>2
    <3> QED BY <3>1, DivModUnique
  <2> QED BY <1>2, <2>1
<1> QED BY <1>1, <1>2

-----------------------------------------------------------------------------
(* The widths.                                                             *)

(* Half of an int, and how many ints make half an address. *)
Half == 2^(IntBits - 1)
Ints == 2^(LongBits - IntBits - 1)

(* What the proofs use of the powers of two. *)
LEMMA Powers ==
  /\ Half \in Nat \ {0}
  /\ Ints \in Nat \ {0}
  /\ 2^IntBits = 2 * Half
  /\ 2^LongBits = 2 * (Ints * (2 * Half))
  /\ 2^(LongBits - 1) = Ints * (2 * Half)
  /\ Ints * (2 * Half) \in Nat
  /\ Ints * (2 * Half) >= 2 * Half
<1>1. Half \in Nat \ {0} /\ Ints \in Nat \ {0}
  BY PowersAssumption, Zenon DEF Half, Ints
<1>2. 2^IntBits = 2 * Half /\ 2^(LongBits - 1) = Ints * 2^IntBits
      /\ 2^LongBits = 2 * Ints * 2^IntBits
  BY PowersAssumption, Zenon DEF Half, Ints
<1>3. 2 * Ints * (2 * Half) = 2 * (Ints * (2 * Half))
  BY <1>1
<1>4. Ints * (2 * Half) \in Nat /\ Ints * (2 * Half) >= 2 * Half
  BY <1>1
<1> QED BY <1>1, <1>2, <1>3, <1>4, Zenon

(* Long is the identity on addresses. *)
LEMMA LongAddress ==
  \A x \in Addresses : Long(x) = x
<1> SUFFICES ASSUME NEW x \in Addresses PROVE Long(x) = x
  BY Zenon
<1>1. 2^LongBits \in Nat \ {0}
  BY Powers
<1>2. x \in Int /\ x = 2^LongBits * 0 + x /\ x \in 0..(2^LongBits - 1)
  BY <1>1 DEF Addresses
<1> QED BY <1>1, <1>2, DivModUnique DEF Long

(* ip_gen_offset accepts an offset of at most INT_MAX either way. *)
LEMMA OffsetFits ==
  ASSUME NEW next_ip \in Int, NEW tgt_pos \in Int,
         tgt_pos - next_ip \in (1 - Half)..(Half - 1)
  PROVE  ip_gen_offset(next_ip, tgt_pos)
<1> DEFINE x == tgt_pos - next_ip
           half == Ints * (2 * Half)
           u == x % (2 * half)
<1>1. half \in Nat \ {0} /\ x \in (-half)..(half - 1)
  BY Powers
<1>2. x = IF u < half THEN u ELSE u - 2 * half
  <2> HIDE DEF half, x
  <2> QED BY <1>1, SignedReads, Zenon
<1>3. Signed(x, LongBits) = x
  BY <1>2, Powers, Zenon DEF Signed
<1>4. INT_MAX = Half - 1
  BY Zenon DEF INT_MAX, Half
<1>5. ip_gen_offset(next_ip, tgt_pos)
        <=> (IF Signed(x, LongBits) < 0 THEN -Signed(x, LongBits)
             ELSE Signed(x, LongBits)) <= INT_MAX
  BY Zenon DEF ip_gen_offset
<1> QED BY <1>3, <1>4, <1>5, Powers

-----------------------------------------------------------------------------
(* What a place in reach is good for.                                      *)

(* dl_map_check_jump_range, of both ends of a place: also next to the      *)
(* ends of the address space, where its sums wrap, the place is at most    *)
(* the range of a jump below the end and above the start of the target.    *)
LEMMA ReachBounds ==
  ASSUME NEW target, NEW hole \in Nat, NEW size \in Nat,
         TargetOK(target), InReach(target, hole, size)
  PROVE  /\ hole >= dl_map_end(target) - Half
         /\ hole + size <= dl_map_start(target) + Half
<1> DEFINE s == dl_map_start(target)
           e == dl_map_end(target)
           m == 2^LongBits
           t == s + Half
<1>1. s \in Nat /\ e \in Nat /\ s < e /\ e <= m /\ m \in Nat \ {0} /\ m >= 4 * Half
      /\ Half \in Nat \ {0}
  BY Powers DEF TargetOK, Addresses
<1>2. hole >= IF e > Half THEN e - Half ELSE 0
  BY Zenon DEF InReach, dl_map_check_jump_range, x86_jump_min_address, X86_64_JUMP_RANGE, Half
<1>3. hole + size <= t % m
  BY Zenon DEF InReach, dl_map_check_jump_range, x86_jump_max_address, X86_64_JUMP_RANGE, Half,
         Long
<1>4. t \in 0..(2 * m - 1)
  BY <1>1
<1> HIDE DEF s, e, m, t
<1>5. hole >= e - Half
  BY <1>1, <1>2
<1>6. CASE t < m
  <2>1. t % m = t
    BY <1>1, <1>4, <1>6, ModOnce, Zenon
  <2> QED BY <1>3, <1>5, <2>1, Zenon DEF s, e, t
<1>7. CASE ~(t < m)
  <2>1. t % m = t - m
    BY <1>1, <1>4, <1>7, ModOnce, Zenon
  <2>2. FALSE
    BY <1>1, <1>2, <1>3, <1>7, <2>1 DEF t
  <2> QED BY <2>2, Zenon
<1> QED BY <1>1, <1>6, <1>7, Zenon

(* pin_elf_mmaps: if both ends of the place pass dl_map_check_jump_range,  *)
(* x86_jmpq_instruction encodes a jump from every byte of the target to    *)
(* every byte of the place but its first five, which are the ELF header of *)
(* the patch.                                                              *)
THEOREM JumpsEncodable ==
  ASSUME NEW target, NEW hole \in Nat, NEW size \in Nat,
         TargetOK(target), InReach(target, hole, size),
         NEW f \in dl_map_start(target)..(dl_map_end(target) - 1),
         NEW p \in (hole + 5)..(hole + size - 1)
  PROVE  x86_jmpq_instruction(f, p)
<1>1. /\ hole >= dl_map_end(target) - Half
      /\ hole + size <= dl_map_start(target) + Half
  BY ReachBounds, Zenon
<1>2. dl_map_start(target) \in Int /\ dl_map_end(target) \in Int /\ Half \in Int
  BY Powers DEF TargetOK, Addresses
<1>3. p - (f + 5) \in (1 - Half)..(Half - 1) /\ f + 5 \in Int /\ p \in Int
  BY <1>1, <1>2
<1> QED BY <1>3, OffsetFits, Zenon DEF x86_jmpq_instruction

(* ip_gen_offset: an offset that passes the test, cut to an int, leads the *)
(* processor to the target of the jump.                                    *)
THEOREM JumpsLand ==
  ASSUME NEW next_ip \in Addresses, NEW tgt_pos \in Addresses,
         ip_gen_offset(next_ip, tgt_pos)
  PROVE  Long(next_ip + Signed(tgt_pos - next_ip, IntBits)) = tgt_pos
<1> DEFINE x == tgt_pos - next_ip
           half == Ints * (2 * Half)
           m == 2 * half
           o == Signed(x, LongBits)
<1>1. half \in Nat \ {0} /\ m \in Nat \ {0} /\ m = 2^LongBits /\ Half \in Nat \ {0}
  BY Powers
<1>2. next_ip \in 0..(m - 1) /\ tgt_pos \in 0..(m - 1) /\ x \in Int
  BY <1>1 DEF Addresses
<1>3. x % m \in 0..(m - 1) /\ x \div m \in Int /\ x = m * (x \div m) + (x % m)
  <2> HIDE DEF m, x
  <2> QED BY <1>1, <1>2
<1>4. o = IF x % m < half THEN x % m ELSE (x % m) - m
  BY Powers, Zenon DEF Signed
<1>5. PICK q \in Int : x = m * q + o
  <2>1. CASE x % m < half
    BY <1>3, <1>4, <2>1, Zenon
  <2>2. CASE ~(x % m < half)
    <3>1. m * (x \div m + 1) = m * (x \div m) + m
      BY <1>1, <1>3
    <3>2. x = m * (x \div m + 1) + o
      BY <1>1, <1>3, <1>4, <2>2, <3>1
    <3> QED BY <1>3, <3>2
  <2> QED BY <2>1, <2>2, Zenon
<1>6. o \in (1 - Half)..(Half - 1)
  <2>1. o \in Int
    BY <1>1, <1>3, <1>4
  <2>2. (IF o < 0 THEN -o ELSE o) <= Half - 1
    BY Zenon DEF ip_gen_offset, INT_MAX, Half
  <2> QED BY <1>1, <2>1, <2>2
<1>7. Signed(x, IntBits) = o
  <2>1. o % (2 * Half) \in 0..(2 * Half - 1) /\ o \div (2 * Half) \in Int
        /\ o = (2 * Half) * (o \div (2 * Half)) + (o % (2 * Half))
    BY <1>1, <1>6
  <2>2. x = (2 * Half) * (2 * Ints * q + o \div (2 * Half)) + (o % (2 * Half))
    <3>1. m * q = (2 * Half) * (2 * Ints * q)
      BY <1>1, <1>5, Powers
    <3>2. (2 * Half) * (2 * Ints * q + o \div (2 * Half))
            = (2 * Half) * (2 * Ints * q) + (2 * Half) * (o \div (2 * Half))
      BY <1>1, <1>5, <2>1, Powers
    <3> HIDE DEF m, o, x
    <3>3. m * q \in Int /\ (2 * Half) * (o \div (2 * Half)) \in Int
          /\ (2 * Half) * (2 * Ints * q) \in Int
      BY <1>1, <1>5, <2>1, Powers
    <3> QED BY <1>5, <2>1, <3>1, <3>2, <3>3
  <2>3. 2 * Ints * q + o \div (2 * Half) \in Int /\ 2 * Half \in Nat \ {0}
    BY <1>1, <1>5, <2>1, Powers
  <2>4. x % (2 * Half) = o % (2 * Half)
    <3> HIDE DEF m, o, x
    <3> QED BY <1>2, <2>1, <2>2, <2>3, DivModUnique, Zenon DEF x
  <2>5. o = IF o % (2 * Half) < Half THEN o % (2 * Half) ELSE (o % (2 * Half)) - 2 * Half
    <3> HIDE DEF o
    <3>1. o \in (-Half)..(Half - 1)
      BY <1>1, <1>6
    <3> QED BY <1>1, <3>1, SignedReads, Zenon
  <2>6. Signed(x, IntBits) = IF x % (2 * Half) < Half THEN x % (2 * Half)
                             ELSE (x % (2 * Half)) - 2 * Half
    BY Powers, Zenon DEF Signed, Half
  <2> HIDE DEF o, x, m
  <2> QED BY <2>4, <2>5, <2>6
<1>8. Long(next_ip + o) = tgt_pos
  <2> HIDE DEF o
  <2>1. next_ip + o = m * (-q) + tgt_pos
    <3>1. m * (-q) = -(m * q) /\ m * q \in Int /\ o \in Int
      BY <1>1, <1>5, <1>6
    <3>2. tgt_pos = next_ip + m * q + o
      BY <1>2, <1>5, <3>1
    <3> QED BY <1>2, <3>1, <3>2
  <2>2. -q \in Int /\ next_ip + o \in Int
    BY <1>1, <1>2, <1>5, <1>6
  <2>3. (next_ip + o) % m = tgt_pos
    <3> HIDE DEF m
    <3> QED BY <1>1, <1>2, <2>1, <2>2, DivModUnique, Zenon
  <2> QED BY <1>1, <2>3, Zenon DEF Long
<1> QED BY <1>7, <1>8, Zenon

-----------------------------------------------------------------------------
(* Short references to data of the target.                                 *)

(* A quotient is 0 exactly below the divisor. *)
LEMMA DivZero ==
  \A n \in Nat \ {0} : \A x \in Nat : x \div n = 0 <=> x < n
OBVIOUS

(* The overflow test of apply_static_ref passes exactly the values within  *)
(* half an int of 0, in the arithmetic of addresses.                       *)
LEMMA FitsIff ==
  ASSUME NEW reloc \in Addresses
  PROVE  StaticRefFits(reloc) <=> reloc < Half \/ reloc >= 2^LongBits - Half
<1> DEFINE m == 2^LongBits
           d == reloc \div Half
           sign == d % 2
           back == m - 1 - reloc
<1>1. /\ Half \in Nat \ {0} /\ Ints \in Nat \ {0} /\ m \in Nat
      /\ m >= 4 * Half /\ m = Half * (4 * Ints)
  BY Powers
<1>2. reloc \in Nat /\ reloc < m /\ back \in Nat
  BY <1>1 DEF Addresses
<1>3. StaticRefFits(reloc) <=> (IF sign = 1 THEN back ELSE reloc) \div (2 * Half) = 0
  BY Powers, Zenon DEF StaticRefFits, Half
<1>4. reloc \div (2 * Half) = 0 <=> reloc < 2 * Half
  <2> DEFINE n == 2 * Half
  <2>1. n \in Nat \ {0}
    BY <1>1
  <2> HIDE DEF n
  <2>2. reloc \div n = 0 <=> reloc < n
    BY <1>2, <2>1, DivZero, Zenon
  <2> QED BY <2>2, Zenon DEF n
<1>5. back \div (2 * Half) = 0 <=> reloc >= m - 2 * Half
  <2>1. back \div (2 * Half) = 0 <=> back < 2 * Half
    <3> HIDE DEF back
    <3> QED BY <1>1, <1>2, DivZero
  <2> QED BY <1>1, <1>2, <2>1
<1> HIDE DEF m, sign, back
<1>6. CASE reloc < Half
  <2>1. d = 0
    BY <1>1, <1>2, <1>6, DivZero, Zenon
  <2>2. sign # 1
    BY <2>1 DEF sign
  <2> QED BY <1>1, <1>2, <1>3, <1>4, <1>6, <2>2
<1>7. CASE reloc >= Half /\ reloc < 2 * Half
  <2>1. d = 1
    <3>1. reloc = Half * 1 + (reloc - Half) /\ reloc - Half \in 0..(Half - 1)
      BY <1>1, <1>2, <1>7
    <3> QED BY <1>1, <1>2, <3>1, DivModUnique
  <2>2. sign = 1
    BY <2>1 DEF sign
  <2> QED BY <1>1, <1>2, <1>3, <1>5, <1>7, <2>2 DEF m
<1>8. CASE reloc >= 2 * Half /\ reloc < m - 2 * Half
  BY <1>1, <1>2, <1>3, <1>4, <1>5, <1>8 DEF m
<1>9. CASE reloc >= m - 2 * Half /\ reloc < m - Half
  <2>1. d = 4 * Ints - 2
    <3>1. Half * (4 * Ints - 2) = Half * (4 * Ints) - 2 * Half
      BY <1>1
    <3> DEFINE q == 4 * Ints - 2
               r == reloc - (m - 2 * Half)
    <3>2. reloc = Half * q + r /\ r \in 0..(Half - 1) /\ q \in Int
      BY <1>1, <1>2, <1>9, <3>1
    <3> HIDE DEF q, r
    <3>3. d = q
      BY <1>1, <1>2, <3>2, DivModUnique
    <3> QED BY <3>3, Zenon DEF q
  <2>2. sign # 1
    BY <1>1, <2>1 DEF sign
  <2> QED BY <1>1, <1>2, <1>3, <1>4, <1>9, <2>2 DEF m
<1>10. CASE reloc >= m - Half
  <2>1. d = 4 * Ints - 1
    <3>1. Half * (4 * Ints - 1) = Half * (4 * Ints) - Half
      BY <1>1
    <3> DEFINE q == 4 * Ints - 1
               r == reloc - (m - Half)
    <3>2. reloc = Half * q + r /\ r \in 0..(Half - 1) /\ q \in Int
      BY <1>1, <1>2, <1>10, <3>1
    <3> HIDE DEF q, r
    <3>3. d = q
      BY <1>1, <1>2, <3>2, DivModUnique
    <3> QED BY <3>3, Zenon DEF q
  <2>2. sign = 1
    BY <1>1, <2>1 DEF sign
  <2> QED BY <1>1, <1>2, <1>3, <1>5, <1>10, <2>2 DEF m
<1> QED BY <1>1, <1>2, <1>6, <1>7, <1>8, <1>9, <1>10

(* Long of a small offset, forward or back. *)
LEMMA LongOffset ==
  \A x \in (-Half)..(Half - 1) :
    Long(x) = IF x < 0 THEN x + 2^LongBits ELSE x
<1> SUFFICES ASSUME NEW x \in (-Half)..(Half - 1)
             PROVE  Long(x) = IF x < 0 THEN x + 2^LongBits ELSE x
  BY Zenon
<1> DEFINE m == 2^LongBits
<1>1. Half \in Nat \ {0} /\ m \in Nat \ {0} /\ m >= 4 * Half
  BY Powers
<1> HIDE DEF m
<1>2. CASE x < 0
  <2>1. x = m * (-1) + (x + m) /\ x + m \in 0..(m - 1) /\ x \in Int
    BY <1>1, <1>2
  <2>2. x % m = x + m
    BY <1>1, <2>1, DivModUnique
  <2> QED BY <1>2, <2>2, Zenon DEF m, Long
<1>3. CASE ~(x < 0)
  <2>1. x % m = x
    BY <1>1, <1>3, ModOnce
  <2> QED BY <1>3, <2>1, Zenon DEF m, Long
<1> QED BY <1>2, <1>3, Zenon

(* pin_elf_mmaps: if both ends of the place pass dl_map_check_jump_range,  *)
(* no four bytes of the place are too far from any byte of the target for  *)
(* the overflow test of apply_static_ref: it never refuses a reference of  *)
(* the patch to data of the target.                                        *)
THEOREM ReferencesFit ==
  ASSUME NEW target, NEW hole \in Nat, NEW size \in Nat,
         TargetOK(target), InReach(target, hole, size),
         NEW v \in dl_map_start(target)..(dl_map_end(target) - 1),
         NEW p \in hole..(hole + size - 4)
  PROVE  StaticRefFits(Long(v - (p + 4)))
<1> DEFINE x == v - (p + 4)
<1>1. /\ hole >= dl_map_end(target) - Half
      /\ hole + size <= dl_map_start(target) + Half
  BY ReachBounds, Zenon
<1>2. dl_map_start(target) \in Int /\ dl_map_end(target) \in Int /\ Half \in Nat \ {0}
      /\ 2^LongBits \in Nat /\ 2^LongBits >= 4 * Half
  BY Powers DEF TargetOK, Addresses
<1>3. x \in (-Half)..(Half - 1)
  BY <1>1, <1>2
<1> HIDE DEF x
<1>4. Long(x) = IF x < 0 THEN x + 2^LongBits ELSE x
  BY <1>3, LongOffset, Zenon
<1>5. Long(x) \in Addresses /\ (Long(x) < Half \/ Long(x) >= 2^LongBits - Half)
  BY <1>2, <1>3, <1>4 DEF Addresses
<1>6. StaticRefFits(Long(x))
  BY <1>5, FitsIff, Zenon
<1> QED BY <1>6, Zenon DEF x

(* The overflow test of apply_static_ref is exact: it passes a value if    *)
(* and only if the processor, which reads the bytes of write_static_ref    *)
(* with their sign, gets that value back.                                  *)
THEOREM OverflowTestExact ==
  ASSUME NEW reloc \in Addresses
  PROVE  StaticRefFits(reloc) <=> Long(write_static_ref(reloc, 4)) = reloc
<1> DEFINE m == 2^LongBits
           n == 2 * Half
           u == reloc % n
           w == write_static_ref(reloc, 4)
<1>1. /\ Half \in Nat \ {0} /\ Ints \in Nat \ {0} /\ n \in Nat \ {0} /\ m \in Nat
      /\ m >= 4 * Half /\ m = n * (2 * Ints)
  BY Powers
<1>2. reloc \in Nat /\ reloc < m
  BY <1>1 DEF Addresses
<1>3. w = IF u < Half THEN u ELSE u - n
  BY Powers, Zenon DEF write_static_ref, Signed, Half
<1>4. StaticRefFits(reloc) <=> reloc < Half \/ reloc >= m - Half
  BY FitsIff, Zenon
<1>5. n = 2 * Half
  BY Zenon
<1> HIDE DEF m, n, w
<1>6. u \in 0..(n - 1)
  BY <1>1, <1>2
<1>7. w \in (-Half)..(Half - 1)
  BY <1>1, <1>3, <1>5, <1>6
<1>8. Long(w) = IF w < 0 THEN w + m ELSE w
  BY <1>7, LongOffset, Zenon DEF m
<1>9. CASE reloc < Half
  <2>1. u = reloc
    BY <1>1, <1>2, <1>5, <1>9, ModOnce
  <2> QED BY <1>2, <1>3, <1>4, <1>8, <1>9, <2>1 DEF w
<1>10. CASE reloc >= m - Half
  <2>1. n * (2 * Ints - 1) = n * (2 * Ints) - n
    BY <1>1
  <2>2. u = reloc - (m - n)
    <3> DEFINE q == 2 * Ints - 1
               r == reloc - (m - n)
    <3>1. reloc = n * q + r /\ r \in 0..(n - 1) /\ q \in Int
      BY <1>1, <1>2, <1>5, <1>10, <2>1
    <3> HIDE DEF q, r
    <3>2. u = r
      BY <1>1, <1>2, <3>1, DivModUnique
    <3> QED BY <3>2, Zenon DEF r
  <2>3. w = reloc - m
    BY <1>1, <1>2, <1>3, <1>5, <1>10, <2>2
  <2>4. Long(w) = reloc
    BY <1>1, <1>2, <1>8, <2>3
  <2> QED BY <1>4, <1>10, <2>4, Zenon DEF w
<1>11. CASE reloc >= Half /\ reloc < m - Half
  <2>1. Long(w) # reloc
    BY <1>1, <1>2, <1>7, <1>8, <1>11
  <2> QED BY <1>1, <1>2, <1>4, <1>11, <2>1 DEF w
<1> QED BY <1>1, <1>2, <1>9, <1>10, <1>11

-----------------------------------------------------------------------------
(* The place.                                                              *)

(* The first of a set of positions. *)
LEMMA MinIsIn ==
  ASSUME NEW S, S \subseteq Nat, S # {}
  PROVE  Min(S) \in S
<1> DEFINE Less == OpToRel(<, Nat)
<1>1. IsWellFoundedOn(Less, Nat)
  BY NatLessThanWellFounded, Zenon
<1>2. \A x, y \in Nat : x < y => <<x, y>> \in Less
  BY Zenon DEF OpToRel
<1> HIDE DEF Less
<1>3. PICK x \in S : \A y \in S : ~(<<y, x>> \in Less)
  BY <1>1, WFMin, Zenon
<1>4. ASSUME NEW y \in S PROVE x <= y
  <2>1. x \in Nat /\ y \in Nat
    BY Zenon
  <2>2. ~(y < x)
    BY <1>2, <1>3, <2>1, Zenon
  <2> QED BY <2>1, <2>2
<1> QED BY <1>3, <1>4, Zenon DEF Min

(* No other comes before it. *)
LEMMA MinIsFirst ==
  ASSUME NEW S, S \subseteq Nat, NEW y \in S
  PROVE  Min(S) <= y
<1> DEFINE Less == OpToRel(<, Nat)
<1>1. IsWellFoundedOn(Less, Nat)
  BY NatLessThanWellFounded, Zenon
<1>2. \A x, z \in Nat : x < z => <<x, z>> \in Less
  BY Zenon DEF OpToRel
<1> HIDE DEF Less
<1>3. PICK x \in S : \A z \in S : ~(<<z, x>> \in Less)
  BY <1>1, WFMin, Zenon
<1>4. ASSUME NEW z \in S PROVE x <= z
  <2>1. x \in Nat /\ z \in Nat
    BY Zenon
  <2>2. ~(z < x)
    BY <1>2, <1>3, <2>1, Zenon
  <2> QED BY <2>1, <2>2
<1> QED BY <1>3, <1>4, Zenon DEF Min

(* What the macro min (include/util.h) returns of two addresses. *)
LEMMA MinOfTwo ==
  \A x, y \in Nat : Min({x, y}) = IF x < y THEN x ELSE y
<1> SUFFICES ASSUME NEW x \in Nat, NEW y \in Nat
             PROVE  Min({x, y}) = IF x < y THEN x ELSE y
  BY Zenon
<1>1. Min({x, y}) \in {x, y}
  BY MinIsIn, Zenon
<1>2. Min({x, y}) <= x /\ Min({x, y}) <= y
  BY MinIsFirst, Zenon
<1> HIDE DEF Min
<1> QED BY <1>1, <1>2

(* What the macro max returns of two addresses. *)
LEMMA MaxOfTwo ==
  \A x, y \in Nat : Max({x, y}) = IF x > y THEN x ELSE y
<1> SUFFICES ASSUME NEW x \in Nat, NEW y \in Nat
             PROVE  Max({x, y}) = IF x > y THEN x ELSE y
  BY Zenon
<1> DEFINE z == IF x > y THEN x ELSE y
           m == Max({x, y})
<1>1. \E v \in {x, y} : \A w \in {x, y} : v >= w
  <2>1. z \in {x, y} /\ (\A w \in {x, y} : z >= w)
    OBVIOUS
  <2> QED BY <2>1, Zenon
<1>2. m \in {x, y} /\ \A w \in {x, y} : m >= w
  BY <1>1, Zenon DEF Max
<1> HIDE DEF m
<1>3. m = z
  BY <1>2
<1> QED BY <1>3, Zenon DEF m

(* A place of this size from the hint on, at the hint or where a mapping   *)
(* ends, without a byte of a mapping.                                      *)
FreePlace(vmas, hint, size, place) ==
  /\ place \in Nat
  /\ place >= hint
  /\ place = hint \/ \E i \in 1..Len(vmas) : place = vmas[i].end
  /\ \A i \in 1..Len(vmas) : vmas[i].end <= place \/ place + size <= vmas[i].start

(* process_find_place_for_elf: no mapping of the process is in the place   *)
(* found, whatever next_vma reads behind the last mapping, and though the  *)
(* size of a gap is a difference that may wrap.                            *)
THEOREM PlaceIsFree ==
  ASSUME NEW vmas, vmas \in Seq(Range(vmas)), NEW dlms, ListOK(vmas),
         NEW hint \in Nat, NEW size \in Nat, NEW garbage \in Addresses,
         NEW place, place = process_find_place_for_elf(vmas, dlms, hint, size, garbage),
         place # -1
  PROVE  FreePlace(vmas, hint, size, place)
<1> DEFINE found == {i \in DOMAIN vmas : find_hole(vmas, dlms, i, hint, size, garbage)}
           i == Min(found)
           next == NextStart(vmas, i, garbage)
<1>1. found # {} /\ place = Max({hint, vmas[i].end})
  BY Zenon DEF process_find_place_for_elf
<1>2. DOMAIN vmas = 1..Len(vmas) /\ Len(vmas) \in Nat
  OBVIOUS
<1>3. i \in found
  <2>1. found \subseteq Nat
    BY <1>2
  <2> QED BY <1>1, <2>1, MinIsIn, Zenon
<1>4. i \in 1..Len(vmas) /\ find_hole(vmas, dlms, i, hint, size, garbage)
  BY <1>2, <1>3, Zenon
<1> HIDE DEF found, i
<1>5. next >= hint /\ Long(next - Max({hint, vmas[i].end})) >= size
  BY <1>4, Zenon DEF find_hole
<1>6. vmas[i].end \in Nat
  BY <1>4, Powers DEF ListOK
<1>7. place = IF hint > vmas[i].end THEN hint ELSE vmas[i].end
  BY <1>1, <1>6, MaxOfTwo, Zenon
<1>8. place \in Nat /\ place >= hint /\ place >= vmas[i].end
  BY <1>6, <1>7
<1>9. place = hint \/ \E j \in 1..Len(vmas) : place = vmas[j].end
  BY <1>4, <1>7, Zenon
<1>10. ASSUME NEW j \in 1..Len(vmas)
       PROVE  vmas[j].end <= place \/ place + size <= vmas[j].start
  <2>1. vmas[j].end \in Nat /\ vmas[j].start \in Nat /\ vmas[j].start < vmas[j].end
    BY Powers DEF ListOK, Addresses
  <2>2. vmas[i].start \in Nat /\ vmas[i].start < vmas[i].end
    BY <1>4, Powers DEF ListOK, Addresses
  <2>3. CASE j <= i
    <3>1. vmas[j].end <= vmas[i].end
      <4>1. CASE j = i
        BY <1>6, <4>1
      <4>2. CASE j < i
        <5>1. vmas[j].end <= vmas[i].start
          BY <1>4, <4>2, Zenon DEF ListOK
        <5> QED BY <1>6, <2>1, <2>2, <5>1
      <4> QED BY <1>2, <1>4, <2>3, <4>1, <4>2
    <3> QED BY <1>6, <1>8, <2>1, <3>1
  <2>4. CASE j > i
    <3>1. i + 1 \in 1..Len(vmas) /\ next = vmas[i + 1].start
      BY <1>2, <1>4, <2>4 DEF NextStart
    <3>2. next \in Addresses /\ vmas[i].end <= next
      BY <1>4, <3>1, SMTT(30) DEF ListOK
    <3>3. next - place \in Addresses
      <4> HIDE DEF next
      <4>1. place <= next
        BY <1>5, <1>7, <3>2, Zenon
      <4>2. 2^LongBits \in Nat
        BY Powers
      <4> QED BY <1>8, <3>2, <4>1, <4>2 DEF Addresses
    <3>4. next - place >= size
      BY <1>1, <1>5, <3>3, LongAddress, Zenon
    <3>5. next <= vmas[j].start
      <4>1. CASE j = i + 1
        BY <3>1, <2>1, <4>1
      <4>2. CASE j # i + 1
        <5>1. vmas[i + 1].end <= vmas[j].start /\ vmas[i + 1].start < vmas[i + 1].end
              /\ vmas[i + 1].end \in Nat /\ vmas[i + 1].start \in Nat
          BY <1>4, <2>4, <3>1, <4>2, Powers DEF ListOK, Addresses
        <5> QED BY <2>1, <3>1, <5>1
      <4> QED BY <4>1, <4>2, Zenon
    <3>6. next \in Nat
      BY <3>2, Powers DEF Addresses
    <3> HIDE DEF next
    <3> QED BY <1>8, <2>1, <3>4, <3>5, <3>6
  <2> QED BY <1>4, <2>3, <2>4
<1> QED BY <1>8, <1>9, <1>10, Zenon DEF FreePlace

-----------------------------------------------------------------------------
(* The patch in its place.                                                 *)

(* A multiple of the page size does not change the offset within a page. *)
LEMMA PageShift ==
  \A x \in Int, y \in Int, k \in Int :
    k % PageSize = 0 /\ y = x + k => PageStart(y) = PageStart(x) + k
<1> SUFFICES ASSUME NEW x \in Int, NEW y \in Int, NEW k \in Int,
                    k % PageSize = 0, y = x + k
             PROVE  PageStart(y) = PageStart(x) + k
  BY Zenon
<1> DEFINE q == x \div PageSize
           n == k \div PageSize
           r == x % PageSize
<1>1. PageSize \in Nat \ {0}
  BY PlacementAssumption, Zenon
<1>2. q \in Int /\ n \in Int /\ r \in 0..(PageSize - 1)
  BY <1>1
<1>3. x = PageSize * q + r /\ k = PageSize * n
  BY <1>1
<1> HIDE DEF q, n, r
<1>4. PageSize * (q + n) = PageSize * q + PageSize * n
  BY <1>1, <1>2
<1>5. y = PageSize * (q + n) + r /\ q + n \in Int
  BY <1>1, <1>2, <1>3, <1>4
<1>6. y % PageSize = r
  BY <1>1, <1>2, <1>5, DivModUnique, Zenon
<1> QED BY <1>2, <1>6 DEF PageStart, r

(* The start of a page is not above the address, and pages are in the      *)
(* order of the addresses.                                                 *)
LEMMA PageStartOrder ==
  \A x \in Int, y \in Int :
    PageStart(x) \in Int /\ PageStart(x) <= x /\ (x <= y => PageStart(x) <= PageStart(y))
<1> SUFFICES ASSUME NEW x \in Int, NEW y \in Int
             PROVE  /\ PageStart(x) \in Int /\ PageStart(x) <= x
                    /\ (x <= y => PageStart(x) <= PageStart(y))
  BY Zenon
<1> DEFINE q == x \div PageSize
           n == y \div PageSize
<1>1. PageSize \in Nat \ {0}
  BY PlacementAssumption, Zenon
<1>2. /\ q \in Int /\ n \in Int /\ x % PageSize \in 0..(PageSize - 1)
      /\ y % PageSize \in 0..(PageSize - 1)
  BY <1>1
<1>3. x = PageSize * q + (x % PageSize) /\ y = PageSize * n + (y % PageSize)
  BY <1>1
<1>4. PageStart(x) = PageSize * q /\ PageStart(y) = PageSize * n
  BY <1>1, <1>2, <1>3 DEF PageStart
<1> HIDE DEF q, n
<1>5. ASSUME x <= y PROVE q <= n
  <2> SUFFICES ASSUME q > n PROVE FALSE
    BY <1>2
  <2>1. PageSize * q >= PageSize * (n + 1) /\ PageSize * (n + 1) = PageSize * n + PageSize
    BY <1>1, <1>2
  <2> QED BY <1>1, <1>2, <1>3, <1>5, <2>1
<1>6. x <= y => PageSize * q <= PageSize * n
  BY <1>1, <1>2, <1>5
<1>7. PageStart(x) \in Int /\ PageStart(x) <= x
  BY <1>1, <1>2, <1>3, <1>4
<1> QED BY <1>4, <1>6, <1>7, Zenon

(* A page starts at a multiple of the page size, and so does a place that  *)
(* is a multiple above.                                                    *)
LEMMA OnPage ==
  \A x \in Int, y \in Int :
    /\ PageStart(x) % PageSize = 0
    /\ x % PageSize = 0 /\ y % PageSize = 0 => (x + y) % PageSize = 0
<1> SUFFICES ASSUME NEW x \in Int, NEW y \in Int
             PROVE  /\ PageStart(x) % PageSize = 0
                    /\ x % PageSize = 0 /\ y % PageSize = 0 => (x + y) % PageSize = 0
  BY Zenon
<1> DEFINE q == x \div PageSize
           n == y \div PageSize
           z == x + y
<1>1. PageSize \in Nat \ {0} /\ 0 \in 0..(PageSize - 1)
  BY PlacementAssumption
<1>2. /\ q \in Int /\ n \in Int /\ x % PageSize \in 0..(PageSize - 1) /\ q + n \in Int
      /\ PageSize * q \in Int /\ PageSize * n \in Int
      /\ PageSize * (q + n) = PageSize * q + PageSize * n
  BY <1>1
<1>3. x = PageSize * q + (x % PageSize) /\ y = PageSize * n + (y % PageSize)
  BY <1>1
<1>4. PageStart(x) = PageSize * q + 0 /\ PageStart(x) \in Int
  BY <1>1, <1>2, <1>3 DEF PageStart
<1>5. PageStart(x) % PageSize = 0
  <2> HIDE DEF q
  <2> QED BY <1>1, <1>2, <1>4, DivModUnique, Zenon
<1>6. ASSUME x % PageSize = 0, y % PageSize = 0 PROVE z % PageSize = 0
  <2> HIDE DEF q, n
  <2>1. z \in Int /\ z = PageSize * (q + n) + 0
    BY <1>1, <1>2, <1>3, <1>6
  <2> HIDE DEF z
  <2> QED BY <1>1, <1>2, <2>1, DivModUnique, Zenon
<1> QED BY <1>5, <1>6, Zenon

(* create_elf_vma: the length of a segment is a multiple of the page size. *)
LEMMA SegmentLength ==
  ASSUME NEW path, NEW p, p.vaddr \in Nat, p.filesz \in Nat
  PROVE  LET v == create_elf_vma(path, p) IN (v.end - v.start) % PageSize = 0
<1> DEFINE x == p.filesz + (p.vaddr % PageSize) + PageSize - 1
           q == x \div PageSize
           v == create_elf_vma(path, p)
<1>1. PageSize \in Nat \ {0}
  BY PlacementAssumption, Zenon
<1>2. x \in Int
  BY <1>1
<1>3. PageAlign(p.filesz + (p.vaddr % PageSize)) = x - (x % PageSize)
  BY Zenon DEF PageAlign, PageStart
<1> HIDE DEF x
<1>4. q \in Int /\ x = PageSize * q + (x % PageSize) /\ x % PageSize \in Int
  BY <1>1, <1>2
<1>5. x - (x % PageSize) = PageSize * q + 0 /\ x - (x % PageSize) \in Int
  BY <1>1, <1>2, <1>4
<1>6. 0 \in 0..(PageSize - 1)
  BY <1>1
<1> DEFINE y == x - (x % PageSize)
<1>7. y % PageSize = 0
  <2> HIDE DEF y
  <2>1. y = PageSize * q + 0 /\ y \in Int
    BY <1>5, Zenon DEF y
  <2> QED BY <1>1, <1>4, <1>6, <2>1, DivModUnique, ZenonT(30)
<1>8. v.start = p.vaddr /\ v.end = p.vaddr + y
  BY <1>3, Zenon DEF create_elf_vma, Vma
<1>9. v.end - v.start = y
  BY <1>5, <1>8
<1> QED BY <1>7, <1>9, Zenon

(* dl_map_jump_hint is the start of a page. *)
LEMMA HintOnPage ==
  ASSUME NEW target, TargetOK(target), dl_map_end(target) % PageSize = 0
  PROVE  dl_map_jump_hint(target) \in Nat /\ dl_map_jump_hint(target) % PageSize = 0
<1> DEFINE e == dl_map_end(target)
           x == e - Half
<1>1. /\ PageSize \in Nat \ {0} /\ Half \in Nat \ {0} /\ Half % PageSize = 0
      /\ e \in Nat /\ e % PageSize = 0
  BY PlacementAssumption, Powers DEF TargetOK, Half
<1>2. dl_map_jump_hint(target) \in {e, 0} \/ (e > Half /\ dl_map_jump_hint(target) = x)
  BY Zenon DEF dl_map_jump_hint, x86_jump_min_address, X86_64_JUMP_RANGE, Half
<1> HIDE DEF e
<1>3. x \in Int /\ x + Half = e
  BY <1>1
<1> HIDE DEF x
<1>4. PageStart(e) = PageStart(x) + Half
  <2>1. e \in Int /\ Half \in Int /\ e = x + Half
    BY <1>1, <1>3
  <2> QED BY <1>1, <1>3, <2>1, PageShift, Zenon
<1>5. x % PageSize = 0
  <2>1. x % PageSize \in Int
    BY <1>1, <1>3
  <2> QED BY <1>1, <1>3, <1>4, <2>1 DEF PageStart
<1>6. 0 % PageSize = 0
  BY <1>1, ModOnce
<1>7. e > Half => x \in Nat
  BY <1>1, <1>3
<1> QED BY <1>1, <1>2, <1>5, <1>6, <1>7

(* The elements of a sequence. *)
LEMMA ElementOf ==
  \A S : \A s \in Seq(S) : \A n \in 1..Len(s) : s[n] \in S
OBVIOUS

(* The size of the place of a patch. *)
LEMMA LoadSize ==
  ASSUME NEW dlm, PatchOK(dlm)
  PROVE  load_size(dlm) \in Nat /\ load_size(dlm) = PageStart(dl_map_end(dlm))
<1> DEFINE Segment == [start : Nat, end : Nat, path : {dlm.path}, exec : BOOLEAN]
           e == dl_map_end(dlm)
<1>1. PageSize \in Nat \ {0}
  BY PlacementAssumption, Zenon
<1>2. dlm.vmas[Len(dlm.vmas)] \in Segment /\ dlm.vmas[1] \in Segment
  <2>1. dlm.vmas \in Seq(Segment)
    BY Zenon DEF PatchOK
  <2>2. Len(dlm.vmas) \in 1..Len(dlm.vmas) /\ 1 \in 1..Len(dlm.vmas)
    BY <2>1 DEF PatchOK
  <2> QED BY <2>1, <2>2, ElementOf, Zenon
<1>3. e \in Nat /\ dl_map_start(dlm) \in Nat /\ dl_map_start(dlm) < PageSize
  BY <1>2, Zenon DEF dl_map_end, dl_map_start, PatchOK
<1> HIDE DEF e
<1>4. PageStart(0) = 0 /\ PageStart(dl_map_start(dlm)) = 0
  <2>1. 0 % PageSize = 0 /\ dl_map_start(dlm) % PageSize = dl_map_start(dlm)
    BY <1>1, <1>3, ModOnce
  <2> QED BY <1>3, <2>1 DEF PageStart
<1>5. PageStart(e) \in Int /\ PageStart(0) <= PageStart(e)
  <2>1. e \in Int /\ 0 \in Int /\ 0 <= e
    BY <1>3
  <2> QED BY <2>1, PageStartOrder, Zenon
<1>6. load_size(dlm) = PageStart(e)
  BY <1>4, <1>5 DEF load_size, e
<1> QED BY <1>4, <1>5, <1>6 DEF e

(* pin_elf_mmap: a segment stays within the place. *)
LEMMA SegmentInPlace ==
  ASSUME NEW dlm, PatchOK(dlm), NEW hole \in Nat, hole % PageSize = 0,
         NEW n \in 1..Len(dlm.vmas)
  PROVE  LET v == pin_elf_mmap(dlm.vmas[n], hole)
         IN  /\ v.start \in Nat /\ v.end \in Nat
             /\ hole <= v.start
             /\ v.end <= hole + load_size(dlm)
             /\ v.start % PageSize = 0 /\ v.end % PageSize = 0
<1> DEFINE w == dlm.vmas[n]
           v == pin_elf_mmap(w, hole)
           len == w.end - w.start
           e == dl_map_end(dlm)
<1>1. PageSize \in Nat \ {0}
  BY PlacementAssumption, Zenon
<1> DEFINE Segment == [start : Nat, end : Nat, path : {dlm.path}, exec : BOOLEAN]
<1>2. w \in Segment
  BY ElementOf, Zenon DEF PatchOK
<1>3. /\ w.start \in Nat /\ w.end \in Nat /\ len \in Int /\ len % PageSize = 0
      /\ w.end <= e
  BY <1>2 DEF PatchOK
<1>4. v.start = PageStart(hole + w.start) /\ v.end = PageStart(hole + w.start) + len
  BY <1>2, Zenon DEF pin_elf_mmap
<1>5. e \in Nat
  <2>1. dlm.vmas \in Seq(Segment) /\ Len(dlm.vmas) \in 1..Len(dlm.vmas)
    BY DEF PatchOK
  <2>2. dlm.vmas[Len(dlm.vmas)] \in Segment
    BY <2>1, ElementOf, Zenon
  <2> QED BY <2>2, Zenon DEF dl_map_end
<1> HIDE DEF w, v, len, e
<1>6. PageStart(hole + w.start) = PageStart(w.start) + hole
  <2>1. hole + w.start = w.start + hole
    BY <1>3
  <2>2. w.start \in Int /\ hole + w.start \in Int /\ hole \in Int
    BY <1>3
  <2> QED BY <2>1, <2>2, PageShift, Zenon
<1>7. PageStart(w.end) = PageStart(w.start) + len
  <2>1. w.end = w.start + len
    BY <1>3 DEF len
  <2>2. w.start \in Int /\ w.end \in Int
    BY <1>3
  <2> QED BY <1>3, <2>1, <2>2, PageShift, Zenon
<1>8. /\ PageStart(w.start) \in Int /\ PageStart(w.end) \in Int /\ PageStart(e) \in Int
      /\ PageStart(w.end) <= PageStart(e)
  <2>1. w.start \in Int /\ w.end \in Int /\ e \in Int
    BY <1>3, <1>5
  <2> QED BY <1>3, <2>1, PageStartOrder, Zenon
<1>9. PageStart(0) = 0
  <2>1. 0 % PageSize = 0
    BY <1>1, ModOnce
  <2> QED BY <2>1 DEF PageStart
<1>10. PageStart(w.start) >= 0 /\ PageStart(w.end) >= 0
  <2>1. w.start \in Int /\ w.end \in Int /\ 0 \in Int /\ 0 <= w.start /\ 0 <= w.end
    BY <1>3
  <2>2. PageStart(0) <= PageStart(w.start) /\ PageStart(0) <= PageStart(w.end)
    BY <2>1, PageStartOrder, Zenon
  <2> QED BY <1>8, <1>9, <2>2, Zenon
<1>11. load_size(dlm) = PageStart(e)
  BY LoadSize, Zenon DEF e
<1>12. v.start = hole + PageStart(w.start) /\ v.end = hole + PageStart(w.end)
  BY <1>3, <1>4, <1>6, <1>7, <1>8
<1>13. /\ v.start \in Nat /\ v.end \in Nat /\ hole <= v.start
       /\ v.end <= hole + load_size(dlm)
  BY <1>8, <1>10, <1>11, <1>12
<1>14. v.start % PageSize = 0 /\ v.end % PageSize = 0
  <2>1. w.start \in Int /\ w.end \in Int /\ hole \in Int
    BY <1>3
  <2>2. PageStart(w.start) % PageSize = 0 /\ PageStart(w.end) % PageSize = 0
    BY <2>1, OnPage, Zenon
  <2>3. /\ (hole + PageStart(w.start)) % PageSize = 0
        /\ (hole + PageStart(w.end)) % PageSize = 0
    BY <1>8, <2>1, <2>2, OnPage, Zenon
  <2> QED BY <1>12, <2>3, Zenon
<1> QED BY <1>13, <1>14, Zenon DEF v, w

(* What pin_elf_mmaps needs for a patch in reach on whole pages: the order *)
(* of the mappings does not matter.                                        *)
OnPages(vmas, dlm, target) ==
  /\ vmas \in Seq(Range(vmas))
  /\ \A i \in 1..Len(vmas) : vmas[i].end \in Nat /\ vmas[i].end % PageSize = 0
  /\ TargetOK(target)
  /\ dl_map_end(target) % PageSize = 0
  /\ PatchOK(dlm)

(* process_find_place_for_elf: the place is the hint or the end of a       *)
(* mapping.                                                                *)
LEMMA PlaceAt ==
  ASSUME NEW vmas, vmas \in Seq(Range(vmas)), NEW dlms,
         \A j \in 1..Len(vmas) : vmas[j].end \in Nat,
         NEW hint \in Nat, NEW size, NEW garbage,
         NEW place, place = process_find_place_for_elf(vmas, dlms, hint, size, garbage),
         place # -1
  PROVE  place \in Nat /\ (place = hint \/ \E j \in 1..Len(vmas) : place = vmas[j].end)
<1> DEFINE found == {i \in DOMAIN vmas : find_hole(vmas, dlms, i, hint, size, garbage)}
           i == Min(found)
<1>1. found # {} /\ place = Max({hint, vmas[i].end})
  BY Zenon DEF process_find_place_for_elf
<1>2. DOMAIN vmas = 1..Len(vmas) /\ Len(vmas) \in Nat
  OBVIOUS
<1>3. i \in found
  <2>1. found \subseteq Nat
    BY <1>2
  <2> QED BY <1>1, <2>1, MinIsIn, Zenon
<1>4. i \in 1..Len(vmas)
  BY <1>2, <1>3, Zenon
<1> HIDE DEF found, i
<1>5. vmas[i].end \in Nat
  BY <1>4, Zenon
<1>6. place = IF hint > vmas[i].end THEN hint ELSE vmas[i].end
  BY <1>1, <1>5, MaxOfTwo, Zenon
<1> QED BY <1>4, <1>5, <1>6, Zenon

(* The segments of dlm, moved to the place for it: whole pages, and in     *)
(* reach of the target.                                                    *)
PinnedInto(pinned, vmas, dlms, dlm, target, garbage, hole) ==
  /\ hole = process_find_place_for_elf(vmas, dlms, dl_map_jump_hint(target),
                                       load_size(dlm), garbage)
  /\ InReach(target, hole, load_size(dlm))
  /\ DOMAIN pinned = 1..Len(dlm.vmas)
  /\ \A n \in DOMAIN pinned :
       /\ pinned[n] = pin_elf_mmap(dlm.vmas[n], hole)
       /\ pinned[n].start \in Nat /\ pinned[n].end \in Nat
       /\ hole <= pinned[n].start
       /\ pinned[n].end <= hole + load_size(dlm)
       /\ pinned[n].start % PageSize = 0 /\ pinned[n].end % PageSize = 0

(* pin_elf_mmaps: the segments lie in a place that is in reach. *)
LEMMA PinnedAt ==
  ASSUME NEW vmas, NEW dlms, NEW dlm, NEW target, NEW garbage,
         OnPages(vmas, dlm, target),
         NEW pinned, pinned = pin_elf_mmaps(vmas, dlms, dlm, target, garbage),
         pinned # <<>>
  PROVE  \E hole \in Nat : PinnedInto(pinned, vmas, dlms, dlm, target, garbage, hole)
<1> DEFINE size == load_size(dlm)
           hint == dl_map_jump_hint(target)
           hole == process_find_place_for_elf(vmas, dlms, hint, size, garbage)
<1>1. /\ hole >= 0 /\ InReach(target, hole, size)
      /\ pinned = [n \in DOMAIN dlm.vmas |-> pin_elf_mmap(dlm.vmas[n], hole)]
  BY Zenon DEF pin_elf_mmaps
<1>2. hint \in Nat /\ hint % PageSize = 0
  BY HintOnPage, Zenon DEF OnPages
<1>3. PatchOK(dlm) /\ DOMAIN dlm.vmas = 1..Len(dlm.vmas)
  BY DEF OnPages, PatchOK
<1> HIDE DEF size, hint, hole
<1>4. hole # -1
  BY <1>1
<1>5. hole \in Nat /\ (hole = hint \/ \E i \in 1..Len(vmas) : hole = vmas[i].end)
  <2>1. vmas \in Seq(Range(vmas)) /\ \A j \in 1..Len(vmas) : vmas[j].end \in Nat
    BY Zenon DEF OnPages
  <2>2. hole = process_find_place_for_elf(vmas, dlms, hint, size, garbage)
    BY Zenon DEF hole
  <2>3. hint \in Nat
    BY <1>2, Zenon
  <2> QED BY <1>4, <2>1, <2>2, <2>3, PlaceAt
<1>6. hole % PageSize = 0
  BY <1>2, <1>5, Zenon DEF OnPages
<1>7. ASSUME NEW n \in DOMAIN pinned
      PROVE  /\ pinned[n] = pin_elf_mmap(dlm.vmas[n], hole)
             /\ pinned[n].start \in Nat /\ pinned[n].end \in Nat
             /\ hole <= pinned[n].start
             /\ pinned[n].end <= hole + size
             /\ pinned[n].start % PageSize = 0 /\ pinned[n].end % PageSize = 0
  <2>1. n \in 1..Len(dlm.vmas) /\ pinned[n] = pin_elf_mmap(dlm.vmas[n], hole)
    BY <1>1, <1>3, Zenon
  <2>2. LET v == pin_elf_mmap(dlm.vmas[n], hole)
        IN  /\ v.start \in Nat /\ v.end \in Nat
            /\ hole <= v.start
            /\ v.end <= hole + load_size(dlm)
            /\ v.start % PageSize = 0 /\ v.end % PageSize = 0
    BY <1>3, <1>5, <1>6, <2>1, SegmentInPlace, Zenon
  <2> QED BY <2>1, <2>2, Zenon DEF size
<1>8. DOMAIN pinned = 1..Len(dlm.vmas)
  BY <1>1, <1>3, Zenon
<1>9. PinnedInto(pinned, vmas, dlms, dlm, target, garbage, hole)
  BY <1>1, <1>7, <1>8, Zenon DEF PinnedInto, size, hint, hole
<1> QED BY <1>5, <1>9, Zenon

(* What Placing adds to that: the place is free. *)
LEMMA PinnedInPlace ==
  ASSUME NEW vmas, NEW dlms, NEW dlm, NEW target, NEW garbage,
         Placing(vmas, dlm, target, garbage),
         NEW pinned, pinned = pin_elf_mmaps(vmas, dlms, dlm, target, garbage),
         pinned # <<>>
  PROVE  \E hole \in Nat :
           /\ \A i \in 1..Len(vmas) :
                vmas[i].end <= hole \/ hole + load_size(dlm) <= vmas[i].start
           /\ \A n \in DOMAIN pinned : /\ pinned[n].start \in Nat /\ pinned[n].end \in Nat
                                       /\ hole <= pinned[n].start
                                       /\ pinned[n].end <= hole + load_size(dlm)
<1> DEFINE size == load_size(dlm)
           hint == dl_map_jump_hint(target)
<1>1. OnPages(vmas, dlm, target)
  <2>1. \A i \in 1..Len(vmas) : vmas[i].end \in Nat
    BY Powers DEF Placing, ListOK
  <2> QED BY <2>1, Zenon DEF Placing, OnPages
<1>2. PICK hole \in Nat :
        /\ hole = process_find_place_for_elf(vmas, dlms, hint, size, garbage)
        /\ \A n \in DOMAIN pinned : /\ pinned[n].start \in Nat /\ pinned[n].end \in Nat
                                    /\ hole <= pinned[n].start
                                    /\ pinned[n].end <= hole + size
  <2>1. PICK hole \in Nat : PinnedInto(pinned, vmas, dlms, dlm, target, garbage, hole)
    BY <1>1, PinnedAt, Zenon
  <2> QED BY <2>1, Zenon DEF PinnedInto
<1>3. hint \in Nat /\ size \in Nat
  BY HintOnPage, LoadSize, Zenon DEF Placing
<1> HIDE DEF size, hint
<1>4. vmas \in Seq(Range(vmas)) /\ ListOK(vmas) /\ garbage \in Addresses /\ hole # -1
  BY DEF Placing
<1>5. FreePlace(vmas, hint, size, hole)
  BY <1>2, <1>3, <1>4, PlaceIsFree, Zenon
<1> QED BY <1>2, <1>5, Zenon DEF FreePlace, size

(* pin_elf_mmaps: no segment of the patch is put over a mapping that the   *)
(* process has, so that the MAP_FIXED of process_map_vma takes nothing     *)
(* away.                                                                   *)
THEOREM PinnedPatchIsFree ==
  ASSUME NEW vmas, NEW dlms, NEW dlm, NEW target, NEW garbage,
         Placing(vmas, dlm, target, garbage),
         NEW pinned, pinned = pin_elf_mmaps(vmas, dlms, dlm, target, garbage),
         NEW n \in DOMAIN pinned, NEW i \in 1..Len(vmas)
  PROVE  vmas[i].end <= pinned[n].start \/ pinned[n].end <= vmas[i].start
<1>1. pinned # <<>>
  OBVIOUS
<1>2. PICK hole \in Nat :
        /\ vmas[i].end <= hole \/ hole + load_size(dlm) <= vmas[i].start
        /\ pinned[n].start \in Nat /\ pinned[n].end \in Nat
        /\ hole <= pinned[n].start
        /\ pinned[n].end <= hole + load_size(dlm)
  BY <1>1, PinnedInPlace, Zenon
<1>3. vmas[i].start \in Nat /\ vmas[i].end \in Nat /\ load_size(dlm) \in Nat
  BY LoadSize, Powers DEF Placing, ListOK, Addresses
<1> QED BY <1>2, <1>3

(* pin_elf_mmaps: wherever the patch is put, a jump from every byte of the *)
(* target to every byte of a segment but the first five can be encoded     *)
(* (the error of one that cannot would be lost in tune_patch_func_jumps),  *)
(* and every byte of the target can be referred to from every four bytes   *)
(* of a segment; the list of mappings does not have to be in order.        *)
THEOREM PinnedPatchInReach ==
  ASSUME NEW vmas, NEW dlms, NEW dlm, NEW target, NEW garbage,
         OnPages(vmas, dlm, target),
         NEW pinned, pinned = pin_elf_mmaps(vmas, dlms, dlm, target, garbage),
         NEW n \in DOMAIN pinned,
         NEW f \in dl_map_start(target)..(dl_map_end(target) - 1)
  PROVE  /\ \A p \in (pinned[n].start + 5)..(pinned[n].end - 1) : x86_jmpq_instruction(f, p)
         /\ \A p \in pinned[n].start..(pinned[n].end - 4) : StaticRefFits(Long(f - (p + 4)))
<1>1. pinned # <<>>
  OBVIOUS
<1>2. PICK hole \in Nat :
        /\ InReach(target, hole, load_size(dlm))
        /\ pinned[n].start \in Nat /\ pinned[n].end \in Nat
        /\ hole <= pinned[n].start
        /\ pinned[n].end <= hole + load_size(dlm)
  <2>1. PICK hole \in Nat : PinnedInto(pinned, vmas, dlms, dlm, target, garbage, hole)
    BY <1>1, PinnedAt, Zenon
  <2> QED BY <2>1, Zenon DEF PinnedInto
<1>3. TargetOK(target) /\ load_size(dlm) \in Nat
  BY LoadSize, Zenon DEF OnPages
<1>4. ASSUME NEW p \in (pinned[n].start + 5)..(pinned[n].end - 1)
      PROVE  x86_jmpq_instruction(f, p)
  <2>1. p \in (hole + 5)..(hole + load_size(dlm) - 1)
    BY <1>2, <1>3
  <2> QED BY <1>2, <1>3, <2>1, JumpsEncodable, Zenon
<1>5. ASSUME NEW p \in pinned[n].start..(pinned[n].end - 4)
      PROVE  StaticRefFits(Long(f - (p + 4)))
  <2>1. p \in hole..(hole + load_size(dlm) - 4)
    BY <1>2, <1>3
  <2> QED BY <1>2, <1>3, <2>1, ReferencesFit, Zenon
<1> QED BY <1>4, <1>5, Zenon
==============================================================================
