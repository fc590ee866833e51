---------------------------- MODULE InputsProofs ----------------------------
(***************************************************************************)
(* Proofs about Inputs, for any questions.                                 *)
(***************************************************************************)
EXTENDS Inputs, FiniteSetTheorems, SequenceTheorems, TLAPS

(* The addresses that are not global, as intervals: all of IPv6 outside of *)
(* 2000::/3, and in it 2001::/23, 2001:db8::/32 and 2002::/16.             *)
At(a, b, c) == a * 65536 + b * 256 + c

ReservedV4(n) ==
    \/ At(0, 0, 0) <= n /\ n < At(1, 0, 0)
    \/ At(10, 0, 0) <= n /\ n < At(11, 0, 0)
    \/ At(100, 64, 0) <= n /\ n < At(100, 128, 0)
    \/ At(127, 0, 0) <= n /\ n < At(128, 0, 0)
    \/ At(169, 254, 0) <= n /\ n < At(169, 255, 0)
    \/ At(172, 16, 0) <= n /\ n < At(172, 32, 0)
    \/ n = At(192, 0, 0) \/ n = At(192, 0, 2)
    \/ At(192, 168, 0) <= n /\ n < At(192, 169, 0)
    \/ At(198, 18, 0) <= n /\ n < At(198, 20, 0)
    \/ n = At(198, 51, 100) \/ n = At(203, 0, 113)
    \/ At(224, 0, 0) <= n

ReservedV6(n) ==
    \/ n < 134217728
    \/ 134234112 <= n /\ n < 134234240
    \/ n = 134234990
    \/ 134250496 <= n /\ n < 134266880
    \/ 268435456 <= n

LEMMA SizesOfNetworks ==
  Sizes = {1, 2, 4, 8, 16, 32, 64, 128, 256, 512, 1024, 2048, 4096, 8192, 16384, 32768,
           65536, 131072, 262144, 524288, 1048576, 2097152, 4194304, 8388608, 16777216,
           33554432, 67108864, 134217728, 268435456, 536870912, 1073741824}
BY SMT DEF Sizes

LEMMA UniverseOf ==
  /\ \A n \in Universe("ipv4") : n \in Nat /\ n <= 16777215
  /\ \A n \in Universe("ipv6") : n \in Nat /\ n <= 1073741823
<1>1. 2 ^ 24 - 1 = 16777215 /\ 2 ^ 30 - 1 = 1073741823
  BY SMT
<1>2. ASSUME NEW n \in Universe("ipv4") PROVE n \in Nat /\ n <= 16777215
  <2>1. n \in 0..(2 ^ 24 - 1)
    BY SMT DEF Universe
  <2> QED BY <1>1, <2>1, SMT
<1>3. ASSUME NEW n \in Universe("ipv6") PROVE n \in Nat /\ n <= 1073741823
  <2>1. n \in 0..(2 ^ 30 - 1)
    BY SMT DEF Universe
  <2> QED BY <1>1, <2>1, SMT
<1> QED BY <1>2, <1>3, SMT

LEMMA OctetsAt ==
  ASSUME NEW n \in Nat, NEW a \in Nat, NEW b \in Nat, NEW c \in Nat,
         b < 256, c < 256, n = a * 65536 + b * 256 + c
  PROVE  n \div 65536 = a /\ (n \div 256) % 256 = b /\ n % 256 = c
<1>1. n \div 65536 = a
  BY SMT
<1>2. (n \div 256) % 256 = b
  BY SMT
<1>3. n % 256 = c
  <2>1. a * 256 + b \in Nat /\ n = 256 * (a * 256 + b) + c
    BY SMT
  <2>2. ASSUME NEW q \in Nat, n = 256 * q + c PROVE n % 256 = c
    BY <2>2, SMT
  <2> QED BY <2>1, <2>2, SMT
<1> QED BY <1>1, <1>2, <1>3, SMT

AreOctets(n, a, b, c) == a < 256 /\ b < 256 /\ c < 256 /\ n = At(a, b, c)

LEMMA OctetsOf ==
  ASSUME NEW n \in Nat, n <= 16777215
  PROVE  \E a, b, c \in Nat : AreOctets(n, a, b, c)
<1>1. PICK a \in Nat : a = n \div 65536 /\ a < 256
  BY SMT
<1>2. PICK r \in Nat : r = n % 65536 /\ r < 65536
  BY SMT
<1>3. n % 65536 = n - 65536 * (n \div 65536)
  BY SMT
<1>4. n = a * 65536 + r
  BY <1>1, <1>2, <1>3, SMT
<1>5. PICK b \in Nat : b = r \div 256 /\ b < 256
  BY <1>2, SMT
<1>6. PICK c \in Nat : c = r % 256 /\ c < 256
  BY SMT
<1>7. r % 256 = r - 256 * (r \div 256)
  BY SMT
<1>8. r = b * 256 + c
  BY <1>5, <1>6, <1>7, SMT
<1>9. AreOctets(n, a, b, c)
  BY <1>1, <1>4, <1>5, <1>6, <1>8, SMT DEF AreOctets, At
<1> QED BY <1>9, SMT

LEMMA PrefixV4 ==
  ASSUME NEW size \in Sizes, NEW first \in Nat, NEW last \in Nat,
         last = first + size - 1, first % size = 0, last - first < 65536,
         last <= 16777215,
         ReservedV4(first), ReservedV4(last),
         NEW n \in Nat, first <= n, n <= last
  PROVE  ReservedV4(n)
BY SizesOfNetworks, SMT DEF ReservedV4, At

LEMMA PrefixV6 ==
  ASSUME NEW size \in Sizes, NEW first \in Nat, NEW last \in Nat,
         last = first + size - 1, first % size = 0, last - first < 8388608,
         ReservedV6(first), ReservedV6(last),
         NEW n \in Nat, first <= n, n <= last
  PROVE  ReservedV6(n)
BY SizesOfNetworks, SMT DEF ReservedV6

LEMMA GlobalV4Is ==
  ASSUME NEW n \in Nat, n <= 16777215
  PROVE  GlobalV4(n) <=> ~ReservedV4(n)
<1>1. PICK a \in Nat, b \in Nat, c \in Nat : AreOctets(n, a, b, c)
  BY OctetsOf, SMT
<1>2. n \div 65536 = a /\ (n \div 256) % 256 = b /\ n % 256 = c
  BY <1>1, OctetsAt, SMT DEF AreOctets, At
<1>3. GlobalV4(n) <=>
        ~ \/ a \in {0, 10, 127} \/ a >= 224
          \/ a = 172 /\ b \in 16..31
          \/ a = 192 /\ b = 168
          \/ a = 100 /\ b \in 64..127
          \/ a = 169 /\ b = 254
          \/ a = 192 /\ b = 0 /\ c \in {0, 2}
          \/ a = 198 /\ b = 51 /\ c = 100
          \/ a = 203 /\ b = 0 /\ c = 113
          \/ a = 198 /\ b \in {18, 19}
  BY <1>2, SMT DEF GlobalV4
<1> QED BY <1>1, <1>3, SMT DEF AreOctets, ReservedV4, At

LEMMA ReservedV4Is ==
  ASSUME NEW n \in Nat, n <= 16777215
  PROVE  ReservedV4(n) <=> \E network \in DefaultDenied : Within(network, "ipv4", n)
<1>1. Within(V4(0, 0, 0, 8), "ipv4", n) <=> At(0, 0, 0) <= n /\ n < At(1, 0, 0)
  BY SMT DEF Within, V4, Block, At
<1>2. Within(V4(10, 0, 0, 8), "ipv4", n) <=> At(10, 0, 0) <= n /\ n < At(11, 0, 0)
  BY SMT DEF Within, V4, Block, At
<1>3. Within(V4(100, 64, 0, 10), "ipv4", n) <=> At(100, 64, 0) <= n /\ n < At(100, 128, 0)
  BY SMT DEF Within, V4, Block, At
<1>4. Within(V4(127, 0, 0, 8), "ipv4", n) <=> At(127, 0, 0) <= n /\ n < At(128, 0, 0)
  BY SMT DEF Within, V4, Block, At
<1>5. Within(V4(169, 254, 0, 16), "ipv4", n) <=> At(169, 254, 0) <= n /\ n < At(169, 255, 0)
  BY SMT DEF Within, V4, Block, At
<1>6. Within(V4(172, 16, 0, 12), "ipv4", n) <=> At(172, 16, 0) <= n /\ n < At(172, 32, 0)
  BY SMT DEF Within, V4, Block, At
<1>7. Within(V4(192, 0, 0, 24), "ipv4", n) <=> At(192, 0, 0) <= n /\ n < At(192, 0, 1)
  BY SMT DEF Within, V4, Block, At
<1>8. Within(V4(192, 0, 2, 24), "ipv4", n) <=> At(192, 0, 2) <= n /\ n < At(192, 0, 3)
  BY SMT DEF Within, V4, Block, At
<1>9. Within(V4(192, 168, 0, 16), "ipv4", n) <=> At(192, 168, 0) <= n /\ n < At(192, 169, 0)
  BY SMT DEF Within, V4, Block, At
<1>10. Within(V4(198, 18, 0, 15), "ipv4", n) <=> At(198, 18, 0) <= n /\ n < At(198, 20, 0)
  BY SMT DEF Within, V4, Block, At
<1>11. Within(V4(198, 51, 100, 24), "ipv4", n) <=> At(198, 51, 100) <= n /\ n < At(198, 51, 101)
  BY SMT DEF Within, V4, Block, At
<1>12. Within(V4(203, 0, 113, 24), "ipv4", n) <=> At(203, 0, 113) <= n /\ n < At(203, 0, 114)
  BY SMT DEF Within, V4, Block, At
<1>13. Within(V4(224, 0, 0, 4), "ipv4", n) <=> At(224, 0, 0) <= n /\ n < At(240, 0, 0)
  BY SMT DEF Within, V4, Block, At
<1>14. Within(V4(240, 0, 0, 4), "ipv4", n) <=> At(240, 0, 0) <= n /\ n < At(256, 0, 0)
  BY SMT DEF Within, V4, Block, At
<1>15. \A a, b, c : ~Within(V6(a, b, c), "ipv4", n)
  BY SMT DEF Within, V6, Block
<1>16. (\E network \in DefaultDenied : Within(network, "ipv4", n)) <=>
         \/ Within(V4(0, 0, 0, 8), "ipv4", n)
         \/ Within(V4(10, 0, 0, 8), "ipv4", n)
         \/ Within(V4(100, 64, 0, 10), "ipv4", n)
         \/ Within(V4(127, 0, 0, 8), "ipv4", n)
         \/ Within(V4(169, 254, 0, 16), "ipv4", n)
         \/ Within(V4(172, 16, 0, 12), "ipv4", n)
         \/ Within(V4(192, 0, 0, 24), "ipv4", n)
         \/ Within(V4(192, 0, 2, 24), "ipv4", n)
         \/ Within(V4(192, 168, 0, 16), "ipv4", n)
         \/ Within(V4(198, 18, 0, 15), "ipv4", n)
         \/ Within(V4(198, 51, 100, 24), "ipv4", n)
         \/ Within(V4(203, 0, 113, 24), "ipv4", n)
         \/ Within(V4(224, 0, 0, 4), "ipv4", n)
         \/ Within(V4(240, 0, 0, 4), "ipv4", n)
  BY <1>15, SMT DEF DefaultDenied, NullAndLoopback, Documentation
<1> QED BY <1>1, <1>2, <1>3, <1>4, <1>5, <1>6, <1>7, <1>8, <1>9, <1>10, <1>11, <1>12, <1>13, <1>14, <1>16, SMT DEF ReservedV4, At

LEMMA ReservedV6Is ==
  ASSUME NEW n \in Nat, n <= 1073741823
  PROVE  /\ GlobalV6(n) <=> ~ReservedV6(n)
         /\ ReservedV6(n) <=> \/ \E network \in DefaultDenied : Within(network, "ipv6", n)
                             \/ IsUnnamed("ipv6", n)
<1>1. Within(NullAndLoopback, "ipv6", n) <=> 0 <= n /\ n < 1
  <2>1. 2 ^ 0 = 1
    BY SMT
  <2>2. NullAndLoopback.family = "ipv6" /\ NullAndLoopback.first = 0 /\ NullAndLoopback.last = 0
    BY <2>1, SMT DEF V6, Block, NullAndLoopback
  <2> QED BY <2>2, SMT DEF Within
<1>2. Within(V6(64512, 0, 7), "ipv6", n) <=> 1056964608 <= n /\ n < 1065353216
  <2>1. 2 ^ 23 = 8388608
    BY SMT
  <2>2. V6(64512, 0, 7).family = "ipv6" /\ V6(64512, 0, 7).first = 1056964608 /\ V6(64512, 0, 7).last = 1065353215
    BY <2>1, SMT DEF V6, Block
  <2> QED BY <2>2, SMT DEF Within
<1>3. Within(V6(65152, 0, 10), "ipv6", n) <=> 1067450368 <= n /\ n < 1068498944
  <2>1. 2 ^ 20 = 1048576
    BY SMT
  <2>2. V6(65152, 0, 10).family = "ipv6" /\ V6(65152, 0, 10).first = 1067450368 /\ V6(65152, 0, 10).last = 1068498943
    BY <2>1, SMT DEF V6, Block
  <2> QED BY <2>2, SMT DEF Within
<1>4. Within(V6(65280, 0, 8), "ipv6", n) <=> 1069547520 <= n /\ n < 1073741824
  <2>1. 2 ^ 22 = 4194304
    BY SMT
  <2>2. V6(65280, 0, 8).family = "ipv6" /\ V6(65280, 0, 8).first = 1069547520 /\ V6(65280, 0, 8).last = 1073741823
    BY <2>1, SMT DEF V6, Block
  <2> QED BY <2>2, SMT DEF Within
<1>5. Within(Documentation, "ipv6", n) <=> 134234990 <= n /\ n < 134234991
  <2>1. 2 ^ 0 = 1
    BY SMT
  <2>2. Documentation.family = "ipv6" /\ Documentation.first = 134234990 /\ Documentation.last = 134234990
    BY <2>1, SMT DEF V6, Block, Documentation
  <2> QED BY <2>2, SMT DEF Within
<1>6. Within(V6(8194, 0, 16), "ipv6", n) <=> 134250496 <= n /\ n < 134266880
  <2>1. 2 ^ 14 = 16384
    BY SMT
  <2>2. V6(8194, 0, 16).family = "ipv6" /\ V6(8194, 0, 16).first = 134250496 /\ V6(8194, 0, 16).last = 134266879
    BY <2>1, SMT DEF V6, Block
  <2> QED BY <2>2, SMT DEF Within
<1>7. Within(ProtocolAssignments, "ipv6", n) <=> 134234112 <= n /\ n < 134234240
  <2>1. 2 ^ 7 = 128
    BY SMT
  <2>2. ProtocolAssignments.family = "ipv6" /\ ProtocolAssignments.first = 134234112 /\ ProtocolAssignments.last = 134234239
    BY <2>1, SMT DEF V6, Block, ProtocolAssignments
  <2> QED BY <2>2, SMT DEF Within
<1>8. Within(V6(16384, 0, 2), "ipv6", n) <=> 268435456 <= n /\ n < 536870912
  <2>1. 2 ^ 28 = 268435456
    BY SMT
  <2>2. V6(16384, 0, 2).family = "ipv6" /\ V6(16384, 0, 2).first = 268435456 /\ V6(16384, 0, 2).last = 536870911
    BY <2>1, SMT DEF V6, Block
  <2> QED BY <2>2, SMT DEF Within
<1>9. Within(V6(32768, 0, 2), "ipv6", n) <=> 536870912 <= n /\ n < 805306368
  <2>1. 2 ^ 28 = 268435456
    BY SMT
  <2>2. V6(32768, 0, 2).family = "ipv6" /\ V6(32768, 0, 2).first = 536870912 /\ V6(32768, 0, 2).last = 805306367
    BY <2>1, SMT DEF V6, Block
  <2> QED BY <2>2, SMT DEF Within
<1>10. Within(V6(49152, 0, 3), "ipv6", n) <=> 805306368 <= n /\ n < 939524096
  <2>1. 2 ^ 27 = 134217728
    BY SMT
  <2>2. V6(49152, 0, 3).family = "ipv6" /\ V6(49152, 0, 3).first = 805306368 /\ V6(49152, 0, 3).last = 939524095
    BY <2>1, SMT DEF V6, Block
  <2> QED BY <2>2, SMT DEF Within
<1>11. Within(V6(57344, 0, 4), "ipv6", n) <=> 939524096 <= n /\ n < 1006632960
  <2>1. 2 ^ 26 = 67108864
    BY SMT
  <2>2. V6(57344, 0, 4).family = "ipv6" /\ V6(57344, 0, 4).first = 939524096 /\ V6(57344, 0, 4).last = 1006632959
    BY <2>1, SMT DEF V6, Block
  <2> QED BY <2>2, SMT DEF Within
<1>12. Within(V6(61440, 0, 5), "ipv6", n) <=> 1006632960 <= n /\ n < 1040187392
  <2>1. 2 ^ 25 = 33554432
    BY SMT
  <2>2. V6(61440, 0, 5).family = "ipv6" /\ V6(61440, 0, 5).first = 1006632960 /\ V6(61440, 0, 5).last = 1040187391
    BY <2>1, SMT DEF V6, Block
  <2> QED BY <2>2, SMT DEF Within
<1>13. Within(V6(63488, 0, 6), "ipv6", n) <=> 1040187392 <= n /\ n < 1056964608
  <2>1. 2 ^ 24 = 16777216
    BY SMT
  <2>2. V6(63488, 0, 6).family = "ipv6" /\ V6(63488, 0, 6).first = 1040187392 /\ V6(63488, 0, 6).last = 1056964607
    BY <2>1, SMT DEF V6, Block
  <2> QED BY <2>2, SMT DEF Within
<1>14. Within(V6(65024, 0, 9), "ipv6", n) <=> 1065353216 <= n /\ n < 1067450368
  <2>1. 2 ^ 21 = 2097152
    BY SMT
  <2>2. V6(65024, 0, 9).family = "ipv6" /\ V6(65024, 0, 9).first = 1065353216 /\ V6(65024, 0, 9).last = 1067450367
    BY <2>1, SMT DEF V6, Block
  <2> QED BY <2>2, SMT DEF Within
<1>15. Within(V6(65216, 0, 10), "ipv6", n) <=> 1068498944 <= n /\ n < 1069547520
  <2>1. 2 ^ 20 = 1048576
    BY SMT
  <2>2. V6(65216, 0, 10).family = "ipv6" /\ V6(65216, 0, 10).first = 1068498944 /\ V6(65216, 0, 10).last = 1069547519
    BY <2>1, SMT DEF V6, Block
  <2> QED BY <2>2, SMT DEF Within
<1>16. Within(Unicast, "ipv6", n) <=> 134217728 <= n /\ n < 268435456
  <2>1. 2 ^ 27 = 134217728
    BY SMT
  <2> QED BY <2>1, SMT DEF Within, V6, Block, Unicast
<1>17. Within(Block("ipv6", 1, 2 ^ 27 - 1), "ipv6", n) <=> 1 <= n /\ n < 134217728
  <2>1. 2 ^ 27 = 134217728
    BY SMT
  <2> QED BY <2>1, SMT DEF Within, Block
<1>18. \A a, b, c, d : ~Within(V4(a, b, c, d), "ipv6", n)
  BY SMT DEF Within, V4, Block
<1>19. (\E network \in DefaultDenied : Within(network, "ipv6", n)) <=>
         \/ Within(NullAndLoopback, "ipv6", n)
         \/ Within(V6(64512, 0, 7), "ipv6", n)
         \/ Within(V6(65152, 0, 10), "ipv6", n)
         \/ Within(V6(65280, 0, 8), "ipv6", n)
         \/ Within(Documentation, "ipv6", n)
         \/ Within(V6(8194, 0, 16), "ipv6", n)
  BY <1>18, SMT DEF DefaultDenied
<1>20. IsUnnamed("ipv6", n) <=>
         \/ Within(Block("ipv6", 1, 2 ^ 27 - 1), "ipv6", n)
         \/ Within(ProtocolAssignments, "ipv6", n)
         \/ Within(V6(16384, 0, 2), "ipv6", n)
         \/ Within(V6(32768, 0, 2), "ipv6", n)
         \/ Within(V6(49152, 0, 3), "ipv6", n)
         \/ Within(V6(57344, 0, 4), "ipv6", n)
         \/ Within(V6(61440, 0, 5), "ipv6", n)
         \/ Within(V6(63488, 0, 6), "ipv6", n)
         \/ Within(V6(65024, 0, 9), "ipv6", n)
         \/ Within(V6(65216, 0, 10), "ipv6", n)
  BY SMT DEF IsUnnamed, Unnamed
<1>21. GlobalV6(n) <=> /\ Within(Unicast, "ipv6", n)
                      /\ ~Within(Documentation, "ipv6", n)
                      /\ ~Within(V6(8194, 0, 16), "ipv6", n)
                      /\ ~Within(ProtocolAssignments, "ipv6", n)
  BY SMT DEF GlobalV6
<1>22. GlobalV6(n) <=> ~ReservedV6(n)
  BY <1>5, <1>6, <1>7, <1>16, <1>21, SMT DEF ReservedV6
<1>23. ReservedV6(n) <=> \/ \E network \in DefaultDenied : Within(network, "ipv6", n)
                        \/ IsUnnamed("ipv6", n)
  BY <1>1, <1>2, <1>3, <1>4, <1>5, <1>6, <1>7, <1>8, <1>9, <1>10, <1>11, <1>12, <1>13, <1>14, <1>15, <1>17, <1>19, <1>20,
     SMT DEF ReservedV6
<1> QED BY <1>22, <1>23

-----------------------------------------------------------------------------
(* The answers of a policy.                                                  *)

IsInterval(n) == n.family \in Families /\ n.first \in Int /\ n.last \in Int

LEMMA NetworkType ==
  ASSUME NEW n, n.family \in Families, IsRange(n)
  PROVE  /\ IsInterval(n) /\ n.first \in Nat /\ n.last \in Nat
         /\ n.family = "ipv4" => n.last <= 16777215
         /\ n.family = "ipv6" => n.last <= 1073741823
BY UniverseOf, SMT DEF IsRange, IsInterval, Families

LEMMA GlobalIs ==
  ASSUME NEW family \in Families, NEW n \in Nat,
         family = "ipv4" => n <= 16777215, family = "ipv6" => n <= 1073741823
  PROVE  /\ Global(family, n) <=> IF family = "ipv4" THEN ~ReservedV4(n) ELSE ~ReservedV6(n)
         /\ Global(family, n) \/ IsUnnamed(family, n)
              \/ \E network \in DefaultDenied : Within(network, family, n)
<1>1. CASE family = "ipv4"
  BY <1>1, GlobalV4Is, ReservedV4Is, SMT DEF Global
<1>2. CASE family = "ipv6"
  BY <1>2, ReservedV6Is, SMT DEF Global
<1> QED BY <1>1, <1>2, SMT DEF Families

(* A network whose two ends are not global, and which is as small as         *)
(* entirely_non_global() asks, has no global address.                        *)
LEMMA NonGlobalEnds ==
  ASSUME NEW p, p.family \in Families, IsNetwork(p), EntirelyNonGlobal(p),
         NEW n \in p.first..p.last
  PROVE  ~Global(p.family, n)
<1>1. /\ p.first \in Nat /\ p.last \in Nat /\ n \in Nat /\ p.first <= n /\ n <= p.last
      /\ p.family = "ipv4" => p.first <= 16777215 /\ n <= 16777215 /\ p.last <= 16777215
      /\ p.family = "ipv6" => p.first <= 1073741823 /\ n <= 1073741823 /\ p.last <= 1073741823
  BY NetworkType, SMT DEF IsNetwork
<1>2. PICK size \in Sizes : p.last = p.first + size - 1 /\ p.first % size = 0
  BY SMT DEF IsNetwork
<1>3. ~Global(p.family, p.first) /\ ~Global(p.family, p.last)
  BY SMT DEF EntirelyNonGlobal
<1>4. CASE p.family = "ipv4"
  <2>1. 2 ^ 16 = 65536
    BY SMT
  <2>2. p.last - p.first < 65536
    BY <1>4, <2>1, SMT DEF EntirelyNonGlobal
  <2>3. ReservedV4(p.first) /\ ReservedV4(p.last)
    BY <1>1, <1>3, <1>4, GlobalIs, SMT
  <2>4. ReservedV4(n)
    BY <1>1, <1>2, <1>4, <2>2, <2>3, PrefixV4, SMT
  <2> QED BY <1>1, <1>4, <2>4, GlobalIs, SMT
<1>5. CASE p.family = "ipv6"
  <2>1. 2 ^ 23 = 8388608
    BY SMT
  <2>2. p.last - p.first < 8388608
    BY <1>5, <2>1, SMT DEF EntirelyNonGlobal
  <2>3. ReservedV6(p.first) /\ ReservedV6(p.last)
    BY <1>1, <1>3, <1>5, GlobalIs, SMT
  <2>4. ReservedV6(n)
    BY <1>1, <1>2, <1>5, <2>2, <2>3, PrefixV6, SMT
  <2> QED BY <1>1, <1>5, <2>4, GlobalIs, SMT
<1> QED BY <1>4, <1>5, SMT DEF Families

(* Two intervals that share an address overlap at the first of one of them.  *)
LEMMA SharedOverlaps ==
  ASSUME NEW a, IsInterval(a), NEW b, IsInterval(b), NEW n \in Int,
         Within(a, b.family, n), n \in b.first..b.last
  PROVE  Overlap(a, b)
BY SMT DEF Overlap, Within, IsInterval

LEMMA ContainedWithin ==
  ASSUME NEW a, IsInterval(a), NEW b, IsInterval(b), ContainsNetwork(a, b),
         NEW n \in b.first..b.last
  PROVE  Within(a, b.family, n)
BY SMT DEF ContainsNetwork, Within, IsInterval

LEMMA SharedOverlapsRange ==
  ASSUME NEW a, IsInterval(a), NEW range, range.start \in Int, range.end \in Int,
         NEW n \in range.start..range.end, Within(a, range.family, n)
  PROVE  OverlapsRange(a, range)
BY SMT DEF OverlapsRange, Within, SameFamily, IsInterval

AreNetworks(roles) ==
  \A role \in roles : \A n \in role.allow \cup role.deny : n.family \in Families /\ IsNetwork(n)

LEMMA PrefixOfAllowed ==
  ASSUME NEW roles, AreNetworks(roles),
         NEW p, p.family \in Families, IsNetwork(p),
         NEW n \in p.first..p.last, AuthorizeDestination(roles, p.family, n)
  PROVE  AuthorizePrefix(roles, p)
<1>1. PICK role \in roles : DestinationAllowed(role, p.family, n)
  BY DEF AuthorizeDestination
<1>2. IsInterval(p) /\ n \in Int
  BY NetworkType, SMT DEF IsNetwork, IsInterval
<1>3. \A network \in role.allow \cup role.deny : IsInterval(network)
  BY NetworkType DEF AreNetworks, IsNetwork
<1>4. \E network \in role.allow : Overlap(network, p)
  BY <1>1, <1>2, <1>3, SharedOverlaps DEF DestinationAllowed
<1>5. ~\E network \in role.deny : ContainsNetwork(network, p)
  BY <1>1, <1>2, <1>3, ContainedWithin DEF DestinationAllowed
<1>6. ~(role.denyPrivate /\ EntirelyNonGlobal(p))
  BY <1>1, NonGlobalEnds DEF DestinationAllowed
<1> QED BY <1>4, <1>5, <1>6 DEF AuthorizePrefix

LEMMA DeniedIntervals == \A network \in DefaultDenied : IsInterval(network)
BY SMT DEF DefaultDenied, V4, V6, NullAndLoopback, Documentation, Block, IsInterval, Families

(* What stands in the way of an address of a range that is granted is only   *)
(* that its role denies private ones, which the default list does not name.  *)
UnnamedOnly(roles, family, n) ==
  /\ IsUnnamed(family, n) /\ ~Global(family, n)
  /\ \E role \in roles : role.denyPrivate /\ AllowsButPrivate(role, family, n)

LEMMA RangeOfAllowed ==
  ASSUME NEW roles, AreNetworks(roles),
         NEW range, range.family \in Families, range.start \in Nat, range.end \in Nat,
         range.family = "ipv4" => range.end <= 16777215,
         range.family = "ipv6" => range.end <= 1073741823,
         AuthorizeRange(roles, range), NEW n \in range.start..range.end
  PROVE  AuthorizeDestination(roles, range.family, n) \/ UnnamedOnly(roles, range.family, n)
<1>1. PICK role \in roles :
        /\ \E network \in role.allow : /\ Within(network, range.family, range.start)
                                       /\ Within(network, range.family, range.end)
        /\ ~\E network \in role.deny : OverlapsRange(network, range)
        /\ role.denyPrivate => ~\E network \in DefaultDenied : OverlapsRange(network, range)
  BY DEF AuthorizeRange
<1>2. \A network \in role.allow \cup role.deny : IsInterval(network)
  BY NetworkType DEF AreNetworks, IsNetwork
<1>3. \E network \in role.allow : Within(network, range.family, n)
  BY <1>1, <1>2, SMT DEF Within, IsInterval
<1>4. ~\E network \in role.deny : Within(network, range.family, n)
  BY <1>1, <1>2, SharedOverlapsRange
<1>5. role.denyPrivate => Global(range.family, n) \/ IsUnnamed(range.family, n)
  <2>1. role.denyPrivate => ~\E network \in DefaultDenied : Within(network, range.family, n)
    BY <1>1, DeniedIntervals, SharedOverlapsRange
  <2>2. n \in Nat /\ (range.family = "ipv4" => n <= 16777215)
                  /\ (range.family = "ipv6" => n <= 1073741823)
    BY SMT
  <2> QED BY <2>1, <2>2, GlobalIs, SMT
<1>6. CASE role.denyPrivate => Global(range.family, n)
  BY <1>3, <1>4, <1>6 DEF AuthorizeDestination, DestinationAllowed
<1>7. CASE role.denyPrivate /\ ~Global(range.family, n)
  <2> DEFINE open == [allow |-> role.allow, deny |-> role.deny, denyPrivate |-> FALSE]
  <2>1. open.allow = role.allow /\ open.deny = role.deny /\ ~open.denyPrivate
    BY SMT
  <2>2. AllowsButPrivate(role, range.family, n)
    <3> HIDE DEF open
    <3>1. DestinationAllowed(open, range.family, n)
      BY <1>3, <1>4, <2>1 DEF DestinationAllowed
    <3> QED BY <3>1 DEF AllowsButPrivate, open
  <2> QED BY <1>5, <1>7, <2>2 DEF UnnamedOnly
<1> QED BY <1>6, <1>7

-----------------------------------------------------------------------------
(* Sequences of ranges (capsule/route.rs).                                   *)
AreRanges(ranges) == ranges \in Seq([family : Families, start : Nat, end : Nat, protocol : 0..255])

LEMMA RangeType ==
  ASSUME NEW ranges, AreRanges(ranges)
  PROVE  /\ Len(ranges) \in Nat /\ DOMAIN ranges = 1..Len(ranges)
         /\ \A i \in 1..Len(ranges) :
              /\ ranges[i].family \in Families /\ ranges[i].protocol \in Nat
              /\ ranges[i].start \in Nat /\ ranges[i].end \in Nat
<1> DEFINE Type == [family : Families, start : Nat, end : Nat, protocol : 0..255]
<1>1. ranges \in Seq(Type)
  BY DEF AreRanges
<1>2. \A range \in Type : /\ range.family \in Families /\ range.protocol \in Nat
                          /\ range.start \in Nat /\ range.end \in Nat
  BY SMT
<1> HIDE DEF Type
<1>3. /\ Len(ranges) \in Nat /\ DOMAIN ranges = 1..Len(ranges)
      /\ \A i \in 1..Len(ranges) : ranges[i] \in Type
  BY <1>1, SMT
<1> QED BY <1>2, <1>3

(* The order of keys, component by component.                                *)
LEMMA KeyOrder ==
  ASSUME NEW a, NEW b, a.family \in Families, b.family \in Families
  PROVE  NotAfter(Key(a), Key(b)) <=>
           \/ a.family = "ipv4" /\ b.family = "ipv6"
           \/ a.family = b.family /\ a.protocol < b.protocol
           \/ a.family = b.family /\ a.protocol = b.protocol /\ a.start <= b.start
BY SMT DEF NotAfter, Key, Version, Families

LEMMA NeighboursInOrder ==
  ASSUME NEW a, NEW b, a.family \in Families, b.family \in Families,
         a.protocol \in Nat, b.protocol \in Nat, a.start \in Nat, b.start \in Nat
  PROVE  InOrder(a, b) <=> NotAfter(Key(a), Key(b))
BY KeyOrder, SMT DEF InOrder, SameFamily, Version, Families

LEMMA KeyTransitive ==
  ASSUME NEW a, NEW b, NEW c,
         \A r \in {a, b, c} : r.family \in Families /\ r.protocol \in Nat /\ r.start \in Nat,
         NotAfter(Key(a), Key(b)), NotAfter(Key(b), Key(c))
  PROVE  /\ NotAfter(Key(a), Key(c))
         /\ SameFamily(a, c) /\ a.protocol = c.protocol =>
              SameFamily(a, b) /\ a.protocol = b.protocol
BY KeyOrder, SMT DEF SameFamily, Families

LEMMA ConflictSymmetric ==
  ASSUME NEW a, NEW b PROVE Conflict(a, b) <=> Conflict(b, a)
BY DEF Conflict, SharesAddress, SameFamily

(* A set of naturals that is not empty has a least member: the finite sets   *)
(* below its members are well founded by inclusion.                          *)
LEMMA LeastNumber ==
  ASSUME NEW S \in SUBSET Nat, S # {}
  PROVE  \E n \in S : \A m \in S : n <= m
<1> DEFINE below == {0..(n - 1) : n \in S}
<1>1. \A n \in Nat : IsFiniteSet(0..(n - 1)) /\ 0..(n - 1) \in SUBSET Nat
  BY FS_Interval
<1>2. below \subseteq FiniteSubsetsOf(Nat) /\ below # {}
  BY <1>1 DEF FiniteSubsetsOf
<1>3. IsWellFoundedOn(StrictSubsetOrdering(Nat), FiniteSubsetsOf(Nat))
  BY FS_StrictSubsetOrderingWellFounded
<1> HIDE DEF below
<1>4. PICK x \in below : \A y \in below : <<y, x>> \notin StrictSubsetOrdering(Nat)
  BY <1>2, <1>3, WFMin
<1>5. PICK n \in S : x = 0..(n - 1)
  BY DEF below
<1>6. ASSUME NEW m \in S, m < n PROVE FALSE
  <2>1. 0..(m - 1) \in below /\ 0..(m - 1) \subseteq x /\ m \in x /\ m \notin 0..(m - 1)
    BY <1>5, <1>6 DEF below
  <2>2. <<0..(m - 1), x>> \in StrictSubsetOrdering(Nat)
    BY <1>2, <2>1 DEF StrictSubsetOrdering, FiniteSubsetsOf
  <2> QED BY <1>4, <2>1, <2>2
<1> QED BY <1>6

Apart(a, b) ==
  /\ NotAfter(Key(a), Key(b))
  /\ SameFamily(a, b) /\ a.protocol = b.protocol => a.end < b.start

(* What holds of every neighbour holds of every pair: of the ranges behind   *)
(* the i-th that it is not apart from, the first has a neighbour that is.    *)
LEMMA AllPairsApart ==
  ASSUME NEW ranges, AreRanges(ranges), RangesValid(ranges),
         NEW i \in DOMAIN ranges, NEW j \in DOMAIN ranges, i < j
  PROVE  Apart(ranges[i], ranges[j])
<1> DEFINE bad == {k \in (i + 1)..Len(ranges) : ~Apart(ranges[i], ranges[k])}
<1>1. /\ Len(ranges) \in Nat /\ i \in 1..Len(ranges) /\ j \in (i + 1)..Len(ranges)
      /\ DOMAIN ranges = 1..Len(ranges)
      /\ \A k \in 1..Len(ranges) :
              /\ ranges[k].family \in Families /\ ranges[k].protocol \in Nat
              /\ ranges[k].start \in Nat /\ ranges[k].end \in Nat
  BY RangeType
<1>2. \A k \in 1..Len(ranges) : ranges[k].start <= ranges[k].end
  BY <1>1 DEF RangesValid
<1>3. ASSUME NEW k \in 1..(Len(ranges) - 1)
      PROVE  Apart(ranges[k], ranges[k + 1])
  <2> DEFINE pair == <<ranges[k], ranges[k + 1]>>
  <2>1. pair \in Adjacent(ranges)
    BY DEF Adjacent
  <2>2. /\ InOrder(pair[1], pair[2])
        /\ SameFamily(pair[1], pair[2]) /\ pair[1].protocol = pair[2].protocol
              => pair[1].end < pair[2].start
    BY <2>1 DEF RangesValid
  <2>3. k \in 1..Len(ranges) /\ k + 1 \in 1..Len(ranges)
    BY <1>1
  <2>4. NotAfter(Key(ranges[k]), Key(ranges[k + 1]))
    BY <1>1, <2>2, <2>3, NeighboursInOrder
  <2> QED BY <2>2, <2>4 DEF Apart
<1>4. SUFFICES ASSUME bad # {} PROVE FALSE
  BY <1>1
<1>5. bad \in SUBSET Nat
  BY <1>1
<1>6. PICK k \in bad : \A m \in bad : k <= m
  BY <1>4, <1>5, LeastNumber
<1>7. k \in (i + 1)..Len(ranges) /\ ~Apart(ranges[i], ranges[k])
  BY <1>6
<1>8. CASE k = i + 1
  BY <1>1, <1>3, <1>7, <1>8
<1>9. CASE k # i + 1
  <2>1. k - 1 \in (i + 1)..Len(ranges) /\ k - 1 \in 1..(Len(ranges) - 1) /\ k - 1 + 1 = k
    BY <1>1, <1>7, <1>9
  <2>2. k - 1 \notin bad
    BY <1>6, <1>5, <2>1
  <2>3. Apart(ranges[i], ranges[k - 1]) /\ Apart(ranges[k - 1], ranges[k])
    BY <1>3, <2>1, <2>2
  <2>4. NotAfter(Key(ranges[i]), Key(ranges[k - 1])) /\ NotAfter(Key(ranges[k - 1]), Key(ranges[k]))
    BY <2>3 DEF Apart
  <2>5. /\ NotAfter(Key(ranges[i]), Key(ranges[k]))
        /\ SameFamily(ranges[i], ranges[k]) /\ ranges[i].protocol = ranges[k].protocol =>
              SameFamily(ranges[i], ranges[k - 1]) /\ ranges[i].protocol = ranges[k - 1].protocol
    <3> DEFINE a == ranges[i]
               b == ranges[k - 1]
               c == ranges[k]
    <3>1. \A r \in {a, b, c} : r.family \in Families /\ r.protocol \in Nat /\ r.start \in Nat
      <4>1. i \in 1..Len(ranges) /\ k - 1 \in 1..Len(ranges) /\ k \in 1..Len(ranges)
        BY <1>1, <1>7, <2>1
      <4> QED BY <1>1, <4>1
    <3>2. NotAfter(Key(a), Key(b)) /\ NotAfter(Key(b), Key(c))
      BY <2>4
    <3> HIDE DEF a, b, c
    <3>3. /\ NotAfter(Key(a), Key(c))
          /\ SameFamily(a, c) /\ a.protocol = c.protocol
                => SameFamily(a, b) /\ a.protocol = b.protocol
      BY <3>1, <3>2, KeyTransitive
    <3> QED BY <3>3 DEF a, b, c
  <2>6. ASSUME SameFamily(ranges[i], ranges[k]), ranges[i].protocol = ranges[k].protocol
        PROVE  ranges[i].end < ranges[k].start
    <3>1. /\ SameFamily(ranges[i], ranges[k - 1]) /\ ranges[i].protocol = ranges[k - 1].protocol
          /\ SameFamily(ranges[k - 1], ranges[k]) /\ ranges[k - 1].protocol = ranges[k].protocol
      BY <2>5, <2>6 DEF SameFamily
    <3>2. ranges[i].end < ranges[k - 1].start /\ ranges[k - 1].end < ranges[k].start
      BY <2>3, <3>1 DEF Apart
    <3>3. /\ ranges[i].end \in Nat /\ ranges[k].start \in Nat
          /\ ranges[k - 1].start \in Nat /\ ranges[k - 1].end \in Nat
          /\ ranges[k - 1].start <= ranges[k - 1].end
      <4>1. i \in 1..Len(ranges) /\ k - 1 \in 1..Len(ranges) /\ k \in 1..Len(ranges)
        BY <1>1, <1>7, <2>1
      <4> QED BY <1>1, <1>2, <4>1
    <3> DEFINE first == ranges[i].end
               from == ranges[k - 1].start
               to == ranges[k - 1].end
               second == ranges[k].start
    <3>4. /\ first < from /\ from <= to /\ to < second
          /\ first \in Nat /\ from \in Nat /\ to \in Nat /\ second \in Nat
      BY <3>2, <3>3
    <3> HIDE DEF first, from, to, second
    <3>5. first < second
      BY <3>4
    <3> QED BY <3>5 DEF first, second
  <2> QED BY <1>7, <2>5, <2>6 DEF Apart
<1> QED BY <1>8, <1>9

(* The wildcard range that a range shares an address with is found, though   *)
(* only the first that reaches it is looked at.                              *)
LEMMA WildcardFound ==
  ASSUME NEW ranges, AreRanges(ranges), RangesValid(ranges),
         NEW w \in DOMAIN ranges, NEW r \in DOMAIN ranges,
         ranges[w].protocol = 0, SharesAddress(ranges[w], ranges[r])
  PROVE  WildcardMeets(ranges, ranges[r])
<1> DEFINE range == ranges[r]
           wild == Wildcards(ranges, range.family)
           reaching == {i \in wild : ranges[i].end >= range.start}
<1>1. /\ Len(ranges) \in Nat /\ DOMAIN ranges = 1..Len(ranges)
      /\ \A k \in 1..Len(ranges) :
              /\ ranges[k].family \in Families /\ ranges[k].protocol \in Nat
              /\ ranges[k].start \in Nat /\ ranges[k].end \in Nat
  BY RangeType
<1>2. /\ ranges[w].family = range.family
      /\ ranges[w].start <= range.end /\ range.start <= ranges[w].end
  BY DEF SharesAddress, SameFamily
<1>3. w \in wild /\ w \in reaching
  BY <1>1, <1>2 DEF Wildcards
<1>4. wild \subseteq DOMAIN ranges /\ \A i \in wild : ranges[i].family = range.family /\ ranges[i].protocol = 0
  BY DEF Wildcards
<1> HIDE DEF wild
<1>5. reaching \in SUBSET Nat /\ reaching # {}
  BY <1>1, <1>3, <1>4
<1>6. PICK u \in reaching : \A m \in reaching : u <= m
  BY <1>5, LeastNumber
<1>7. u \in wild /\ ranges[u].end >= range.start
  BY <1>6
<1>8. ASSUME NEW j \in wild, j < u PROVE ranges[j].end < range.start
  BY <1>1, <1>4, <1>5, <1>6, <1>8
<1>9. ranges[u].start <= range.end
  <2>1. CASE u = w
    BY <1>2, <2>1
  <2>2. CASE u # w
    <3>1. u < w
      BY <1>1, <1>3, <1>4, <1>6, <2>2
    <3>2. Apart(ranges[u], ranges[w])
      BY <1>4, <1>7, <3>1, AllPairsApart
    <3>3. ranges[u].end < ranges[w].start
      BY <1>2, <1>4, <1>7, <3>2 DEF Apart, SameFamily
    <3>4. ranges[u].start <= ranges[u].end
      BY <1>4, <1>7 DEF RangesValid
    <3> QED BY <1>1, <1>2, <1>4, <1>7, <3>3, <3>4
  <2> QED BY <2>1, <2>2
<1> QED BY <1>7, <1>8, <1>9 DEF WildcardMeets, wild

LEMMA ValidIsLawful ==
  ASSUME NEW ranges, AreRanges(ranges), RangesValid(ranges)
  PROVE  Lawful(ranges)
<1>1. /\ DOMAIN ranges = 1..Len(ranges)
      /\ \A k \in 1..Len(ranges) :
              /\ ranges[k].family \in Families /\ ranges[k].protocol \in Nat
              /\ ranges[k].start \in Nat /\ ranges[k].end \in Nat
  BY RangeType
<1>2. ASSUME NEW i \in DOMAIN ranges, NEW j \in DOMAIN ranges, i < j
      PROVE  NotAfter(Key(ranges[i]), Key(ranges[j])) /\ ~Conflict(ranges[i], ranges[j])
  <2>1. Apart(ranges[i], ranges[j])
    BY <1>2, AllPairsApart
  <2>2. SUFFICES ASSUME Conflict(ranges[i], ranges[j]) PROVE FALSE
    BY <2>1 DEF Apart
  <2>3. CASE ranges[i].protocol = ranges[j].protocol
    <3>1. ranges[i].end < ranges[j].start /\ ranges[j].start <= ranges[i].end
      BY <2>1, <2>2, <2>3 DEF Apart, Conflict, SharesAddress
    <3> QED BY <1>1, <3>1
  <2>4. CASE ranges[i].protocol = 0 /\ ranges[j].protocol # 0
    <3>1. WildcardMeets(ranges, ranges[j])
      BY <2>2, <2>4, WildcardFound DEF Conflict
    <3> QED BY <2>4, <3>1 DEF RangesValid
  <2>5. CASE ranges[j].protocol = 0 /\ ranges[i].protocol # 0
    <3>1. SharesAddress(ranges[j], ranges[i])
      BY <2>2 DEF Conflict, SharesAddress, SameFamily
    <3>2. WildcardMeets(ranges, ranges[i])
      BY <2>5, <3>1, WildcardFound
    <3> QED BY <2>5, <3>2 DEF RangesValid
  <2> QED BY <2>2, <2>3, <2>4, <2>5 DEF Conflict
<1>3. \A i \in DOMAIN ranges : ranges[i].start <= ranges[i].end
  BY DEF RangesValid
<1> QED BY <1>2, <1>3 DEF Lawful

LEMMA LawfulIsValid ==
  ASSUME NEW ranges, AreRanges(ranges), Lawful(ranges)
  PROVE  RangesValid(ranges)
<1>1. /\ Len(ranges) \in Nat /\ DOMAIN ranges = 1..Len(ranges)
      /\ \A k \in 1..Len(ranges) :
              /\ ranges[k].family \in Families /\ ranges[k].protocol \in Nat
              /\ ranges[k].start \in Nat /\ ranges[k].end \in Nat
  BY RangeType
<1>2. /\ \A i \in DOMAIN ranges : ranges[i].start <= ranges[i].end
      /\ \A i, j \in DOMAIN ranges : i < j =>
           NotAfter(Key(ranges[i]), Key(ranges[j])) /\ ~Conflict(ranges[i], ranges[j])
  BY DEF Lawful
<1>3. ASSUME NEW pair \in Adjacent(ranges)
      PROVE  /\ InOrder(pair[1], pair[2])
             /\ SameFamily(pair[1], pair[2]) /\ pair[1].protocol = pair[2].protocol
                   => pair[1].end < pair[2].start
  <2>1. PICK k \in 1..(Len(ranges) - 1) : pair = <<ranges[k], ranges[k + 1]>>
    BY DEF Adjacent
  <2>2. k \in DOMAIN ranges /\ k + 1 \in DOMAIN ranges /\ k < k + 1
    BY <1>1
  <2> DEFINE a == ranges[k]
             b == ranges[k + 1]
  <2>3. NotAfter(Key(a), Key(b)) /\ ~Conflict(a, b) /\ b.start <= b.end
    BY <1>2, <2>2
  <2>4. /\ a.family \in Families /\ a.protocol \in Nat /\ a.start \in Nat /\ a.end \in Nat
        /\ b.family \in Families /\ b.protocol \in Nat /\ b.start \in Nat /\ b.end \in Nat
    BY <1>1, <2>2
  <2>5. pair[1] = a /\ pair[2] = b
    BY <2>1
  <2> HIDE DEF a, b
  <2>6. InOrder(a, b)
    BY <2>3, <2>4, NeighboursInOrder
  <2>7. ASSUME SameFamily(a, b), a.protocol = b.protocol PROVE a.end < b.start
    <3>1. a.start <= b.start
      BY <2>6, <2>7 DEF InOrder
    <3>2. ~(a.start <= b.end /\ b.start <= a.end)
      BY <2>3, <2>7 DEF Conflict, SharesAddress
    <3> QED BY <2>3, <2>4, <3>1, <3>2
  <2> QED BY <2>5, <2>6, <2>7
<1>4. ASSUME NEW r \in DOMAIN ranges, ranges[r].protocol # 0, WildcardMeets(ranges, ranges[r])
      PROVE  FALSE
  <2>1. PICK w \in Wildcards(ranges, ranges[r].family) :
          ranges[w].end >= ranges[r].start /\ ranges[w].start <= ranges[r].end
    BY <1>4 DEF WildcardMeets
  <2>2. /\ w \in DOMAIN ranges /\ ranges[w].family = ranges[r].family /\ ranges[w].protocol = 0
        /\ w # r
    BY <1>4 DEF Wildcards
  <2>3. Conflict(ranges[w], ranges[r])
    BY <1>1, <2>1, <2>2 DEF Conflict, SharesAddress, SameFamily
  <2>4. w < r \/ r < w
    BY <1>1, <2>2
  <2> QED BY <1>2, <2>2, <2>3, <2>4, ConflictSymmetric
<1> QED BY <1>2, <1>3, <1>4 DEF RangesValid

-----------------------------------------------------------------------------
(* The order of an advertisement (proxy/ip_scope.rs).                        *)
AllOneProtocol(ranges) ==
  /\ IsFiniteSet(ranges)
  /\ \E protocol \in Nat : \A r \in ranges :
        r \in [family : Families, start : Nat, end : Nat, protocol : {protocol}]

LEMMA BeforeOrders ==
  ASSUME NEW ranges, AllOneProtocol(ranges), NEW a \in ranges, NEW b \in ranges
  PROVE  /\ ~Before(a, a)
         /\ a # b => Before(a, b) \/ Before(b, a)
         /\ \A c \in ranges : Before(c, a) /\ Before(a, b) => Before(c, b)
<1>1. PICK protocol \in Nat : \A r \in ranges :
        r \in [family : Families, start : Nat, end : Nat, protocol : {protocol}]
  BY DEF AllOneProtocol
<1>2. ~Before(a, a)
  BY <1>1, SMT DEF Before, SameFamily, Version, Families
<1>3. a # b => Before(a, b) \/ Before(b, a)
  BY <1>1, SMT DEF Before, SameFamily, Version, Families
<1>4. ASSUME NEW c \in ranges, Before(c, a), Before(a, b) PROVE Before(c, b)
  BY <1>1, <1>4, SMT DEF Before, SameFamily, Version, Families
<1> QED BY <1>2, <1>3, <1>4

(* Each range has a place of its own, and every place has a range.           *)
LEMMA SortedIs ==
  ASSUME NEW ranges, AllOneProtocol(ranges)
  PROVE  LET s == Sorted(ranges)
         IN /\ Cardinality(ranges) \in Nat
            /\ s \in [1..Cardinality(ranges) -> ranges]
            /\ \A r \in ranges : \E i \in DOMAIN s : s[i] = r
            /\ \A i, j \in DOMAIN s : i < j => Before(s[i], s[j])
<1> DEFINE s == Sorted(ranges)
           n == Cardinality(ranges)
           Earlier(r) == {q \in ranges : Before(q, r)}
           rank == [r \in ranges |-> Cardinality(Earlier(r))]
<1>1. IsFiniteSet(ranges) /\ n \in Nat
  BY FS_CardinalityType DEF AllOneProtocol
<1>2. ASSUME NEW r \in ranges
      PROVE  IsFiniteSet(Earlier(r)) /\ rank[r] \in Nat /\ rank[r] < n
  <2>1. Earlier(r) \subseteq ranges /\ r \notin Earlier(r)
    BY BeforeOrders
  <2>2. /\ IsFiniteSet(Earlier(r)) /\ Cardinality(Earlier(r)) <= n
        /\ Cardinality(Earlier(r)) # n
    BY <1>1, <2>1, FS_Subset
  <2>3. Cardinality(Earlier(r)) \in Nat
    BY <2>2, FS_CardinalityType
  <2> HIDE DEF Earlier
  <2> QED BY <1>1, <2>2, <2>3
<1>3. ASSUME NEW a \in ranges, NEW b \in ranges, Before(a, b) PROVE rank[a] < rank[b]
  <2>1. Earlier(a) \subseteq Earlier(b) /\ a \in Earlier(b) /\ a \notin Earlier(a)
    BY <1>3, BeforeOrders
  <2>2. Cardinality(Earlier(a)) <= Cardinality(Earlier(b)) /\ Cardinality(Earlier(a)) # Cardinality(Earlier(b))
    BY <1>2, <2>1, FS_Subset
  <2>3. rank[a] = Cardinality(Earlier(a)) /\ rank[b] = Cardinality(Earlier(b))
    OBVIOUS
  <2> HIDE DEF rank, Earlier
  <2> QED BY <1>2, <2>2, <2>3
<1> HIDE DEF n
<1>4. rank \in [ranges -> 0..(n - 1)]
  <2> HIDE DEF Earlier
  <2>1. \A r \in ranges : Cardinality(Earlier(r)) \in 0..(n - 1)
    BY <1>1, <1>2
  <2> QED BY <2>1
<1>5. ASSUME NEW a \in ranges, NEW b \in ranges, rank[a] = rank[b] PROVE a = b
  <2> HIDE DEF rank, Earlier
  <2>1. ~Before(a, b) /\ ~Before(b, a)
    BY <1>2, <1>3, <1>5
  <2> QED BY <2>1, BeforeOrders
<1>6. rank \in Surjection(ranges, 0..(n - 1))
  <2>1. rank \in Injection(ranges, 0..(n - 1))
    BY <1>4, <1>5 DEF Injection, IsInjective
  <2>2. IsFiniteSet(0..(n - 1)) /\ Cardinality(0..(n - 1)) = n
    BY <1>1, FS_Interval
  <2> HIDE DEF rank
  <2> QED BY <2>1, <2>2, FS_Injection DEF n
<1>7. \A k \in 0..(n - 1) : \E r \in ranges : rank[r] = k
  BY <1>6 DEF Surjection
<1> DEFINE Place(i) == CHOOSE r \in ranges : Cardinality(Earlier(r)) = i - 1
<1>8. s = [i \in 1..n |-> Place(i)]
  BY DEF Sorted, n
<1> HIDE DEF s
<1>9. ASSUME NEW i \in 1..n PROVE s[i] \in ranges /\ rank[s[i]] = i - 1
  <2>1. i - 1 \in 0..(n - 1)
    BY <1>1
  <2>2. \E r \in ranges : Cardinality(Earlier(r)) = i - 1
    BY <1>7, <2>1
  <2> HIDE DEF Earlier
  <2>3. Place(i) \in ranges /\ Cardinality(Earlier(Place(i))) = i - 1
    BY <2>2
  <2> HIDE DEF Place
  <2>4. s[i] = Place(i)
    BY <1>8
  <2> QED BY <2>3, <2>4
<1> HIDE DEF Place
<1>10. ASSUME NEW r \in ranges PROVE \E i \in DOMAIN s : s[i] = r
  <2> HIDE DEF rank, Earlier
  <2> DEFINE i == rank[r] + 1
  <2>1. rank[r] \in Nat /\ rank[r] < n
    BY <1>2
  <2>2. i \in 1..n /\ i - 1 = rank[r]
    BY <1>1, <2>1
  <2> HIDE DEF i
  <2>3. s[i] \in ranges /\ rank[s[i]] = rank[r]
    BY <1>9, <2>2
  <2> QED BY <1>5, <1>8, <2>2, <2>3
<1>11. ASSUME NEW i \in DOMAIN s, NEW j \in DOMAIN s, i < j PROVE Before(s[i], s[j])
  <2> HIDE DEF rank, Earlier
  <2>1. /\ i \in Int /\ j \in Int /\ s[i] \in ranges /\ s[j] \in ranges
        /\ rank[s[i]] = i - 1 /\ rank[s[j]] = j - 1
    BY <1>1, <1>8, <1>9
  <2>2. s[i] # s[j] /\ ~(rank[s[j]] < rank[s[i]])
    BY <1>11, <2>1
  <2> QED BY <1>3, <2>1, <2>2, BeforeOrders
<1>12. s \in [1..n -> ranges]
  BY <1>8, <1>9
<1> QED BY <1>1, <1>10, <1>11, <1>12 DEF s, n

(* Configured routes that were accepted are apart, neighbours or not         *)
(* (validate.rs).                                                            *)
AreRoutes(routes) ==
  /\ routes \in Seq([family : Families, first : Nat, last : Nat])
  /\ \A i \in DOMAIN routes : IsBlock(routes[i])

Disjoint(a, b) == SameFamily(a, b) => a.last < b.first \/ b.last < a.first

LEMMA BlockType ==
  ASSUME NEW n, IsBlock(n)
  PROVE  n.family \in Families /\ n.first \in Nat /\ n.last \in Nat /\ n.first <= n.last
BY DEF IsBlock

LEMMA RoutesApart ==
  ASSUME NEW routes, AreRoutes(routes), AdvertiseRoutesValid(routes),
         NEW i \in DOMAIN routes, NEW j \in DOMAIN routes, i < j
  PROVE  SameFamily(routes[i], routes[j]) => routes[i].last < routes[j].first
<1> DEFINE Fit(k) == /\ Version(routes[i].family) <= Version(routes[k].family)
                     /\ SameFamily(routes[i], routes[k]) => routes[i].last < routes[k].first
           bad == {k \in (i + 1)..Len(routes) : ~Fit(k)}
<1>1. /\ Len(routes) \in Nat /\ DOMAIN routes = 1..Len(routes)
      /\ i \in 1..Len(routes) /\ j \in (i + 1)..Len(routes)
  <2> DEFINE Type == [family : Families, first : Nat, last : Nat]
  <2>1. routes \in Seq(Type)
    BY DEF AreRoutes
  <2> HIDE DEF Type
  <2> QED BY <2>1, SMT
<1>2. \A k \in 1..Len(routes) :
        /\ routes[k].family \in Families /\ routes[k].first \in Nat /\ routes[k].last \in Nat
        /\ routes[k].first <= routes[k].last
  BY <1>1, BlockType DEF AreRoutes
<1>3. ASSUME NEW k \in 1..(Len(routes) - 1)
      PROVE  /\ Version(routes[k].family) <= Version(routes[k + 1].family)
             /\ SameFamily(routes[k], routes[k + 1]) => routes[k].last < routes[k + 1].first
  <2> DEFINE pair == <<routes[k], routes[k + 1]>>
  <2>1. pair \in Adjacent(routes)
    BY DEF Adjacent
  <2> QED BY <2>1 DEF AdvertiseRoutesValid
<1>4. SUFFICES ASSUME bad # {} PROVE FALSE
  BY <1>1
<1>5. bad \in SUBSET Nat
  BY <1>1
<1>6. PICK k \in bad : \A m \in bad : k <= m
  BY <1>4, <1>5, LeastNumber
<1>7. k \in (i + 1)..Len(routes) /\ ~Fit(k)
  BY <1>6
<1>8. CASE k = i + 1
  <2>1. i \in 1..(Len(routes) - 1)
    BY <1>1, <1>7, <1>8
  <2> QED BY <1>3, <1>7, <1>8, <2>1
<1>9. CASE k # i + 1
  <2> DEFINE m == k - 1
             a == routes[i]
             b == routes[m]
             c == routes[k]
  <2>1. m \in (i + 1)..Len(routes) /\ m \in 1..(Len(routes) - 1) /\ m + 1 = k /\ m < k
    BY <1>1, <1>7, <1>9
  <2>2. m \notin bad
    <3> HIDE DEF bad, m
    <3>1. m \in Int /\ k \in Int
      BY <1>1, <1>7, <2>1
    <3> QED BY <1>6, <2>1, <3>1
  <2>3. Fit(m)
    BY <2>1, <2>2
  <2>4. /\ Version(b.family) <= Version(c.family)
        /\ SameFamily(b, c) => b.last < c.first
    <3> HIDE DEF m
    <3>1. m \in 1..(Len(routes) - 1) /\ m + 1 = k
      BY <2>1
    <3> QED BY <1>3, <3>1
  <2>5. /\ Version(a.family) <= Version(b.family)
        /\ SameFamily(a, b) => a.last < b.first
    BY <2>3
  <2>6. /\ a.family \in Families /\ b.family \in Families /\ c.family \in Families
        /\ a.last \in Nat /\ b.first \in Nat /\ b.last \in Nat /\ c.first \in Nat
        /\ b.first <= b.last
    <3>1. i \in 1..Len(routes) /\ m \in 1..Len(routes) /\ k \in 1..Len(routes)
      BY <1>1, <1>7, <2>1
    <3> HIDE DEF m
    <3> QED BY <1>2, <3>1
  <2> HIDE DEF m, a, b, c
  <2>7. /\ Version(a.family) <= Version(c.family)
        /\ SameFamily(a, c) => a.last < c.first
    BY <2>4, <2>5, <2>6, SMT DEF SameFamily, Version, Families
  <2> QED BY <1>7, <2>7 DEF a, c
<1> QED BY <1>8, <1>9

(* What is advertised of a scope: blocks, finitely many, apart.              *)
LEMMA AdvertisedIs ==
  ASSUME NEW q, RoutesQuestion(q)
  PROVE  LET A == Advertised(q.scope, q.configured)
         IN /\ AreRoutes(q.configured)
            /\ q.scope.kind = "any" => A = ToSet(q.configured)
            /\ q.scope.kind = "prefix" =>
                 A = UNION {Intersection(q.scope.target, q.configured[i]) : i \in DOMAIN q.configured}
            /\ q.scope.kind = "resolved" => A = q.scope.target
            /\ q.scope.kind \in {"any", "prefix", "resolved"}
<1>1. q.scope.kind \in {"any", "prefix", "resolved"}
  BY DEF RoutesQuestion
<1>2. AreRoutes(q.configured)
  BY DEF RoutesQuestion, AreRoutes
<1>3. CASE q.scope.kind = "any"
  BY <1>2, <1>3 DEF Advertised
<1>4. CASE q.scope.kind = "prefix"
  BY <1>2, <1>4 DEF Advertised
<1>5. CASE q.scope.kind = "resolved"
  BY <1>2, <1>5 DEF Advertised
<1> QED BY <1>1, <1>3, <1>4, <1>5

(* An intersection is one of the two networks, and inside the route.         *)
LEMMA IntersectionIs ==
  ASSUME NEW target, NEW route, IsBlock(target), IsBlock(route), Nest(target, route),
         NEW x \in Intersection(target, route)
  PROVE  /\ x = target \/ x = route
         /\ Intersection(target, route) = {x}
         /\ Inside(x, route)
<1>1. /\ target.family \in Families /\ target.first \in Nat /\ target.last \in Nat
      /\ route.family \in Families /\ route.first \in Nat /\ route.last \in Nat
      /\ target.first <= target.last /\ route.first <= route.last
  BY BlockType
<1>2. SameFamily(target, route)
  BY DEF Intersection
<1>3. CASE Within(target, route.family, route.first)
  <2>1. Intersection(target, route) = {route}
    BY <1>2, <1>3 DEF Intersection
  <2> QED BY <1>1, <2>1, SMT DEF Inside, SameFamily
<1>4. CASE ~Within(target, route.family, route.first)
  <2>1. Intersection(target, route) = {target} /\ Within(route, target.family, target.first)
    BY <1>2, <1>4 DEF Intersection
  <2>2. Inside(target, route)
    BY <1>1, <1>2, <1>4, <2>1, SMT DEF Nest, Inside, Within, SameFamily
  <2> QED BY <2>1, <2>2
<1> QED BY <1>3, <1>4

LEMMA AdvertisedApart ==
  ASSUME NEW q, RoutesQuestion(q), AdvertiseRoutesValid(q.configured)
  PROVE  LET A == Advertised(q.scope, q.configured)
         IN /\ IsFiniteSet(A) /\ \A a \in A : IsBlock(a)
            /\ \A a, b \in A : a # b => Disjoint(a, b)
<1> DEFINE c == q.configured
           target == q.scope.target
           A == Advertised(q.scope, c)
<1>1. /\ AreRoutes(c)
      /\ q.scope.kind = "any" => A = ToSet(c)
      /\ q.scope.kind = "prefix" => A = UNION {Intersection(target, c[i]) : i \in DOMAIN c}
      /\ q.scope.kind = "resolved" => A = target
      /\ q.scope.kind \in {"any", "prefix", "resolved"}
  BY AdvertisedIs
<1>2. /\ \A i \in DOMAIN c : IsBlock(c[i])
      /\ Len(c) \in Nat /\ DOMAIN c = 1..Len(c)
  <2> DEFINE Type == [family : Families, first : Nat, last : Nat]
  <2>1. c \in Seq(Type) /\ \A i \in DOMAIN c : IsBlock(c[i])
    BY <1>1 DEF AreRoutes
  <2> HIDE DEF Type, c
  <2> QED BY <2>1, SMT
<1>3. ASSUME NEW i \in DOMAIN c, NEW j \in DOMAIN c, i # j PROVE Disjoint(c[i], c[j])
  <2>1. i < j \/ j < i
    BY <1>2, <1>3
  <2> QED BY <1>1, <2>1, RoutesApart DEF Disjoint, SameFamily
<1>4. IsFiniteSet(ToSet(c))
  <2> HIDE DEF c
  <2>1. [i \in DOMAIN c |-> c[i]] \in Surjection(DOMAIN c, ToSet(c))
    BY DEF Surjection, ToSet
  <2>2. IsFiniteSet(DOMAIN c)
    BY <1>2, FS_Interval
  <2> QED BY <2>1, <2>2, FS_Surjection
<1> HIDE DEF c, A
<1>5. CASE q.scope.kind = "any"
  <2>1. A = ToSet(c)
    BY <1>1, <1>5
  <2>2. \A a \in A : \E i \in DOMAIN c : a = c[i]
    BY <2>1 DEF ToSet
  <2> QED BY <1>2, <1>3, <1>4, <2>1, <2>2 DEF A, c
<1>6. CASE q.scope.kind = "prefix"
  <2>1. A = UNION {Intersection(target, c[i]) : i \in DOMAIN c}
    BY <1>1, <1>6
  <2>2. IsBlock(target) /\ \A i \in DOMAIN c : Nest(target, c[i])
    BY <1>6 DEF RoutesQuestion, c
  <2> HIDE DEF target
  <2>3. \A a \in A : \E i \in DOMAIN c :
           /\ a = target \/ a = c[i]
           /\ Intersection(target, c[i]) = {a} /\ Inside(a, c[i])
    BY <1>2, <2>1, <2>2, IntersectionIs
  <2>4. A \subseteq ToSet(c) \cup {target}
    BY <2>3 DEF ToSet
  <2>5. IsFiniteSet(A)
    BY <1>4, <2>4, FS_AddElement, FS_Subset
  <2>6. \A a \in A : IsBlock(a)
    BY <1>2, <2>2, <2>3
  <2>7. ASSUME NEW a \in A, NEW b \in A, a # b PROVE Disjoint(a, b)
    <3>1. PICK i \in DOMAIN c : Intersection(target, c[i]) = {a} /\ Inside(a, c[i])
      BY <2>3
    <3>2. PICK j \in DOMAIN c : Intersection(target, c[j]) = {b} /\ Inside(b, c[j])
      BY <2>3
    <3>3. i # j
      BY <2>7, <3>1, <3>2
    <3>4. Disjoint(c[i], c[j])
      BY <1>3, <3>3
    <3>5. \A x \in {a, b, c[i], c[j]} : x.first \in Nat /\ x.last \in Nat
      BY <1>2, <2>6, BlockType
    <3> QED BY <3>1, <3>2, <3>4, <3>5 DEF Disjoint, Inside, SameFamily
  <2> QED BY <2>5, <2>6, <2>7 DEF A, c
<1>7. CASE q.scope.kind = "resolved"
  <2>1. A = target
    BY <1>1, <1>7
  <2>2. IsFiniteSet(target) /\ \A host \in target : IsBlock(host) /\ host.first = host.last
    BY <1>7 DEF RoutesQuestion
  <2>3. ASSUME NEW a \in A, NEW b \in A, a # b PROVE Disjoint(a, b)
    <3>1. /\ a \in [family : Families, first : Nat, last : Nat] /\ a.first = a.last
          /\ b \in [family : Families, first : Nat, last : Nat] /\ b.first = b.last
      BY <2>1, <2>2 DEF IsBlock
    <3> QED BY <2>3, <3>1, SMT DEF Disjoint, SameFamily
  <2> QED BY <2>1, <2>2, <2>3 DEF A, c
<1> QED BY <1>1, <1>5, <1>6, <1>7

(* An advertisement has one range for each block of the assigned families.   *)
RangeOf(n, protocol) == [family |-> n.family, start |-> n.first, end |-> n.last, protocol |-> protocol]

LEMMA AdvertisementIs ==
  ASSUME NEW q, RoutesQuestion(q), AdvertiseRoutesValid(q.configured)
  PROVE  LET adv == Advertisement(q.scope, q.configured, q.assigned)
             A   == Advertised(q.scope, q.configured)
         IN /\ AreRanges(adv)
            /\ \A i \in DOMAIN adv : \E a \in A :
                  a.family \in q.assigned /\ adv[i] = RangeOf(a, q.scope.protocol)
            /\ \A a \in A : a.family \in q.assigned =>
                  \E i \in DOMAIN adv : adv[i] = RangeOf(a, q.scope.protocol)
            /\ \A i, j \in DOMAIN adv : i < j => Before(adv[i], adv[j])
<1> DEFINE A == Advertised(q.scope, q.configured)
           protocol == q.scope.protocol
           networks == {n \in A : n.family \in q.assigned}
           ranges == {RangeOf(n, protocol) : n \in networks}
           adv == Advertisement(q.scope, q.configured, q.assigned)
           Type == [family : Families, start : Nat, end : Nat, protocol : 0..255]
<1>1. IsFiniteSet(A) /\ \A a \in A : IsBlock(a)
  BY AdvertisedApart
<1>2. protocol \in 0..255
  BY DEF RoutesQuestion
<1>3. adv = Sorted(ranges)
  BY DEF Advertisement, RangeOf
<1> HIDE DEF A, protocol, adv
<1>4. IsFiniteSet(networks)
  BY <1>1, FS_Subset
<1>5. IsFiniteSet(ranges)
  <2> HIDE DEF networks
  <2>1. [n \in networks |-> RangeOf(n, protocol)] \in Surjection(networks, ranges)
    BY DEF Surjection
  <2> HIDE DEF ranges
  <2> QED BY <1>4, <2>1, FS_Surjection
<1>6. \A r \in ranges : r \in [family : Families, start : Nat, end : Nat, protocol : {protocol}]
  BY <1>1, BlockType DEF RangeOf
<1>7. AllOneProtocol(ranges)
  <2>1. protocol \in Nat
    BY <1>2
  <2> HIDE DEF ranges
  <2> QED BY <1>5, <1>6, <2>1 DEF AllOneProtocol
<1> HIDE DEF ranges
<1>8. /\ Cardinality(ranges) \in Nat /\ adv \in [1..Cardinality(ranges) -> ranges]
      /\ \A r \in ranges : \E i \in DOMAIN adv : adv[i] = r
      /\ \A i, j \in DOMAIN adv : i < j => Before(adv[i], adv[j])
  BY <1>3, <1>7, SortedIs
<1>9. AreRanges(adv)
  <2>1. \A r \in ranges : r \in Type
    BY <1>2, <1>6
  <2> HIDE DEF Type
  <2>2. adv \in [1..Cardinality(ranges) -> Type]
    BY <1>8, <2>1
  <2>3. adv \in Seq(Type)
    BY <1>8, <2>2
  <2> QED BY <2>3 DEF AreRanges, Type
<1>10. \A i \in DOMAIN adv : \E a \in A : a.family \in q.assigned /\ adv[i] = RangeOf(a, protocol)
  BY <1>8 DEF ranges
<1>11. \A a \in A : a.family \in q.assigned => \E i \in DOMAIN adv : adv[i] = RangeOf(a, protocol)
  <2> SUFFICES ASSUME NEW a \in A, a.family \in q.assigned
               PROVE  \E i \in DOMAIN adv : adv[i] = RangeOf(a, protocol)
    OBVIOUS
  <2>1. RangeOf(a, protocol) \in ranges
    BY DEF ranges
  <2> QED BY <1>8, <2>1
<1> QED BY <1>8, <1>9, <1>10, <1>11 DEF A, adv, protocol

LEMMA AdvertisementLawful ==
  ASSUME NEW q, RoutesQuestion(q), AdvertiseRoutesValid(q.configured)
  PROVE  LET adv == Advertisement(q.scope, q.configured, q.assigned)
         IN /\ Lawful(adv)
            /\ \A i, j \in DOMAIN adv : i # j => ~SharesAddress(adv[i], adv[j])
<1> DEFINE A == Advertised(q.scope, q.configured)
           protocol == q.scope.protocol
           adv == Advertisement(q.scope, q.configured, q.assigned)
<1>1. /\ AreRanges(adv)
      /\ \A i \in DOMAIN adv : \E a \in A :
            a.family \in q.assigned /\ adv[i] = RangeOf(a, protocol)
      /\ \A i, j \in DOMAIN adv : i < j => Before(adv[i], adv[j])
  BY AdvertisementIs
<1>2. (\A a \in A : IsBlock(a)) /\ \A a, b \in A : a # b => Disjoint(a, b)
  BY AdvertisedApart
<1>3. protocol \in 0..255
  BY DEF RoutesQuestion
<1> HIDE DEF A, protocol, adv
<1>4. DOMAIN adv = 1..Len(adv) /\ Len(adv) \in Nat
  BY <1>1, RangeType
<1>5. ASSUME NEW i \in DOMAIN adv, NEW j \in DOMAIN adv, Before(adv[i], adv[j])
      PROVE  NotAfter(Key(adv[i]), Key(adv[j])) /\ ~SharesAddress(adv[i], adv[j])
  <2>1. PICK a \in A : adv[i] = RangeOf(a, protocol)
    BY <1>1
  <2>2. PICK b \in A : adv[j] = RangeOf(b, protocol)
    BY <1>1
  <2>3. /\ a.family \in Families /\ a.first \in Nat /\ a.last \in Nat /\ a.first <= a.last
        /\ b.family \in Families /\ b.first \in Nat /\ b.last \in Nat /\ b.first <= b.last
    BY <1>2, BlockType
  <2> DEFINE r == RangeOf(a, protocol)
             t == RangeOf(b, protocol)
  <2>4. /\ r.family = a.family /\ r.start = a.first /\ r.end = a.last /\ r.protocol = protocol
        /\ t.family = b.family /\ t.start = b.first /\ t.end = b.last /\ t.protocol = protocol
    BY DEF RangeOf
  <2>5. Before(r, t)
    BY <1>5, <2>1, <2>2
  <2> HIDE DEF r, t
  <2>6. a # b
    <3> SUFFICES ASSUME a = b PROVE FALSE
      OBVIOUS
    <3> QED BY <2>3, <2>4, <2>5, SMT DEF Before, SameFamily, Version, Families
  <2>7. Disjoint(a, b)
    BY <1>2, <2>6
  <2>8. NotAfter(Key(r), Key(t))
    BY <1>3, <2>3, <2>4, <2>5, KeyOrder, SMT DEF Before, SameFamily, Version, Families
  <2>9. ~SharesAddress(r, t)
    BY <2>3, <2>4, <2>7, SMT DEF SharesAddress, Disjoint, SameFamily
  <2> QED BY <2>1, <2>2, <2>8, <2>9 DEF r, t
<1>6. ASSUME NEW i \in DOMAIN adv, NEW j \in DOMAIN adv, i # j
      PROVE  ~SharesAddress(adv[i], adv[j])
  <2>1. i < j \/ j < i
    BY <1>4, <1>6
  <2>2. ~SharesAddress(adv[i], adv[j]) \/ ~SharesAddress(adv[j], adv[i])
    BY <1>1, <1>5, <2>1
  <2> QED BY <2>2 DEF SharesAddress, SameFamily
<1>7. ASSUME NEW i \in DOMAIN adv PROVE adv[i].start <= adv[i].end
  <2>1. PICK a \in A : adv[i] = RangeOf(a, protocol)
    BY <1>1
  <2> QED BY <1>2, <2>1, BlockType DEF RangeOf
<1>8. Lawful(adv)
  BY <1>1, <1>5, <1>7 DEF Lawful, Conflict
<1> QED BY <1>6, <1>8 DEF adv

-----------------------------------------------------------------------------
(* Packets (packet/ipv4.rs, packet/ipv6.rs, proxy/ip.rs).                    *)

LEMMA LeastOfTwo ==
  ASSUME NEW a \in Int, NEW b \in Int
  PROVE  Min({a, b}) = IF a <= b THEN a ELSE b
BY SMT DEF Min

(* What the checks of the client's direction say together.                   *)
LEMMA FromClientOk ==
  ASSUME NEW s, NEW p
  PROVE  ValidateFromClient(s, p) = "ok" <=>
           /\ p.length \in 1..s.mtu /\ ParsesWhole(p) /\ Assigned(s, p.source)
           /\ MayReach(s, p.destination) /\ MayUse(s, p.protocol)
BY DEF ValidateFromClient, WellFormed, Check

(* And those of the other one, of a packet that is no ICMP error and of one  *)
(* that is.                                                                  *)
LEMMA FromTunOk ==
  ASSUME NEW s, NEW p, ~IsError(p)
  PROVE  SendFromTun(s, p) = "ok" <=>
           /\ p.length \in 1..s.mtu /\ ParsesWhole(p)
           /\ LeadsToClient(s, p.destination, p.protocol)
           /\ p.protocol \in Icmp => Payload(p) > 0
           /\ MayReach(s, p.source) /\ MayUse(s, p.protocol) /\ Decrements(p)
BY DEF SendFromTun, ValidateFromTun, ValidateReverse, WellFormed, Check

LEMMA ErrorFromTunOk ==
  ASSUME NEW s, NEW p, IsError(p)
  PROVE  SendFromTun(s, p) = "ok" <=>
           /\ p.length \in 1..s.mtu /\ ParsesWhole(p)
           /\ LeadsToClient(s, p.destination, p.protocol)
           /\ p.protocol \in Icmp => Payload(p) > 0
           /\ InvokingParses(p) /\ Assigned(s, p.body.about.source)
           /\ MayReach(s, p.body.about.destination) /\ MayUse(s, p.body.about.protocol)
           /\ Decrements(p)
BY DEF SendFromTun, ValidateFromTun, ValidateInvocation, WellFormed, Check

LEMMA PacketType ==
  ASSUME NEW p, IsPacket(p)
  PROVE  /\ p.family \in Families /\ p.length \in Nat /\ p.declared \in Nat /\ p.header \in Nat
         /\ p.protocol \in 0..255 /\ p.hop \in 0..255
         /\ p.source \in Addresses /\ p.destination \in Addresses
         /\ Len(p.extensions) \in Nat /\ DOMAIN p.extensions = 1..Len(p.extensions)
         /\ \A i \in 0..Len(p.extensions) : ExtensionEnd(p, i) \in Nat
         /\ HeaderEnd(p) \in Nat /\ p.header <= HeaderEnd(p)
         /\ \A i \in 0..Len(p.extensions) : ExtensionEnd(p, i) <= HeaderEnd(p)
         /\ Available(p) \in Nat /\ Available(p) <= p.length /\ Available(p) <= p.declared
         /\ Available(p) \in {p.length, p.declared}
<1> DEFINE End == [type : STRING, end : Nat]
           Ends == Seq(End)
<1>1. p \in [family : Families, length : Nat, declared : Nat, header : Nat,
             extensions : Ends, protocol : 0..255, hop : 0..255,
             source : Addresses, destination : Addresses, body : {p.body}]
  BY DEF IsPacket
<1> HIDE DEF Ends
<1>2. /\ p.family \in Families /\ p.length \in Nat /\ p.declared \in Nat /\ p.header \in Nat
      /\ p.protocol \in 0..255 /\ p.hop \in 0..255
      /\ p.source \in Addresses /\ p.destination \in Addresses /\ p.extensions \in Ends
  BY <1>1
<1>3. /\ Len(p.extensions) \in Nat /\ DOMAIN p.extensions = 1..Len(p.extensions)
      /\ \A i \in 1..Len(p.extensions) : p.extensions[i].end \in Nat
  <2>1. \A e \in End : e.end \in Nat
    BY SMT
  <2> HIDE DEF End
  <2>2. /\ Len(p.extensions) \in Nat /\ DOMAIN p.extensions = 1..Len(p.extensions)
        /\ \A i \in 1..Len(p.extensions) : p.extensions[i] \in End
    BY <1>2, SMT DEF Ends
  <2> QED BY <2>1, <2>2
<1>4. \A i \in 0..Len(p.extensions) : ExtensionEnd(p, i) \in Nat
  BY <1>2, <1>3, SMT DEF ExtensionEnd
<1>5. \A i, j \in 0..Len(p.extensions) : i <= j => ExtensionEnd(p, i) <= ExtensionEnd(p, j)
  BY DEF IsPacket
<1>6. /\ HeaderEnd(p) \in Nat
      /\ \A i \in 0..Len(p.extensions) : ExtensionEnd(p, i) <= HeaderEnd(p)
  BY <1>3, <1>4, <1>5, SMT DEF HeaderEnd
<1>7. p.header <= HeaderEnd(p)
  BY <1>3, <1>6, SMT DEF ExtensionEnd
<1>8. Available(p) = IF p.length <= p.declared THEN p.length ELSE p.declared
  BY <1>2, LeastOfTwo DEF Available
<1>9. /\ Available(p) \in Nat /\ Available(p) <= p.length /\ Available(p) <= p.declared
      /\ Available(p) \in {p.length, p.declared}
  BY <1>2, <1>8, SMT
<1> HIDE DEF Ends, End
<1> QED BY <1>2, <1>3, <1>4, <1>6, <1>7, <1>9

(* An answer has the headers of what it answers, and is no ICMP error.       *)
LEMMA AnswerIs ==
  ASSUME NEW p, IsPacket(p)
  PROVE  LET a == AnswerTo(p)
         IN /\ a.length = p.length /\ a.protocol = p.protocol /\ a.hop = 64
            /\ a.source = p.destination /\ a.destination = p.source
            /\ ParsesWhole(a) <=> ParsesWhole(p)
            /\ Payload(a) = Payload(p) /\ ~IsError(a)
<1> DEFINE a == AnswerTo(p)
           fields == [family : Families, length : Nat, declared : Nat, header : Nat,
                      extensions : Seq([type : STRING, end : Nat]), protocol : 0..255, hop : 0..255,
                      source : Addresses, destination : Addresses, body : {p.body}]
<1>1. p \in fields
  BY DEF IsPacket
<1>2. /\ a.family = p.family /\ a.length = p.length /\ a.declared = p.declared
      /\ a.header = p.header /\ a.extensions = p.extensions /\ a.protocol = p.protocol
      /\ a.source = p.destination /\ a.destination = p.source /\ a.hop = 64
      /\ a.body = [kind |-> IF p.protocol \in Icmp THEN "message" ELSE "data"]
  BY <1>1 DEF AnswerTo
<1> HIDE DEF a, fields
<1>3. a.body.kind # "error"
  BY <1>2
<1>4. /\ Available(a) = Available(p) /\ HeaderEnd(a) = HeaderEnd(p)
      /\ \A i : ExtensionEnd(a, i) = ExtensionEnd(p, i)
  BY <1>2 DEF Available, HeaderEnd, ExtensionEnd
<1>5. ExtensionsParse(a) <=> ExtensionsParse(p)
  BY <1>2, <1>4 DEF ExtensionsParse
<1>6. ParsesWhole(a) <=> ParsesWhole(p)
  BY <1>2, <1>5 DEF ParsesWhole, ParsesPrefix
<1>7. Payload(a) = Payload(p)
  BY <1>4 DEF Payload
<1> QED BY <1>2, <1>3, <1>6, <1>7 DEF a, IsError

(* A packet without extension headers whose header has no options.           *)
LEMMA PlainParses ==
  ASSUME NEW e, e.family \in Families, e.length \in Nat, e.declared = e.length,
         e.header = FixedHeader(e.family), e.extensions = <<>>, e.length >= e.header
  PROVE  ParsesWhole(e) /\ Payload(e) = e.length - FixedHeader(e.family)
<1>1. HeaderEnd(e) = e.header
  BY SMT DEF HeaderEnd, ExtensionEnd
<1>2. Available(e) = e.length
  BY LeastOfTwo, SMT DEF Available
<1>3. ExtensionsParse(e)
  BY SMT DEF ExtensionsParse, MaxExtensionHeaders
<1>4. e.header \in FixedHeader(e.family)..60
  BY SMT DEF FixedHeader, Families
<1> QED BY <1>1, <1>2, <1>3, <1>4, SMT DEF ParsesWhole, ParsesPrefix, Payload

(* An ICMP error that quotes `quote` bytes of a packet that parses is whole; *)
(* and the packet parses from the quote, when its headers are in it.         *)
LEMMA ErrorIs ==
  ASSUME NEW p, IsPacket(p), ParsesPrefix(p), NEW e, NEW quote \in Nat,
         e.family = p.family, e.length = FixedHeader(p.family) + 8 + quote,
         e.declared = e.length, e.header = FixedHeader(p.family), e.extensions = <<>>,
         e.protocol = IF p.family = "ipv4" THEN 1 ELSE 58,
         e.body = [kind |-> "error", about |-> p],
         quote <= p.length, quote = Available(p) \/ quote >= HeaderEnd(p), quote > 0
  PROVE  /\ ParsesWhole(e) /\ IsError(e) /\ Payload(e) = quote + 8 /\ InvokingParses(e)
         /\ Invoking(e).source = p.source
<1> DEFINE q == Invoking(e)
<1>1. /\ FixedHeader(p.family) \in {20, 40} /\ p.family \in Families
  BY PacketType, SMT DEF FixedHeader
<1>2. ParsesWhole(e) /\ Payload(e) = quote + 8
  BY <1>1, PlainParses, SMT
<1>3. IsError(e)
  BY <1>1, SMT DEF IsError, Icmp, Families
<1>4. q = [p EXCEPT !.length = quote]
  <2>1. Payload(e) - 8 = quote /\ p.length \in Nat
    BY <1>2, PacketType, SMT
  <2>2. Min({p.length, quote}) = IF p.length <= quote THEN p.length ELSE quote
    BY <2>1, LeastOfTwo
  <2>3. Min({p.length, quote}) = quote
    BY <2>1, <2>2, SMT
  <2>4. e.body.about = p
    OBVIOUS
  <2>5. q = [p EXCEPT !.length = Min({p.length, quote})]
    BY <2>1, <2>4 DEF Invoking
  <2> QED BY <2>3, <2>5
<1> HIDE DEF q
<1>5. /\ q.family = p.family /\ q.length = quote /\ q.declared = p.declared
      /\ q.header = p.header /\ q.extensions = p.extensions /\ q.source = p.source
  <2> DEFINE fields == [family : Families, length : Nat, declared : Nat, header : Nat,
                        extensions : Seq([type : STRING, end : Nat]), protocol : 0..255,
                        hop : 0..255, source : Addresses, destination : Addresses, body : {p.body}]
  <2>1. p \in fields
    BY DEF IsPacket
  <2> QED BY <1>4, <2>1
<1>6. /\ p.length \in Nat /\ p.declared \in Nat /\ p.header \in Nat /\ HeaderEnd(p) \in Nat
      /\ p.header <= HeaderEnd(p)
      /\ \A i \in 0..Len(p.extensions) : /\ ExtensionEnd(p, i) \in Nat
                                         /\ ExtensionEnd(p, i) <= HeaderEnd(p)
      /\ Available(p) \in Nat /\ Available(p) <= p.length /\ Available(p) <= p.declared
      /\ Available(p) \in {p.length, p.declared}
      /\ Len(p.extensions) \in Nat /\ DOMAIN p.extensions = 1..Len(p.extensions)
  BY PacketType
<1>7. /\ FixedHeader(p.family) <= p.header /\ p.header <= 60 /\ p.header <= p.length
      /\ p.declared >= p.header
  BY <1>1, <1>6, SMT DEF ParsesPrefix
<1>8. p.header <= quote
  BY <1>6, <1>7, SMT
<1>9. Available(q) = IF quote <= p.declared THEN quote ELSE p.declared
  BY <1>5, <1>6, LeastOfTwo DEF Available
<1>10. ASSUME p.family = "ipv6" PROVE ExtensionsParse(q)
  <2>1. ExtensionsParse(p)
    BY <1>10 DEF ParsesPrefix
  <2>2. \A i : ExtensionEnd(q, i) = ExtensionEnd(p, i)
    BY <1>5 DEF ExtensionEnd
  <2>3. ASSUME NEW i \in DOMAIN p.extensions PROVE ExtensionEnd(p, i) <= Available(q)
    <3>1. i \in 0..Len(p.extensions) /\ ExtensionEnd(p, i) <= Available(p)
      BY <1>6, <2>1 DEF ExtensionsParse
    <3>2. ExtensionEnd(p, i) \in Nat /\ ExtensionEnd(p, i) <= HeaderEnd(p)
      BY <1>6, <3>1
    <3> QED BY <1>6, <1>9, <3>1, <3>2, SMT
  <2> QED BY <1>5, <2>1, <2>2, <2>3 DEF ExtensionsParse
<1>11. ParsesPrefix(q)
  BY <1>1, <1>5, <1>6, <1>7, <1>8, <1>10, SMT DEF ParsesPrefix
<1>12. InvokingParses(e)
  BY <1>2, <1>11, SMT DEF InvokingParses, q
<1> QED BY <1>2, <1>3, <1>5, <1>12 DEF q

-----------------------------------------------------------------------------
(* What compile() makes of a document that is valid (compile.rs).            *)

LEMMA ListType ==
  ASSUME NEW s, IsList(s)
  PROVE  Len(s) \in Nat /\ DOMAIN s = 1..Len(s) /\ DOMAIN s \subseteq Nat
<1> DEFINE S == Range(s)
<1>1. s \in Seq(S)
  BY DEF IsList
<1> HIDE DEF S
<1> QED BY <1>1, SMT

(* A map has what the entry of a key that no other entry has says, and       *)
(* nothing that no entry says.                                               *)
LEMMA MapHas ==
  ASSUME NEW entries, DOMAIN entries \subseteq Nat, NEW i \in DOMAIN entries,
         \A j \in DOMAIN entries : entries[j].key = entries[i].key => j = i
  PROVE  /\ entries[i].key \in DOMAIN MapOf(entries)
         /\ MapOf(entries)[entries[i].key] = entries[i].value
<1> DEFINE k == entries[i].key
           Latest(j) == entries[j].key = k /\ \A m \in DOMAIN entries : m > j => entries[m].key # k
<1>1. k \in {e.key : e \in Range(entries)}
  BY DEF Range
<1>2. i \in DOMAIN entries /\ Latest(i)
  <2>1. ASSUME NEW m \in DOMAIN entries, m > i, entries[m].key = k PROVE FALSE
    <3>1. m = i /\ i \in Nat
      BY <2>1
    <3> QED BY <2>1, <3>1
  <2> QED BY <2>1
<1>3. (CHOOSE j \in DOMAIN entries : Latest(j)) = i
  BY <1>2
<1> QED BY <1>1, <1>3 DEF MapOf

LEMMA MapOnlyHas ==
  ASSUME NEW entries, NEW k \in DOMAIN MapOf(entries)
  PROVE  \E i \in DOMAIN entries : entries[i].key = k
BY DEF MapOf, Range

LEMMA EntriesAre ==
  ASSUME NEW s, NEW members \in SUBSET DOMAIN s, IsList(s), NEW key, NEW value,
         \A i, j \in DOMAIN s : s[i][key] = s[j][key] => i = j
  PROVE  LET m == MapOf(Entries(s, members, key, value))
         IN /\ \A i \in members : s[i][key] \in DOMAIN m /\ m[s[i][key]] = s[i][value]
            /\ \A i \in DOMAIN s : s[i][key] \in DOMAIN m => i \in members
<1> DEFINE entries == Entries(s, members, key, value)
           m == MapOf(entries)
<1>1. /\ DOMAIN entries = members
      /\ \A i \in members : entries[i].key = s[i][key] /\ entries[i].value = s[i][value]
  BY DEF Entries
<1>2. DOMAIN entries \subseteq Nat
  BY <1>1, ListType
<1> HIDE DEF entries
<1>3. ASSUME NEW i \in members PROVE s[i][key] \in DOMAIN m /\ m[s[i][key]] = s[i][value]
  <2>1. \A j \in DOMAIN entries : entries[j].key = entries[i].key => j = i
    BY <1>1
  <2> QED BY <1>1, <1>2, <2>1, MapHas
<1>4. ASSUME NEW i \in DOMAIN s, s[i][key] \in DOMAIN m PROVE i \in members
  BY <1>1, <1>4, MapOnlyHas
<1> QED BY <1>3, <1>4 DEF entries

(* A digest that no two places have is mapped to its principal.              *)
LEMMA CertificatesAre ==
  ASSUME NEW d, IsList(d.principals), Distinct(DigestsOf(d)),
         NEW i \in DOMAIN d.principals, NEW k \in DOMAIN d.principals[i].certificates
  PROVE  LET digest == d.principals[i].certificates[k].value
         IN digest \in DOMAIN Certificates(d) /\ Certificates(d)[digest] = d.principals[i].id
<1> DEFINE digest == d.principals[i].certificates[k].value
           Latest(j) == /\ digest \in CertificatesOf(d.principals[j])
                      /\ \A m \in DOMAIN d.principals :
                            m > j => digest \notin CertificatesOf(d.principals[m])
<1>1. digest \in CertificatesOf(d.principals[i])
  BY DEF CertificatesOf, Lower, Range
<1>2. ASSUME NEW m \in DOMAIN d.principals, digest \in CertificatesOf(d.principals[m])
      PROVE  m = i
  <2>1. PICK n \in DOMAIN d.principals[m].certificates : digest = d.principals[m].certificates[n].value
    BY <1>2 DEF CertificatesOf, Lower, Range
  <2>2. <<i, k>> \in Slots(d) /\ <<m, n>> \in Slots(d)
    BY DEF Slots
  <2>3. DigestsOf(d)[<<i, k>>] = digest /\ DigestsOf(d)[<<m, n>>] = digest
    BY <2>1, <2>2 DEF DigestsOf, CertificateAt, Lower
  <2>4. <<i, k>> = <<m, n>>
    BY <2>2, <2>3 DEF Distinct, IsInjective, DigestsOf
  <2> QED BY <2>4
<1>3. Latest(i)
  <2>1. ASSUME NEW m \in DOMAIN d.principals, m > i, digest \in CertificatesOf(d.principals[m])
        PROVE  FALSE
    <3>1. m = i /\ i \in Nat
      BY <1>2, <2>1, ListType
    <3> QED BY <2>1, <3>1
  <2> QED BY <1>1, <2>1
<1>4. (CHOOSE j \in DOMAIN d.principals : Latest(j)) = i
  <2> HIDE DEF digest
  <2> QED BY <1>2, <1>3
<1>5. digest \in UNION {CertificatesOf(p) : p \in Range(d.principals)}
  BY <1>1 DEF Range
<1> HIDE DEF digest
<1>6. digest \in DOMAIN Certificates(d) /\ Certificates(d)[digest] = d.principals[i].id
  BY <1>4, <1>5 DEF Certificates
<1> QED BY <1>6 DEF digest

(* The configured routes of a valid document are advertised lawfully.        *)
LEMMA AllRoutesLawful ==
  ASSUME NEW routes, IsList(routes), \A i \in DOMAIN routes : IsBlock(routes[i]),
         AdvertiseRoutesValid(routes)
  PROVE  RangesValid(Advertisement([kind |-> "any", protocol |-> 0], routes, Families))
<1> DEFINE Type == [family : Families, first : Nat, last : Nat]
           q == [kind |-> "routes", scope |-> [kind |-> "any", protocol |-> 0],
                 configured |-> routes, assigned |-> Families]
<1>1. routes \in Seq(Type)
  <2>1. \A i \in DOMAIN routes : routes[i] \in Type
    BY DEF IsBlock
  <2> DEFINE S == Range(routes)
  <2>2. routes \in Seq(S)
    BY DEF IsList
  <2> HIDE DEF S
  <2>3. Len(routes) \in Nat /\ DOMAIN routes = 1..Len(routes) /\ routes \in [1..Len(routes) -> S]
    BY <2>2, SMT
  <2> HIDE DEF Type
  <2> QED BY <2>1, <2>3
<1>2. RoutesQuestion(q)
  BY <1>1 DEF RoutesQuestion
<1>3. AdvertiseRoutesValid(q.configured)
  OBVIOUS
<1> HIDE DEF q
<1>4. /\ Lawful(Advertisement(q.scope, q.configured, q.assigned))
      /\ AreRanges(Advertisement(q.scope, q.configured, q.assigned))
  BY <1>2, <1>3, AdvertisementLawful, AdvertisementIs
<1>5. RangesValid(Advertisement(q.scope, q.configured, q.assigned))
  BY <1>4, LawfulIsValid
<1> QED BY <1>5 DEF q

-----------------------------------------------------------------------------
(* Induction up to n, over a set.                                            *)
LEMMA Upward ==
    ASSUME NEW n \in Nat, NEW S, 0 \in S, \A k \in 1..n : k - 1 \in S => k \in S
    PROVE  \A k \in 0..n : k \in S
<1> DEFINE Out == {k \in 0..n : k \notin S}
<1> SUFFICES ASSUME Out # {} PROVE FALSE
  OBVIOUS
<1>1. Out \in SUBSET Nat
  OBVIOUS
<1>2. PICK k \in Out : \A other \in Out : k <= other
  <2> HIDE DEF Out
  <2> QED BY <1>1, LeastNumber
<1>3. k \in 1..n /\ k \notin S /\ k - 1 \in 0..n /\ k - 1 \notin Out
  BY <1>2
<1> QED BY <1>3

(* Recursion up to n: f starts at base and each of its values is a step from *)
(* the one before; V[k] is where the k-th lies.                              *)
Steps(n, V, step) == \A k \in 1..n : \A v \in V[k - 1] : step[k][v] \in V[k]

Follows(f, n, V, base, step) ==
    /\ f = [k \in 0..n |-> f[k]] /\ f[0] = base
    /\ \A k \in 0..n : f[k] \in V[k]
    /\ \A k \in 1..n : f[k] = step[k][f[k - 1]]

LEMMA Recursion ==
    ASSUME NEW n \in Nat, NEW V, NEW base \in V[0], NEW step, Steps(n, V, step)
    PROVE  \E f : Follows(f, n, V, base, step)
<1> DEFINE Reached == {m \in 0..n : \E f : Follows(f, m, V, base, step)}
<1>1. 0 \in Reached
  <2> DEFINE g == [k \in 0..0 |-> base]
  <2>1. Follows(g, 0, V, base, step)
    BY DEF Follows
  <2> HIDE DEF g
  <2> QED BY <2>1
<1>2. ASSUME NEW m \in 1..n, m - 1 \in Reached PROVE m \in Reached
  <2>1. PICK f : Follows(f, m - 1, V, base, step)
    BY <1>2
  <2> DEFINE last == step[m][f[m - 1]]
             g == [k \in 0..m |-> IF k = m THEN last ELSE f[k]]
  <2>2. f[m - 1] \in V[m - 1]
    BY <2>1 DEF Follows
  <2>3. last \in V[m]
    BY <2>2 DEF Steps
  <2>4. \A k \in 0..m : g[k] \in V[k]
    <3>1. \A k \in 0..m : k # m => f[k] \in V[k]
      BY <2>1 DEF Follows
    <3> HIDE DEF last, Reached
    <3> QED BY <3>1, <2>3
  <2>5. g[0] = base
    BY <2>1 DEF Follows
  <2>6. \A k \in 1..m : g[k] = step[k][g[k - 1]]
    <3> TAKE k \in 1..m
    <3>1. g[k - 1] = f[k - 1]
      OBVIOUS
    <3>2. CASE k = m
      <4>1. g[k] = last
        BY <3>2
      <4> HIDE DEF g
      <4> QED BY <4>1, <3>1, <3>2
    <3>3. CASE k # m
      <4>1. k \in 1..(m - 1)
        BY <3>3
      <4>2. f[k] = step[k][f[k - 1]]
        BY <2>1, <4>1 DEF Follows
      <4>3. g[k] = f[k]
        BY <3>3
      <4> HIDE DEF g
      <4> QED BY <3>1, <4>2, <4>3
    <3> QED BY <3>2, <3>3
  <2>7. g = [k \in 0..m |-> g[k]]
    OBVIOUS
  <2>8. Follows(g, m, V, base, step)
    <3> HIDE DEF g
    <3> QED BY <2>4, <2>5, <2>6, <2>7 DEF Follows
  <2> HIDE DEF g
  <2> QED BY <2>8
<1>3. n \in Reached
  <2>1. \A k \in 0..n : k \in Reached
    <3> HIDE DEF Reached
    <3> QED BY Upward, <1>1, <1>2
  <2> HIDE DEF Reached
  <2> QED BY <2>1
<1> QED BY <1>3

(* What is made of such steps is such a recursion.                           *)
LEMMA Unfolds ==
    ASSUME NEW n \in Nat, NEW V, NEW base \in V[0], NEW step, Steps(n, V, step), NEW f,
           f = [k \in 0..n |-> f[k]], f[0] = base,
           \A k \in 1..n : f[k - 1] \in V[k - 1] => f[k] = step[k][f[k - 1]]
    PROVE  Follows(f, n, V, base, step)
<1> DEFINE Typed == {k \in 0..n : f[k] \in V[k]}
<1>1. 0 \in Typed
  OBVIOUS
<1>2. ASSUME NEW k \in 1..n, k - 1 \in Typed PROVE k \in Typed
  <2>1. f[k - 1] \in V[k - 1] /\ k \in 0..n
    BY <1>2
  <2>2. step[k][f[k - 1]] \in V[k] /\ f[k] = step[k][f[k - 1]]
    BY <2>1 DEF Steps
  <2> QED BY <2>1, <2>2
<1>3. \A k \in 0..n : k \in Typed
  <2> HIDE DEF Typed
  <2> QED BY Upward, <1>1, <1>2
<1>4. \A k \in 0..n : f[k] \in V[k]
  BY <1>3
<1> HIDE DEF Typed
<1>5. \A k \in 1..n : f[k] = step[k][f[k - 1]]
  <2> TAKE k \in 1..n
  <2>1. k - 1 \in 0..n
    OBVIOUS
  <2> QED BY <2>1, <1>4
<1> QED BY <1>4, <1>5 DEF Follows

(* Sums adds up the numbers of a sequence. *)
LEMMA SumsAre ==
    ASSUME NEW numbers \in Seq(Nat)
    PROVE  /\ Sums(numbers) \in [0..Len(numbers) -> Nat]
           /\ Sums(numbers)[0] = 0
           /\ \A k \in 1..Len(numbers) : Sums(numbers)[k] = Sums(numbers)[k - 1] + numbers[k]
<1> DEFINE n == Len(numbers)
           V == [k \in 0..n |-> Nat]
           step == [k \in 1..n |-> [sum \in Nat |-> sum + numbers[k]]]
           Is(f) == f = [k \in 0..n |-> IF k = 0 THEN 0 ELSE f[k - 1] + numbers[k]]
           s == Sums(numbers)
<1>1. n \in Nat /\ 0 \in V[0] /\ \A k \in 0..n : V[k] = Nat
  OBVIOUS
<1>2. \A k \in 1..n, sum \in Nat : step[k][sum] = sum + numbers[k] /\ step[k][sum] \in Nat
  OBVIOUS
<1>3. s = CHOOSE g : Is(g)
  BY Zenon DEF Sums
<1> HIDE DEF n, V, step, s
<1>4. /\ \A k \in 1..n : k \in 0..n /\ k - 1 \in 0..n /\ k # 0
      /\ \A k \in 0..n : k = 0 \/ k \in 1..n
  BY <1>1
<1>5. Steps(n, V, step)
  BY <1>1, <1>2, <1>4 DEF Steps
<1>6. PICK f : Follows(f, n, V, 0, step)
  <2> HIDE DEF Is
  <2> QED BY <1>1, <1>5, Recursion
<1>7. Is(f)
  <2>1. f = [k \in 0..n |-> f[k]] /\ f[0] = 0 /\ \A k \in 0..n : f[k] \in Nat
    BY <1>6, <1>1 DEF Follows
  <2>2. \A k \in 1..n : f[k] = f[k - 1] + numbers[k]
    BY <1>6, <1>2, <1>4, <2>1 DEF Follows
  <2>3. \A k \in 0..n : f[k] = IF k = 0 THEN 0 ELSE f[k - 1] + numbers[k]
    BY <2>1, <2>2, <1>4
  <2> QED BY <2>1, <2>3
<1>8. Is(s)
  <2> HIDE DEF Is
  <2> QED BY <1>7, <1>3
<1>9. s = [k \in 0..n |-> s[k]] /\ s[0] = 0
  BY <1>8, <1>1
<1>10. \A k \in 1..n : s[k] = s[k - 1] + numbers[k]
  BY <1>8, <1>4
<1> HIDE DEF Is
<1>11. \A k \in 1..n : s[k - 1] \in V[k - 1] => s[k] = step[k][s[k - 1]]
  <2> TAKE k \in 1..n
  <2>1. V[k - 1] = Nat
    BY <1>1, <1>4
  <2> QED BY <2>1, <1>10, <1>2
<1>12. Follows(s, n, V, 0, step)
  BY <1>1, <1>5, <1>9, <1>11, Unfolds
<1>13. \A k \in 0..n : s[k] \in Nat
  BY <1>12, <1>1 DEF Follows
<1> QED BY <1>9, <1>10, <1>13 DEF s, n

-----------------------------------------------------------------------------
-----------------------------------------------------------------------------
(* Rates (proxy/ip.rs, proxy/udp.rs).                                        *)
Call == [elapsed : Nat, amount : Nat]

LEMMA DivisionIs ==
    ASSUME NEW x \in Nat, NEW d \in Nat, d > 0
    PROVE  /\ x \div d \in Nat
           /\ d * (x \div d) <= x /\ x < d * (x \div d) + d
BY SMT

(* One call of allow(): it leaves no more than the burst, and what it finds   *)
(* was there or was earned.                                                  *)
Charged(tokens, rate, burst, call, ready, next) ==
    /\ ready \in Nat /\ ready <= burst /\ next \in Nat
    /\ Second * ready <= Second * tokens + rate * call.elapsed
    /\ ready = burst \/ rate * call.elapsed < Second * ready - Second * tokens + Second
    /\ tokens = burst => ready = burst
    /\ Admits(tokens, rate, burst, call) => next + call.amount = ready
    /\ ~Admits(tokens, rate, burst, call) => next = ready /\ ready < call.amount

LEMMA AllowIs ==
    ASSUME NEW tokens \in Nat, NEW rate \in Nat, NEW burst \in Nat, NEW call \in Call
    PROVE  Charged(tokens, rate, burst, call, Replenished(tokens, rate, burst, call.elapsed),
                   Allow(tokens, rate, burst, call))
<1> DEFINE x == rate * call.elapsed
           earned == x \div Second
           ready == Replenished(tokens, rate, burst, call.elapsed)
           next == Allow(tokens, rate, burst, call)
<1>1. call.elapsed \in Nat /\ call.amount \in Nat /\ Second \in Nat /\ Second > 0
  BY PacketBounds DEF Call
<1>2. x \in Nat
  BY <1>1
<1>3. earned \in Nat /\ Second * earned <= x /\ x < Second * earned + Second
  <2> HIDE DEF x
  <2> QED BY <1>1, <1>2, DivisionIs
<1>4. ready = IF tokens + earned <= burst THEN tokens + earned ELSE burst
  <2>1. ready = Min({tokens + earned, burst})
    BY DEF Replenished
  <2> HIDE DEF earned, ready
  <2> QED BY <2>1, <1>3, LeastOfTwo
<1> HIDE DEF earned, next, ready
<1>5. ready \in Nat /\ ready <= burst /\ ready <= tokens + earned /\ (tokens = burst => ready = burst)
  BY <1>3, <1>4
<1>6. Second * ready <= Second * tokens + Second * earned
  <2> HIDE DEF x
  <2> QED BY <1>5, <1>1, <1>3, SMT
<1>7. ready = burst \/ Second * ready = Second * tokens + Second * earned
  <2> HIDE DEF x
  <2> QED BY <1>4, <1>1, <1>3, SMT
<1>8. /\ Admits(tokens, rate, burst, call) <=> call.amount <= ready
      /\ next = ready - IF call.amount <= ready THEN call.amount ELSE 0
  BY DEF Admits, Allow, ready, next
<1> DEFINE a == Second * ready
           b == Second * tokens
           c == Second * earned
<1>9. a \in Int /\ b \in Int /\ c \in Int
  <2> QED BY <1>1, <1>3, <1>5
<1>10. a <= b + x /\ (ready = burst \/ x < a - b + Second)
  <2> HIDE DEF a, b, c, x
  <2>1. a <= b + c /\ c <= x /\ x < c + Second /\ (ready = burst \/ a = b + c)
    BY <1>6, <1>7, <1>3 DEF a, b, c
  <2> QED BY <2>1, <1>9, <1>2, <1>1
<1>11. Charged(tokens, rate, burst, call, ready, next)
  BY <1>1, <1>5, <1>8, <1>10 DEF Charged, a, b, x
<1> QED BY <1>11 DEF ready, next

(* The tokens of a bucket. *)
LEMMA BucketIs ==
    ASSUME NEW rate \in Nat, NEW burst \in Nat, NEW calls \in Seq(Call)
    PROVE  LET tokens == Bucket(rate, burst, calls)
           IN /\ tokens \in [0..Len(calls) -> Nat] /\ tokens[0] = burst
              /\ \A k \in 1..Len(calls) : tokens[k] = Allow(tokens[k - 1], rate, burst, calls[k])
<1> DEFINE n == Len(calls)
           V == [k \in 0..n |-> Nat]
           step == [k \in 1..n |-> [tokens \in Nat |-> Allow(tokens, rate, burst, calls[k])]]
           Is(f) == f = [k \in 0..n |-> IF k = 0 THEN burst ELSE Allow(f[k - 1], rate, burst, calls[k])]
           s == Bucket(rate, burst, calls)
<1>1. /\ n \in Nat /\ burst \in V[0] /\ (\A k \in 0..n : V[k] = Nat)
      /\ \A k \in 1..n : calls[k] \in Call
  OBVIOUS
<1>2. \A k \in 1..n, tokens \in Nat : Allow(tokens, rate, burst, calls[k]) \in Nat
  <2> TAKE k \in 1..n, tokens \in Nat
  <2> DEFINE call == calls[k]
             ready == Replenished(tokens, rate, burst, call.elapsed)
             next == Allow(tokens, rate, burst, call)
  <2>1. call \in Call
    BY <1>1
  <2>2. Charged(tokens, rate, burst, call, ready, next)
    BY <2>1, AllowIs
  <2> HIDE DEF ready, next
  <2>3. next \in Nat
    BY <2>2 DEF Charged
  <2> QED BY <2>3 DEF next
<1>3. \A k \in 1..n, tokens \in Nat : step[k][tokens] = Allow(tokens, rate, burst, calls[k])
  OBVIOUS
<1>4. s = CHOOSE g : Is(g)
  BY Zenon DEF Bucket
<1> HIDE DEF n, V, step, s
<1>5. /\ \A k \in 1..n : k \in 0..n /\ k - 1 \in 0..n /\ k # 0
      /\ \A k \in 0..n : k = 0 \/ k \in 1..n
  BY <1>1
<1>6. Steps(n, V, step)
  <2> SUFFICES ASSUME NEW k \in 1..n, NEW tokens \in Nat PROVE step[k][tokens] \in Nat
    BY <1>1, <1>5 DEF Steps
  <2> QED BY <1>2, <1>3
<1>7. PICK f : Follows(f, n, V, burst, step)
  <2> HIDE DEF Is
  <2> QED BY <1>1, <1>6, Recursion
<1>8. Is(f)
  <2>1. f = [k \in 0..n |-> f[k]] /\ f[0] = burst /\ \A k \in 0..n : f[k] \in Nat
    BY <1>7, <1>1 DEF Follows
  <2>2. \A k \in 1..n : f[k] = Allow(f[k - 1], rate, burst, calls[k])
    BY <1>7, <1>3, <1>5, <2>1 DEF Follows
  <2>3. \A k \in 0..n : f[k] = IF k = 0 THEN burst ELSE Allow(f[k - 1], rate, burst, calls[k])
    BY <2>1, <2>2, <1>5
  <2> QED BY <2>1, <2>3
<1>9. Is(s)
  <2> HIDE DEF Is
  <2> QED BY <1>8, <1>4
<1>10. s = [k \in 0..n |-> s[k]] /\ s[0] = burst
  BY <1>9, <1>1
<1>11. \A k \in 1..n : s[k] = Allow(s[k - 1], rate, burst, calls[k])
  BY <1>9, <1>5
<1> HIDE DEF Is
<1>12. \A k \in 1..n : s[k - 1] \in V[k - 1] => s[k] = step[k][s[k - 1]]
  <2> TAKE k \in 1..n
  <2>1. V[k - 1] = Nat
    BY <1>1, <1>5
  <2> QED BY <2>1, <1>11, <1>3
<1>13. Follows(s, n, V, burst, step)
  BY <1>1, <1>6, <1>10, <1>12, Unfolds
<1>14. \A k \in 0..n : s[k] \in Nat
  BY <1>13, <1>1 DEF Follows
<1> QED BY <1>10, <1>11, <1>14 DEF s, n

-----------------------------------------------------------------------------
-----------------------------------------------------------------------------
(* Address requests (proxy/ip.rs, capsule/address.rs).                       *)
Leasable == [family : Families, first : Nat, last : Nat]
Given == Leasable \cup {Refused(family) : family \in Families}
Entry == [id : Nat, prefix : Given]
Asking == [id : Nat, prefix : Leasable]

LEMMA RefusedIs ==
    ASSUME NEW family \in Families
    PROVE  /\ Refused(family) \in Given /\ Refused(family).family = family
           /\ \A prefix \in Leasable : prefix # Refused(family)
<1>1. Refused(family) \in Given /\ Refused(family).family = family
  BY DEF Given, Refused
<1>2. ASSUME NEW prefix \in Leasable PROVE prefix # Refused(family)
  <2>1. "first" \in DOMAIN prefix /\ "first" \notin DOMAIN Refused(family)
    BY DEF Leasable, Refused
  <2> QED BY <2>1
<1> QED BY <1>1, <1>2

(* The addresses of a session: one of a family at most.                      *)
AreLeased(assigned) ==
    /\ assigned \in Seq(Leasable)
    /\ \A i, j \in DOMAIN assigned : assigned[i].family = assigned[j].family => i = j

(* What a request is answered with is the address of its family, when none   *)
(* before asked for it.                                                      *)
AnswerWith(answer, taken, request, prefix) ==
    [used    |-> answer.used \cup taken,
     entries |-> Append(answer.entries, [id |-> request.id, prefix |-> prefix])]

LEMMA ServeAddress ==
    ASSUME NEW assigned, AreLeased(assigned), NEW answer, NEW request,
           NEW i \in DOMAIN assigned, i \notin answer.used,
           assigned[i].family = request.prefix.family
    PROVE  Serve(assigned, answer, request) = AnswerWith(answer, {i}, request, assigned[i])
<1> DEFINE unused == Unused(assigned, answer.used, request.prefix.family)
           preferred == {k \in unused : Within(request.prefix, request.prefix.family, assigned[k].first)}
           choices == IF preferred # {} THEN preferred ELSE unused
           choice == Choice(assigned, answer.used, request.prefix)
<1>1. unused = {i}
  BY DEF Unused, AreLeased
<1>2. choices = {i}
  BY <1>1
<1>3. i \in Nat
  BY DEF AreLeased
<1>4. Min({i}) = i
  BY <1>3 DEF Min
<1>5. choice = IF choices = {} THEN {} ELSE {Min(choices)}
  BY Zenon DEF Choice
<1> HIDE DEF choices, choice
<1>6. choice = {i}
  BY <1>2, <1>4, <1>5
<1>7. (CHOOSE k \in choice : TRUE) = i
  BY <1>6
<1>8. choice # {}
  BY <1>6
<1> QED BY <1>6, <1>7, <1>8 DEF Serve, choice, AnswerWith

LEMMA ServeNothing ==
    ASSUME NEW assigned, NEW answer, NEW request,
           \A i \in DOMAIN assigned : i \notin answer.used => assigned[i].family # request.prefix.family
    PROVE  Serve(assigned, answer, request) =
               AnswerWith(answer, {}, request, Refused(request.prefix.family))
<1> DEFINE unused == Unused(assigned, answer.used, request.prefix.family)
           preferred == {k \in unused : Within(request.prefix, request.prefix.family, assigned[k].first)}
           choices == IF preferred # {} THEN preferred ELSE unused
           choice == Choice(assigned, answer.used, request.prefix)
<1>1. unused = {}
  BY DEF Unused
<1>2. choices = {}
  BY <1>1
<1>3. choice = IF choices = {} THEN {} ELSE {Min(choices)}
  BY Zenon DEF Choice
<1> HIDE DEF choices, choice
<1>4. choice = {}
  BY <1>2, <1>3
<1>5. Serve(assigned, answer, request) =
          [used    |-> answer.used \cup choice,
           entries |-> Append(answer.entries,
                              [id |-> request.id,
                               prefix |-> IF choice = {} THEN Refused(request.prefix.family)
                                          ELSE assigned[CHOOSE i \in choice : TRUE]])]
  BY Zenon DEF Serve, choice
<1> QED BY <1>4, <1>5 DEF AnswerWith

(* What the first k requests are answered with: the address of its family     *)
(* for the first of a family, a refusal for the others.                      *)
FirstOf(requests, j) == \A e \in 1..(j - 1) : requests[e].prefix.family # requests[j].prefix.family

Fits(assigned, requests, j, entry) ==
    /\ entry.id = requests[j].id
    /\ FirstOf(requests, j) =>
          \A i \in DOMAIN assigned :
             assigned[i].family = requests[j].prefix.family => entry.prefix = assigned[i]
    /\ \/ ~FirstOf(requests, j)
       \/ \A i \in DOMAIN assigned : assigned[i].family # requests[j].prefix.family
       => entry.prefix = Refused(requests[j].prefix.family)

ServedSo(assigned, requests, k, answer) ==
    /\ answer \in [used : SUBSET DOMAIN assigned, entries : Seq(Entry)]
    /\ Len(answer.entries) = k
    /\ \A i \in DOMAIN assigned :
          i \in answer.used <=> \E j \in 1..k : requests[j].prefix.family = assigned[i].family
    /\ \A j \in 1..k : Fits(assigned, requests, j, answer.entries[j])

(* One more request, answered.                                               *)
LEMMA ServeOne ==
    ASSUME NEW assigned, AreLeased(assigned), NEW requests \in Seq(Asking),
           NEW k \in 1..Len(requests), NEW answer, ServedSo(assigned, requests, k - 1, answer)
    PROVE  ServedSo(assigned, requests, k, Serve(assigned, answer, requests[k]))
<1> DEFINE family == requests[k].prefix.family
           entries == answer.entries
           next == Serve(assigned, answer, requests[k])
<1>1. /\ requests[k] \in Asking /\ requests[k].id \in Nat /\ requests[k].prefix \in Leasable
      /\ family \in Families
  <2>1. requests[k] \in Asking
    OBVIOUS
  <2> QED BY <2>1 DEF Asking, Leasable
<1>2. /\ answer.used \in SUBSET DOMAIN assigned /\ entries \in Seq(Entry) /\ Len(entries) = k - 1
      /\ \A i \in DOMAIN assigned :
            i \in answer.used <=> \E j \in 1..(k - 1) : requests[j].prefix.family = assigned[i].family
      /\ \A j \in 1..(k - 1) : Fits(assigned, requests, j, entries[j])
  BY DEF ServedSo
<1> HIDE DEF family, entries
<1>3. ASSUME NEW prefix \in Given
      PROVE  LET entry == [id |-> requests[k].id, prefix |-> prefix]
                 longer == Append(entries, entry)
             IN /\ longer \in Seq(Entry) /\ Len(longer) = k /\ longer[k] = entry
                /\ \A j \in 1..(k - 1) : longer[j] = entries[j]
  <2> DEFINE entry == [id |-> requests[k].id, prefix |-> prefix]
             longer == Append(entries, entry)
  <2>1. entry \in Entry
    BY <1>1 DEF Entry
  <2> HIDE DEF entry
  <2>2. longer \in Seq(Entry) /\ Len(longer) = k /\ longer[k] = entry
    BY <2>1, <1>2
  <2>3. \A j \in 1..(k - 1) : longer[j] = entries[j]
    BY <2>1, <1>2
  <2> HIDE DEF longer
  <2> QED BY <2>2, <2>3 DEF longer, entry
<1>4. CASE \E i \in DOMAIN assigned : i \notin answer.used /\ assigned[i].family = family
  <2>1. PICK i \in DOMAIN assigned : i \notin answer.used /\ assigned[i].family = family
    BY <1>4
  <2> DEFINE entry == [id |-> requests[k].id, prefix |-> assigned[i]]
             longer == Append(entries, entry)
  <2>2. next = [used |-> answer.used \cup {i}, entries |-> longer]
    <3>1. assigned[i].family = requests[k].prefix.family /\ i \notin answer.used
      BY <2>1 DEF family
    <3>2. next = AnswerWith(answer, {i}, requests[k], assigned[i])
      BY <3>1, ServeAddress
    <3> QED BY <3>2 DEF AnswerWith, entries
  <2>3. assigned[i] \in Given
    BY DEF AreLeased, Given
  <2>4. longer \in Seq(Entry) /\ Len(longer) = k /\ longer[k] = entry
        /\ \A j \in 1..(k - 1) : longer[j] = entries[j]
    BY <1>3, <2>3
  <2>5. FirstOf(requests, k)
    BY <2>1, <1>2 DEF FirstOf, family
  <2>6. \A other \in DOMAIN assigned : assigned[other].family = family => other = i
    BY <2>1 DEF AreLeased
  <2>7. entry.id = requests[k].id /\ entry.prefix = assigned[i]
    OBVIOUS
  <2> HIDE DEF entry, longer, next
  <2>8. Fits(assigned, requests, k, longer[k])
    BY <2>1, <2>4, <2>5, <2>6, <2>7 DEF Fits, family
  <2>9. next.used = answer.used \cup {i} /\ next.entries = longer
        /\ next \in [used : SUBSET DOMAIN assigned, entries : Seq(Entry)]
    BY <2>2, <2>4, <1>2
  <2>10. \A j \in 1..k : Fits(assigned, requests, j, longer[j])
    BY <2>8, <2>4, <1>2
  <2>11. ASSUME NEW other \in DOMAIN assigned
         PROVE  other \in next.used
                   <=> \E j \in 1..k : requests[j].prefix.family = assigned[other].family
    <3>1. \A j \in 1..k : j \in 1..(k - 1) \/ j = k
      OBVIOUS
    <3>2. (1..(k - 1)) \subseteq 1..k /\ k \in 1..k
      OBVIOUS
    <3> QED BY <3>1, <3>2, <2>9, <2>6, <2>1, <1>2 DEF family
  <2> QED BY <2>4, <2>9, <2>10, <2>11 DEF ServedSo, next
<1>5. CASE \A i \in DOMAIN assigned : i \notin answer.used => assigned[i].family # family
  <2> DEFINE entry == [id |-> requests[k].id, prefix |-> Refused(family)]
             longer == Append(entries, entry)
  <2>1. next = [used |-> answer.used, entries |-> longer]
    <3>1. \A i \in DOMAIN assigned : i \notin answer.used
                                         => assigned[i].family # requests[k].prefix.family
      BY <1>5 DEF family
    <3>2. next = AnswerWith(answer, {}, requests[k], Refused(requests[k].prefix.family))
      BY <3>1, ServeNothing
    <3> QED BY <3>2 DEF AnswerWith, entries, family
  <2>2. Refused(family) \in Given
    BY <1>1, RefusedIs
  <2>3. longer \in Seq(Entry) /\ Len(longer) = k /\ longer[k] = entry
        /\ \A j \in 1..(k - 1) : longer[j] = entries[j]
    BY <1>3, <2>2
  <2>4. ~FirstOf(requests, k) \/ \A i \in DOMAIN assigned : assigned[i].family # family
    BY <1>5, <1>2 DEF FirstOf, family
  <2>5. entry.id = requests[k].id /\ entry.prefix = Refused(family)
    OBVIOUS
  <2> HIDE DEF entry, longer, next
  <2>6. Fits(assigned, requests, k, longer[k])
    BY <2>3, <2>4, <2>5 DEF Fits, family
  <2>7. next.used = answer.used /\ next.entries = longer
        /\ next \in [used : SUBSET DOMAIN assigned, entries : Seq(Entry)]
    BY <2>1, <2>3, <1>2
  <2>8. \A j \in 1..k : Fits(assigned, requests, j, longer[j])
    BY <2>6, <2>3, <1>2
  <2>9. ASSUME NEW other \in DOMAIN assigned
         PROVE  other \in next.used
                   <=> \E j \in 1..k : requests[j].prefix.family = assigned[other].family
    <3>1. \A j \in 1..k : j \in 1..(k - 1) \/ j = k
      OBVIOUS
    <3>2. (1..(k - 1)) \subseteq 1..k /\ k \in 1..k
      OBVIOUS
    <3> QED BY <3>1, <3>2, <2>7, <1>2, <1>5 DEF family
  <2> QED BY <2>3, <2>7, <2>8, <2>9 DEF ServedSo, next
<1> QED BY <1>4, <1>5

(* And so all of them, by Recursion.                                         *)
LEMMA ServedIs ==
    ASSUME NEW assigned, AreLeased(assigned), NEW requests \in Seq(Asking)
    PROVE  ServedSo(assigned, requests, Len(requests), Served(assigned, requests)[Len(requests)])
<1> DEFINE n == Len(requests)
           X == [used : SUBSET DOMAIN assigned, entries : Seq(Entry)]
           base == [used |-> {}, entries |-> <<>>]
           V == [k \in 0..n |-> {answer \in X : ServedSo(assigned, requests, k, answer)}]
           step == [k \in 1..n |-> [answer \in X |-> Serve(assigned, answer, requests[k])]]
           Is(f) == f = [k \in 0..n |-> IF k = 0 THEN base ELSE Serve(assigned, f[k - 1], requests[k])]
           s == Served(assigned, requests)
<1>1. n \in Nat
  OBVIOUS
<1>2. \A k \in 1..n : \A answer \in X : step[k][answer] = Serve(assigned, answer, requests[k])
  OBVIOUS
<1>3. ASSUME NEW k \in 0..n, NEW answer
      PROVE  answer \in V[k] <=> answer \in X /\ ServedSo(assigned, requests, k, answer)
  <2> HIDE DEF X
  <2> QED OBVIOUS
<1>4. base \in V[0]
  <2>1. base \in X /\ base.entries = <<>> /\ base.used = {}
    OBVIOUS
  <2> HIDE DEF base, V
  <2>2. ServedSo(assigned, requests, 0, base)
    BY <2>1 DEF ServedSo
  <2> QED BY <2>1, <2>2, <1>1, <1>3
<1>5. \A k \in 1..n : \A answer : ServedSo(assigned, requests, k - 1, answer)
         => /\ ServedSo(assigned, requests, k, Serve(assigned, answer, requests[k]))
            /\ Serve(assigned, answer, requests[k]) \in X
  <2> TAKE k \in 1..n
  <2> TAKE answer
  <2> SUFFICES ASSUME ServedSo(assigned, requests, k - 1, answer)
               PROVE  /\ ServedSo(assigned, requests, k, Serve(assigned, answer, requests[k]))
                      /\ Serve(assigned, answer, requests[k]) \in X
    OBVIOUS
  <2>1. ServedSo(assigned, requests, k, Serve(assigned, answer, requests[k]))
    BY ServeOne
  <2> QED BY <2>1 DEF ServedSo
<1>6. s = CHOOSE g : Is(g)
  BY Zenon DEF Served
<1> HIDE DEF n, V, X, base, step, s
<1>7. /\ \A k \in 1..n : k \in 0..n /\ k - 1 \in 0..n /\ k # 0
      /\ \A k \in 0..n : k = 0 \/ k \in 1..n
  BY <1>1
<1>8. Steps(n, V, step)
  <2> SUFFICES ASSUME NEW k \in 1..n, NEW answer \in V[k - 1] PROVE step[k][answer] \in V[k]
    BY DEF Steps
  <2> QED BY <1>2, <1>3, <1>5, <1>7
<1>9. PICK f : Follows(f, n, V, base, step)
  <2> HIDE DEF Is
  <2> QED BY <1>1, <1>4, <1>8, Recursion
<1>10. Is(f)
  <2>1. f = [k \in 0..n |-> f[k]] /\ f[0] = base /\ \A k \in 0..n : f[k] \in X
    BY <1>9, <1>3 DEF Follows
  <2>2. \A k \in 1..n : f[k] = Serve(assigned, f[k - 1], requests[k])
    BY <1>9, <1>2, <1>7, <2>1 DEF Follows
  <2>3. \A k \in 0..n : f[k] = IF k = 0 THEN base ELSE Serve(assigned, f[k - 1], requests[k])
    BY <2>1, <2>2, <1>7
  <2> QED BY <2>1, <2>3
<1>11. Is(s)
  <2> HIDE DEF Is
  <2> QED BY <1>10, <1>6
<1>12. s = [k \in 0..n |-> s[k]] /\ s[0] = base
  BY <1>11, <1>1
<1>13. \A k \in 1..n : s[k] = Serve(assigned, s[k - 1], requests[k])
  BY <1>11, <1>7
<1> HIDE DEF Is
<1>14. \A k \in 1..n : s[k - 1] \in V[k - 1] => s[k] = step[k][s[k - 1]]
  <2> TAKE k \in 1..n
  <2>1. s[k - 1] \in V[k - 1] => s[k - 1] \in X
    BY <1>3, <1>7
  <2> QED BY <2>1, <1>13, <1>2
<1>15. Follows(s, n, V, base, step)
  BY <1>1, <1>4, <1>8, <1>12, <1>14, Unfolds
<1>16. s[n] \in V[n] /\ n \in 0..n
  BY <1>15, <1>1 DEF Follows
<1> QED BY <1>16, <1>3 DEF s, n

(* After them come the addresses that nothing asked for, each of them once.  *)
ExtendedSo(assigned, served, k, entries) ==
    LET n == Len(served.entries)
        left == (1..k) \ served.used
    IN /\ entries \in Seq(Entry)
       /\ Len(entries) = n + Cardinality(left)
       /\ \A j \in 1..n : entries[j] = served.entries[j]
       /\ \A j \in (n + 1)..Len(entries) :
             entries[j].id = 0 /\ \E i \in left : entries[j].prefix = assigned[i]
       /\ \A i \in left : \E j \in (n + 1)..Len(entries) : entries[j].prefix = assigned[i]
       /\ \A a, b \in (n + 1)..Len(entries) : entries[a].prefix = entries[b].prefix => a = b

(* One more address the session has, added when no request used it.          *)
LEMMA ExtendOne ==
    ASSUME NEW assigned, AreLeased(assigned),
           NEW served \in [used : SUBSET DOMAIN assigned, entries : Seq(Entry)],
           NEW k \in 1..Len(assigned), NEW entries, ExtendedSo(assigned, served, k - 1, entries)
    PROVE  ExtendedSo(assigned, served, k,
                      IF k \in served.used THEN entries
                      ELSE Append(entries, [id |-> 0, prefix |-> assigned[k]]))
<1> DEFINE n == Len(served.entries)
           used == served.used
           left == (1..(k - 1)) \ used
           next == (1..k) \ used
<1>1. n \in Nat /\ k \in Nat /\ k \in DOMAIN assigned /\ assigned[k] \in Leasable
  BY DEF AreLeased
<1>2. /\ entries \in Seq(Entry) /\ Len(entries) = n + Cardinality(left)
      /\ \A j \in 1..n : entries[j] = served.entries[j]
      /\ \A j \in (n + 1)..Len(entries) :
            entries[j].id = 0 /\ \E i \in left : entries[j].prefix = assigned[i]
      /\ \A i \in left : \E j \in (n + 1)..Len(entries) : entries[j].prefix = assigned[i]
      /\ \A a, b \in (n + 1)..Len(entries) : entries[a].prefix = entries[b].prefix => a = b
  BY DEF ExtendedSo
<1>3. CASE k \in used
  <2>1. next = left
    BY <1>3, <1>1
  <2> HIDE DEF next, left
  <2>2. ExtendedSo(assigned, served, k, entries)
    BY <1>2, <2>1 DEF ExtendedSo, next
  <2> QED BY <2>2, <1>3
<1>4. CASE k \notin used
  <2> DEFINE entry == [id |-> 0, prefix |-> assigned[k]]
             longer == Append(entries, entry)
             m == Len(entries)
  <2>1. next = left \cup {k} /\ k \notin left
    BY <1>4, <1>1
  <2>2. IsFiniteSet(left)
    <3>1. IsFiniteSet(1..(k - 1))
      BY <1>1, FS_Interval
    <3> QED BY <3>1, FS_Subset
  <2>3. Cardinality(next) = Cardinality(left) + 1 /\ Cardinality(left) \in Nat
    BY <2>1, <2>2, FS_AddElement, FS_CardinalityType
  <2>4. entry \in Entry /\ entry.id = 0 /\ entry.prefix = assigned[k]
    BY <1>1 DEF Entry, Given
  <2> HIDE DEF entry
  <2>5. /\ longer \in Seq(Entry) /\ Len(longer) = m + 1 /\ longer[m + 1] = entry /\ m \in Nat
        /\ \A j \in 1..m : longer[j] = entries[j]
    <3>1. entries \in Seq(Entry)
      BY <1>2
    <3>2. longer \in Seq(Entry) /\ Len(longer) = m + 1 /\ longer[m + 1] = entry /\ m \in Nat
      BY <2>4, <3>1
    <3>3. \A j \in 1..m : longer[j] = entries[j]
      BY <2>4, <3>1
    <3> QED BY <3>2, <3>3
  <2> HIDE DEF longer, left, next, n
  <2>6. m = n + Cardinality(left) /\ n <= m
    BY <1>2, <1>1, <2>3
  <2> HIDE DEF m
  <2>7. \A j \in (n + 1)..(m + 1) : j \in (n + 1)..m \/ j = m + 1
    BY <1>1, <2>5
  <2>8. /\ \A j \in (n + 1)..m : j \in 1..m /\ j \in (n + 1)..(m + 1) /\ j # m + 1
        /\ m + 1 \in (n + 1)..(m + 1)
        /\ \A j \in 1..n : j \in 1..m
    BY <1>1, <2>5, <2>6
  <2>9. \A i \in left : assigned[i] # assigned[k] /\ i \in next
    <3> TAKE i \in left
    <3>1. i \in DOMAIN assigned /\ i # k
      BY <1>1 DEF left, AreLeased
    <3> QED BY <3>1, <1>1, <2>1 DEF AreLeased
  <2>10. \A j \in (n + 1)..(m + 1) :
            longer[j].id = 0 /\ \E i \in next : longer[j].prefix = assigned[i]
    <3> TAKE j \in (n + 1)..(m + 1)
    <3>1. CASE j = m + 1
      BY <3>1, <2>5, <2>4, <2>1
    <3>2. CASE j \in (n + 1)..m
      <4>1. longer[j] = entries[j]
        BY <3>2, <2>5, <2>8
      <4>2. entries[j].id = 0 /\ \E i \in left : entries[j].prefix = assigned[i]
        BY <3>2, <1>2 DEF m
      <4> QED BY <4>1, <4>2, <2>1
    <3> QED BY <3>1, <3>2, <2>7
  <2>11. \A i \in next : \E j \in (n + 1)..(m + 1) : longer[j].prefix = assigned[i]
    <3> TAKE i \in next
    <3>1. CASE i = k
      BY <3>1, <2>5, <2>4, <2>8
    <3>2. CASE i \in left
      <4>1. PICK j \in (n + 1)..m : entries[j].prefix = assigned[i]
        BY <3>2, <1>2 DEF m
      <4>2. longer[j] = entries[j] /\ j \in (n + 1)..(m + 1)
        BY <2>5, <2>8
      <4> QED BY <4>1, <4>2
    <3> QED BY <3>1, <3>2, <2>1
  <2>12. \A a, b \in (n + 1)..(m + 1) : longer[a].prefix = longer[b].prefix => a = b
    <3>1. \A j \in (n + 1)..m : longer[j] = entries[j] /\ longer[j].prefix # assigned[k]
      <4> TAKE j \in (n + 1)..m
      <4>1. longer[j] = entries[j]
        BY <2>5, <2>8
      <4>2. PICK i \in left : entries[j].prefix = assigned[i]
        BY <1>2 DEF m
      <4> QED BY <4>1, <4>2, <2>9
    <3>2. longer[m + 1].prefix = assigned[k]
      BY <2>4, <2>5
    <3>3. \A a, b \in (n + 1)..m : entries[a].prefix = entries[b].prefix => a = b
      BY <1>2 DEF m
    <3> SUFFICES ASSUME NEW a \in (n + 1)..(m + 1), NEW b \in (n + 1)..(m + 1),
                        longer[a].prefix = longer[b].prefix
                 PROVE  a = b
      OBVIOUS
    <3>4. a \in (n + 1)..m \/ a = m + 1
      BY <2>7
    <3>5. b \in (n + 1)..m \/ b = m + 1
      BY <2>7
    <3> QED BY <3>1, <3>2, <3>3, <3>4, <3>5
  <2>13. \A j \in 1..n : longer[j] = served.entries[j]
    BY <1>2, <2>5, <2>8
  <2>14. Len(longer) = n + Cardinality(next)
    BY <2>3, <2>5, <2>6, <1>1
  <2>15. ExtendedSo(assigned, served, k, longer)
    BY <2>5, <2>10, <2>11, <2>12, <2>13, <2>14 DEF ExtendedSo, n, next
  <2> QED BY <2>15, <1>4 DEF longer, entry
<1> QED BY <1>3, <1>4

(* And so all of them.                                                       *)
LEMMA ExtendedIs ==
    ASSUME NEW assigned, AreLeased(assigned),
           NEW served \in [used : SUBSET DOMAIN assigned, entries : Seq(Entry)]
    PROVE  ExtendedSo(assigned, served, Len(assigned), Extended(assigned, served)[Len(assigned)])
<1> DEFINE n == Len(assigned)
           X == Seq(Entry)
           base == served.entries
           Next1(k, entries) == IF k \in served.used THEN entries
                                ELSE Append(entries, [id |-> 0, prefix |-> assigned[k]])
           V == [k \in 0..n |-> {entries \in X : ExtendedSo(assigned, served, k, entries)}]
           step == [k \in 1..n |-> [entries \in X |-> Next1(k, entries)]]
           Is(f) == f = [k \in 0..n |-> IF k = 0 THEN base
                                        ELSE IF k \in served.used THEN f[k - 1]
                                        ELSE Append(f[k - 1], [id |-> 0, prefix |-> assigned[k]])]
           s == Extended(assigned, served)
<1>1. n \in Nat
  BY DEF AreLeased
<1>2. \A k \in 1..n : \A entries \in X : step[k][entries] = Next1(k, entries)
  OBVIOUS
<1>3. ASSUME NEW k \in 0..n, NEW entries
      PROVE  entries \in V[k] <=> entries \in X /\ ExtendedSo(assigned, served, k, entries)
  <2> HIDE DEF X
  <2> QED OBVIOUS
<1>4. base \in V[0]
  <2>1. base \in X
    OBVIOUS
  <2>2. (1..0) \ served.used = {} /\ Cardinality({}) = 0
    BY FS_EmptySet
  <2> HIDE DEF V
  <2>3. ExtendedSo(assigned, served, 0, base)
    BY <2>1, <2>2 DEF ExtendedSo
  <2> QED BY <2>1, <2>3, <1>1, <1>3
<1>5. \A k \in 1..n : \A entries : ExtendedSo(assigned, served, k - 1, entries)
         => /\ ExtendedSo(assigned, served, k, Next1(k, entries))
            /\ Next1(k, entries) \in X
  <2> TAKE k \in 1..n
  <2> TAKE entries
  <2> SUFFICES ASSUME ExtendedSo(assigned, served, k - 1, entries)
               PROVE  /\ ExtendedSo(assigned, served, k, Next1(k, entries))
                      /\ Next1(k, entries) \in X
    OBVIOUS
  <2>1. ExtendedSo(assigned, served, k, Next1(k, entries))
    BY ExtendOne
  <2> HIDE DEF Next1
  <2> QED BY <2>1 DEF ExtendedSo
<1>6. s = CHOOSE g : Is(g)
  BY Zenon DEF Extended
<1> HIDE DEF n, V, X, base, step, s
<1>7. /\ \A k \in 1..n : k \in 0..n /\ k - 1 \in 0..n /\ k # 0
      /\ \A k \in 0..n : k = 0 \/ k \in 1..n
  BY <1>1
<1>8. Steps(n, V, step)
  <2> SUFFICES ASSUME NEW k \in 1..n, NEW entries \in V[k - 1] PROVE step[k][entries] \in V[k]
    BY DEF Steps
  <2> HIDE DEF Next1
  <2> QED BY <1>2, <1>3, <1>5, <1>7
<1>9. PICK f : Follows(f, n, V, base, step)
  <2> HIDE DEF Is
  <2> QED BY <1>1, <1>4, <1>8, Recursion
<1>10. Is(f)
  <2>1. f = [k \in 0..n |-> f[k]] /\ f[0] = base /\ \A k \in 0..n : f[k] \in X
    BY <1>9, <1>3 DEF Follows
  <2>2. \A k \in 1..n : f[k] = Next1(k, f[k - 1])
    <3> HIDE DEF Next1
    <3> QED BY <1>9, <1>2, <1>7, <2>1 DEF Follows
  <2>3. \A k \in 0..n : f[k] = IF k = 0 THEN base ELSE Next1(k, f[k - 1])
    <3> HIDE DEF Next1
    <3> QED BY <2>1, <2>2, <1>7
  <2> QED BY <2>1, <2>3
<1>11. Is(s)
  <2> HIDE DEF Is
  <2> QED BY <1>10, <1>6
<1>12. s = [k \in 0..n |-> s[k]] /\ s[0] = base
  BY <1>11, <1>1
<1>13. \A k \in 1..n : s[k] = Next1(k, s[k - 1])
  BY <1>11, <1>7
<1> HIDE DEF Is, Next1
<1>14. \A k \in 1..n : s[k - 1] \in V[k - 1] => s[k] = step[k][s[k - 1]]
  <2> TAKE k \in 1..n
  <2>1. s[k - 1] \in V[k - 1] => s[k - 1] \in X
    BY <1>3, <1>7
  <2> QED BY <2>1, <1>13, <1>2
<1>15. Follows(s, n, V, base, step)
  BY <1>1, <1>4, <1>8, <1>12, <1>14, Unfolds
<1>16. s[n] \in V[n] /\ n \in 0..n
  BY <1>15, <1>1 DEF Follows
<1> QED BY <1>16, <1>3 DEF s, n

(* An answer has every address once, and an answer for each request.         *)
Unasked(assigned, requests) ==
    {i \in DOMAIN assigned :
        \A j \in DOMAIN requests : requests[j].prefix.family # assigned[i].family}

AnswersRequest(assigned, requests, entries, j) ==
    /\ entries[j].id = requests[j].id
    /\ entries[j].prefix.family = requests[j].prefix.family
    /\ entries[j].prefix = Refused(requests[j].prefix.family) =>
          \A i \in DOMAIN assigned : assigned[i].family = requests[j].prefix.family =>
             \E earlier \in 1..(j - 1) : entries[earlier].prefix = assigned[i]

AnswerSo(assigned, requests, entries) ==
    /\ entries \in Seq(Entry) /\ Len(requests) <= Len(entries)
    /\ Len(entries) = Len(requests) + Cardinality(Unasked(assigned, requests))
    /\ \A i \in DOMAIN assigned : \E j \in DOMAIN entries :
          \A other \in DOMAIN entries : entries[other].prefix = assigned[i] <=> other = j
    /\ \A j \in DOMAIN requests : AnswersRequest(assigned, requests, entries, j)
    /\ \A j \in DOMAIN entries : j \notin DOMAIN requests => entries[j].id = 0

LEMMA AnswerFacts ==
    ASSUME NEW assigned, AreLeased(assigned), NEW requests \in Seq(Asking)
    PROVE  AnswerSo(assigned, requests, Answer(assigned, requests))
<1> DEFINE n == Len(requests)
           served == Served(assigned, requests)[n]
           entries == Answer(assigned, requests)
           left == (1..Len(assigned)) \ served.used
           family(j) == requests[j].prefix.family
           m == Len(entries)
<1>1. ServedSo(assigned, requests, n, served)
  BY ServedIs
<1>2. served \in [used : SUBSET DOMAIN assigned, entries : Seq(Entry)] /\ Len(served.entries) = n
  BY <1>1 DEF ServedSo
<1>3. ExtendedSo(assigned, served, Len(assigned), entries)
  <2> HIDE DEF served
  <2>1. ExtendedSo(assigned, served, Len(assigned), Extended(assigned, served)[Len(assigned)])
    BY <1>2, ExtendedIs
  <2> QED BY <2>1, Zenon DEF Answer, served
<1> HIDE DEF served, entries
<1>4. /\ n \in Nat /\ DOMAIN requests = 1..n /\ DOMAIN assigned = 1..Len(assigned)
      /\ assigned \in Seq(Leasable)
      /\ \A i, j \in DOMAIN assigned : assigned[i].family = assigned[j].family => i = j
      /\ \A j \in 1..n : family(j) \in Families
  <2>1. \A j \in 1..n : requests[j] \in Asking
    OBVIOUS
  <2> QED BY <2>1 DEF AreLeased, Asking, Leasable
<1>5. /\ \A i \in DOMAIN assigned : i \in served.used <=> \E j \in 1..n : family(j) = assigned[i].family
      /\ \A j \in 1..n : Fits(assigned, requests, j, served.entries[j])
  BY <1>1 DEF ServedSo
<1>6. /\ entries \in Seq(Entry) /\ m = n + Cardinality(left)
      /\ \A j \in 1..n : entries[j] = served.entries[j]
      /\ \A j \in (n + 1)..m : entries[j].id = 0 /\ \E i \in left : entries[j].prefix = assigned[i]
      /\ \A i \in left : \E j \in (n + 1)..m : entries[j].prefix = assigned[i]
      /\ \A a, b \in (n + 1)..m : entries[a].prefix = entries[b].prefix => a = b
  BY <1>2, <1>3 DEF ExtendedSo
<1>7. left = Unasked(assigned, requests)
  BY <1>4, <1>5 DEF Unasked
<1> HIDE DEF left, family
<1>8. m \in Nat /\ n <= m /\ DOMAIN entries = 1..m
  <2>1. IsFiniteSet(left)
    <3>1. Len(assigned) \in Nat
      BY <1>4
    <3>2. IsFiniteSet(1..Len(assigned))
      BY <3>1, FS_Interval
    <3> QED BY <3>2, FS_Subset DEF left
  <2>2. Cardinality(left) \in Nat
    BY <2>1, FS_CardinalityType
  <2>3. entries \in Seq(Entry) /\ m = n + Cardinality(left)
    BY <1>6
  <2>4. DOMAIN entries = 1..m
    BY <2>3
  <2> HIDE DEF n, m
  <2> QED BY <2>2, <2>3, <2>4, <1>4
<1> HIDE DEF m, n
<1>9. \A j \in 1..n : Fits(assigned, requests, j, entries[j])
  BY <1>5, <1>6
<1>10. \A j \in 1..m : j \in 1..n \/ j \in (n + 1)..m
  BY <1>4, <1>8
<1>11. /\ \A j \in (n + 1)..m : j \in 1..m /\ j \notin 1..n
       /\ \A j \in 1..n : j \in 1..m
  BY <1>4, <1>8
<1>12. \A i, k \in DOMAIN assigned : assigned[i] = assigned[k] => i = k
  BY <1>4
<1>13. \A i \in DOMAIN assigned : assigned[i] \in Leasable
  BY <1>4
(* The requests that have an address for an answer. *)
<1>14. ASSUME NEW j \in 1..n, NEW i \in DOMAIN assigned
       PROVE  entries[j].prefix = assigned[i] <=> FirstOf(requests, j) /\ family(j) = assigned[i].family
  <2>1. Fits(assigned, requests, j, entries[j]) /\ family(j) \in Families
    BY <1>4, <1>9
  <2>2. assigned[i] # Refused(family(j))
    BY <2>1, <1>13, RefusedIs
  <2>3. CASE FirstOf(requests, j) /\ \E k \in DOMAIN assigned : assigned[k].family = family(j)
    <3>1. PICK k \in DOMAIN assigned : assigned[k].family = family(j)
      BY <2>3
    <3>2. entries[j].prefix = assigned[k]
      BY <2>1, <2>3, <3>1 DEF Fits, family
    <3> QED BY <2>3, <3>1, <3>2, <1>4, <1>12
  <2>4. CASE ~FirstOf(requests, j) \/ \A k \in DOMAIN assigned : assigned[k].family # family(j)
    <3>1. entries[j].prefix = Refused(family(j))
      BY <2>1, <2>4 DEF Fits, family
    <3> QED BY <3>1, <2>2, <2>4
  <2> QED BY <2>3, <2>4
<1>15. ASSUME NEW i \in DOMAIN assigned, NEW k \in 1..n, family(k) = assigned[i].family
       PROVE  \E j \in 1..n : /\ j <= k /\ FirstOf(requests, j) /\ family(j) = assigned[i].family
                              /\ \A other \in 1..n : FirstOf(requests, other)
                                    /\ family(other) = assigned[i].family => other = j
  <2> DEFINE S == {j \in 1..n : family(j) = assigned[i].family}
  <2>1. S \in SUBSET Nat /\ S # {}
    BY <1>15
  <2>2. PICK j \in S : \A other \in S : j <= other
    <3> HIDE DEF S
    <3> QED BY <2>1, LeastNumber
  <2>3. j \in 1..n /\ family(j) = assigned[i].family /\ j <= k
    BY <2>2, <1>15
  <2>4. \A e \in 1..(j - 1) : e \in 1..n /\ family(e) # family(j)
    <3> TAKE e \in 1..(j - 1)
    <3>1. e \in 1..n /\ ~(j <= e)
      BY <2>3, <1>4
    <3>2. e \notin S
      BY <2>2, <3>1
    <3> QED BY <3>1, <3>2, <2>3
  <2>5. FirstOf(requests, j)
    BY <2>4 DEF FirstOf, family
  <2>6. ASSUME NEW other \in 1..n, FirstOf(requests, other), family(other) = assigned[i].family
        PROVE  other = j
    <3>1. j <= other
      BY <2>2, <2>6
    <3>2. ~(j \in 1..(other - 1))
      BY <2>6, <2>3 DEF FirstOf, family
    <3> QED BY <3>1, <3>2, <2>3, <1>4
  <2> QED BY <2>3, <2>5, <2>6
<1>16. ASSUME NEW i \in DOMAIN assigned
       PROVE  \E j \in 1..m : \A other \in 1..m : entries[other].prefix = assigned[i] <=> other = j
  <2>1. CASE i \in left
    <3>1. PICK j \in (n + 1)..m : entries[j].prefix = assigned[i]
      BY <2>1, <1>6
    <3>2. \A other \in 1..n : entries[other].prefix # assigned[i]
      BY <1>14, <1>7, <1>4, <2>1 DEF Unasked, family
    <3>3. \A other \in 1..m : entries[other].prefix = assigned[i] <=> other = j
      BY <3>1, <3>2, <1>6, <1>10
    <3> QED BY <3>1, <3>3, <1>11
  <2>2. CASE i \notin left
    <3>1. PICK k \in 1..n : family(k) = assigned[i].family
      BY <2>2, <1>7, <1>4 DEF Unasked, family
    <3>2. PICK j \in 1..n : /\ FirstOf(requests, j) /\ family(j) = assigned[i].family
                            /\ \A other \in 1..n : FirstOf(requests, other)
                                  /\ family(other) = assigned[i].family => other = j
      BY <3>1, <1>15
    <3>3. \A other \in 1..n : entries[other].prefix = assigned[i] <=> other = j
      BY <3>2, <1>14
    <3>4. ASSUME NEW other \in (n + 1)..m PROVE entries[other].prefix # assigned[i] /\ other # j
      <4>1. PICK a \in left : entries[other].prefix = assigned[a]
        BY <1>6
      <4>2. a \in DOMAIN assigned /\ a # i
        BY <2>2, <1>7 DEF Unasked
      <4> QED BY <4>1, <4>2, <1>12, <1>11
    <3> QED BY <3>3, <3>4, <1>10, <1>11
  <2> QED BY <2>1, <2>2
<1>17. ASSUME NEW j \in 1..n PROVE AnswersRequest(assigned, requests, entries, j)
  <2>1. Fits(assigned, requests, j, entries[j]) /\ family(j) \in Families
    BY <1>4, <1>9
  <2>2. entries[j].id = requests[j].id
    BY <2>1 DEF Fits
  <2>3. entries[j].prefix.family = family(j)
    <3>1. CASE FirstOf(requests, j) /\ \E k \in DOMAIN assigned : assigned[k].family = family(j)
      BY <3>1, <1>14
    <3>2. CASE ~FirstOf(requests, j) \/ \A k \in DOMAIN assigned : assigned[k].family # family(j)
      <4>1. entries[j].prefix = Refused(family(j))
        BY <2>1, <3>2 DEF Fits, family
      <4> QED BY <4>1, <2>1, RefusedIs
    <3> QED BY <3>1, <3>2
  <2>4. ASSUME entries[j].prefix = Refused(family(j)), NEW i \in DOMAIN assigned,
               assigned[i].family = family(j)
        PROVE  \E earlier \in 1..(j - 1) : entries[earlier].prefix = assigned[i]
    <3>1. entries[j].prefix # assigned[i]
      BY <2>4, <2>1, <1>13, RefusedIs
    <3>2. ~FirstOf(requests, j)
      BY <3>1, <2>4, <1>14
    <3>3. PICK e \in 1..n : e <= j /\ FirstOf(requests, e) /\ family(e) = assigned[i].family
      BY <2>4, <1>15
    <3>4. entries[e].prefix = assigned[i]
      BY <3>3, <1>14
    <3>5. e \in 1..(j - 1)
      BY <3>2, <3>3, <1>4
    <3> QED BY <3>4, <3>5
  <2> QED BY <2>2, <2>3, <2>4 DEF AnswersRequest, family
<1>18. Len(entries) = Len(requests) + Cardinality(Unasked(assigned, requests))
  BY <1>6, <1>7 DEF m, n
<1>19. Len(requests) <= Len(entries)
  BY <1>8 DEF m, n
<1>20. \A j \in 1..m : j \notin 1..n => entries[j].id = 0
  BY <1>6, <1>10
<1>21. AnswerSo(assigned, requests, entries)
  <2>1. \A i \in DOMAIN assigned : \E j \in DOMAIN entries :
           \A other \in DOMAIN entries : entries[other].prefix = assigned[i] <=> other = j
    <3> TAKE i \in DOMAIN assigned
    <3>1. PICK j \in 1..m : \A other \in 1..m : entries[other].prefix = assigned[i] <=> other = j
      BY <1>16
    <3>2. DOMAIN entries = 1..m
      BY <1>8
    <3>3. j \in DOMAIN entries
      BY <3>2
    <3>4. \A other \in DOMAIN entries : entries[other].prefix = assigned[i] <=> other = j
      BY <3>1, <3>2
    <3> QED BY <3>3, <3>4
  <2>2. \A j \in DOMAIN requests : AnswersRequest(assigned, requests, entries, j)
    BY <1>4, <1>17
  <2>3. \A j \in DOMAIN entries : j \notin DOMAIN requests => entries[j].id = 0
    BY <1>4, <1>8, <1>20
  <2>4. entries \in Seq(Entry)
    BY <1>6
  <2> QED BY <2>1, <2>2, <2>3, <2>4, <1>18, <1>19, Zenon DEF AnswerSo
<1> QED BY <1>21 DEF entries

(* A session after k capsules: those it answered, and the one that ended it. *)
IdsOf(requests) == {requests[i].id : i \in DOMAIN requests}
Used(capsules, k) == UNION {IdsOf(capsules[j]) : j \in 1..k}

SessionStates == [ids : SUBSET Nat, answers : Seq(Seq(Entry)), failed : Seq(Seq(Asking))]

Unanswered(assigned, capsules, j) ==
    \/ ~RequestsLawful(capsules[j], Used(capsules, j - 1))
    \/ Len(Answer(assigned, capsules[j])) > MaxEntries

SessionSo(assigned, capsules, k, session) ==
    LET a == Len(session.answers)
    IN /\ session \in SessionStates /\ a <= k
       /\ session.ids = Used(capsules, a)
       /\ \A j \in 1..a : /\ session.answers[j] = Answer(assigned, capsules[j])
                          /\ RequestsLawful(capsules[j], Used(capsules, j - 1))
       /\ session.failed = <<>> => a = k
       /\ session.failed # <<>> => a < k /\ Unanswered(assigned, capsules, a + 1)

LEMMA UsedIs ==
    ASSUME NEW capsules, NEW k \in Nat, k > 0
    PROVE  Used(capsules, k) = Used(capsules, k - 1) \cup IdsOf(capsules[k])
<1>1. \A j \in 1..k : j \in 1..(k - 1) \/ j = k
  OBVIOUS
<1>2. k \in 1..k /\ \A j \in 1..(k - 1) : j \in 1..k
  OBVIOUS
<1>3. Used(capsules, k) \subseteq Used(capsules, k - 1) \cup IdsOf(capsules[k])
  BY <1>1 DEF Used
<1>4. Used(capsules, k - 1) \cup IdsOf(capsules[k]) \subseteq Used(capsules, k)
  BY <1>2 DEF Used
<1> QED BY <1>3, <1>4

(* One more capsule.                                                         *)
LEMMA SessionOne ==
    ASSUME NEW assigned, AreLeased(assigned), NEW capsules \in Seq(Seq(Asking)),
           NEW k \in 1..Len(capsules), NEW session, SessionSo(assigned, capsules, k - 1, session)
    PROVE  SessionSo(assigned, capsules, k, AddressRequest(assigned, session, capsules[k]))
<1> DEFINE requests == capsules[k]
           answer == Answer(assigned, requests)
           a == Len(session.answers)
           next == AddressRequest(assigned, session, requests)
           lawful == RequestsLawful(requests, session.ids) /\ Encodes(answer)
<1>1. k \in Nat /\ k > 0 /\ requests \in Seq(Asking)
  OBVIOUS
<1>2. answer \in Seq(Entry)
  BY <1>1, AnswerFacts DEF AnswerSo
<1>3. /\ session \in SessionStates /\ a <= k - 1 /\ a \in Nat
      /\ session.ids = Used(capsules, a)
      /\ \A j \in 1..a : /\ session.answers[j] = Answer(assigned, capsules[j])
                         /\ RequestsLawful(capsules[j], Used(capsules, j - 1))
      /\ session.failed = <<>> => a = k - 1
      /\ session.failed # <<>> => a < k - 1 /\ Unanswered(assigned, capsules, a + 1)
  <2>1. session \in SessionStates
    BY DEF SessionSo
  <2>2. a \in Nat
    BY <2>1 DEF SessionStates
  <2> QED BY <2>1, <2>2 DEF SessionSo
<1>4. IdsOf(requests) \in SUBSET Nat
  <2> HIDE DEF requests
  <2>1. \A i \in DOMAIN requests : requests[i] \in Asking
    BY <1>1
  <2> QED BY <2>1 DEF IdsOf, Asking
<1>5. CASE session.failed # <<>>
  <2>1. next = session
    BY <1>5 DEF AddressRequest
  <2>2. a <= k /\ a < k
    BY <1>3, <1>1, <1>5
  <2>3. SessionSo(assigned, capsules, k, session)
    BY <1>3, <1>5, <2>2 DEF SessionSo
  <2> QED BY <2>1, <2>3
<1>6. CASE session.failed = <<>> /\ lawful
  <2> DEFINE ids == session.ids \cup IdsOf(requests)
             answers == Append(session.answers, answer)
  <2>1. next = [session EXCEPT !.ids = ids, !.answers = answers]
    BY <1>6 DEF AddressRequest, IdsOf
  <2>2. a = k - 1
    BY <1>3, <1>6
  <2>3. session.answers \in Seq(Seq(Entry)) /\ session.ids \in SUBSET Nat
    BY <1>3 DEF SessionStates
  <2>4. /\ answers \in Seq(Seq(Entry)) /\ Len(answers) = k /\ answers[k] = answer
        /\ \A j \in 1..(k - 1) : answers[j] = session.answers[j]
    <3> HIDE DEF answer
    <3> QED BY <1>1, <1>2, <2>2, <2>3
  <2>5. ids = Used(capsules, k) /\ ids \in SUBSET Nat
    BY <1>1, <1>3, <1>4, <2>2, <2>3, UsedIs
  <2> HIDE DEF ids, answers, next
  <2>6. /\ next \in SessionStates /\ next.ids = ids /\ next.answers = answers
        /\ next.failed = <<>>
    BY <2>1, <2>4, <2>5, <1>3, <1>6 DEF SessionStates
  <2>7. \A j \in 1..k : /\ answers[j] = Answer(assigned, capsules[j])
                        /\ RequestsLawful(capsules[j], Used(capsules, j - 1))
    <3> TAKE j \in 1..k
    <3>1. CASE j = k
      BY <3>1, <2>2, <2>4, <1>3, <1>6
    <3>2. CASE j # k
      <4>1. j \in 1..(k - 1) /\ j \in 1..a
        BY <3>2, <2>2
      <4> QED BY <4>1, <2>4, <1>3
    <3> QED BY <3>1, <3>2
  <2>8. SessionSo(assigned, capsules, k, next)
    BY <2>4, <2>5, <2>6, <2>7, <1>1 DEF SessionSo
  <2> QED BY <2>8 DEF next
<1>7. CASE session.failed = <<>> /\ ~lawful
  <2>1. next = [session EXCEPT !.failed = <<requests>>]
    BY <1>7 DEF AddressRequest
  <2>2. a = k - 1
    BY <1>3, <1>7
  <2>3. Unanswered(assigned, capsules, k)
    <3>1. answer \in Seq(Entry) /\ Len(answer) \in Nat /\ MaxEntries \in Nat
      BY <1>2, PacketBounds
    <3>2. session.ids = Used(capsules, k - 1)
      BY <1>3, <2>2
    <3> HIDE DEF answer
    <3>3. ~RequestsLawful(requests, session.ids) \/ Len(answer) > MaxEntries
      BY <1>7, <3>1 DEF Encodes
    <3> QED BY <3>2, <3>3 DEF Unanswered, answer
  <2>4. <<requests>> \in Seq(Seq(Asking)) /\ <<requests>> # <<>>
    <3> HIDE DEF requests
    <3> QED BY <1>1
  <2> HIDE DEF next, requests
  <2>5. /\ next \in SessionStates /\ next.ids = session.ids /\ next.answers = session.answers
        /\ next.failed # <<>>
    BY <2>1, <2>4, <1>3 DEF SessionStates
  <2>6. a <= k /\ a < k /\ a + 1 = k
    BY <2>2, <1>1
  <2>7. SessionSo(assigned, capsules, k, next)
    BY <2>3, <2>5, <2>6, <1>3 DEF SessionSo
  <2> QED BY <2>7 DEF next, requests
<1> QED BY <1>5, <1>6, <1>7

(* And so all of a session.                                                  *)
LEMMA SessionIs ==
    ASSUME NEW assigned, AreLeased(assigned), NEW capsules \in Seq(Seq(Asking))
    PROVE  SessionSo(assigned, capsules, Len(capsules),
                     AddressSession(assigned, capsules)[Len(capsules)])
<1> DEFINE n == Len(capsules)
           X == SessionStates
           base == [ids |-> {}, answers |-> <<>>, failed |-> <<>>]
           V == [k \in 0..n |-> {session \in X : SessionSo(assigned, capsules, k, session)}]
           step == [k \in 1..n |-> [session \in X |-> AddressRequest(assigned, session, capsules[k])]]
           Is(f) == f = [k \in 0..n |-> IF k = 0 THEN base
                                        ELSE AddressRequest(assigned, f[k - 1], capsules[k])]
           s == AddressSession(assigned, capsules)
<1>1. n \in Nat
  OBVIOUS
<1>2. \A k \in 1..n : \A session \in X : step[k][session] = AddressRequest(assigned, session, capsules[k])
  OBVIOUS
<1>3. ASSUME NEW k \in 0..n, NEW session
      PROVE  session \in V[k] <=> session \in X /\ SessionSo(assigned, capsules, k, session)
  <2> HIDE DEF X
  <2> QED OBVIOUS
<1>4. base \in V[0]
  <2>1. base \in X /\ base.ids = {} /\ base.answers = <<>> /\ base.failed = <<>>
    BY DEF SessionStates
  <2>2. Used(capsules, 0) = {}
    BY DEF Used
  <2> HIDE DEF base, V
  <2>3. SessionSo(assigned, capsules, 0, base)
    BY <2>1, <2>2 DEF SessionSo
  <2> QED BY <2>1, <2>3, <1>1, <1>3
<1>5. \A k \in 1..n : \A session : SessionSo(assigned, capsules, k - 1, session)
         => /\ SessionSo(assigned, capsules, k, AddressRequest(assigned, session, capsules[k]))
            /\ AddressRequest(assigned, session, capsules[k]) \in X
  <2> TAKE k \in 1..n
  <2> TAKE session
  <2> SUFFICES ASSUME SessionSo(assigned, capsules, k - 1, session)
               PROVE  /\ SessionSo(assigned, capsules, k, AddressRequest(assigned, session, capsules[k]))
                      /\ AddressRequest(assigned, session, capsules[k]) \in X
    OBVIOUS
  <2>1. SessionSo(assigned, capsules, k, AddressRequest(assigned, session, capsules[k]))
    BY SessionOne
  <2> QED BY <2>1 DEF SessionSo
<1>6. s = CHOOSE g : Is(g)
  BY Zenon DEF AddressSession
<1> HIDE DEF n, V, X, base, step, s
<1>7. /\ \A k \in 1..n : k \in 0..n /\ k - 1 \in 0..n /\ k # 0
      /\ \A k \in 0..n : k = 0 \/ k \in 1..n
  BY <1>1
<1>8. Steps(n, V, step)
  <2> SUFFICES ASSUME NEW k \in 1..n, NEW session \in V[k - 1] PROVE step[k][session] \in V[k]
    BY DEF Steps
  <2> QED BY <1>2, <1>3, <1>5, <1>7
<1>9. PICK f : Follows(f, n, V, base, step)
  <2> HIDE DEF Is
  <2> QED BY <1>1, <1>4, <1>8, Recursion
<1>10. Is(f)
  <2>1. f = [k \in 0..n |-> f[k]] /\ f[0] = base /\ \A k \in 0..n : f[k] \in X
    BY <1>9, <1>3 DEF Follows
  <2>2. \A k \in 1..n : f[k] = AddressRequest(assigned, f[k - 1], capsules[k])
    BY <1>9, <1>2, <1>7, <2>1 DEF Follows
  <2>3. \A k \in 0..n : f[k] = IF k = 0 THEN base ELSE AddressRequest(assigned, f[k - 1], capsules[k])
    BY <2>1, <2>2, <1>7
  <2> QED BY <2>1, <2>3
<1>11. Is(s)
  <2> HIDE DEF Is
  <2> QED BY <1>10, <1>6
<1>12. s = [k \in 0..n |-> s[k]] /\ s[0] = base
  BY <1>11, <1>1
<1>13. \A k \in 1..n : s[k] = AddressRequest(assigned, s[k - 1], capsules[k])
  BY <1>11, <1>7
<1> HIDE DEF Is
<1>14. \A k \in 1..n : s[k - 1] \in V[k - 1] => s[k] = step[k][s[k - 1]]
  <2> TAKE k \in 1..n
  <2>1. s[k - 1] \in V[k - 1] => s[k - 1] \in X
    BY <1>3, <1>7
  <2> QED BY <2>1, <1>13, <1>2
<1>15. Follows(s, n, V, base, step)
  BY <1>1, <1>4, <1>8, <1>12, <1>14, Unfolds
<1>16. s[n] \in V[n] /\ n \in 0..n
  BY <1>15, <1>1 DEF Follows
<1> QED BY <1>16, <1>3 DEF s, n

-----------------------------------------------------------------------------
(* The input of a behaviour is a stream or one of the questions.             *)
GivenIsAsked == given = Stream \/ \E i \in DOMAIN Questions : given \in Questions[i]

LEMMA GivenStays == Spec => []GivenIsAsked
<1>1. Init => GivenIsAsked
  BY DEF Init, GivenIsAsked
<1>2. GivenIsAsked /\ [Next]_vars => GivenIsAsked'
  BY DEF GivenIsAsked, Next, vars
<1> QED BY <1>1, <1>2, PTL DEF Spec

(* The three questions a policy answers agree, for any roles and any number  *)
(* of networks in them: a prefix is refused only when no address in it is    *)
(* allowed, and of a range that is granted every address is, but for those   *)
(* of IPv6 that the default list of denied networks does not name, which a   *)
(* role grants that denies private addresses, and refuses for that one by    *)
(* one (policy.rs:62-81, 117-123, packet/scope.rs:84-99).                    *)
THEOREM PolicyAgrees == Spec => []PolicyChecksAgree
<1>1. GivenIsAsked => PolicyChecksAgree
  <2> SUFFICES ASSUME GivenIsAsked, given.kind = "policy" PROVE PolicyChecksAgree
    BY DEF PolicyChecksAgree
  <2> DEFINE range == given.range
             prefix == [family |-> range.family, first |-> range.start, last |-> range.end]
  <2>1. PolicyQuestion(given)
    BY QuestionsAssumption DEF GivenIsAsked, Stream
  <2>2. /\ AreNetworks(given.roles) /\ range.family \in Families /\ IsRange(prefix)
        /\ given.prefix => IsNetwork(prefix)
    BY <2>1 DEF PolicyQuestion, AreNetworks
  <2>3. /\ range.start \in Nat /\ range.end \in Nat
        /\ range.family = "ipv4" => range.end <= 16777215
        /\ range.family = "ipv6" => range.end <= 1073741823
    BY <2>2, NetworkType, SMT
  <2>4. ASSUME given.prefix, ~AuthorizePrefix(given.roles, prefix), NEW n \in range.start..range.end
        PROVE  ~AuthorizeDestination(given.roles, range.family, n)
    BY <2>2, <2>4, PrefixOfAllowed, SMT
  <2>5. ASSUME AuthorizeRange(given.roles, range), NEW n \in range.start..range.end
        PROVE  \/ AuthorizeDestination(given.roles, range.family, n)
               \/ UnnamedOnly(given.roles, range.family, n)
    BY <2>2, <2>3, <2>5, RangeOfAllowed, SMT
  <2> QED BY <2>4, <2>5, SMT DEF PolicyChecksAgree, UnnamedOnly
<1> QED BY <1>1, GivenStays, PTL

(* Of a question of ranges, by the two lemmas on them.                       *)
LEMMA RangesCheckedAsked == GivenIsAsked => RangesCheckedExactly
<1> SUFFICES ASSUME GivenIsAsked, given.kind = "ranges"
             PROVE  RangesValid(given.ranges) <=> Lawful(given.ranges)
  BY DEF RangesCheckedExactly
<1>1. RangesQuestion(given)
  BY QuestionsAssumption DEF GivenIsAsked, Stream
<1>2. AreRanges(given.ranges)
  BY <1>1 DEF RangesQuestion, AreRanges, Families
<1> QED BY <1>2, ValidIsLawful, LawfulIsValid

(* Looking at neighbours, and at one wildcard range for each range, accepts  *)
(* exactly the sequences whose every pair is in order and apart: for ranges  *)
(* of any number, whatever their addresses (capsule/route.rs                 *)
(* validate_ranges).                                                         *)
THEOREM RangesAreChecked == Spec => []RangesCheckedExactly
BY RangesCheckedAsked, GivenStays, PTL

(* And from configured routes that were accepted, whatever the scope, the    *)
(* advertisement is such a sequence, has each address the scope reaches in   *)
(* one range and leaves nothing that is configured or was resolved: for any  *)
(* number of routes and hosts (proxy/ip_scope.rs, validate.rs).              *)
THEOREM RoutesApartHolds == Spec => []RoutesStayApart
<1>1. GivenIsAsked => RoutesStayApart
  <2> SUFFICES ASSUME GivenIsAsked PROVE RoutesStayApart
    OBVIOUS
  <2>1. RangesCheckedExactly
    BY RangesCheckedAsked
  <2> SUFFICES ASSUME given.kind = "routes", AdvertiseRoutesValid(given.configured)
               PROVE  LET ranges == Advertisement(given.scope, given.configured, given.assigned)
                      IN /\ Lawful(ranges)
                         /\ \A family \in given.assigned, n \in Numbers :
                               /\ Reachable(given.scope, given.configured, family, n)
                                      => Cardinality(Holding(ranges, family, n)) = 1
                               /\ Holding(ranges, family, n) # {}
                                      => \/ given.scope.kind = "resolved"
                                         \/ \E i \in DOMAIN given.configured :
                                               Within(given.configured[i], family, n)
                         /\ \A i \in DOMAIN ranges : ranges[i].family \in given.assigned
    BY <2>1 DEF RoutesStayApart
  <2> DEFINE scope == given.scope
             c == given.configured
             protocol == scope.protocol
             A == Advertised(scope, c)
             ranges == Advertisement(scope, c, given.assigned)
  <2>2. RoutesQuestion(given)
    BY QuestionsAssumption DEF GivenIsAsked, Stream
  <2>3. /\ \A i \in DOMAIN ranges : \E a \in A :
              a.family \in given.assigned /\ ranges[i] = RangeOf(a, protocol)
        /\ \A a \in A : a.family \in given.assigned =>
              \E i \in DOMAIN ranges : ranges[i] = RangeOf(a, protocol)
    BY <2>2, AdvertisementIs
  <2>4. Lawful(ranges) /\ \A i, j \in DOMAIN ranges : i # j => ~SharesAddress(ranges[i], ranges[j])
    BY <2>2, AdvertisementLawful
  <2>5. \A a \in A : IsBlock(a)
    BY <2>2, AdvertisedApart
  <2>6. /\ scope.kind = "any" => A = ToSet(c)
        /\ scope.kind = "prefix" => A = UNION {Intersection(scope.target, c[i]) : i \in DOMAIN c}
        /\ scope.kind = "resolved" => A = scope.target
        /\ scope.kind \in {"any", "prefix", "resolved"}
    BY <2>2, AdvertisedIs
  <2>7. /\ \A i \in DOMAIN c : IsBlock(c[i])
        /\ scope.kind = "prefix" =>
              IsBlock(scope.target) /\ \A i \in DOMAIN c : Nest(scope.target, c[i])
    BY <2>2 DEF RoutesQuestion
  <2> HIDE DEF A, ranges
  <2>8. ASSUME NEW i \in DOMAIN ranges PROVE ranges[i].family \in given.assigned
    BY <2>3 DEF RangeOf
  <2>9. ASSUME NEW family \in given.assigned, NEW n \in Numbers, Reachable(scope, c, family, n)
        PROVE  Cardinality(Holding(ranges, family, n)) = 1
    <3>1. \E a \in A : Within(a, family, n)
      <4>1. CASE scope.kind = "any"
        BY <2>6, <2>9, <4>1 DEF Reachable, ToSet
      <4>2. CASE scope.kind = "prefix"
        <5>1. Within(scope.target, family, n)
          BY <2>9, <4>2 DEF Reachable
        <5>2. PICK i \in DOMAIN c : Within(c[i], family, n)
          BY <2>9, <4>2 DEF Reachable
        <5> DEFINE target == scope.target
                   route == c[i]
        <5>3. /\ target.family = family /\ n \in target.first..target.last
              /\ route.family = family /\ n \in route.first..route.last
              /\ target.first \in Nat /\ target.last \in Nat /\ route.first \in Nat /\ route.last \in Nat
          BY <2>7, <4>2, <5>1, <5>2, BlockType DEF Within
        <5>4. Within(target, route.family, route.first) \/ Within(route, target.family, target.first)
          <6> HIDE DEF target, route
          <6> QED BY <5>3, SMT DEF Within
        <5>5. \E a \in Intersection(target, route) : Within(a, family, n)
          <6>1. SameFamily(target, route)
            BY <5>3 DEF SameFamily
          <6> QED BY <5>1, <5>2, <5>4, <6>1 DEF Intersection
        <5> QED BY <2>6, <4>2, <5>5
      <4>3. CASE scope.kind = "resolved"
        BY <2>6, <2>9, <4>3 DEF Reachable
      <4> QED BY <2>6, <4>1, <4>2, <4>3
    <3>2. PICK a \in A : Within(a, family, n)
      BY <3>1
    <3>3. PICK i \in DOMAIN ranges : ranges[i] = RangeOf(a, protocol)
      BY <2>3, <3>2 DEF Within
    <3>4. i \in Holding(ranges, family, n)
      BY <3>2, <3>3 DEF Holding, RangeOf, Within
    <3>5. ASSUME NEW j \in Holding(ranges, family, n) PROVE j = i
      <4> SUFFICES ASSUME j # i PROVE FALSE
        OBVIOUS
      <4>1. j \in DOMAIN ranges /\ ranges[j].family = family /\ n \in ranges[j].start..ranges[j].end
        BY DEF Holding
      <4>2. ranges[i].family = family /\ n \in ranges[i].start..ranges[i].end
        BY <3>4 DEF Holding
      <4>3. ~SharesAddress(ranges[i], ranges[j])
        BY <2>4, <4>1
      <4>4. PICK b \in A : ranges[j] = RangeOf(b, protocol)
        BY <2>3, <4>1
      <4>5. /\ ranges[i].start \in Nat /\ ranges[i].end \in Nat
            /\ ranges[j].start \in Nat /\ ranges[j].end \in Nat
        BY <2>5, <3>3, <4>4, BlockType DEF RangeOf
      <4> QED BY <4>1, <4>2, <4>3, <4>5, SMT DEF SharesAddress, SameFamily
    <3>6. Holding(ranges, family, n) = {i}
      BY <3>4, <3>5
    <3> QED BY <3>6, FS_Singleton
  <2>10. ASSUME NEW family \in given.assigned, NEW n \in Numbers,
                Holding(ranges, family, n) # {}, scope.kind # "resolved"
         PROVE  \E i \in DOMAIN c : Within(c[i], family, n)
    <3>1. PICK i \in DOMAIN ranges : ranges[i].family = family /\ n \in ranges[i].start..ranges[i].end
      BY <2>10 DEF Holding
    <3>2. PICK a \in A : ranges[i] = RangeOf(a, protocol)
      BY <2>3
    <3>3. Within(a, family, n)
      BY <3>1, <3>2 DEF RangeOf, Within
    <3>4. CASE scope.kind = "any"
      BY <2>6, <3>3, <3>4 DEF ToSet
    <3>5. CASE scope.kind = "prefix"
      <4>1. PICK k \in DOMAIN c : a \in Intersection(scope.target, c[k])
        BY <2>6, <3>5
      <4>2. Inside(a, c[k])
        BY <2>7, <3>5, <4>1, IntersectionIs
      <4>3. /\ a.first \in Nat /\ a.last \in Nat /\ c[k].first \in Nat /\ c[k].last \in Nat
        BY <2>5, <2>7, BlockType
      <4>4. Within(c[k], family, n)
        BY <3>3, <4>2, <4>3, SMT DEF Inside, Within, SameFamily
      <4> QED BY <4>4
    <3> QED BY <2>6, <2>10, <3>4, <3>5
  <2> QED BY <2>4, <2>8, <2>9, <2>10 DEF ranges
<1> QED BY <1>1, GivenStays, PTL

(* The checks of the two directions fit each other, for packets of any       *)
(* length and chain of headers, any scope, roles and routes: what a client   *)
(* may send may be answered and errors about it reach it; what reaches its   *)
(* addresses may be answered (proxy/ip.rs).                                  *)
THEOREM WayBackHolds == Spec => []WayBackIsOpen
<1>1. GivenIsAsked => WayBackIsOpen
  <2> SUFFICES ASSUME GivenIsAsked, given.kind = "packet" PROVE WayBackIsOpen
    BY DEF WayBackIsOpen
  <2> DEFINE s == given.session
             p == given.packet
             a == AnswerTo(p)
  <2>1. PacketQuestion(given)
    BY QuestionsAssumption DEF GivenIsAsked, Stream
  <2>2. /\ IsPacket(p) /\ s.mtu \in Nat /\ s.mtu >= 1280
        /\ \A router \in given.routers : router \in Addresses
    BY <2>1 DEF PacketQuestion
  <2>3. /\ a.length = p.length /\ a.protocol = p.protocol /\ a.hop = 64
        /\ a.source = p.destination /\ a.destination = p.source
        /\ ParsesWhole(a) <=> ParsesWhole(p)
        /\ Payload(a) = Payload(p) /\ ~IsError(a)
    BY <2>2, AnswerIs
  <2>4. Decrements(a)
    BY <2>3, SMT DEF Decrements
  <2> HIDE DEF a
  <2>5. ASSUME ValidateFromClient(s, p) = "ok", Payload(p) > 0
        PROVE  SendFromTun(s, a) = "ok"
    BY <2>3, <2>4, <2>5, FromClientOk, FromTunOk DEF LeadsToClient
  <2>6. ASSUME ValidateFromClient(s, p) = "ok", NEW router \in given.routers,
               NEW quote \in Quotes(p), router.family = p.family
        PROVE  SendFromTun(s, RouterError(p, router, quote)) = "ok"
    <3> DEFINE e == RouterError(p, router, quote)
    <3>1. /\ p.length \in 1..s.mtu /\ ParsesWhole(p) /\ ParsesPrefix(p) /\ Assigned(s, p.source)
          /\ MayReach(s, p.destination) /\ MayUse(s, p.protocol)
      BY <2>6, FromClientOk DEF ParsesWhole
    <3>2. /\ p.length \in Nat /\ HeaderEnd(p) \in Nat /\ p.family \in Families /\ p.header \in Nat
          /\ p.header <= HeaderEnd(p) /\ Available(p) \in {p.length, p.declared}
      BY <2>2, PacketType
    <3>3. /\ FixedHeader(p.family) = IF p.family = "ipv4" THEN 20 ELSE 40
          /\ QuoteLimit(p.family) = IF p.family = "ipv4" THEN 548 ELSE 1232
      BY DEF FixedHeader, QuoteLimit
    <3>4. /\ Available(p) = p.length /\ p.header >= 20
      BY <3>1, <3>2, <3>3, SMT DEF ParsesWhole, ParsesPrefix
    <3>5. /\ Min({p.length, QuoteLimit(p.family)}) \in Nat
          /\ Min({p.length, QuoteLimit(p.family)}) <= p.length
          /\ Min({p.length, QuoteLimit(p.family)}) <= QuoteLimit(p.family)
          /\ Min({p.length, HeaderEnd(p) + 8}) =
                IF p.length <= HeaderEnd(p) + 8 THEN p.length ELSE HeaderEnd(p) + 8
      BY <3>2, <3>3, LeastOfTwo, SMT
    <3>6. /\ quote \in Nat
          /\ quote <= Min({p.length, QuoteLimit(p.family)})
          /\ quote >= Min({p.length, HeaderEnd(p) + 8})
      BY <3>2, SMT DEF Quotes
    <3>7. /\ quote \in Nat /\ quote <= p.length /\ quote <= QuoteLimit(p.family) /\ quote > 0
          /\ quote = p.length \/ quote >= HeaderEnd(p)
      BY <3>1, <3>2, <3>3, <3>4, <3>5, <3>6, SMT
    <3>8. /\ e.family = p.family /\ e.length = FixedHeader(p.family) + 8 + quote
          /\ e.declared = e.length /\ e.header = FixedHeader(p.family) /\ e.extensions = <<>>
          /\ e.protocol = (IF p.family = "ipv4" THEN 1 ELSE 58)
          /\ e.source = router /\ e.destination = p.source /\ e.hop = 64
          /\ e.body = [kind |-> "error", about |-> p]
      <4> DEFINE fields == [family : Families, length : Nat, declared : Nat, header : Nat,
                            extensions : Seq([type : STRING, end : Nat]), protocol : 0..255,
                            hop : 0..255, source : Addresses, destination : Addresses,
                            body : {p.body}]
      <4>1. p \in fields
        BY <2>2 DEF IsPacket
      <4> QED BY <4>1 DEF RouterError
    <3> HIDE DEF e, s, p
    <3>9. /\ ParsesWhole(e) /\ IsError(e) /\ Payload(e) = quote + 8 /\ InvokingParses(e)
      <4>1. quote = Available(p) \/ quote >= HeaderEnd(p)
        BY <3>4, <3>7
      <4>2. IsPacket(p) /\ ParsesPrefix(p)
        BY <2>2, <3>1
      <4>3. quote \in Nat /\ quote <= p.length /\ quote > 0
        BY <3>7
      <4>4. /\ e.family = p.family /\ e.length = FixedHeader(p.family) + 8 + quote
            /\ e.declared = e.length /\ e.header = FixedHeader(p.family)
            /\ e.extensions = <<>> /\ e.protocol = (IF p.family = "ipv4" THEN 1 ELSE 58)
            /\ e.body = [kind |-> "error", about |-> p]
        BY <3>8
      <4> QED BY <4>1, <4>2, <4>3, <4>4, ErrorIs
    <3>10. e.length \in 1..s.mtu
      BY <2>2, <3>3, <3>7, <3>8, SMT
    <3>11. /\ LeadsToClient(s, e.destination, e.protocol)
           /\ Assigned(s, e.body.about.source) /\ MayReach(s, e.body.about.destination)
           /\ MayUse(s, e.body.about.protocol)
      BY <3>1, <3>8 DEF LeadsToClient
    <3>12. Payload(e) > 0 /\ Decrements(e)
      BY <3>7, <3>8, <3>9, SMT DEF Decrements
    <3> QED BY <3>9, <3>10, <3>11, <3>12, ErrorFromTunOk DEF e
  <2>7. ASSUME SendFromTun(s, p) = "ok", ~IsError(p), Assigned(s, p.destination)
        PROVE  ValidateFromClient(s, a) = "ok"
    BY <2>3, <2>7, FromClientOk, FromTunOk
  <2> QED BY <2>5, <2>6, <2>7 DEF WayBackIsOpen, a
<1> QED BY <1>1, GivenStays, PTL

(* A packet of the client that is refused is answered by an error whatever   *)
(* its length, which is whole, fits the MTU, is for the client and quotes    *)
(* what it is about when its headers fit in a quote (proxy/ip.rs,            *)
(* packet/icmp.rs).                                                          *)
THEOREM ErrorsComeHomeHolds == Spec => []ErrorsComeHome
<1>1. GivenIsAsked => ErrorsComeHome
  <2> SUFFICES ASSUME GivenIsAsked, given.kind = "packet" PROVE ErrorsComeHome
    BY DEF ErrorsComeHome
  <2> DEFINE s == given.session
             p == given.packet
             reason == ValidateFromClient(s, p)
             errors == ForwardingError(s, p, reason)
             quote == Min({Available(p), QuoteLimit(p.family)})
  <2>1. IsPacket(p) /\ s.mtu \in Nat /\ s.mtu >= 1280
    BY QuestionsAssumption DEF GivenIsAsked, Stream, PacketQuestion
  <2>2. /\ p.length \in Nat /\ HeaderEnd(p) \in Nat /\ p.family \in Families /\ p.header \in Nat
        /\ p.header <= HeaderEnd(p) /\ Available(p) \in {p.length, p.declared}
        /\ Available(p) \in Nat /\ Available(p) <= p.length
    BY <2>1, PacketType
  <2>3. /\ FixedHeader(p.family) = IF p.family = "ipv4" THEN 20 ELSE 40
        /\ QuoteLimit(p.family) = IF p.family = "ipv4" THEN 548 ELSE 1232
    BY DEF FixedHeader, QuoteLimit
  <2>4. quote = IF Available(p) <= QuoteLimit(p.family) THEN Available(p) ELSE QuoteLimit(p.family)
    BY <2>2, <2>3, LeastOfTwo
  <2> HIDE DEF quote
  <2>5. ASSUME NEW source
        PROVE  LET e == IcmpError(p, source)
               IN /\ e.family = p.family /\ e.length = FixedHeader(p.family) + 8 + quote
                  /\ e.declared = e.length /\ e.header = FixedHeader(p.family)
                  /\ e.extensions = <<>> /\ e.protocol = (IF p.family = "ipv4" THEN 1 ELSE 58)
                  /\ e.destination = p.source /\ e.body = [kind |-> "error", about |-> p]
                  /\ e.length \in Nat /\ e.length <= s.mtu
    <3> DEFINE e == IcmpError(p, source)
    <3>1. /\ e.family = p.family /\ e.length = FixedHeader(p.family) + 8 + quote
          /\ e.declared = e.length /\ e.header = FixedHeader(p.family)
          /\ e.extensions = <<>> /\ e.protocol = (IF p.family = "ipv4" THEN 1 ELSE 58)
          /\ e.destination = p.source /\ e.body = [kind |-> "error", about |-> p]
      BY DEF IcmpError, quote
    <3> HIDE DEF e
    <3>2. e.length \in Nat /\ e.length <= s.mtu
      BY <2>1, <2>2, <2>3, <2>4, <3>1, SMT
    <3> QED BY <3>1, <3>2 DEF e
  <2> DEFINE mine == {i \in DOMAIN s.assigned : s.assigned[i].family = p.family}
             from == [family |-> p.family, n |-> s.assigned[Min(mine)].first]
             sent == IcmpError(p, from)
  <2>6. errors = IF /\ reason \in {"destination", "protocol", "source", "oversized"}
                    /\ ParsesPrefix(p) /\ Assigned(s, p.source)
                 THEN {e \in {sent} : e.length <= s.mtu} ELSE {}
    BY DEF ForwardingError
  <2> HIDE DEF mine, from, reason, errors
  <2>7. ASSUME reason \in {"destination", "protocol", "oversized"},
               ParsesPrefix(p), Assigned(s, p.source)
        PROVE  errors # {}
    BY <2>5, <2>6, <2>7
  <2>8. ASSUME NEW e \in errors
        PROVE  /\ ParsesWhole(e) /\ e.length <= s.mtu /\ Assigned(s, e.destination)
               /\ HeaderEnd(p) <= QuoteLimit(p.family) =>
                     InvokingParses(e) /\ Invoking(e).source = e.destination
    <3>1. e = sent /\ ParsesPrefix(p) /\ Assigned(s, p.source)
      BY <2>6, <2>8
    <3>2. /\ e.family = p.family /\ e.length = FixedHeader(p.family) + 8 + quote
          /\ e.declared = e.length /\ e.header = FixedHeader(p.family)
          /\ e.extensions = <<>> /\ e.protocol = (IF p.family = "ipv4" THEN 1 ELSE 58)
          /\ e.destination = p.source /\ e.body = [kind |-> "error", about |-> p]
          /\ e.length \in Nat /\ e.length <= s.mtu
      BY <2>5, <3>1
    <3> HIDE DEF sent, s, p
    <3>3. quote \in Nat /\ quote > 0 /\ quote <= p.length
      BY <2>2, <2>3, <2>4, <3>1, SMT DEF ParsesPrefix
    <3>4. ParsesWhole(e)
      BY <2>2, <2>3, <3>2, <3>3, PlainParses, SMT
    <3>5. ASSUME HeaderEnd(p) <= QuoteLimit(p.family)
          PROVE  InvokingParses(e) /\ Invoking(e).source = p.source
      <4>1. quote = Available(p) \/ quote >= HeaderEnd(p)
        BY <2>2, <2>3, <2>4, <3>5, SMT
      <4> QED BY <2>1, <3>1, <3>2, <3>3, <4>1, ErrorIs
    <3> QED BY <3>1, <3>2, <3>4, <3>5
  <2> QED BY <2>7, <2>8 DEF ErrorsComeHome, reason, errors
<1> QED BY <1>1, GivenStays, PTL

(* A configuration that loads is closed, for documents of any length: what   *)
(* it names is there and belongs to the one that named it, limits are not    *)
(* zero, its routes can be advertised (validate.rs, compile.rs).             *)
THEOREM ConfigClosedHolds == Spec => []CompiledConfigClosed
<1>1. GivenIsAsked => CompiledConfigClosed
  <2> SUFFICES ASSUME GivenIsAsked, given.kind = "config", Valid(given.document),
                      given.document.ip.enabled \/ Compiles(given.document)
               PROVE  CompiledConfigClosed
    BY DEF CompiledConfigClosed
  <2> DEFINE d == given.document
             c == CompiledConfig(d)
  <2>1. /\ IsList(d.principals) /\ \A p \in Range(d.principals) : IsList(p.certificates)
        /\ IsList(d.tokens) /\ \A t \in Range(d.tokens) : t.enabled \in BOOLEAN
        /\ IsList(d.roles) /\ \A role \in Range(d.roles) : Range(role.limits) \subseteq Nat
        /\ IsList(d.listen) /\ d.required \in BOOLEAN
        /\ d.files.clientCa \in {"set", "none", "blank"}
        /\ IsList(d.ip.pools) /\ IsList(d.ip.routes)
        /\ \A i \in DOMAIN d.ip.routes : Parses(d.ip.routes[i]) => IsBlock(d.ip.routes[i])
    <3>1. ConfigQuestion(given)
      BY QuestionsAssumption DEF GivenIsAsked, Stream
    <3> QED BY <3>1 DEF ConfigQuestion
  <2>2. ServerValid(d) /\ AuthValid(d) /\ PolicyValid(d) /\ UdpValid(d) /\ IpValid(d) /\ MetricsValid(d)
    BY DEF Valid
  <2>3. /\ c.listen = d.listen /\ c.metrics = d.metrics /\ c.required = d.required
        /\ c.mode = d.mode /\ c.clientCa = d.files.clientCa /\ c.ip = d.ip
        /\ c.principals = MapOf(Entries(d.principals, DOMAIN d.principals, "id", "roles"))
        /\ c.tokens = MapOf(Entries(d.tokens, {i \in DOMAIN d.tokens : d.tokens[i].enabled},
                                    "id", "principal"))
        /\ c.certificates = Certificates(d)
        /\ c.roles = MapOf([i \in DOMAIN d.roles |-> [key |-> d.roles[i].name, value |-> d.roles[i]]])
        /\ c.pools = {d.ip.pools[i].network : i \in DOMAIN d.ip.pools}
    BY DEF CompiledConfig
  <2> HIDE DEF c
  <2>4. Compiles(d)
    BY <2>2 DEF Compiles, IpValid, AllParse
  <2>5. \A i, j \in DOMAIN d.principals : d.principals[i].id = d.principals[j].id => i = j
    BY <2>2 DEF AuthValid, Distinct, IsInjective, Field
  <2>6. \A i, j \in DOMAIN d.tokens : d.tokens[i].id = d.tokens[j].id => i = j
    BY <2>2 DEF AuthValid, Distinct, IsInjective, Field
  <2>7. \A i \in DOMAIN d.principals :
           /\ d.principals[i].id \in DOMAIN c.principals
           /\ c.principals[d.principals[i].id] = d.principals[i].roles
    <3> DEFINE s == d.principals
               members == DOMAIN s
               key == "id"
               value == "roles"
               m == MapOf(Entries(s, members, key, value))
    <3>1. IsList(s) /\ c.principals = m
      BY <2>1, <2>3
    <3>2. \A i, j \in DOMAIN s : s[i][key] = s[j][key] => i = j
      BY <2>5
    <3>3. members \in SUBSET DOMAIN s
      OBVIOUS
    <3>4. /\ \A i \in members : s[i][key] \in DOMAIN m /\ m[s[i][key]] = s[i][value]
          /\ \A i \in DOMAIN s : s[i][key] \in DOMAIN m => i \in members
      <4> HIDE DEF s, key, value, members
      <4> QED BY <3>1, <3>2, <3>3, EntriesAre
    <3> HIDE DEF m
    <3> QED BY <3>1, <3>4
  <2>8. \A i \in DOMAIN d.tokens :
           IF d.tokens[i].enabled
           THEN d.tokens[i].id \in DOMAIN c.tokens /\ c.tokens[d.tokens[i].id] = d.tokens[i].principal
           ELSE d.tokens[i].id \notin DOMAIN c.tokens
    <3> DEFINE s == d.tokens
               members == {i \in DOMAIN s : s[i].enabled}
               key == "id"
               value == "principal"
               m == MapOf(Entries(s, members, key, value))
    <3>1. IsList(s) /\ c.tokens = m
      BY <2>1, <2>3
    <3>2. \A i, j \in DOMAIN s : s[i][key] = s[j][key] => i = j
      BY <2>6
    <3>3. members \in SUBSET DOMAIN s
      OBVIOUS
    <3>4. /\ \A i \in members : s[i][key] \in DOMAIN m /\ m[s[i][key]] = s[i][value]
          /\ \A i \in DOMAIN s : s[i][key] \in DOMAIN m => i \in members
      <4> HIDE DEF s, key, value, members
      <4> QED BY <3>1, <3>2, <3>3, EntriesAre
    <3> HIDE DEF m
    <3> QED BY <3>1, <3>4
  <2>9. DOMAIN c.roles = Range(Field(d.roles, "name"))
    <3> DEFINE entries == [i \in DOMAIN d.roles |-> [key |-> d.roles[i].name, value |-> d.roles[i]]]
    <3>1. DOMAIN c.roles = {e.key : e \in Range(entries)}
      BY <2>3 DEF MapOf
    <3>2. Range(Field(d.roles, "name")) = {d.roles[i].name : i \in DOMAIN d.roles}
      BY DEF Range, Field
    <3>3. {e.key : e \in Range(entries)} = {d.roles[i].name : i \in DOMAIN d.roles}
      <4>1. /\ DOMAIN entries = DOMAIN d.roles
            /\ \A i \in DOMAIN entries : entries[i].key = d.roles[i].name
        OBVIOUS
      <4> HIDE DEF entries
      <4>2. \A e \in Range(entries) : \E i \in DOMAIN d.roles : e.key = d.roles[i].name
        BY <4>1 DEF Range
      <4>3. \A i \in DOMAIN d.roles : \E e \in Range(entries) : e.key = d.roles[i].name
        BY <4>1 DEF Range
      <4> QED BY <4>2, <4>3
    <3> QED BY <3>1, <3>2, <3>3
  <2>10. ASSUME NEW i \in DOMAIN d.principals
         PROVE  Range(d.principals[i].roles) \subseteq DOMAIN c.roles
    <3>1. d.principals[i] \in Range(d.principals)
      BY DEF Range
    <3> QED BY <2>2, <2>9, <3>1 DEF AuthValid
  <2>11. ASSUME NEW i \in DOMAIN d.principals, NEW k \in DOMAIN d.principals[i].certificates
         PROVE  /\ d.principals[i].certificates[k].value \in DOMAIN c.certificates
                /\ c.certificates[d.principals[i].certificates[k].value] = d.principals[i].id
    <3>1. Distinct(DigestsOf(d))
      BY <2>2 DEF AuthValid
    <3> QED BY <2>1, <2>3, <3>1, CertificatesAre
  <2>12. ASSUME NEW i \in DOMAIN d.tokens PROVE d.tokens[i].principal \in DOMAIN c.principals
    <3>1. d.tokens[i] \in Range(d.tokens)
      BY DEF Range
    <3>2. d.tokens[i].principal \in Range(Field(d.principals, "id"))
      BY <2>2, <3>1 DEF AuthValid
    <3>3. PICK j \in DOMAIN d.principals : d.tokens[i].principal = d.principals[j].id
      BY <3>2 DEF Range, Field
    <3> QED BY <2>7, <3>3
  <2>13. ASSUME c.mode \in {"mtls", "bearer-or-mtls"}
         PROVE  c.clientCa = "set" /\ DOMAIN c.certificates # {}
    <3>1. UsesMtls(d)
      BY <2>3, <2>13 DEF UsesMtls
    <3>2. /\ d.files.clientCa \notin {"none", "blank"}
          /\ \E p \in Range(d.principals) : p.certificates # <<>>
      BY <2>2, <3>1 DEF AuthValid
    <3>3. PICK i \in DOMAIN d.principals : d.principals[i].certificates # <<>>
      BY <3>2 DEF Range
    <3>4. IsList(d.principals[i].certificates)
      BY <2>1 DEF Range
    <3>5. 1 \in DOMAIN d.principals[i].certificates
      <4> DEFINE s == d.principals[i].certificates
                 S == Range(s)
      <4>1. s \in Seq(S) /\ s # <<>>
        BY <3>3, <3>4 DEF IsList
      <4> HIDE DEF s, S
      <4>2. 1 \in DOMAIN s
        BY <4>1, SMT
      <4> QED BY <4>2 DEF s
    <3> QED BY <2>1, <2>3, <2>11, <3>2, <3>5
  <2>14. ASSUME NEW name \in DOMAIN c.roles, NEW limit \in Range(c.roles[name].limits)
         PROVE  limit > 0
    <3> DEFINE entries == [i \in DOMAIN d.roles |-> [key |-> d.roles[i].name, value |-> d.roles[i]]]
    <3>1. \E i \in DOMAIN entries : c.roles[name] = entries[i].value
      <4>1. \A i, j \in DOMAIN d.roles : d.roles[i].name = d.roles[j].name => i = j
        BY <2>2 DEF AuthValid, Distinct, IsInjective, Field
      <4>2. c.roles = MapOf(entries)
        BY <2>3
      <4>3. DOMAIN entries \subseteq Nat
        BY <2>1, ListType
      <4>4. \A i, j \in DOMAIN entries : entries[j].key = entries[i].key => j = i
        BY <4>1
      <4> HIDE DEF entries
      <4>5. PICK i \in DOMAIN entries : entries[i].key = name
        BY <4>2, MapOnlyHas
      <4>6. MapOf(entries)[entries[i].key] = entries[i].value
        BY <4>3, <4>4, MapHas
      <4> QED BY <4>2, <4>5, <4>6
    <3>2. PICK i \in DOMAIN d.roles : c.roles[name] = d.roles[i]
      BY <3>1
    <3>3. d.roles[i] \in Range(d.roles)
      BY DEF Range
    <3>4. limit \in Nat /\ 0 \notin Range(d.roles[i].limits)
      BY <2>1, <2>2, <3>2, <3>3 DEF PolicyValid
    <3> QED BY <3>2, <3>4
  <2>15. ASSUME d.ip.enabled
         PROVE  /\ c.pools # {} /\ c.ip.mtu >= 1280
                /\ \A i \in DOMAIN c.ip.pools : c.ip.pools[i].declared = c.ip.pools[i].network.family
                /\ RangesValid(Advertisement([kind |-> "any", protocol |-> 0], c.ip.routes, Families))
    <3>1. /\ d.ip.mtu >= 1280 /\ d.ip.pools # <<>>
          /\ \A i \in DOMAIN d.ip.pools : d.ip.pools[i].network.family = d.ip.pools[i].declared
          /\ AllParse(d.ip.routes) /\ AdvertiseRoutesValid(d.ip.routes)
      BY <2>2, <2>15 DEF IpValid
    <3>2. \A i \in DOMAIN d.ip.routes : IsBlock(d.ip.routes[i])
      BY <2>1, <3>1 DEF AllParse
    <3>3. RangesValid(Advertisement([kind |-> "any", protocol |-> 0], d.ip.routes, Families))
      BY <2>1, <3>1, <3>2, AllRoutesLawful
    <3>4. 1 \in DOMAIN d.ip.pools
      <4> DEFINE s == d.ip.pools
                 S == Range(s)
      <4>1. s \in Seq(S) /\ s # <<>>
        BY <2>1, <3>1 DEF IsList
      <4> HIDE DEF s, S
      <4>2. 1 \in DOMAIN s
        BY <4>1, SMT
      <4> QED BY <4>2 DEF s
    <3>5. c.pools # {}
      BY <2>3, <3>4
    <3>6. \A i \in DOMAIN c.ip.pools : c.ip.pools[i].declared = c.ip.pools[i].network.family
      BY <2>3, <3>1
    <3>7. c.ip.mtu >= 1280 /\ c.ip.routes = d.ip.routes
      BY <2>3, <3>1
    <3> QED BY <3>3, <3>5, <3>6, <3>7
  <2>16. /\ c.metrics.ip \in {"127.0.0.1", "::1"} /\ c.metrics \notin Range(c.listen)
    BY <2>2, <2>3 DEF MetricsValid, Range
  <2>17. c.required = (c.mode # "none")
    BY <2>1, <2>2, <2>3 DEF AuthValid
  <2>18. c.ip.nat = "managed" => c.ip.enabled
    BY <2>2, <2>3 DEF IpValid
  <2> DEFINE Closed ==
         /\ Compiles(d)
         /\ \A i \in DOMAIN d.principals :
               LET p == d.principals[i]
               IN /\ c.principals[p.id] = p.roles /\ Range(p.roles) \subseteq DOMAIN c.roles
                  /\ \A k \in DOMAIN p.certificates :
                        c.certificates[p.certificates[k].value] = p.id
         /\ \A i \in DOMAIN d.tokens :
               LET t == d.tokens[i]
               IN IF t.enabled THEN c.tokens[t.id] = t.principal /\ t.principal \in DOMAIN c.principals
                  ELSE t.id \notin DOMAIN c.tokens
         /\ c.required = (c.mode # "none")
         /\ c.mode \in {"mtls", "bearer-or-mtls"} =>
               c.clientCa = "set" /\ DOMAIN c.certificates # {}
         /\ \A name \in DOMAIN c.roles : \A limit \in Range(c.roles[name].limits) : limit > 0
         /\ c.ip.enabled => /\ c.pools # {} /\ c.ip.mtu >= 1280
                            /\ \A i \in DOMAIN c.ip.pools :
                                  c.ip.pools[i].declared = c.ip.pools[i].network.family
                            /\ RangesValid(Advertisement([kind |-> "any", protocol |-> 0],
                                                         c.ip.routes, {"ipv4", "ipv6"}))
         /\ c.ip.nat = "managed" => c.ip.enabled
         /\ c.metrics.ip \in {"127.0.0.1", "::1"} /\ c.metrics \notin Range(c.listen)
  <2>19. Closed
    <3>1. c.ip.enabled => d.ip.enabled
      BY <2>3
    <3> HIDE DEF d
    <3> QED BY <2>4, <2>7, <2>8, <2>10, <2>11, <2>12, <2>13, <2>14, <2>15, <2>16, <2>17, <2>18, <3>1
            DEF Families
  <2> QED BY <2>19, Zenon DEF CompiledConfigClosed, c
<1> QED BY <1>1, GivenStays, PTL

(* Every answer of a session has each address once and an answer for each    *)
(* request, no identifier is answered twice, and only an unlawful capsule or *)
(* one with too many entries to answer ends the session, for any number of   *)
(* capsules and requests (proxy/ip.rs, capsule/address.rs).                  *)
THEOREM AnswersCompleteHolds == Spec => []AnswersComplete
<1>1. ASSUME GivenIsAsked PROVE AnswersComplete
  <2> SUFFICES ASSUME given.kind = "requests" PROVE AnswersComplete
    BY DEF AnswersComplete
  <2> DEFINE assigned == given.assigned
             capsules == given.capsules
             session == AddressSession(assigned, capsules)[Len(capsules)]
             answers == session.answers
             Ids(entries) == {entries[j].id : j \in DOMAIN entries} \ {0}
             Answered(k) == UNION {Ids(answers[j]) : j \in 1..(k - 1)}
             failing == capsules[Len(answers) + 1]
             unasked == {i \in DOMAIN assigned :
                            \A j \in DOMAIN failing : failing[j].prefix.family # assigned[i].family}
             a == Len(answers)
  <2>1. AreLeased(assigned) /\ capsules \in Seq(Seq(Asking))
    <3>1. \E i \in DOMAIN Questions : given \in Questions[i]
      BY <1>1 DEF GivenIsAsked, Stream
    <3>2. RequestsQuestion(given)
      BY <3>1, QuestionsAssumption
    <3> QED BY <3>2 DEF RequestsQuestion, AreLeased, Asking, Leasable
  <2>2. SessionSo(assigned, capsules, Len(capsules), session)
    <3> HIDE DEF assigned, capsules
    <3> QED BY <2>1, SessionIs
  <2>3. \A k \in 1..Len(capsules) : capsules[k] \in Seq(Asking)
    <3> HIDE DEF capsules
    <3> QED BY <2>1
  <2> HIDE DEF assigned, capsules, session
  <2>4. /\ a \in Nat /\ DOMAIN answers = 1..a /\ a <= Len(capsules) /\ Len(capsules) \in Nat
        /\ \A j \in 1..a : /\ answers[j] = Answer(assigned, capsules[j])
                           /\ RequestsLawful(capsules[j], Used(capsules, j - 1))
        /\ session.failed # <<>> => a < Len(capsules) /\ Unanswered(assigned, capsules, a + 1)
    <3>1. answers \in Seq(Seq(Entry))
      BY <2>2 DEF SessionSo, SessionStates
    <3>2. a \in Nat /\ DOMAIN answers = 1..a /\ Len(capsules) \in Nat
      BY <3>1, <2>1
    <3> QED BY <3>2, <2>2 DEF SessionSo
  <2> HIDE DEF answers, a
  <2>5. \A k \in 1..a : k \in 1..Len(capsules) /\ capsules[k] \in Seq(Asking)
    BY <2>3, <2>4
  <2>6. \A k \in 1..a : AnswerSo(assigned, capsules[k], answers[k])
    BY <2>1, <2>4, <2>5, AnswerFacts
  <2>7. \A k \in 1..a : Ids(answers[k]) = IdsOf(capsules[k])
    <3> TAKE k \in 1..a
    <3> DEFINE requests == capsules[k]
               entries == answers[k]
    <3>1. AnswerSo(assigned, requests, entries) /\ requests \in Seq(Asking)
      BY <2>5, <2>6
    <3>2. RequestsLawful(requests, Used(capsules, k - 1))
      BY <2>4
    <3> HIDE DEF requests, entries
    <3>3. \A j \in DOMAIN requests : entries[j].id = requests[j].id /\ requests[j].id # 0
      BY <3>1, <3>2 DEF AnswerSo, AnswersRequest, RequestsLawful
    <3>4. \A j \in DOMAIN entries : j \notin DOMAIN requests => entries[j].id = 0
      BY <3>1 DEF AnswerSo
    <3>5. DOMAIN requests \subseteq DOMAIN entries
      BY <3>1 DEF AnswerSo
    <3>6. Ids(entries) = IdsOf(requests)
      BY <3>3, <3>4, <3>5 DEF IdsOf
    <3> QED BY <3>6 DEF requests, entries
  <2>8. \A k \in 1..(a + 1) : Answered(k) = Used(capsules, k - 1)
    <3> TAKE k \in 1..(a + 1)
    <3>1. \A j \in 1..(k - 1) : j \in 1..a
      BY <2>4
    <3>2. \A j \in 1..(k - 1) : Ids(answers[j]) = IdsOf(capsules[j])
      BY <3>1, <2>7
    <3> HIDE DEF Ids
    <3> QED BY <3>2 DEF Used
  <2> HIDE DEF Ids, Answered
  <2>9. ASSUME NEW k \in 1..a
        PROVE  /\ \A i \in DOMAIN assigned :
                     Cardinality({j \in DOMAIN answers[k] :
                                    answers[k][j].prefix = assigned[i]}) = 1
               /\ Ids(answers[k]) = {capsules[k][i].id : i \in DOMAIN capsules[k]}
               /\ Ids(answers[k]) \cap Answered(k) = {}
               /\ \A j \in DOMAIN capsules[k] : AnswersRequest(assigned, capsules[k], answers[k], j)
    <3> DEFINE entries == answers[k]
               requests == capsules[k]
    <3>1. AnswerSo(assigned, requests, entries)
      BY <2>6
    <3>2. ASSUME NEW i \in DOMAIN assigned
          PROVE  Cardinality({j \in DOMAIN entries : entries[j].prefix = assigned[i]}) = 1
      <4> HIDE DEF entries, requests
      <4>1. PICK j \in DOMAIN entries :
               \A other \in DOMAIN entries : entries[other].prefix = assigned[i] <=> other = j
        BY <3>1 DEF AnswerSo
      <4>2. {other \in DOMAIN entries : entries[other].prefix = assigned[i]} = {j}
        BY <4>1
      <4> QED BY <4>2, FS_Singleton
    <3>3. Ids(entries) = {requests[i].id : i \in DOMAIN requests}
      BY <2>7 DEF IdsOf
    <3>4. Ids(entries) \cap Answered(k) = {}
      <4>1. RequestsLawful(requests, Used(capsules, k - 1)) /\ Answered(k) = Used(capsules, k - 1)
        <5>1. k \in 1..(a + 1)
          BY <2>4
        <5> QED BY <5>1, <2>4, <2>8
      <4> HIDE DEF entries, requests
      <4> QED BY <3>3, <4>1 DEF RequestsLawful
    <3> HIDE DEF entries, requests
    <3>5. \A j \in DOMAIN requests : AnswersRequest(assigned, requests, entries, j)
      BY <3>1 DEF AnswerSo
    <3> QED BY <3>2, <3>3, <3>4, <3>5 DEF entries, requests
  <2>10. ASSUME session.failed # <<>>
         PROVE  \/ ~RequestsLawful(failing, Answered(a + 1))
                \/ Len(failing) + Cardinality(unasked) > MaxEntries
    <3>1. a + 1 \in 1..Len(capsules) /\ a + 1 \in 1..(a + 1) /\ (a + 1) - 1 = a
      BY <2>4, <2>10
    <3>2. Unanswered(assigned, capsules, a + 1) /\ failing = capsules[a + 1] /\ failing \in Seq(Asking)
      BY <2>4, <2>10, <2>3, <3>1 DEF a
    <3>3. Answered(a + 1) = Used(capsules, a)
      BY <2>8, <3>1
    <3> DEFINE answer == Answer(assigned, failing)
    <3>4. Len(answer) = Len(failing) + Cardinality(unasked)
      <4> HIDE DEF failing
      <4>1. AnswerSo(assigned, failing, answer)
        BY <3>2, <2>1, AnswerFacts
      <4> QED BY <4>1 DEF AnswerSo, Unasked
    <3> HIDE DEF failing, unasked, answer
    <3>5. ~RequestsLawful(failing, Used(capsules, a)) \/ Len(answer) > MaxEntries
      BY <3>1, <3>2 DEF Unanswered, answer
    <3> QED BY <3>3, <3>4, <3>5
  <2> DEFINE Complete ==
        /\ \A k \in DOMAIN answers :
              /\ \A i \in DOMAIN assigned :
                    Cardinality({j \in DOMAIN answers[k] : answers[k][j].prefix = assigned[i]}) = 1
              /\ Ids(answers[k]) = {capsules[k][i].id : i \in DOMAIN capsules[k]}
              /\ Ids(answers[k]) \cap Answered(k) = {}
              /\ \A j \in DOMAIN capsules[k] : AnswersRequest(assigned, capsules[k], answers[k], j)
        /\ session.failed # <<>> =>
              \/ ~RequestsLawful(failing, Answered(Len(answers) + 1))
              \/ Len(failing) + Cardinality(unasked) > MaxEntries
  <2>11. Complete
    <3> HIDE DEF failing, unasked
    <3> QED BY <2>4, <2>9, <2>10 DEF a
  <2>12. Complete => AnswersComplete
    BY Zenon DEF AnswersComplete, AnswersRequest, Ids, Answered, answers, session, assigned, capsules
  <2> QED BY <2>11, <2>12
<1> QED BY <1>1, GivenStays, PTL

(* Of any calls in a row no more is admitted than the burst and what is      *)
(* earned meanwhile, and little is refused that was earned, for any rate,    *)
(* burst and number of calls (proxy/ip.rs, proxy/udp.rs).                    *)
THEOREM RateHoldsAlways == Spec => []RateHolds
<1>1. ASSUME GivenIsAsked PROVE RateHolds
  <2> SUFFICES ASSUME given.kind = "bucket" PROVE RateHolds
    BY DEF RateHolds
  <2> DEFINE rate == given.rate
             burst == given.burst
             calls == given.calls
             n == Len(calls)
             tokens == Bucket(rate, burst, calls)
             Admitted(k) == Admits(tokens[k - 1], rate, burst, calls[k])
             waits == [k \in DOMAIN calls |-> calls[k].elapsed]
             takes == [k \in DOMAIN calls |-> IF Admitted(k) THEN calls[k].amount ELSE 0]
             elapsed == Sums(waits)
             amounts == Sums(takes)
             Earned(i, j) == rate * (elapsed[j] - elapsed[i])
  <2>1. rate \in Nat /\ burst \in Nat /\ calls \in Seq(Call)
    <3>1. \E i \in DOMAIN Questions : given \in Questions[i]
      BY <1>1 DEF GivenIsAsked, Stream
    <3>2. BucketQuestion(given)
      BY <3>1, QuestionsAssumption
    <3> QED BY <3>2 DEF BucketQuestion, Call
  <2>2. /\ n \in Nat /\ DOMAIN calls = 1..n
        /\ \A k \in 1..n : calls[k] \in Call /\ calls[k].elapsed \in Nat /\ calls[k].amount \in Nat
    <3> HIDE DEF rate, burst, calls
    <3>1. n \in Nat /\ DOMAIN calls = 1..n /\ \A k \in 1..n : calls[k] \in Call
      BY <2>1
    <3> QED BY <3>1 DEF Call
  <2>3. /\ tokens \in [0..n -> Nat] /\ tokens[0] = burst
        /\ \A k \in 1..n : tokens[k] = Allow(tokens[k - 1], rate, burst, calls[k])
    <3> HIDE DEF rate, burst, calls
    <3> QED BY <2>1, BucketIs
  <2> HIDE DEF tokens
  <2>4. /\ waits \in Seq(Nat) /\ Len(waits) = n /\ takes \in Seq(Nat) /\ Len(takes) = n
        /\ \A k \in 1..n : /\ waits[k] = calls[k].elapsed
                           /\ takes[k] = IF Admitted(k) THEN calls[k].amount ELSE 0
    <3> HIDE DEF rate, burst, calls, n
    <3> QED BY <2>2
  <2> HIDE DEF waits, takes, rate, burst, calls, n
  <2>5. /\ elapsed \in [0..n -> Nat] /\ elapsed[0] = 0
        /\ \A k \in 1..n : elapsed[k] = elapsed[k - 1] + calls[k].elapsed
    <3>1. elapsed \in [0..n -> Nat] /\ elapsed[0] = 0
      BY <2>4, SumsAre
    <3>2. \A k \in 1..n : elapsed[k] = elapsed[k - 1] + waits[k]
      BY <2>4, SumsAre
    <3> HIDE DEF elapsed
    <3> QED BY <3>1, <3>2, <2>4
  <2>6. /\ amounts \in [0..n -> Nat] /\ amounts[0] = 0
        /\ \A k \in 1..n : amounts[k] = amounts[k - 1] + IF Admitted(k) THEN calls[k].amount ELSE 0
    <3>1. amounts \in [0..n -> Nat] /\ amounts[0] = 0
      BY <2>4, SumsAre
    <3>2. \A k \in 1..n : amounts[k] = amounts[k - 1] + takes[k]
      BY <2>4, SumsAre
    <3> HIDE DEF amounts
    <3> QED BY <3>1, <3>2, <2>4
  <2> HIDE DEF elapsed, amounts
  <2>7. Second \in Nat /\ Second > 0
    BY PacketBounds
  <2> DEFINE T(k) == Second * tokens[k]
             A(k) == Second * amounts[k]
             Y(k) == rate * elapsed[k]
             B == Second * burst
  <2>8. /\ B \in Int
        /\ \A k \in 0..n : /\ T(k) \in Int /\ A(k) \in Int /\ Y(k) \in Int
                           /\ tokens[k] \in Nat /\ amounts[k] \in Nat /\ elapsed[k] \in Nat /\ T(k) >= 0
    <3>1. B \in Int
      BY <2>1, <2>7
    <3>2. \A k \in 0..n : tokens[k] \in Nat /\ amounts[k] \in Nat /\ elapsed[k] \in Nat
      BY <2>3, <2>5, <2>6
    <3> QED BY <3>1, <3>2, <2>1, <2>7
  <2>9. ASSUME NEW k \in 1..n
        PROVE  /\ k \in 0..n /\ k - 1 \in 0..n
               /\ T(k) + A(k) - A(k - 1) <= B
               /\ T(k) + A(k) - A(k - 1) <= T(k - 1) + Y(k) - Y(k - 1)
               /\ ~Admitted(k) => /\ tokens[k] < calls[k].amount
                                  /\ tokens[k - 1] = burst => tokens[k] = burst
                                  /\ tokens[k] = burst \/ Y(k) - Y(k - 1) < T(k) - T(k - 1) + Second
    <3> DEFINE t == tokens[k - 1]
               call == calls[k]
               ready == Replenished(t, rate, burst, call.elapsed)
               y == rate * call.elapsed
               r == Second * ready
               m == Second * call.amount
    <3>1. k \in 0..n /\ k - 1 \in 0..n
      BY <2>2
    <3>2. t \in Nat /\ call \in Call /\ call.amount \in Nat /\ call.elapsed \in Nat
      BY <3>1, <2>2, <2>3
    <3>3. /\ ready \in Nat /\ ready <= burst
          /\ r <= T(k - 1) + y
          /\ ready = burst \/ y < r - T(k - 1) + Second
          /\ t = burst => ready = burst
          /\ Admitted(k) => tokens[k] + call.amount = ready
          /\ ~Admitted(k) => tokens[k] = ready /\ ready < call.amount
      <4>1. tokens[k] = Allow(t, rate, burst, call)
        BY <2>3
      <4>2. tokens[k] \in Nat
        BY <2>3, <3>1
      <4> DEFINE next == Allow(t, rate, burst, call)
      <4>3. Charged(t, rate, burst, call, ready, next)
        BY <3>2, <2>1, AllowIs
      <4> HIDE DEF ready, next
      <4>4. tokens[k] = next
        BY <4>1 DEF next
      <4> QED BY <4>3, <4>4 DEF Charged
    <3> HIDE DEF ready
    <3>4. r <= B /\ r \in Int /\ y \in Int /\ m \in Int
      <4> HIDE DEF call
      <4>1. ready \in Nat /\ ready <= burst
        BY <3>3
      <4>2. r <= B
        BY <4>1, <2>1, <2>7, SMT
      <4> QED BY <4>1, <4>2, <3>2, <2>1, <2>7
    <3>5. Y(k) = Y(k - 1) + y
      <4>1. elapsed[k] = elapsed[k - 1] + call.elapsed /\ elapsed[k - 1] \in Nat
        BY <2>5, <3>1
      <4> HIDE DEF call
      <4> QED BY <4>1, <3>2, <2>1
    <3>6. T(k) + A(k) - A(k - 1) = r
      <4>1. tokens[k] \in Nat /\ amounts[k - 1] \in Nat
        BY <2>8, <3>1
      <4>2. CASE Admitted(k)
        <5>1. amounts[k] = amounts[k - 1] + call.amount /\ tokens[k] + call.amount = ready
          BY <4>2, <2>6, <3>3
        <5>2. A(k) = A(k - 1) + m
          BY <5>1, <4>1, <3>2, <2>7
        <5>3. T(k) + m = r
          BY <5>1, <4>1, <3>2, <2>7
        <5> QED BY <5>2, <5>3, <2>8, <3>1, <3>4
      <4>3. CASE ~Admitted(k)
        <5>1. amounts[k] = amounts[k - 1] /\ tokens[k] = ready
          BY <4>3, <2>6, <3>3, <4>1
        <5> QED BY <5>1, <2>8, <3>1, <3>4
      <4> QED BY <4>2, <4>3
    <3> HIDE DEF T, A, Y, B, r, y, Admitted
    <3>7. T(k) + A(k) - A(k - 1) <= B /\ T(k) + A(k) - A(k - 1) <= T(k - 1) + Y(k) - Y(k - 1)
      BY <3>3, <3>4, <3>5, <3>6, <3>1, <2>8
    <3>8. ASSUME ~Admitted(k)
          PROVE  /\ tokens[k] < call.amount
                 /\ tokens[k - 1] = burst => tokens[k] = burst
                 /\ tokens[k] = burst \/ Y(k) - Y(k - 1) < T(k) - T(k - 1) + Second
      <4>1. tokens[k] = ready /\ ready < call.amount /\ (tokens[k - 1] = burst => tokens[k] = burst)
        BY <3>3, <3>8
      <4>2. T(k) = r
        BY <4>1 DEF T, r
      <4> QED BY <4>1, <4>2, <3>3, <3>4, <3>5, <3>1, <2>8, <2>7
    <3> QED BY <3>1, <3>7, <3>8
  <2>10. \A k \in 1..n : calls[k].amount \in Nat
    BY <2>2
  <2>11. ASSUME NEW i, NEW j \in 0..n, i \in 0..n PROVE Earned(i, j) = Y(j) - Y(i)
    BY <2>11, <2>8, <2>1
  <2>12. ASSUME NEW i, NEW j \in 0..n, i \in 0..n
         PROVE  Second * (amounts[j] - amounts[i]) = A(j) - A(i)
    BY <2>12, <2>8, <2>7
  <2>13. ASSUME NEW j \in 1..n, NEW i \in 1..j
         PROVE  Second * (amounts[j] - amounts[i - 1]) <= Second * burst + Earned(i, j)
    <3>1. i \in 1..n /\ i - 1 \in 0..n /\ i \in 0..n /\ j \in 0..n
      BY <2>2
    <3>2. Earned(i, j) = Y(j) - Y(i) /\ Second * (amounts[j] - amounts[i - 1]) = A(j) - A(i - 1)
      BY <2>11, <2>12, <3>1
    <3> HIDE DEF T, A, Y, Admitted, Earned
    <3> DEFINE Held == {k \in 0..n : k >= i => T(k) + A(k) - A(i - 1) <= B + Y(k) - Y(i)}
    <3>3. 0 \in Held
      BY <2>2
    <3>4. ASSUME NEW k \in 1..n, k - 1 \in Held PROVE k \in Held
      <4>1. CASE k < i
        BY <4>1, <2>2
      <4>2. CASE k = i
        <5>1. T(i) + A(i) - A(i - 1) <= B
          BY <2>9, <3>1
        <5> HIDE DEF B
        <5> QED BY <4>2, <5>1, <2>8, <3>1
      <4>3. CASE k > i
        <5>1. T(k - 1) + A(k - 1) - A(i - 1) <= B + Y(k - 1) - Y(i)
          BY <3>4, <4>3, <3>1
        <5>2. T(k) + A(k) - A(k - 1) <= T(k - 1) + Y(k) - Y(k - 1) /\ k \in 0..n /\ k - 1 \in 0..n
          BY <2>9
        <5> HIDE DEF B
        <5>3. T(k) + A(k) - A(i - 1) <= B + Y(k) - Y(i)
          BY <5>1, <5>2, <2>8, <3>1
        <5> QED BY <5>2, <5>3
      <4> QED BY <4>1, <4>2, <4>3, <3>1
    <3>5. \A k \in 0..n : k \in Held
      <4> HIDE DEF Held
      <4> QED BY Upward, <2>2, <3>3, <3>4
    <3>6. T(j) + A(j) - A(i - 1) <= B + Y(j) - Y(i)
      BY <3>5, <3>1
    <3> HIDE DEF Held
    <3>7. A(j) - A(i - 1) <= B + (Y(j) - Y(i))
      <4> HIDE DEF B
      <4> QED BY <3>6, <2>8, <3>1
    <3> QED BY <3>7, <3>2
  <2>14. ASSUME NEW j \in 1..n, ~Admitted(j), calls[j].amount <= burst,
                NEW i \in 0..(j - 1), \A k \in (i + 1)..j : ~Admitted(k)
         PROVE  Earned(i, j) < Second * (calls[j].amount + j - i)
    <3>1. i \in 0..n /\ j \in 0..n
      BY <2>2
    <3> DEFINE K(k) == Second * k
               m == calls[j].amount
    <3>2. Earned(i, j) = Y(j) - Y(i) /\ m \in Nat
      BY <2>11, <3>1, <2>10
    <3>3. Second * (m + j - i) = Second * m + K(j) - K(i) /\ Second * m \in Int
      <4> HIDE DEF m
      <4> QED BY <3>1, <3>2, <2>7
    <3>4. \A k \in 0..n : K(k) \in Int /\ (k # 0 => K(k) = K(k - 1) + Second)
      BY <2>7, <2>2
    <3>5. tokens[j] < m /\ tokens[j] \in Nat
      BY <2>9, <2>14, <2>8, <3>1
    <3>6. T(j) + Second <= Second * m
      <4> HIDE DEF m
      <4>1. tokens[j] + 1 <= m
        BY <3>5, <3>2
      <4>2. Second * (tokens[j] + 1) <= Second * m
        BY <4>1, <3>2, <3>5, <2>7
      <4> QED BY <4>2, <3>5, <3>2, <2>7
    <3> HIDE DEF T, A, Y, Admitted, Earned, K, B
    <3> DEFINE Held == {k \in 0..n : i <= k /\ k <= j =>
                            tokens[k] = burst \/ Y(k) - Y(i) <= T(k) + K(k) - K(i)}
    <3>7. 0 \in Held
      BY <2>2, <2>8, <3>1, <3>4
    <3>8. ASSUME NEW k \in 1..n, k - 1 \in Held PROVE k \in Held
      <4>1. CASE k < i \/ k > j
        BY <4>1, <2>2, <3>1
      <4>2. CASE k = i
        <5>1. Y(k) - Y(i) <= T(k) + K(k) - K(i)
          BY <4>2, <2>8, <3>1, <3>4
        <5> QED BY <5>1, <2>2
      <4>3. CASE i < k /\ k <= j
        <5>1. k \in (i + 1)..j /\ k - 1 \in 0..n /\ k \in 0..n
          BY <4>3, <3>1, <2>2
        <5>2. ~Admitted(k)
          BY <2>14, <5>1
        <5>3. /\ tokens[k - 1] = burst => tokens[k] = burst
              /\ tokens[k] = burst \/ Y(k) - Y(k - 1) < T(k) - T(k - 1) + Second
          BY <2>9, <5>2
        <5>4. tokens[k - 1] = burst \/ Y(k - 1) - Y(i) <= T(k - 1) + K(k - 1) - K(i)
          BY <3>8, <4>3, <5>1, <3>1
        <5>5. K(k) = K(k - 1) + Second /\ K(k - 1) \in Int /\ K(i) \in Int
          BY <3>4, <5>1, <3>1
        <5>6. tokens[k] = burst \/ Y(k) - Y(i) <= T(k) + K(k) - K(i)
          BY <5>3, <5>4, <5>5, <5>1, <3>1, <2>8, <2>7
        <5> QED BY <5>6, <5>1
      <4> QED BY <4>1, <4>2, <4>3, <3>1
    <3>9. \A k \in 0..n : k \in Held
      <4> HIDE DEF Held
      <4> QED BY Upward, <2>2, <3>7, <3>8
    <3>10. i <= j
      BY <3>1
    <3>11. tokens[j] = burst \/ Y(j) - Y(i) <= T(j) + K(j) - K(i)
      BY <3>9, <3>1, <3>10
    <3> HIDE DEF Held
    <3>12. tokens[j] # burst
      BY <3>5, <3>2, <2>14, <2>1
    <3>13. Y(j) - Y(i) < Second * m + K(j) - K(i)
      <4> DEFINE sm == Second * m
      <4>1. T(j) + Second <= sm /\ sm \in Int
        BY <3>6, <3>3
      <4> HIDE DEF sm
      <4>2. Y(j) - Y(i) < sm + K(j) - K(i)
        BY <3>11, <3>12, <4>1, <2>7, <2>8, <3>1, <3>4
      <4> QED BY <4>2 DEF sm
    <3> QED BY <3>13, <3>2, <3>3
  <2> DEFINE Both == \A j \in DOMAIN calls :
                /\ \A i \in 1..j :
                      Second * (amounts[j] - amounts[i - 1]) <= Second * burst + Earned(i, j)
                /\ ~Admitted(j) /\ calls[j].amount <= burst =>
                      \A i \in 0..(j - 1) :
                         (\A k \in (i + 1)..j : ~Admitted(k)) =>
                            Earned(i, j) < Second * (calls[j].amount + j - i)
  <2>15. Both
    <3> HIDE DEF Admitted, Earned
    <3> QED BY <2>2, <2>13, <2>14
  <2>16. Both => RateHolds
    BY Zenon DEF RateHolds, tokens, elapsed, amounts, waits, takes, rate, burst, calls
  <2> QED BY <2>15, <2>16
<1> QED BY <1>1, GivenStays, PTL

-----------------------------------------------------------------------------
(* The decoder at work (capsule/decoder.rs, request.rs).  Some bytes of the  *)
(* stream make a header, or a header and a part of its value, and that is    *)
(* what the decoder keeps of them.                                           *)
Byte == 0..255

HeaderLength(bytes) == Decode(bytes).length + Decode(AfterType(bytes)).length

Disposed(bytes) ==
    IF TypeOf(bytes) \notin Known THEN "unknown"
    ELSE IF LengthOf(bytes) > ValueLimit THEN "oversized" ELSE "buffer"

ValueOf(bytes) ==
    [state |-> "value", type |-> TypeOf(bytes), length |-> LengthOf(bytes),
     remaining |-> LengthOf(bytes) - Len(Body(bytes)),
     buffer |-> IF Disposed(bytes) = "buffer" THEN Body(bytes) ELSE <<>>,
     disposition |-> Disposed(bytes)]

Decoder(bytes) == IF HeaderIsWhole(bytes) THEN ValueOf(bytes) ELSE Header(bytes)
Pending(bytes) == HeaderIsWhole(bytes) => Len(Body(bytes)) < LengthOf(bytes)

Broken(capsules) ==
    \E i \in DOMAIN capsules : IsDatagram(capsules[i]) /\ ~Decodes(capsules[i].value)

(* An event of the decoder. *)
Happened ==
    [kind : {"unknown", "oversized"}, type : Nat, length : Nat]
        \cup [kind : {"capsule"}, type : Nat, value : Seq(Byte)]

Returned(capsules) ==
    LET forwarded == Len(capsules) - Len(events)
    IN /\ returned = capsules /\ events \in Seq(Happened) /\ Len(events) <= Len(capsules)
       /\ events = SubSeq(capsules, forwarded + 1, Len(capsules))
       /\ offered = PayloadsOf(capsules)[forwarded]

Ended(ends) ==
    /\ outcome # "open" => chunk = 0
    /\ outcome = "finished" => ends = position /\ events = <<>>
    /\ outcome = "truncated" => ends < position \/ Broken(returned)

Decoded ==
    LET whole == WholeIn(stream)[position]
        rest  == SubSeq(stream, whole.ends + 1, position)
    IN /\ stream \in Seq(Byte) /\ position \in 0..Len(stream) /\ chunk \in 0..(Len(stream) - position)
       /\ Returned(whole.events)
       /\ decoder = Decoder(rest) /\ Pending(rest)
       /\ Ended(whole.ends)

LEMMA VarintLengthIs ==
    ASSUME NEW first \in Byte
    PROVE  VarintLength(first) \in {1, 2, 4, 8}
<1>1. first \div 64 \in {0, 1, 2, 3}
  BY SMT DEF Byte
<1>2. CASE first \div 64 = 0
  BY <1>2, SMT DEF VarintLength
<1>3. CASE first \div 64 = 1
  BY <1>3, SMT DEF VarintLength
<1>4. CASE first \div 64 = 2
  BY <1>4, SMT DEF VarintLength
<1>5. CASE first \div 64 = 3
  BY <1>5, SMT DEF VarintLength
<1> QED BY <1>1, <1>2, <1>3, <1>4, <1>5

(* A number is one.                                                          *)
LEMMA NumberIs ==
    ASSUME NEW bytes \in Seq(Byte)
    PROVE  Number(bytes) \in Nat
<1> DEFINE n == Len(bytes)
           digits == [bytes EXCEPT ![1] = @ % 64]
           V == [k \in 0..n |-> Nat]
           step == [k \in 1..n |-> [value \in Nat |-> value * 256 + digits[k]]]
           Is(f) == f = [k \in 0..n |-> IF k = 0 THEN 0 ELSE f[k - 1] * 256 + digits[k]]
           s == CHOOSE g : Is(g)
<1>1. n \in Nat /\ 0 \in V[0] /\ \A k \in 0..n : V[k] = Nat
  OBVIOUS
<1>2. \A k \in 1..n : digits[k] \in Nat
  <2>1. \A k \in 1..n : bytes[k] \in Byte
    OBVIOUS
  <2>2. \A byte \in Byte : byte \in Nat /\ byte % 64 \in Nat
    BY SMT DEF Byte
  <2>3. \A k \in 1..n : digits[k] = IF k = 1 THEN bytes[1] % 64 ELSE bytes[k]
    OBVIOUS
  <2> HIDE DEF digits
  <2> QED BY <2>1, <2>2, <2>3
<1>3. Number(bytes) = s[n]
  BY Zenon DEF Number
<1> HIDE DEF digits
<1>4. \A k \in 1..n, value \in Nat : step[k][value] = value * 256 + digits[k] /\ step[k][value] \in Nat
  BY <1>2
<1> HIDE DEF n, V, step
<1>5. /\ \A k \in 1..n : k \in 0..n /\ k - 1 \in 0..n /\ k # 0
      /\ \A k \in 0..n : k = 0 \/ k \in 1..n
  BY <1>1
<1>6. Steps(n, V, step)
  <2> SUFFICES ASSUME NEW k \in 1..n, NEW value \in V[k - 1] PROVE step[k][value] \in V[k]
    BY DEF Steps
  <2>1. V[k - 1] = Nat /\ V[k] = Nat
    BY <1>1, <1>5
  <2> QED BY <2>1, <1>4
<1>7. PICK f : Follows(f, n, V, 0, step)
  <2> HIDE DEF Is
  <2> QED BY <1>1, <1>6, Recursion
<1>8. Is(f)
  <2>1. f = [k \in 0..n |-> f[k]] /\ f[0] = 0 /\ \A k \in 0..n : f[k] \in Nat
    BY <1>7, <1>1 DEF Follows
  <2>2. \A k \in 1..n : f[k] = f[k - 1] * 256 + digits[k]
    BY <1>7, <1>4, <1>5, <2>1 DEF Follows
  <2>3. \A k \in 0..n : f[k] = IF k = 0 THEN 0 ELSE f[k - 1] * 256 + digits[k]
    BY <2>1, <2>2, <1>5
  <2> DEFINE r == [k \in 0..n |-> IF k = 0 THEN 0 ELSE f[k - 1] * 256 + digits[k]]
  <2>4. \A k \in 0..n : r[k] = IF k = 0 THEN 0 ELSE f[k - 1] * 256 + digits[k]
    BY Zenon
  <2>5. r = [k \in 0..n |-> r[k]]
    BY Zenon
  <2> HIDE DEF r
  <2>6. \A k \in 0..n : r[k] = f[k]
    BY <2>3, <2>4, Zenon
  <2>7. f = r
    BY <2>1, <2>5, <2>6
  <2> QED BY <2>7, Zenon DEF r
<1>9. Is(s)
  <2> HIDE DEF Is
  <2> QED BY <1>8
<1> HIDE DEF s
<1>10. s = [k \in 0..n |-> s[k]] /\ s[0] = 0
  BY <1>9, <1>1
<1>11. \A k \in 1..n : s[k] = s[k - 1] * 256 + digits[k]
  BY <1>9, <1>5
<1> HIDE DEF Is
<1>12. \A k \in 1..n : s[k - 1] \in V[k - 1] => s[k] = step[k][s[k - 1]]
  <2> TAKE k \in 1..n
  <2>1. V[k - 1] = Nat /\ s[k] = s[k - 1] * 256 + digits[k]
    BY <1>1, <1>5, <1>11
  <2>2. s[k - 1] \in Nat => step[k][s[k - 1]] = s[k - 1] * 256 + digits[k]
    BY <1>4
  <2> QED BY <2>1, <2>2, Zenon
<1>13. Follows(s, n, V, 0, step)
  BY <1>1, <1>6, <1>10, <1>12, Unfolds
<1>14. \A k \in 0..n : s[k] \in Nat
  BY <1>13, <1>1 DEF Follows
<1> QED BY <1>14, <1>3, <1>1

(* A number at the front of some bytes, and what follows it.                 *)
LEMMA DecodeIs ==
    ASSUME NEW bytes \in Seq(Byte), Decodes(bytes)
    PROVE  LET length == Decode(bytes).length
           IN /\ length \in 1..8 /\ length <= Len(bytes) /\ length = VarintLength(bytes[1])
              /\ Decode(bytes).value \in Nat
              /\ Beyond(bytes, length) \in Seq(Byte)
              /\ Len(Beyond(bytes, length)) = Len(bytes) - length
<1>1. Len(bytes) \in Nat /\ bytes[1] \in Byte
  BY DEF Decodes
<1>2. VarintLength(bytes[1]) \in 1..8 /\ VarintLength(bytes[1]) <= Len(bytes)
  BY <1>1, VarintLengthIs DEF Decodes
<1> DEFINE length == VarintLength(bytes[1])
<1>3. Decode(bytes).length = length /\ Decode(bytes).value = Number(SubSeq(bytes, 1, length))
  BY DEF Decode
<1> HIDE DEF length
<1>4. SubSeq(bytes, 1, length) \in Seq(Byte)
  BY <1>1, <1>2 DEF length
<1>5. Decode(bytes).value \in Nat
  BY <1>3, <1>4, NumberIs
<1>6. Beyond(bytes, length) \in Seq(Byte) /\ Len(Beyond(bytes, length)) = Len(bytes) - length
  BY <1>1, <1>2 DEF Beyond, length
<1> QED BY <1>2, <1>3, <1>5, <1>6 DEF length

(* It is the same in whatever part of them holds it.                         *)
DecodesSo(bytes, m) ==
    LET front == SubSeq(bytes, 1, m)
    IN /\ Decodes(front) <=> Decodes(bytes) /\ Decode(bytes).length <= m
       /\ Decodes(front) => Decode(front) = Decode(bytes)

LEMMA DecodePrefix ==
    ASSUME NEW bytes \in Seq(Byte), NEW m \in 0..Len(bytes)
    PROVE  DecodesSo(bytes, m)
<1> DEFINE front == SubSeq(bytes, 1, m)
           length == VarintLength(bytes[1])
<1>1. front \in Seq(Byte) /\ Len(front) = m /\ Len(bytes) \in Nat
      /\ \A k \in 1..m : front[k] = bytes[k]
  OBVIOUS
<1>2. CASE m = 0
  <2>1. bytes # <<>> => bytes[1] \in Byte
    OBVIOUS
  <2>2. ~Decodes(front)
    BY <1>2, <1>1 DEF Decodes
  <2>3. Decodes(bytes) => Decode(bytes).length >= 1
    BY DecodeIs
  <2>4. Decodes(bytes) => Decode(bytes).length \in 1..8
    BY DecodeIs
  <2> QED BY <1>2, <2>2, <2>4 DEF DecodesSo
<1>3. CASE m # 0
  <2>1. bytes[1] \in Byte /\ front[1] = bytes[1] /\ front # <<>> /\ bytes # <<>>
    BY <1>1, <1>3
  <2>2. length \in 1..8
    BY <2>1, VarintLengthIs
  <2>3. Decode(bytes).length = length /\ Decode(front).length = length
    BY <2>1 DEF Decode
  <2>4. Decodes(bytes) <=> Len(bytes) >= length
    BY <2>1 DEF Decodes
  <2>5. Decodes(front) <=> m >= length
    BY <2>1, <1>1 DEF Decodes
  <2>6. ASSUME Decodes(front) PROVE Decode(front) = Decode(bytes)
    <3>1. SubSeq(front, 1, length) = SubSeq(bytes, 1, length)
      <4>1. length <= m
        BY <2>5, <2>6, <2>2
      <4> HIDE DEF length
      <4> QED BY <4>1, <2>2
    <3>2. VarintLength(front[1]) = length
      BY <2>1
    <3> QED BY <3>1, <3>2 DEF Decode
  <2> HIDE DEF front, length
  <2>7. (Decodes(front) <=> Decodes(bytes) /\ Decode(bytes).length <= m)
        /\ (Decodes(front) => Decode(front) = Decode(bytes))
    BY <1>1, <2>2, <2>3, <2>4, <2>5, <2>6
  <2> QED BY <2>7 DEF DecodesSo, front
<1> QED BY <1>2, <1>3

(* A header is two numbers, and the body is what follows it.                 *)
HeaderSo(bytes) ==
    LET length == HeaderLength(bytes)
    IN /\ length \in 2..16 /\ length <= Len(bytes)
       /\ TypeOf(bytes) \in Nat /\ LengthOf(bytes) \in Nat
       /\ Body(bytes) = SubSeq(bytes, length + 1, Len(bytes))
       /\ Body(bytes) \in Seq(Byte) /\ Len(Body(bytes)) = Len(bytes) - length

LEMMA HeaderIs ==
    ASSUME NEW bytes \in Seq(Byte), HeaderIsWhole(bytes)
    PROVE  HeaderSo(bytes)
<1> DEFINE after == AfterType(bytes)
           a == Decode(bytes).length
           b == Decode(after).length
<1>1. Decodes(bytes) /\ Decodes(after)
  BY DEF HeaderIsWhole
<1>2. a \in 1..8 /\ a <= Len(bytes) /\ TypeOf(bytes) \in Nat
      /\ after = SubSeq(bytes, a + 1, Len(bytes)) /\ after \in Seq(Byte) /\ Len(after) = Len(bytes) - a
  BY <1>1, DecodeIs DEF AfterType, Beyond, TypeOf
<1> HIDE DEF after
<1>3. b \in 1..8 /\ b <= Len(after) /\ Decode(after).value \in Nat
      /\ Beyond(after, b) \in Seq(Byte) /\ Len(Beyond(after, b)) = Len(after) - b
  BY <1>1, <1>2, DecodeIs
<1>4. /\ HeaderLength(bytes) = a + b /\ LengthOf(bytes) = Decode(after).value
      /\ Body(bytes) = Beyond(after, b)
  BY DEF HeaderLength, LengthOf, Body, after
<1>5. Beyond(after, b) = SubSeq(after, b + 1, Len(after))
  BY DEF Beyond
<1> HIDE DEF a, b
<1>6. SubSeq(after, b + 1, Len(after)) = SubSeq(bytes, a + b + 1, Len(bytes))
  BY <1>2, <1>3
<1>7. a + b \in 2..16 /\ a + b <= Len(bytes) /\ Len(bytes) \in Nat
      /\ Len(Beyond(after, b)) = Len(bytes) - (a + b)
  BY <1>2, <1>3
<1>8. LET length == HeaderLength(bytes)
      IN /\ length \in 2..16 /\ length <= Len(bytes)
         /\ Body(bytes) = SubSeq(bytes, length + 1, Len(bytes))
         /\ Body(bytes) \in Seq(Byte) /\ Len(Body(bytes)) = Len(bytes) - length
  BY <1>3, <1>4, <1>5, <1>6, <1>7
<1>9. TypeOf(bytes) \in Nat /\ LengthOf(bytes) \in Nat
  BY <1>2, <1>3, <1>4
<1> QED BY <1>8, <1>9, Zenon DEF HeaderSo

(* A type and a length have eight bytes each at most.                        *)
LEMMA HeaderIsShort ==
    ASSUME NEW bytes \in Seq(Byte), Len(bytes) >= 16
    PROVE  HeaderIsWhole(bytes)
<1>1. bytes # <<>> /\ bytes[1] \in Byte /\ Len(bytes) \in Nat
  OBVIOUS
<1>2. VarintLength(bytes[1]) \in 1..8
  BY <1>1, VarintLengthIs
<1>3. Decodes(bytes)
  BY <1>1, <1>2 DEF Decodes
<1> DEFINE after == AfterType(bytes)
<1>4. after \in Seq(Byte) /\ Len(after) >= 8
  BY <1>3, <1>1, DecodeIs DEF AfterType
<1> HIDE DEF after
<1>5. after # <<>> /\ after[1] \in Byte /\ Len(after) \in Nat
  BY <1>4
<1>6. VarintLength(after[1]) \in 1..8
  BY <1>5, VarintLengthIs
<1>7. Decodes(after)
  BY <1>4, <1>5, <1>6 DEF Decodes
<1> QED BY <1>3, <1>7 DEF HeaderIsWhole, after

(* It is the same in whatever part of the bytes holds it.                    *)
HeadsSo(bytes, m) ==
    LET front == SubSeq(bytes, 1, m)
    IN /\ HeaderIsWhole(front) <=> HeaderIsWhole(bytes) /\ HeaderLength(bytes) <= m
       /\ HeaderIsWhole(front) => /\ TypeOf(front) = TypeOf(bytes) /\ LengthOf(front) = LengthOf(bytes)
                                  /\ HeaderLength(front) = HeaderLength(bytes)

LEMMA HeaderPrefix ==
    ASSUME NEW bytes \in Seq(Byte), NEW m \in 0..Len(bytes)
    PROVE  HeadsSo(bytes, m)
<1> DEFINE front == SubSeq(bytes, 1, m)
           after == AfterType(bytes)
           a == Decode(bytes).length
<1>1. front \in Seq(Byte) /\ Len(front) = m /\ Len(bytes) \in Nat
  OBVIOUS
<1>2. DecodesSo(bytes, m)
  BY DecodePrefix
<1>3. /\ Decodes(front) <=> Decodes(bytes) /\ a <= m
      /\ Decodes(front) => Decode(front) = Decode(bytes)
  BY <1>2 DEF DecodesSo
<1>4. CASE ~Decodes(front)
  <2>1. ~HeaderIsWhole(front)
    BY <1>4 DEF HeaderIsWhole
  <2>2. ASSUME HeaderIsWhole(bytes) PROVE ~(HeaderLength(bytes) <= m)
    <3>1. Decodes(bytes) /\ Decodes(after)
      BY <2>2 DEF HeaderIsWhole
    <3>2. a \in 1..8 /\ a > m /\ after \in Seq(Byte)
      BY <3>1, <1>3, <1>4, DecodeIs DEF AfterType
    <3>3. Decode(after).length \in 1..8
      <4> HIDE DEF after
      <4> QED BY <3>1, <3>2, DecodeIs
    <3>4. HeaderLength(bytes) = a + Decode(after).length
      BY DEF HeaderLength
    <3> HIDE DEF a, after
    <3> QED BY <3>2, <3>3, <3>4
  <2> QED BY <2>1, <2>2 DEF HeadsSo
<1>5. CASE Decodes(front)
  <2>1. Decodes(bytes) /\ a <= m /\ Decode(front) = Decode(bytes)
    BY <1>3, <1>5
  <2>2. a \in 1..8 /\ a <= Len(bytes) /\ after = SubSeq(bytes, a + 1, Len(bytes))
        /\ after \in Seq(Byte) /\ Len(after) = Len(bytes) - a
    BY <2>1, DecodeIs DEF AfterType, Beyond
  <2>3. AfterType(front) = SubSeq(front, a + 1, m)
    BY <2>1, <1>1 DEF AfterType, Beyond
  <2> HIDE DEF a, after
  <2>4. AfterType(front) = SubSeq(after, 1, m - a)
    <3>1. SubSeq(front, a + 1, m) = SubSeq(bytes, a + 1, m)
      BY <2>1, <2>2, <1>1
    <3>2. SubSeq(after, 1, m - a) = SubSeq(bytes, a + 1, m)
      BY <2>1, <2>2, <1>1
    <3> QED BY <3>1, <3>2, <2>3
  <2>5. m - a \in 0..Len(after)
    BY <2>1, <2>2, <1>1
  <2>6. DecodesSo(after, m - a)
    BY <2>2, <2>5, DecodePrefix
  <2> DEFINE rest == AfterType(front)
             b == Decode(after).length
  <2>7. /\ Decodes(rest) <=> Decodes(after) /\ b <= m - a
        /\ Decodes(rest) => Decode(rest) = Decode(after)
    BY <2>6, <2>4 DEF DecodesSo
  <2>8. (HeaderIsWhole(front) <=> Decodes(rest)) /\ (HeaderIsWhole(bytes) <=> Decodes(after))
    BY <1>5, <2>1 DEF HeaderIsWhole, after
  <2>9. /\ HeaderLength(bytes) = a + b /\ HeaderLength(front) = a + Decode(rest).length
        /\ LengthOf(front) = Decode(rest).value /\ LengthOf(bytes) = Decode(after).value
        /\ TypeOf(front) = TypeOf(bytes)
    BY <2>1 DEF HeaderLength, LengthOf, TypeOf, a, after
  <2>10. Decodes(after) => b \in 1..8
    BY <2>2, DecodeIs
  <2>11. Decodes(rest) => Decode(rest).length = b /\ Decode(rest).value = Decode(after).value
    BY <2>7
  <2> HIDE DEF rest, b, front
  <2>12. Decodes(after) => (b <= m - a <=> a + b <= m)
    <3>1. m \in Nat
      BY <1>1
    <3>2. a \in Nat /\ (Decodes(after) => b \in Nat)
      BY <2>10, <2>2
    <3> QED BY <3>1, <3>2, SMT
  <2>13. /\ HeaderIsWhole(front) <=> HeaderIsWhole(bytes) /\ HeaderLength(bytes) <= m
         /\ HeaderIsWhole(front) => /\ TypeOf(front) = TypeOf(bytes) /\ LengthOf(front) = LengthOf(bytes)
                                    /\ HeaderLength(front) = HeaderLength(bytes)
    BY <2>7, <2>8, <2>9, <2>11, <2>12
  <2> QED BY <2>13 DEF HeadsSo, front
<1> QED BY <1>4, <1>5

(* The capsules that are whole in the first k bytes.                         *)
WholeStates(k) == [events : Seq(Happened), ends : 0..k]

(* What happens at the end of a capsule has a type.                          *)
LEMMA EventIs ==
    ASSUME NEW bytes \in Seq(Byte), HeaderIsWhole(bytes)
    PROVE  EventOf(bytes) \in Happened
<1>1. HeaderSo(bytes)
  BY HeaderIs
<1>2. TypeOf(bytes) \in Nat /\ LengthOf(bytes) \in Nat /\ Body(bytes) \in Seq(Byte)
  BY <1>1 DEF HeaderSo
<1> QED BY <1>2 DEF EventOf, Happened

Proceed(bytes, k, whole) ==
    LET rest == SubSeq(bytes, whole.ends + 1, k)
    IN IF IsCapsule(rest)
       THEN [events |-> Append(whole.events, EventOf(rest)), ends |-> k]
       ELSE whole

(* What is left of a stream after a whole capsule, and the parts of that.    *)
LEMMA RestIs ==
    ASSUME NEW bytes \in Seq(Byte), NEW e \in 0..Len(bytes), NEW k \in e..Len(bytes)
    PROVE  /\ SubSeq(bytes, e + 1, k) \in Seq(Byte) /\ Len(SubSeq(bytes, e + 1, k)) = k - e
           /\ \A m \in e..k : SubSeq(SubSeq(bytes, e + 1, k), 1, m - e) = SubSeq(bytes, e + 1, m)
<1>1. Len(bytes) \in Nat /\ e \in Nat /\ k \in Nat
  OBVIOUS
<1> DEFINE rest == SubSeq(bytes, e + 1, k)
<1>2. rest \in Seq(Byte) /\ Len(rest) = k - e
  BY <1>1
<1>3. ASSUME NEW m \in e..k
      PROVE  SubSeq(rest, 1, m - e) = SubSeq(bytes, e + 1, m)
  BY <1>1
<1> QED BY <1>2, <1>3

(* One more byte leaves the whole capsules what they are.                    *)
LEMMA ProceedIs ==
    ASSUME NEW bytes \in Seq(Byte), NEW k \in 1..Len(bytes), NEW whole \in WholeStates(k - 1)
    PROVE  Proceed(bytes, k, whole) \in WholeStates(k)
<1> DEFINE rest == SubSeq(bytes, whole.ends + 1, k)
           e == whole.ends
<1>1. whole = [events |-> whole.events, ends |-> e] /\ whole.events \in Seq(Happened) /\ e \in 0..(k - 1)
  BY DEF WholeStates
<1>2. e \in 0..Len(bytes) /\ k \in e..Len(bytes) /\ e \in 0..k /\ k \in 0..k
  BY <1>1
<1> HIDE DEF e
<1>3. rest \in Seq(Byte)
  BY <1>2, RestIs DEF e
<1> HIDE DEF rest
<1>4. CASE IsCapsule(rest)
  <2>1. EventOf(rest) \in Happened
    BY <1>3, <1>4, EventIs DEF IsCapsule
  <2>2. Append(whole.events, EventOf(rest)) \in Seq(Happened)
    BY <2>1, <1>1
  <2>3. Proceed(bytes, k, whole) = [events |-> Append(whole.events, EventOf(rest)), ends |-> k]
    BY <1>4, Zenon DEF Proceed, rest
  <2> QED BY <2>2, <2>3, <1>2 DEF WholeStates
<1>5. CASE ~IsCapsule(rest)
  <2>1. Proceed(bytes, k, whole) = whole
    BY <1>5, Zenon DEF Proceed, rest
  <2> QED BY <2>1, <1>1, <1>2 DEF WholeStates
<1> QED BY <1>4, <1>5

(* So what is whole in a stream is defined at each of its bytes.             *)
LEMMA WholeIs ==
    ASSUME NEW bytes \in Seq(Byte)
    PROVE  LET whole == WholeIn(bytes)
           IN /\ \A k \in 0..Len(bytes) : whole[k] \in WholeStates(k)
              /\ whole[0] = [events |-> <<>>, ends |-> 0]
              /\ \A k \in 1..Len(bytes) : whole[k] = Proceed(bytes, k, whole[k - 1])
<1> DEFINE n == Len(bytes)
           base == [events |-> <<>>, ends |-> 0]
           V == [k \in 0..n |-> WholeStates(k)]
           step == [k \in 1..n |-> [whole \in WholeStates(k - 1) |-> Proceed(bytes, k, whole)]]
           Was(f) == f = [k \in 0..n |->
                           LET rest == SubSeq(bytes, f[k - 1].ends + 1, k)
                           IN IF k = 0 THEN base
                              ELSE IF IsCapsule(rest)
                              THEN [events |-> Append(f[k - 1].events, EventOf(rest)), ends |-> k]
                              ELSE f[k - 1]]
           Is(f) == f = [k \in 0..n |-> IF k = 0 THEN base ELSE Proceed(bytes, k, f[k - 1])]
           s == WholeIn(bytes)
<1>1. n \in Nat /\ \A k \in 0..n : V[k] = WholeStates(k)
  OBVIOUS
<1>2. base \in V[0]
  BY <1>1 DEF WholeStates
<1>3. /\ \A k \in 1..n : k \in 0..n /\ k - 1 \in 0..n /\ k # 0
      /\ \A k \in 0..n : k = 0 \/ k \in 1..n
  BY <1>1
<1>4. ASSUME NEW k \in 1..n, NEW whole \in WholeStates(k - 1)
      PROVE  step[k][whole] = Proceed(bytes, k, whole) /\ step[k][whole] \in WholeStates(k)
  BY ProceedIs
<1>5. s = CHOOSE g : Was(g)
  BY Zenon DEF WholeIn
<1>6. ASSUME NEW f PROVE Was(f) <=> Is(f)
  BY Zenon DEF Proceed
<1> HIDE DEF n, V, base, step, s
<1>8. Steps(n, V, step)
  <2> SUFFICES ASSUME NEW k \in 1..n, NEW whole \in V[k - 1] PROVE step[k][whole] \in V[k]
    BY DEF Steps
  <2>1. V[k - 1] = WholeStates(k - 1) /\ V[k] = WholeStates(k)
    BY <1>1, <1>3
  <2> QED BY <2>1, <1>4
<1>9. PICK f : Follows(f, n, V, base, step)
  <2> HIDE DEF Is, Was
  <2> QED BY <1>1, <1>2, <1>8, Recursion
<1>10. Is(f)
  <2>1. f = [k \in 0..n |-> f[k]] /\ f[0] = base /\ \A k \in 0..n : f[k] \in WholeStates(k)
    BY <1>9, <1>1 DEF Follows
  <2>2. \A k \in 1..n : f[k] = Proceed(bytes, k, f[k - 1])
    <3> TAKE k \in 1..n
    <3>1. f[k] = step[k][f[k - 1]]
      BY <1>9 DEF Follows
    <3>2. f[k - 1] \in WholeStates(k - 1)
      BY <1>3, <2>1
    <3> QED BY <3>1, <3>2, <1>4
  <2>3. \A k \in 0..n : f[k] = IF k = 0 THEN base ELSE Proceed(bytes, k, f[k - 1])
    BY <2>1, <2>2, <1>3
  <2> QED BY <2>1, <2>3
<1>11. Is(s)
  <2> HIDE DEF Is, Was
  <2> QED BY <1>5, <1>6, <1>10
<1>12. s = [k \in 0..n |-> s[k]] /\ s[0] = base
  BY <1>11, <1>1
<1>13. \A k \in 1..n : s[k] = Proceed(bytes, k, s[k - 1])
  BY <1>11, <1>3
<1> HIDE DEF Is, Was
<1>14. \A k \in 1..n : s[k - 1] \in V[k - 1] => s[k] = step[k][s[k - 1]]
  <2> TAKE k \in 1..n
  <2>1. V[k - 1] = WholeStates(k - 1)
    BY <1>1, <1>3
  <2> QED BY <2>1, <1>13, <1>4
<1>15. Follows(s, n, V, base, step)
  BY <1>1, <1>2, <1>8, <1>12, <1>14, Unfolds
<1>16. \A k \in 0..n : s[k] \in WholeStates(k)
  BY <1>15, <1>1 DEF Follows
<1> QED BY <1>12, <1>13, <1>16 DEF s, n, base

(* The payloads of the first k capsules.                                     *)
LEMMA CarriedIs ==
    ASSUME NEW event \in Happened, Carries(event)
    PROVE  Carried(event) \in Seq(Byte)
<1>1. event.kind = "capsule" /\ Decodes(event.value)
  BY DEF Carries, IsDatagram
<1>2. event.value \in Seq(Byte)
  BY <1>1 DEF Happened
<1> QED BY <1>1, <1>2, DecodeIs DEF Carried

Carry(event, payloads) ==
    IF Carries(event) THEN Append(payloads, Carried(event)) ELSE payloads

LEMMA PayloadsAre ==
    ASSUME NEW capsules \in Seq(Happened)
    PROVE  LET payloads == PayloadsOf(capsules)
           IN /\ \A k \in 0..Len(capsules) : payloads[k] \in Seq(Seq(Byte))
              /\ payloads[0] = <<>>
              /\ \A k \in 1..Len(capsules) : payloads[k] = Carry(capsules[k], payloads[k - 1])
<1> DEFINE n == Len(capsules)
           X == Seq(Seq(Byte))
           V == [k \in 0..n |-> X]
           step == [k \in 1..n |-> [payloads \in X |-> Carry(capsules[k], payloads)]]
           Was(f) == f = [k \in 0..n |->
                           IF k = 0 THEN <<>>
                           ELSE IF Carries(capsules[k]) THEN Append(f[k - 1], Carried(capsules[k]))
                           ELSE f[k - 1]]
           Is(f) == f = [k \in 0..n |-> IF k = 0 THEN <<>> ELSE Carry(capsules[k], f[k - 1])]
           s == PayloadsOf(capsules)
<1>1. n \in Nat /\ \A k \in 0..n : V[k] = X
  OBVIOUS
<1>2. <<>> \in V[0]
  BY <1>1
<1>3. /\ \A k \in 1..n : k \in 0..n /\ k - 1 \in 0..n /\ k # 0
      /\ \A k \in 0..n : k = 0 \/ k \in 1..n
  BY <1>1
<1>4. ASSUME NEW k \in 1..n, NEW payloads \in X
      PROVE  step[k][payloads] = Carry(capsules[k], payloads) /\ step[k][payloads] \in X
  <2>1. step[k][payloads] = Carry(capsules[k], payloads)
    OBVIOUS
  <2>2. capsules[k] \in Happened
    OBVIOUS
  <2>3. Carry(capsules[k], payloads) \in X
    BY <2>2, CarriedIs DEF Carry
  <2> QED BY <2>1, <2>3
<1>5. s = CHOOSE g : Was(g)
  BY Zenon DEF PayloadsOf
<1>6. ASSUME NEW f PROVE Was(f) <=> Is(f)
  BY Zenon DEF Carry
<1> HIDE DEF n, V, X, step, s
<1>8. Steps(n, V, step)
  <2> SUFFICES ASSUME NEW k \in 1..n, NEW payloads \in V[k - 1] PROVE step[k][payloads] \in V[k]
    BY DEF Steps
  <2>1. V[k - 1] = X /\ V[k] = X
    BY <1>1, <1>3
  <2> QED BY <2>1, <1>4
<1>9. PICK f : Follows(f, n, V, <<>>, step)
  <2> HIDE DEF Is, Was
  <2> QED BY <1>1, <1>2, <1>8, Recursion
<1>10. Is(f)
  <2>1. f = [k \in 0..n |-> f[k]] /\ f[0] = <<>> /\ \A k \in 0..n : f[k] \in X
    BY <1>9, <1>1 DEF Follows
  <2>2. \A k \in 1..n : f[k] = Carry(capsules[k], f[k - 1])
    <3> TAKE k \in 1..n
    <3>1. f[k] = step[k][f[k - 1]]
      BY <1>9 DEF Follows
    <3>2. f[k - 1] \in X
      BY <1>3, <2>1
    <3> QED BY <3>1, <3>2, <1>4
  <2>3. \A k \in 0..n : f[k] = IF k = 0 THEN <<>> ELSE Carry(capsules[k], f[k - 1])
    BY <2>1, <2>2, <1>3
  <2> QED BY <2>1, <2>3
<1>11. Is(s)
  <2> HIDE DEF Is, Was
  <2> QED BY <1>5, <1>6, <1>10
<1>12. s = [k \in 0..n |-> s[k]] /\ s[0] = <<>>
  BY <1>11, <1>1
<1>13. \A k \in 1..n : s[k] = Carry(capsules[k], s[k - 1])
  BY <1>11, <1>3
<1> HIDE DEF Is, Was
<1>14. \A k \in 1..n : s[k - 1] \in V[k - 1] => s[k] = step[k][s[k - 1]]
  <2> TAKE k \in 1..n
  <2>1. V[k - 1] = X
    BY <1>1, <1>3
  <2> QED BY <2>1, <1>13, <1>4
<1>15. Follows(s, n, V, <<>>, step)
  BY <1>1, <1>2, <1>8, <1>12, <1>14, Unfolds
<1>16. \A k \in 0..n : s[k] \in X
  BY <1>15, <1>1 DEF Follows
<1> QED BY <1>12, <1>13, <1>16 DEF s, n, X

(* They stay what they are when another one comes.                           *)
LEMMA PayloadsStay ==
    ASSUME NEW capsules \in Seq(Happened), NEW event \in Happened, NEW k \in 0..Len(capsules)
    PROVE  PayloadsOf(Append(capsules, event))[k] = PayloadsOf(capsules)[k]
<1> DEFINE n == Len(capsules)
           more == Append(capsules, event)
           p == PayloadsOf(capsules)
           q == PayloadsOf(more)
           Same == {m \in 0..n : q[m] = p[m]}
<1>1. n \in Nat /\ more \in Seq(Happened) /\ Len(more) = n + 1 /\ \A m \in 1..n : more[m] = capsules[m]
  OBVIOUS
<1> HIDE DEF more
<1>2. p[0] = <<>> /\ \A m \in 1..n : p[m] = Carry(capsules[m], p[m - 1])
  BY PayloadsAre
<1>3. q[0] = <<>> /\ \A m \in 1..(n + 1) : q[m] = Carry(more[m], q[m - 1])
  BY <1>1, PayloadsAre
<1> HIDE DEF n, p, q
<1>4. 0 \in Same
  BY <1>1, <1>2, <1>3
<1>5. ASSUME NEW m \in 1..n, m - 1 \in Same PROVE m \in Same
  <2>1. m \in 1..(n + 1) /\ m \in 0..n
    BY <1>1
  <2>2. q[m - 1] = p[m - 1]
    BY <1>5
  <2>3. q[m] = p[m]
    BY <2>1, <2>2, <1>1, <1>2, <1>3
  <2> QED BY <2>1, <2>3
<1>6. \A m \in 0..n : m \in Same
  <2> HIDE DEF Same
  <2> QED BY <1>1, <1>4, <1>5, Upward
<1> QED BY <1>6 DEF n, p, q, more

(* One byte after what is not a header yet makes one without a body.         *)
LEMMA HeaderGrows ==
    ASSUME NEW bytes \in Seq(Byte), NEW byte \in Byte,
           ~HeaderIsWhole(bytes), HeaderIsWhole(Append(bytes, byte))
    PROVE  Body(Append(bytes, byte)) = <<>>
<1> DEFINE more == Append(bytes, byte)
           n == Len(bytes)
<1>1. more \in Seq(Byte) /\ Len(more) = n + 1 /\ n \in Nat /\ n \in 0..Len(more)
      /\ SubSeq(more, 1, n) = bytes
  OBVIOUS
<1> HIDE DEF more, n
<1>2. HeadsSo(more, n) /\ HeaderSo(more)
  BY <1>1, HeaderPrefix, HeaderIs DEF more
<1>3. ~(HeaderLength(more) <= n)
  BY <1>1, <1>2 DEF HeadsSo, more
<1>4. HeaderLength(more) = n + 1
  <2>1. HeaderLength(more) \in Nat /\ HeaderLength(more) <= n + 1
    <3>1. HeaderLength(more) \in 2..16 /\ HeaderLength(more) <= Len(more)
      BY <1>2, Zenon DEF HeaderSo
    <3> QED BY <3>1, <1>1
  <2> QED BY <2>1, <1>1, <1>3
<1>5. Body(more) \in Seq(Byte) /\ Len(Body(more)) = 0
  BY <1>1, <1>2, <1>4 DEF HeaderSo
<1> QED BY <1>5 DEF more

(* Bytes after a header make its body longer.                                *)
LEMMA BodyGrows ==
    ASSUME NEW bytes \in Seq(Byte), NEW m \in 0..Len(bytes), HeaderIsWhole(SubSeq(bytes, 1, m))
    PROVE  LET front == SubSeq(bytes, 1, m)
           IN /\ HeaderIsWhole(bytes) /\ TypeOf(front) = TypeOf(bytes) /\ LengthOf(front) = LengthOf(bytes)
              /\ Body(bytes) = Body(front) \o SubSeq(bytes, m + 1, Len(bytes))
              /\ Len(Body(bytes)) = Len(Body(front)) + Len(bytes) - m
<1> DEFINE front == SubSeq(bytes, 1, m)
           n == Len(bytes)
           h == HeaderLength(bytes)
<1>1. front \in Seq(Byte) /\ Len(front) = m /\ n \in Nat /\ m \in 0..n
  OBVIOUS
<1>2. HeadsSo(bytes, m)
  BY HeaderPrefix
<1>3. HeaderIsWhole(bytes) /\ h <= m /\ TypeOf(front) = TypeOf(bytes)
      /\ LengthOf(front) = LengthOf(bytes) /\ HeaderLength(front) = h
  BY <1>2 DEF HeadsSo
<1>4. HeaderSo(bytes) /\ HeaderSo(front)
  BY <1>1, <1>3, HeaderIs
<1>5. h \in Nat /\ Body(bytes) = SubSeq(bytes, h + 1, n) /\ Body(front) = SubSeq(front, h + 1, m)
      /\ Len(Body(bytes)) = n - h /\ Len(Body(front)) = m - h
  <2>1. h \in 2..16 /\ Body(bytes) = SubSeq(bytes, h + 1, n) /\ Len(Body(bytes)) = n - h
    BY <1>4, Zenon DEF HeaderSo
  <2>2. Body(front) = SubSeq(front, h + 1, Len(front)) /\ Len(Body(front)) = Len(front) - h
    BY <1>4, <1>3, Zenon DEF HeaderSo
  <2> HIDE DEF h, front
  <2> QED BY <2>1, <2>2, <1>1
<1> HIDE DEF h
<1>6. SubSeq(bytes, h + 1, n) = SubSeq(front, h + 1, m) \o SubSeq(bytes, m + 1, n)
  <2>1. h \in Nat /\ h <= m /\ m \in Nat /\ m <= n
    BY <1>1, <1>3, <1>5
  <2>2. SubSeq(front, h + 1, m) = SubSeq(bytes, h + 1, m)
    BY <2>1, <1>1
  <2>3. SubSeq(bytes, h + 1, n) = SubSeq(bytes, h + 1, m) \o SubSeq(bytes, m + 1, n)
    <3> DEFINE i == h + 1
    <3>1. i \in 1..(n + 1) /\ m \in (i - 1)..n /\ n \in m..n
      BY <2>1, <1>1
    <3>2. SubSeq(bytes, i, m) \o SubSeq(bytes, m + 1, n) = SubSeq(bytes, i, n)
      <4> HIDE DEF i
      <4> QED BY <3>1, ConcatAdjacentSubSeq
    <3> QED BY <3>2
  <2> QED BY <2>2, <2>3
<1>7. Len(Body(bytes)) = Len(Body(front)) + n - m
  <2> HIDE DEF front, n
  <2>1. m \in Nat
    BY <1>1
  <2> QED BY <2>1, <1>1, <1>5
<1> QED BY <1>3, <1>5, <1>6, <1>7

(* What a value is when its header is whole, and what it makes known.        *)
LEMMA ValueIs ==
    ASSUME NEW bytes \in Seq(Byte), HeaderIsWhole(bytes), Body(bytes) = <<>>
    PROVE  Value(TypeOf(bytes), LengthOf(bytes)) = ValueOf(bytes)
<1>1. HeaderSo(bytes)
  BY HeaderIs
<1>2. LengthOf(bytes) - Len(Body(bytes)) = LengthOf(bytes)
  BY <1>1 DEF HeaderSo
<1> QED BY <1>2 DEF Value, ValueOf, Disposed

LEMMA EventOfValue ==
    ASSUME NEW bytes
    PROVE  Event(ValueOf(bytes)) = EventOf(bytes)
<1>1. CASE TypeOf(bytes) \notin Known
  BY <1>1 DEF Event, ValueOf, EventOf, Disposed
<1>2. CASE TypeOf(bytes) \in Known /\ LengthOf(bytes) > ValueLimit
  BY <1>2 DEF Event, ValueOf, EventOf, Disposed
<1>3. CASE TypeOf(bytes) \in Known /\ ~(LengthOf(bytes) > ValueLimit)
  BY <1>3 DEF Event, ValueOf, EventOf, Disposed
<1> QED BY <1>1, <1>2, <1>3

(* Where no capsule ends, nothing is added.                                  *)
LEMMA WholeSkips ==
    ASSUME NEW bytes \in Seq(Byte), NEW p \in 0..Len(bytes), NEW q \in (p + 1)..Len(bytes),
           \A k \in (p + 1)..(q - 1) : ~IsCapsule(SubSeq(bytes, WholeIn(bytes)[p].ends + 1, k))
    PROVE  WholeIn(bytes)[q] = Proceed(bytes, q, WholeIn(bytes)[p])
<1> DEFINE n == Len(bytes)
           w == WholeIn(bytes)
           d == q - 1 - p
           Same == {m \in 0..d : w[p + m] = w[p]}
<1>1. n \in Nat /\ p \in Nat /\ q \in Nat /\ d \in Nat
  OBVIOUS
<1>2. \A k \in 1..n : w[k] = Proceed(bytes, k, w[k - 1])
  BY WholeIs
<1>3. \A k \in (p + 1)..(q - 1) : Proceed(bytes, k, w[p]) = w[p]
  BY Zenon DEF Proceed
<1> HIDE DEF w
<1>4. 0 \in Same
  BY <1>1
<1>5. ASSUME NEW m \in 1..d, m - 1 \in Same PROVE m \in Same
  <2>1. p + m \in 1..n /\ p + m \in (p + 1)..(q - 1) /\ m \in 0..d /\ p + m - 1 = p + (m - 1)
    BY <1>1
  <2>2. w[p + m - 1] = w[p]
    BY <1>5, <2>1
  <2>3. w[p + m] = Proceed(bytes, p + m, w[p])
    BY <2>1, <2>2, <1>2
  <2>4. w[p + m] = w[p]
    BY <2>1, <2>3, <1>3
  <2> QED BY <2>1, <2>4
<1>6. d \in Same
  <2>1. \A m \in 0..d : m \in Same
    <3> HIDE DEF Same, d
    <3> QED BY <1>1, <1>4, <1>5, Upward
  <2> QED BY <2>1, <1>1
<1>7. w[q - 1] = w[p] /\ q \in 1..n
  <2>1. p + d = q - 1 /\ q \in 1..n
    BY <1>1
  <2> QED BY <2>1, <1>6
<1> QED BY <1>2, <1>7 DEF w, n

(* What a step of the decoder does: it has read the stream up to q, and has  *)
(* passed no end of a capsule before.                                        *)
Reads(q) ==
    LET ends == WholeIn(stream)[position].ends
        more == SubSeq(stream, ends + 1, q)
    IN /\ q \in (position + 1)..(position + chunk)
       /\ \A k \in (position + 1)..(q - 1) : ~IsCapsule(SubSeq(stream, ends + 1, k))
       /\ position' = q /\ chunk' = chunk - (q - position)
       /\ \/ IsCapsule(more) /\ decoder' = Empty /\ Return(EventOf(more))
          \/ ~IsCapsule(more) /\ decoder' = Decoder(more) /\ Pending(more) /\ UNCHANGED <<events, returned>>
       /\ UNCHANGED <<stream, offered, outcome>>

(* The types that the invariant gives.                                       *)
LEMMA DecodedTypes ==
    ASSUME Decoded
    PROVE  LET whole == WholeIn(stream)[position]
           IN /\ stream \in Seq(Byte) /\ Len(stream) \in Nat
              /\ position \in Nat /\ position <= Len(stream)
              /\ chunk \in Nat /\ position + chunk <= Len(stream)
              /\ whole = [events |-> whole.events, ends |-> whole.ends]
              /\ whole.ends \in 0..position
              /\ returned = whole.events /\ returned \in Seq(Happened)
              /\ Len(events) \in Nat /\ Len(returned) \in Nat /\ Len(events) <= Len(returned)
              /\ events \in Seq(Happened)
<1> DEFINE whole == WholeIn(stream)[position]
<1>1. stream \in Seq(Byte) /\ position \in 0..Len(stream) /\ chunk \in 0..(Len(stream) - position)
      /\ Returned(whole.events)
  BY DEF Decoded
<1>2. Len(stream) \in Nat
  BY <1>1
<1>3. whole \in WholeStates(position)
  BY <1>1, WholeIs
<1> HIDE DEF whole
<1>4. whole = [events |-> whole.events, ends |-> whole.ends] /\ whole.ends \in 0..position
      /\ whole.events \in Seq(Happened)
  BY <1>3 DEF WholeStates
<1>5. returned = whole.events /\ Len(events) <= Len(returned)
      /\ events = SubSeq(returned, Len(returned) - Len(events) + 1, Len(returned))
  BY <1>1 DEF Returned
<1>6. Len(returned) \in Nat
  BY <1>4, <1>5
<1>7. Len(events) \in Nat /\ events \in Seq(Happened)
  BY <1>1 DEF Returned
<1> QED BY <1>1, <1>2, <1>4, <1>5, <1>6, <1>7 DEF whole

(* The end of a longer sequence is a longer end.                             *)
LEMMA AppendToSuffix ==
    ASSUME NEW sequence \in Seq(Happened), NEW event \in Happened, NEW i \in 1..(Len(sequence) + 1)
    PROVE  SubSeq(Append(sequence, event), i, Len(sequence) + 1)
               = Append(SubSeq(sequence, i, Len(sequence)), event)
<1> DEFINE n == Len(sequence)
           more == Append(sequence, event)
           a == SubSeq(more, i, n + 1)
           s == SubSeq(sequence, i, n)
           b == Append(s, event)
<1>1. n \in Nat /\ i \in Nat /\ i <= n + 1
  OBVIOUS
<1>2. more \in Seq(Happened) /\ Len(more) = n + 1 /\ more[n + 1] = event
      /\ \A k \in 1..n : more[k] = sequence[k]
  BY AppendProperties
<1> HIDE DEF more
<1>3. a \in Seq(Happened) /\ Len(a) = n - i + 2 /\ \A k \in 1..(n - i + 2) : a[k] = more[i + k - 1]
  BY <1>1, <1>2
<1>4. s \in Seq(Happened) /\ Len(s) = n - i + 1 /\ \A k \in 1..(n - i + 1) : s[k] = sequence[i + k - 1]
  BY <1>1
<1> HIDE DEF a, s, n
<1>5. b \in Seq(Happened) /\ Len(b) = n - i + 2 /\ b[n - i + 2] = event
      /\ \A k \in 1..(n - i + 1) : b[k] = s[k]
  <2>1. /\ b \in Seq(Happened) /\ Len(b) = Len(s) + 1 /\ b[Len(s) + 1] = event
        /\ \A k \in 1..Len(s) : b[k] = s[k]
    BY <1>4, AppendProperties
  <2>2. Len(s) + 1 = n - i + 2
    BY <1>1, <1>4
  <2> QED BY <2>1, <2>2, <1>4
<1> HIDE DEF b
<1>6. ASSUME NEW k \in 1..(n - i + 2) PROVE a[k] = b[k]
  <2>1. k \in Nat /\ k >= 1 /\ k <= n - i + 2
    BY <1>1
  <2>2. CASE k = n - i + 2
    <3>1. i + k - 1 = n + 1
      BY <2>2, <1>1
    <3> QED BY <3>1, <2>2, <1>2, <1>3, <1>5
  <2>3. CASE k # n - i + 2
    <3>1. k \in 1..(n - i + 1) /\ i + k - 1 \in 1..n
      BY <2>1, <2>3, <1>1
    <3> QED BY <3>1, <1>2, <1>3, <1>4, <1>5
  <2> QED BY <2>2, <2>3
<1>7. a = b
  BY <1>3, <1>5, <1>6, SeqEqual
<1> QED BY <1>7 DEF a, b, s, n, more

(* Every step that reads bytes keeps the invariant.                          *)
LEMMA ReadsKeeps ==
    ASSUME NEW q, Decoded, Reads(q)
    PROVE  Decoded'
<1> DEFINE whole == WholeIn(stream)[position]
           next == WholeIn(stream)[q]
           more == SubSeq(stream, whole.ends + 1, q)
           after == SubSeq(stream, next.ends + 1, q)
           n == Len(returned)
           m == Len(events)
<1>1. /\ stream \in Seq(Byte) /\ Len(stream) \in Nat
      /\ position \in Nat /\ position <= Len(stream)
      /\ chunk \in Nat /\ position + chunk <= Len(stream)
      /\ whole = [events |-> whole.events, ends |-> whole.ends]
      /\ whole.ends \in 0..position
      /\ returned = whole.events /\ returned \in Seq(Happened)
      /\ m \in Nat /\ n \in Nat /\ m <= n
      /\ events \in Seq(Happened)
  BY DecodedTypes
<1>2. /\ events = SubSeq(returned, n - m + 1, n) /\ offered = PayloadsOf(returned)[n - m]
      /\ Ended(whole.ends)
  <2>1. Returned(whole.events)
    BY DEF Decoded
  <2> QED BY <2>1, <1>1 DEF Returned, Decoded
<1>3. /\ q \in (position + 1)..(position + chunk)
      /\ \A k \in (position + 1)..(q - 1) : ~IsCapsule(SubSeq(stream, whole.ends + 1, k))
      /\ position' = q /\ chunk' = chunk - (q - position)
      /\ stream' = stream /\ offered' = offered /\ outcome' = outcome
  BY Zenon DEF Reads
<1>4. \/ IsCapsule(more) /\ decoder' = Empty /\ Return(EventOf(more))
      \/ ~IsCapsule(more) /\ decoder' = Decoder(more) /\ Pending(more) /\ UNCHANGED <<events, returned>>
  BY Zenon DEF Reads
<1>5. next = Proceed(stream, q, whole)
  <2>1. position \in 0..Len(stream) /\ q \in (position + 1)..Len(stream)
    BY <1>1, <1>3
  <2> QED BY <2>1, <1>1, <1>3, WholeSkips
<1>6. q \in Nat /\ q <= Len(stream) /\ q > position /\ chunk > 0
      /\ chunk' \in 0..(Len(stream) - q) /\ q \in 0..Len(stream)
  BY <1>1, <1>3
<1>7. outcome = "open"
  BY <1>2, <1>6 DEF Ended
<1> HIDE DEF whole
<1>8. more \in Seq(Byte)
  <2>1. whole.ends \in 0..Len(stream) /\ q \in whole.ends..Len(stream)
    BY <1>1, <1>6
  <2> QED BY <2>1, <1>1, RestIs
<1> HIDE DEF next, more, after, m, n
<1>9. /\ returned' = next.events /\ events' \in Seq(Happened) /\ Len(events') <= Len(returned')
      /\ events' = SubSeq(returned', Len(returned') - Len(events') + 1, Len(returned'))
      /\ offered' = PayloadsOf(returned')[Len(returned') - Len(events')]
      /\ decoder' = Decoder(after) /\ Pending(after)
  <2>1. CASE ~IsCapsule(more)
    <3>1. next = whole
      BY <1>5, <2>1, Zenon DEF Proceed, more
    <3>2. after = more
      BY <3>1 DEF after, more
    <3>3. decoder' = Decoder(more) /\ Pending(more) /\ events' = events /\ returned' = returned
      BY <1>4, <2>1
    <3> QED BY <3>1, <3>2, <3>3, <1>1, <1>2, <1>3 DEF m, n
  <2>2. CASE IsCapsule(more)
    <3> DEFINE event == EventOf(more)
    <3>1. decoder' = Empty /\ events' = Append(events, event) /\ returned' = Append(returned, event)
      BY <1>4, <2>2 DEF Return
    <3>2. event \in Happened
      BY <1>8, <2>2, EventIs DEF IsCapsule
    <3> HIDE DEF event
    <3>3. next = [events |-> Append(whole.events, event), ends |-> q]
      BY <1>5, <2>2, Zenon DEF Proceed, more, event
    <3>4. next.events = Append(returned, event) /\ next.ends = q
      BY <3>3, <1>1
    <3>5. after = <<>>
      <4>1. q + 1 \in Int /\ q \in Int /\ q < q + 1
        BY <1>6
      <4> QED BY <4>1, <3>4, SubSeqEmpty DEF after
    <3>6. ~HeaderIsWhole(<<>>)
      BY DEF HeaderIsWhole, Decodes
    <3>7. decoder' = Decoder(after) /\ Pending(after)
      BY <3>1, <3>5, <3>6 DEF Decoder, Pending, Empty
    <3>8. /\ events' \in Seq(Happened) /\ returned' \in Seq(Happened)
          /\ Len(events') = m + 1 /\ Len(returned') = n + 1
      BY <3>1, <3>2, <1>1 DEF m, n
    <3>9. Len(returned') - Len(events') = n - m /\ n - m \in 0..n
      <4>1. m \in Nat /\ n \in Nat /\ m <= n
        BY <1>1 DEF m, n
      <4> QED BY <3>8, <4>1
    <3>10. offered' = PayloadsOf(returned')[n - m]
      <4>1. PayloadsOf(Append(returned, event))[n - m] = PayloadsOf(returned)[n - m]
        BY <3>2, <3>9, <1>1, PayloadsStay DEF n
      <4> QED BY <4>1, <3>1, <1>2, <1>3
    <3>11. events' = SubSeq(returned', n - m + 1, n + 1)
      <4> DEFINE i == n - m + 1
      <4>1. i \in 1..(n + 1)
        <5>1. n \in Nat
          BY <1>1 DEF n
        <5> QED BY <5>1, <3>9
      <4>2. events = SubSeq(returned, i, n)
        BY <1>2 DEF m, n
      <4> HIDE DEF i
      <4>3. SubSeq(Append(returned, event), i, n + 1) = Append(SubSeq(returned, i, n), event)
        BY <3>2, <4>1, <1>1, AppendToSuffix DEF n
      <4> QED BY <3>1, <4>2, <4>3 DEF i
    <3>12. Len(events') <= Len(returned')
      BY <3>8, <3>9
    <3>13. events' = SubSeq(returned', Len(returned') - Len(events') + 1, Len(returned'))
      BY <3>8, <3>9, <3>11
    <3>14. returned' = next.events
      BY <3>1, <3>4
    <3> QED BY <3>7, <3>8, <3>9, <3>10, <3>12, <3>13, <3>14
  <2> QED BY <2>1, <2>2
<1>10. WholeIn(stream')[position'] = next /\ SubSeq(stream', next.ends + 1, position') = after
  BY <1>3 DEF next, after
<1>11. outcome' = "open"
  BY <1>7, <1>3
<1> QED BY <1>1, <1>3, <1>6, <1>9, <1>10, <1>11 DEF Decoded, Returned, Ended

(* A byte of a header is such a step.                                        *)
LEMMA HeaderByteReads ==
    ASSUME Decoded, HeaderByte
    PROVE  Reads(position + 1)
<1> DEFINE ends == WholeIn(stream)[position].ends
           rest == SubSeq(stream, ends + 1, position)
           q == position + 1
           more == SubSeq(stream, ends + 1, q)
<1>1. /\ stream \in Seq(Byte) /\ Len(stream) \in Nat
      /\ position \in Nat /\ position <= Len(stream)
      /\ chunk \in Nat /\ position + chunk <= Len(stream)
      /\ ends \in 0..position
  BY DecodedTypes
<1>2. decoder = Decoder(rest)
  BY Zenon DEF Decoded
<1>3. chunk > 0 /\ decoder.state = "header" /\ position' = q /\ chunk' = chunk - 1
      /\ UNCHANGED <<stream, offered, outcome>>
  BY DEF HeaderByte
<1> HIDE DEF ends
<1>4. rest \in Seq(Byte) /\ stream[q] \in Byte /\ q \in 1..Len(stream)
      /\ ends \in 0..Len(stream) /\ q \in ends..Len(stream)
  BY <1>1, <1>3
<1>5. more \in Seq(Byte)
  BY <1>1, <1>4, RestIs
<1>6. more = Append(rest, stream[q])
  <2> DEFINE i == ends + 1
             byte == stream[q]
  <2>1. i \in 1..Len(stream) /\ q \in i..Len(stream) /\ q - 1 = position
    BY <1>1, <1>4
  <2>2. byte \in Byte
    BY <1>4
  <2>3. more = SubSeq(stream, i, q) /\ rest = SubSeq(stream, i, position)
    OBVIOUS
  <2> HIDE DEF i, rest, more, q
  <2>4. SubSeq(stream, i, q) = SubSeq(stream, i, q - 1) \o <<byte>>
    BY <1>1, <2>1, SubSeqRecursiveSecond
  <2> HIDE DEF byte
  <2>5. more = rest \o <<byte>>
    BY <2>1, <2>3, <2>4
  <2>6. Append(rest, byte) = rest \o <<byte>>
    BY <1>4, <2>2, AppendIsConcat
  <2> QED BY <2>5, <2>6 DEF byte
<1>7. ~HeaderIsWhole(rest) /\ decoder = Header(rest)
  BY <1>2, <1>3 DEF Decoder, ValueOf
<1>8. decoder.bytes = rest
  BY <1>7 DEF Header
<1> HIDE DEF rest, more, q
<1>9. \/ HeaderIsWhole(more) /\ HeaderDone(Value(TypeOf(more), LengthOf(more)))
      \/ ~HeaderIsWhole(more) /\ decoder' = Header(more) /\ UNCHANGED <<events, returned>>
  BY <1>6, <1>8, Zenon DEF HeaderByte, HeaderIsWhole, AfterType, TypeOf, LengthOf, q
<1>10. \/ IsCapsule(more) /\ decoder' = Empty /\ Return(EventOf(more))
       \/ ~IsCapsule(more) /\ decoder' = Decoder(more) /\ Pending(more) /\ UNCHANGED <<events, returned>>
  <2>1. CASE ~HeaderIsWhole(more)
    BY <1>9, <2>1 DEF IsCapsule, Decoder, Pending
  <2>2. CASE HeaderIsWhole(more)
    <3>1. Body(more) = <<>>
      BY <1>4, <1>6, <1>7, <2>2, HeaderGrows
    <3>2. Value(TypeOf(more), LengthOf(more)) = ValueOf(more)
      BY <1>5, <2>2, <3>1, ValueIs
    <3>3. HeaderDone(ValueOf(more))
      BY <1>9, <2>2, <3>2
    <3>4. LengthOf(more) \in Nat /\ Len(Body(more)) = 0
      <4>1. HeaderSo(more)
        BY <1>5, <2>2, HeaderIs
      <4> QED BY <4>1, <3>1 DEF HeaderSo
    <3>5. ValueOf(more).remaining = LengthOf(more) - Len(Body(more))
      BY DEF ValueOf
    <3>6. ValueOf(more).remaining = 0 <=> IsCapsule(more)
      BY <3>4, <3>5, <2>2 DEF IsCapsule
    <3>7. CASE IsCapsule(more)
      BY <3>3, <3>6, <3>7, EventOfValue DEF HeaderDone
    <3>8. CASE ~IsCapsule(more)
      <4>1. Len(Body(more)) < LengthOf(more)
        BY <3>4, <3>8, <2>2 DEF IsCapsule
      <4> QED BY <3>3, <3>6, <3>8, <4>1, <2>2 DEF HeaderDone, Decoder, Pending
    <3> QED BY <3>7, <3>8
  <2> QED BY <2>1, <2>2
<1>11. /\ q \in (position + 1)..(position + chunk) /\ chunk' = chunk - (q - position)
       /\ \A k \in (position + 1)..(q - 1) : ~IsCapsule(SubSeq(stream, ends + 1, k))
  BY <1>1, <1>3 DEF q
<1>12. q = position + 1
  BY DEF q
<1> QED BY <1>3, <1>10, <1>11, <1>12, Zenon DEF Reads, ends, more

(* And so are the bytes of a value, as many as the chunk has.                *)
LEMMA ValueBytesRead ==
    ASSUME Decoded, ValueBytes
    PROVE  \E q : Reads(q)
<1> DEFINE ends == WholeIn(stream)[position].ends
           rest == SubSeq(stream, ends + 1, position)
           consumed == IF decoder.remaining < chunk THEN decoder.remaining ELSE chunk
           input == SubSeq(stream, position + 1, position + consumed)
           value == [decoder EXCEPT !.remaining = @ - consumed,
                                    !.buffer = IF decoder.disposition = "buffer" THEN @ \o input ELSE @]
           q == position + consumed
           more == SubSeq(stream, ends + 1, q)
<1>1. /\ stream \in Seq(Byte) /\ Len(stream) \in Nat
      /\ position \in Nat /\ position <= Len(stream)
      /\ chunk \in Nat /\ position + chunk <= Len(stream)
      /\ ends \in 0..position
  BY DecodedTypes
<1>2. decoder = Decoder(rest) /\ Pending(rest)
  BY Zenon DEF Decoded
<1>3. /\ chunk > 0 /\ decoder.state = "value"
      /\ position' = q /\ chunk' = chunk - consumed
      /\ IF value.remaining = 0 THEN decoder' = Empty /\ Return(Event(value))
         ELSE decoder' = value /\ UNCHANGED <<events, returned>>
      /\ UNCHANGED <<stream, offered, outcome>>
  BY Zenon DEF ValueBytes
<1> HIDE DEF ends
<1>4. rest \in Seq(Byte) /\ ends \in 0..Len(stream) /\ position \in ends..Len(stream)
  BY <1>1, RestIs
<1> HIDE DEF rest
<1>5. HeaderIsWhole(rest) /\ decoder = ValueOf(rest)
  BY <1>2, <1>3 DEF Decoder, Header
<1>6. Len(Body(rest)) \in Nat /\ LengthOf(rest) \in Nat /\ Len(Body(rest)) < LengthOf(rest)
      /\ Body(rest) \in Seq(Byte)
  <2>1. HeaderSo(rest)
    BY <1>4, <1>5, HeaderIs
  <2>2. Body(rest) \in Seq(Byte) /\ LengthOf(rest) \in Nat
    BY <2>1 DEF HeaderSo
  <2>3. Len(Body(rest)) < LengthOf(rest)
    BY <1>2, <1>5 DEF Pending
  <2> QED BY <2>2, <2>3
<1> DEFINE left == LengthOf(rest) - Len(Body(rest))
<1>7. decoder.remaining = left /\ left \in Nat /\ left > 0
  BY <1>5, <1>6 DEF ValueOf
<1>8. consumed \in Nat /\ consumed > 0 /\ consumed <= left /\ consumed <= chunk
  <2> HIDE DEF left
  <2> QED BY <1>1, <1>3, <1>7
<1> HIDE DEF consumed, left
<1>9. q \in (position + 1)..(position + chunk) /\ q - position = consumed /\ q \in Nat /\ q <= Len(stream)
  BY <1>1, <1>8
<1> HIDE DEF q
<1>10. ASSUME NEW k \in position..q
       PROVE  LET part == SubSeq(stream, ends + 1, k)
              IN /\ part \in Seq(Byte) /\ HeaderIsWhole(part)
                 /\ TypeOf(part) = TypeOf(rest) /\ LengthOf(part) = LengthOf(rest)
                 /\ Body(part) = Body(rest) \o SubSeq(stream, position + 1, k)
                 /\ Len(Body(part)) = Len(Body(rest)) + (k - position)
  <2> DEFINE part == SubSeq(stream, ends + 1, k)
             m == position - ends
  <2>1. k \in ends..Len(stream) /\ position \in ends..k
    BY <1>1, <1>9
  <2>2. part \in Seq(Byte) /\ Len(part) = k - ends
    BY <1>1, <1>4, <2>1, RestIs
  <2>3. SubSeq(part, 1, m) = rest
    BY <1>1, <1>4, <2>1, RestIs DEF rest
  <2>4. SubSeq(part, m + 1, Len(part)) = SubSeq(stream, position + 1, k)
    <3>1. ends \in Nat /\ k \in Nat /\ m \in Nat /\ m + ends = position /\ k >= position
      BY <1>1, <2>1
    <3>2. Len(part) = k - ends
      BY <2>2
    <3> QED BY <3>1, <3>2, <1>1, <2>1
  <2>5. m \in 0..Len(part) /\ Len(part) - m = k - position
    BY <1>1, <2>1, <2>2
  <2> HIDE DEF part, m
  <2>6. /\ HeaderIsWhole(part) /\ TypeOf(rest) = TypeOf(part) /\ LengthOf(rest) = LengthOf(part)
        /\ Body(part) = Body(rest) \o SubSeq(part, m + 1, Len(part))
        /\ Len(Body(part)) = Len(Body(rest)) + Len(part) - m
    BY <1>5, <2>2, <2>3, <2>5, BodyGrows
  <2>7. Len(Body(part)) = Len(Body(rest)) + (k - position)
    <3>1. Len(part) \in Nat /\ m \in Nat
      BY <2>2, <2>5
    <3> QED BY <3>1, <2>5, <2>6, <1>6
  <2> QED BY <2>2, <2>4, <2>6, <2>7 DEF part
<1>11. ASSUME NEW k \in (position + 1)..(q - 1) PROVE ~IsCapsule(SubSeq(stream, ends + 1, k))
  <2> DEFINE part == SubSeq(stream, ends + 1, k)
  <2>1. k \in position..q /\ k - position < consumed
    BY <1>1, <1>9
  <2>2. LengthOf(part) = LengthOf(rest) /\ Len(Body(part)) = Len(Body(rest)) + (k - position)
    BY <1>10, <2>1
  <2> HIDE DEF part
  <2>3. Len(Body(part)) # LengthOf(part)
    <3>1. k - position \in Int
      BY <1>1
    <3> QED BY <3>1, <2>1, <2>2, <1>6, <1>8 DEF left
  <2> QED BY <2>3 DEF IsCapsule, part
<1>12. /\ more \in Seq(Byte) /\ HeaderIsWhole(more)
       /\ TypeOf(more) = TypeOf(rest) /\ LengthOf(more) = LengthOf(rest)
       /\ Body(more) = Body(rest) \o input
       /\ Len(Body(more)) = Len(Body(rest)) + consumed
  <2>1. q \in position..q /\ input = SubSeq(stream, position + 1, q)
    BY <1>1, <1>9 DEF q
  <2> QED BY <1>9, <1>10, <2>1
<1> HIDE DEF more, input
<1>13. value = ValueOf(more)
  <2>1. Disposed(more) = Disposed(rest)
    BY <1>12 DEF Disposed
  <2>2. ValueOf(more).remaining = left - consumed
    <3>1. LengthOf(rest) - (Len(Body(rest)) + consumed) = LengthOf(rest) - Len(Body(rest)) - consumed
      BY <1>6, <1>8
    <3> QED BY <3>1, <1>12 DEF ValueOf, left
  <2> DEFINE remaining == left - consumed
  <2> HIDE DEF remaining
  <2>3. value = [state |-> "value", type |-> TypeOf(rest), length |-> LengthOf(rest),
                 remaining |-> remaining,
                 buffer |-> IF Disposed(rest) = "buffer" THEN Body(rest) \o input ELSE <<>>,
                 disposition |-> Disposed(rest)]
    <3>1. decoder.remaining - consumed = remaining
      BY <1>7 DEF remaining
    <3>2. decoder.disposition = Disposed(rest)
          /\ decoder.buffer = IF Disposed(rest) = "buffer" THEN Body(rest) ELSE <<>>
      BY <1>5 DEF ValueOf
    <3> DEFINE buffer == IF decoder.disposition = "buffer" THEN decoder.buffer \o input ELSE decoder.buffer
    <3>3. value = [decoder EXCEPT !.remaining = remaining, !.buffer = buffer]
      BY <3>1
    <3>4. buffer = IF Disposed(rest) = "buffer" THEN Body(rest) \o input ELSE <<>>
      BY <3>2
    <3> HIDE DEF value, buffer
    <3>5. value = [state |-> "value", type |-> TypeOf(rest), length |-> LengthOf(rest),
                   remaining |-> remaining, buffer |-> buffer, disposition |-> Disposed(rest)]
      BY <3>3, <1>5 DEF ValueOf
    <3> QED BY <3>4, <3>5
  <2>4. ValueOf(more) = [state |-> "value", type |-> TypeOf(rest), length |-> LengthOf(rest),
                 remaining |-> remaining,
                 buffer |-> IF Disposed(rest) = "buffer" THEN Body(rest) \o input ELSE <<>>,
                 disposition |-> Disposed(rest)]
    <3>1. LengthOf(more) - Len(Body(more)) = remaining
      BY <2>2 DEF ValueOf, remaining
    <3> QED BY <3>1, <2>1, <1>12 DEF ValueOf
  <2> HIDE DEF value
  <2> QED BY <2>3, <2>4
<1> HIDE DEF value
<1>14. \/ IsCapsule(more) /\ decoder' = Empty /\ Return(EventOf(more))
       \/ ~IsCapsule(more) /\ decoder' = Decoder(more) /\ Pending(more) /\ UNCHANGED <<events, returned>>
  <2>1. value.remaining = LengthOf(more) - Len(Body(more))
    BY <1>13 DEF ValueOf
  <2>2. LengthOf(more) \in Nat /\ Len(Body(more)) \in Nat /\ Len(Body(more)) <= LengthOf(more)
    BY <1>6, <1>8, <1>12 DEF left
  <2>3. value.remaining = 0 <=> IsCapsule(more)
    BY <2>1, <2>2, <1>12 DEF IsCapsule
  <2>4. CASE IsCapsule(more)
    BY <1>3, <1>13, <2>3, <2>4, EventOfValue
  <2>5. CASE ~IsCapsule(more)
    <3>1. Len(Body(more)) < LengthOf(more)
      BY <2>2, <2>5, <1>12 DEF IsCapsule
    <3> QED BY <1>3, <1>12, <1>13, <2>3, <2>5, <3>1 DEF Decoder, Pending
  <2> QED BY <2>4, <2>5
<1>15. position' = q /\ chunk' = chunk - (q - position)
  BY <1>3, <1>9
<1> QED BY <1>3, <1>9, <1>11, <1>14, <1>15, Zenon DEF Reads, ends, more

(* A chunk comes. *)
LEMMA ReceiveKeeps ==
    ASSUME Decoded, Receive
    PROVE  Decoded'
<1>1. /\ stream \in Seq(Byte) /\ Len(stream) \in Nat /\ position \in Nat /\ position <= Len(stream)
  BY DecodedTypes
<1>2. outcome = "open" /\ chunk' \in 1..(Len(stream) - position)
      /\ UNCHANGED <<stream, position, decoder, events, returned, offered, outcome>>
  BY DEF Receive, Idle
<1>3. chunk' \in 0..(Len(stream) - position)
  BY <1>1, <1>2
<1> QED BY <1>2, <1>3 DEF Decoded, Returned, Ended

(* A capsule is forwarded.  *)
LEMMA ForwardKeeps ==
    ASSUME Decoded, Forward
    PROVE  Decoded'
<1> DEFINE whole == WholeIn(stream)[position]
           n == Len(returned)
           m == Len(events)
           event == Head(events)
           f == n - m
           payloads == PayloadsOf(returned)
<1>1. /\ position \in Nat
      /\ whole.ends \in 0..position
      /\ returned = whole.events /\ returned \in Seq(Happened)
      /\ m \in Nat /\ n \in Nat /\ m <= n
      /\ events \in Seq(Happened)
  BY DecodedTypes
<1>2. events = SubSeq(returned, f + 1, n) /\ offered = payloads[f]
  <2>1. Returned(whole.events)
    BY DEF Decoded
  <2> QED BY <2>1, <1>1 DEF Returned
<1>3. /\ outcome = "open" /\ chunk = 0 /\ events # <<>> /\ events' = Tail(events)
      /\ UNCHANGED <<stream, position, chunk, decoder, returned>>
  BY DEF Forward
<1>4. m >= 1 /\ f \in 0..n /\ f + 1 \in 1..n
  <2>1. m # 0
    BY <1>1, <1>3
  <2> QED BY <2>1, <1>1
<1>5. event \in Happened /\ event = returned[f + 1]
  <2> DEFINE i == f + 1
  <2>1. i \in 1..n /\ n \in i..n
    BY <1>1, <1>4
  <2>2. events = SubSeq(returned, i, n)
    BY <1>2
  <2> HIDE DEF i, n
  <2>3. Head(SubSeq(returned, i, n)) = returned[i]
    BY <2>1, <1>1, HeadTailOfSubSeq DEF n
  <2>4. returned[i] \in Happened
    BY <2>1, <1>1, ElementOfSeq DEF n
  <2> QED BY <2>2, <2>3, <2>4 DEF i
<1>6. /\ events' \in Seq(Happened) /\ Len(events') = m - 1
      /\ events' = SubSeq(returned, f + 2, n)
  <2> DEFINE i == f + 1
  <2>1. i \in 1..n /\ n \in i..n /\ i + 1 = f + 2
    BY <1>1, <1>4
  <2>2. events = SubSeq(returned, i, n)
    BY <1>2
  <2>3. events' \in Seq(Happened) /\ Len(events') = m - 1
    BY <1>1, <1>3, HeadTailProperties
  <2> HIDE DEF i, n, m
  <2>4. Tail(SubSeq(returned, i, n)) = SubSeq(returned, i + 1, n)
    BY <2>1, <1>1, HeadTailOfSubSeq DEF n
  <2> QED BY <2>1, <2>2, <2>3, <2>4, <1>3
<1>7. n - (m - 1) = f + 1 /\ m - 1 <= n /\ n - (m - 1) + 1 = f + 2
  BY <1>1
<1>8. payloads[f + 1] = Carry(event, payloads[f])
  <2>1. \A k \in 1..n : payloads[k] = Carry(returned[k], payloads[k - 1])
    BY <1>1, PayloadsAre
  <2>2. f + 1 - 1 = f
    BY <1>4
  <2> HIDE DEF payloads, n, f
  <2> QED BY <2>1, <2>2, <1>4, <1>5
<1> HIDE DEF whole, payloads, n, m, f
<1>9. /\ offered' = Carry(event, offered)
      /\ outcome' # "finished"
      /\ outcome' = "truncated" => IsDatagram(event) /\ ~Decodes(event.value)
  <2> DEFINE context == Decode(event.value)
             payload == Beyond(event.value, context.length)
  <2>1. CASE ~IsDatagram(event)
    <3>1. offered' = offered /\ outcome' = outcome
      BY <2>1, Zenon DEF Forward
    <3> QED BY <3>1, <2>1, <1>3 DEF Carry, Carries
  <2>2. CASE IsDatagram(event) /\ ~Decodes(event.value)
    <3>1. offered' = offered /\ outcome' = "truncated"
      BY <2>2, Zenon DEF Forward
    <3> QED BY <3>1, <2>2 DEF Carry, Carries
  <2>3. CASE IsDatagram(event) /\ Decodes(event.value)
    <3>1. IF context.value = 0 /\ Len(payload) > UdpMaximum
          THEN outcome' = "too large" /\ UNCHANGED offered
          ELSE /\ UNCHANGED outcome
               /\ offered' = IF context.value = 0 /\ Len(payload) <= MaxPayload
                             THEN Append(offered, payload) ELSE offered
      BY <2>3, Zenon DEF Forward
    <3>2. event.value \in Seq(Byte)
      BY <2>3, <1>5 DEF IsDatagram, Happened
    <3>3. Len(payload) \in Nat
      BY <3>2, <2>3, DecodeIs
    <3>4. Carried(event) = payload
      BY DEF Carried
    <3> HIDE DEF payload, context
    <3>5. UdpMaximum \in Nat /\ MaxPayload \in Nat /\ MaxPayload <= UdpMaximum
      BY CapsuleLimits
    <3>6. Len(payload) > UdpMaximum => ~(Len(payload) <= MaxPayload)
      BY <3>3, <3>5
    <3>7. Carries(event) <=> context.value = 0 /\ Len(payload) <= MaxPayload
      BY <3>4, <2>3 DEF Carries, context
    <3> QED BY <3>1, <3>4, <3>6, <3>7, <1>3 DEF Carry
  <2> QED BY <2>1, <2>2, <2>3
<1>10. offered' = payloads[f + 1]
  BY <1>2, <1>8, <1>9
<1>11. outcome' = "truncated" => Broken(returned)
  <2>1. f + 1 \in DOMAIN returned
    BY <1>1, <1>4 DEF n
  <2> QED BY <2>1, <1>5, <1>9 DEF Broken
<1>13. WholeIn(stream')[position'] = whole /\ returned' = returned /\ whole.events = returned
  BY <1>1, <1>3 DEF whole
<1>14. /\ Len(returned') - Len(events') = f + 1 /\ Len(events') <= Len(returned')
       /\ events' = SubSeq(returned', Len(returned') - Len(events') + 1, Len(returned'))
       /\ offered' = PayloadsOf(returned')[Len(returned') - Len(events')]
  <2>1. Len(returned') = n /\ Len(events') = m - 1 /\ PayloadsOf(returned') = payloads
    BY <1>6, <1>13 DEF n, payloads
  <2> QED BY <2>1, <1>6, <1>7, <1>10, <1>13
<1>15. /\ returned' = whole.events
       /\ outcome' # "open" => chunk' = 0
       /\ outcome' = "truncated" => Broken(returned')
  BY <1>3, <1>11, <1>13
<1>16. stream \in Seq(Byte) /\ position \in 0..Len(stream) /\ chunk \in 0..(Len(stream) - position)
       /\ decoder = Decoder(SubSeq(stream, whole.ends + 1, position))
       /\ Pending(SubSeq(stream, whole.ends + 1, position))
  BY Zenon DEF Decoded, whole
<1> QED BY <1>3, <1>6, <1>9, <1>13, <1>14, <1>15, <1>16 DEF Decoded, Returned, Ended

(* The client finishes its side. *)
LEMMA StreamEndsKeeps ==
    ASSUME Decoded, StreamEnds
    PROVE  Decoded'
<1> DEFINE ends == WholeIn(stream)[position].ends
           rest == SubSeq(stream, ends + 1, position)
<1>1. /\ stream \in Seq(Byte) /\ Len(stream) \in Nat
      /\ position \in Nat /\ position <= Len(stream)
      /\ ends \in 0..position
  BY DecodedTypes
<1>2. decoder = Decoder(rest)
  BY Zenon DEF Decoded
<1>3. /\ outcome = "open" /\ chunk = 0 /\ events = <<>>
      /\ outcome' = IF decoder = Empty THEN "finished" ELSE "truncated"
      /\ UNCHANGED <<stream, position, chunk, decoder, events, returned, offered>>
  BY DEF StreamEnds, Idle
<1> HIDE DEF ends
<1>4. rest \in Seq(Byte) /\ Len(rest) = position - ends
  <2>1. ends \in 0..Len(stream) /\ position \in ends..Len(stream)
    BY <1>1
  <2> QED BY <2>1, <1>1, RestIs
<1> HIDE DEF rest
<1>5. decoder = Empty => ends = position
  <2>1. decoder = Empty => rest = <<>>
    BY <1>2 DEF Decoder, Empty, Header, ValueOf
  <2> QED BY <2>1, <1>1, <1>4
<1>6. decoder # Empty => ends < position
  <2>1. rest = <<>> => decoder = Empty
    BY <1>2 DEF Decoder, Empty, HeaderIsWhole, Decodes
  <2>2. ends = position => rest = <<>>
    BY <1>1, <1>4
  <2> QED BY <2>1, <2>2, <1>1
<1>7. /\ outcome' = "finished" => ends = position /\ events = <<>>
      /\ outcome' = "truncated" => ends < position
  BY <1>3, <1>5, <1>6
<1> QED BY <1>3, <1>7 DEF Decoded, Returned, Ended, ends

(* However the stream is cut into chunks, the decoder returns exactly the    *)
(* capsules that are whole in what it has read, and the session is offered   *)
(* exactly the payloads of those forwarded, for any stream, limits and       *)
(* chunks (capsule/decoder.rs, varint.rs, request.rs).                       *)
THEOREM DecodedAsWhole == Spec => []StreamDecodedAsWhole
<1>1. Init => Decoded
  <2> SUFFICES ASSUME Init PROVE Decoded
    OBVIOUS
  <2>1. /\ stream \in Seq(Byte) /\ position = 0 /\ chunk = 0 /\ decoder = Empty
        /\ events = <<>> /\ returned = <<>> /\ offered = <<>> /\ outcome = "open"
    <3>1. \A s \in Streams : s \in Seq(Byte)
      BY CapsuleLimits DEF Byte
    <3>2. stream \in Streams \/ stream = <<>>
      BY DEF Init, CapsulesInit
    <3>3. stream \in Seq(Byte)
      <4>1. <<>> \in Seq(Byte)
        BY EmptySeq
      <4> QED BY <3>1, <3>2, <4>1
    <3> QED BY <3>3 DEF Init, CapsulesInit
  <2>2. WholeIn(stream)[0] = [events |-> <<>>, ends |-> 0] /\ PayloadsOf(<<>>)[0] = <<>>
    <3>1. WholeIn(stream)[0] = [events |-> <<>>, ends |-> 0]
      BY <2>1, WholeIs
    <3>2. <<>> \in Seq(Happened)
      BY EmptySeq
    <3>3. PayloadsOf(<<>>)[0] = <<>>
      BY <3>2, PayloadsAre
    <3> QED BY <3>1, <3>3
  <2>3. SubSeq(stream, 1, 0) = <<>> /\ SubSeq(<<>>, 1, 0) = <<>>
    BY SubSeqEmpty
  <2>4. ~HeaderIsWhole(<<>>)
    BY DEF HeaderIsWhole, Decodes
  <2>5. decoder = Decoder(<<>>) /\ Pending(<<>>)
    BY <2>1, <2>4 DEF Decoder, Pending, Empty
  <2>6. Returned(<<>>)
    BY <2>1, <2>2, <2>3, EmptySeq DEF Returned
  <2>7. Ended(0)
    BY <2>1 DEF Ended
  <2>8. WholeIn(stream)[position].events = <<>> /\ WholeIn(stream)[position].ends = 0
    BY <2>1, <2>2
  <2>9. /\ position \in 0..Len(stream) /\ chunk \in 0..(Len(stream) - position)
        /\ SubSeq(stream, 0 + 1, position) = <<>>
    BY <2>1, <2>3
  <2> QED BY <2>1, <2>5, <2>6, <2>7, <2>8, <2>9 DEF Decoded
<1>2. Decoded /\ [Next]_vars => Decoded'
  <2> SUFFICES ASSUME Decoded, [Next]_vars PROVE Decoded'
    OBVIOUS
  <2>1. CASE UNCHANGED vars
    BY <2>1 DEF Decoded, Returned, Ended, vars, capsuleVars
  <2>2. CASE Receive
    BY <2>2, ReceiveKeeps
  <2>3. CASE HeaderByte
    BY <2>3, HeaderByteReads, ReadsKeeps
  <2>4. CASE ValueBytes
    BY <2>4, ValueBytesRead, ReadsKeeps
  <2>5. CASE Forward
    BY <2>5, ForwardKeeps
  <2>6. CASE StreamEnds
    BY <2>6, StreamEndsKeeps
  <2> QED BY <2>1, <2>2, <2>3, <2>4, <2>5, <2>6 DEF Next, CapsulesNext
<1>3. Decoded => StreamDecodedAsWhole
  <2> SUFFICES ASSUME Decoded PROVE StreamDecodedAsWhole
    OBVIOUS
  <2> DEFINE whole == WholeIn(stream)[position]
             rest == SubSeq(stream, whole.ends + 1, position)
  <2>1. /\ stream \in Seq(Byte) /\ Len(stream) \in Nat
        /\ position \in Nat /\ position <= Len(stream)
        /\ whole.ends \in 0..position
        /\ Len(events) \in Nat /\ Len(returned) \in Nat /\ returned = whole.events
    BY DecodedTypes
  <2>2. decoder = Decoder(rest) /\ Pending(rest) /\ Returned(whole.events) /\ Ended(whole.ends)
    BY Zenon DEF Decoded
  <2>3. rest \in Seq(Byte)
    <3>1. whole.ends \in 0..Len(stream) /\ position \in whole.ends..Len(stream)
      BY <2>1
    <3> HIDE DEF whole
    <3> QED BY <3>1, <2>1, RestIs
  <2> HIDE DEF whole, rest
  <2>4. /\ returned = whole.events
        /\ offered = PayloadsOf(whole.events)[Len(returned) - Len(events)]
    BY <2>2 DEF Returned
  <2>5. outcome = "finished" => whole.ends = position /\ Len(returned) - Len(events) = Len(whole.events)
    <3>1. outcome = "finished" => events = <<>>
      BY <2>2 DEF Ended
    <3>2. events = <<>> => Len(returned) - Len(events) = Len(whole.events)
      BY <2>1
    <3> QED BY <3>1, <3>2, <2>2 DEF Ended
  <2>6. outcome = "truncated" /\ events = <<>> =>
              \/ whole.ends < position
              \/ \E i \in DOMAIN returned : IsDatagram(returned[i]) /\ ~Decodes(returned[i].value)
    BY <2>2 DEF Ended, Broken
  <2>7. decoder.state = "header" => Len(decoder.bytes) < 16
    <3> SUFFICES ASSUME decoder.state = "header" PROVE Len(decoder.bytes) < 16
      OBVIOUS
    <3>1. decoder = Header(rest) /\ ~HeaderIsWhole(rest)
      BY <2>2 DEF Decoder, ValueOf
    <3>2. ~(Len(rest) >= 16) /\ Len(rest) \in Nat
      BY <3>1, <2>3, HeaderIsShort
    <3> QED BY <3>1, <3>2 DEF Header
  <2>8. decoder.state = "value" => decoder.remaining > 0 /\ Len(decoder.buffer) <= ValueLimit
    <3> SUFFICES ASSUME decoder.state = "value"
                 PROVE  decoder.remaining > 0 /\ Len(decoder.buffer) <= ValueLimit
      OBVIOUS
    <3>1. decoder = ValueOf(rest) /\ HeaderIsWhole(rest)
      BY <2>2 DEF Decoder, Header
    <3>2. HeaderSo(rest)
      BY <2>3, <3>1, HeaderIs
    <3>3. LengthOf(rest) \in Nat /\ Len(Body(rest)) \in Nat /\ Len(Body(rest)) < LengthOf(rest)
      BY <2>2, <3>1, <3>2 DEF Pending, HeaderSo
    <3>4. decoder.remaining > 0
      BY <3>1, <3>3 DEF ValueOf
    <3>5. ValueLimit \in Nat
      BY CapsuleLimits
    <3>6. CASE Disposed(rest) = "buffer"
      BY <3>1, <3>3, <3>5, <3>6 DEF ValueOf, Disposed
    <3>7. CASE Disposed(rest) # "buffer"
      <4>1. decoder.buffer = <<>>
        BY <3>1, <3>7 DEF ValueOf
      <4>2. Len(<<>>) <= ValueLimit
        BY <3>5, EmptySeq
      <4> QED BY <3>4, <4>1, <4>2
    <3> QED BY <3>4, <3>6, <3>7
  <2> QED BY <2>4, <2>5, <2>6, <2>7, <2>8, Zenon DEF StreamDecodedAsWhole, whole
<1> QED BY <1>1, <1>2, <1>3, PTL DEF Spec
=============================================================================
