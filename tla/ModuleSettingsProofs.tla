------------------------ MODULE ModuleSettingsProofs ------------------------
(***************************************************************************)
(* That the settings page stores nothing but settings, writes nothing when *)
(* its form is saved as shown, leaves the module where it can be reached,  *)
(* and refuses only what it has a reason to refuse; for addresses of any   *)
(* length and whatever the module holds.                                   *)
(*                                                                         *)
(* The page works with networks, as ipaddress does: bases, edges, ranges.  *)
(* The reference works with bits. What connects them is a handful of facts *)
(* about powers of two, quotients and remainders, proved by induction over *)
(* the number of bits.                                                     *)
(***************************************************************************)
EXTENDS ModuleSettings, FiniteSetTheorems, TLAPS

\* Settings are what has a fitting value for every key.
LEMMA SettingsFields ==
  ASSUME NEW s \in Settings
  PROVE  /\ s = [k \in Keys |-> s[k]]
         /\ \A k \in Keys : s[k] \in Stored(k)
<1>1. s = [k \in Keys |-> s[k]]
  BY DEF Settings, Keys, NETWORK_FIELDS
<1>2. ASSUME NEW k \in Keys PROVE s[k] \in Stored(k)
  BY DEF Settings, Stored, Keys, NETWORK_FIELDS, AddressFields
<1> QED
  BY <1>1, <1>2

LEMMA BuiltSettings ==
  ASSUME NEW f, f = [k \in Keys |-> f[k]], \A k \in Keys : f[k] \in Stored(k)
  PROVE  f \in Settings
<1> DEFINE r == [dhcp |-> f["dhcp"], ip_address |-> f["ip_address"],
                 netmask |-> f["netmask"], gateway |-> f["gateway"],
                 server |-> f["server"], hostname |-> f["hostname"],
                 timeout |-> f["timeout"]]
<1>1. /\ f["dhcp"] \in BOOLEAN /\ f["ip_address"] \in Entered["ip_address"]
      /\ f["netmask"] \in Entered["netmask"] /\ f["gateway"] \in Entered["gateway"]
      /\ f["server"] \in Entered["server"] /\ f["hostname"] \in Names
      /\ f["timeout"] \in 0..MaxTimeout
  BY DEF Keys, NETWORK_FIELDS, Stored, AddressFields
<1>2. r \in Settings
  BY <1>1 DEF Settings
<1>3. r = f
  BY DEF Keys, NETWORK_FIELDS
<1> QED
  BY <1>2, <1>3

\* No setting the module holds looks like an empty or unreadable field.
LEMMA StoredIsReadable ==
  ASSUME NEW k \in Keys, NEW v \in Stored(k)
  PROVE  v # Empty /\ v # Garbled
BY ModuleSettingsAssumption DEF Stored, Keys, NETWORK_FIELDS, AddressFields

\* The form shows every setting as it is, or what is not set as an empty field.
LEMMA ShownFields ==
  ASSUME NEW c \in Settings, NEW k \in Keys
  PROVE  /\ ModuleForm(c)[k] \in FieldValues(k)
         /\ ModuleForm(c)[k] # Garbled
         /\ SettingsOf(ModuleForm(c))[k] = c[k]
<1>1. c[k] \in Stored(k) /\ c[k] # Empty /\ c[k] # Garbled
  BY SettingsFields, StoredIsReadable
<1>2. \/ ModuleForm(c)[k] = c[k]
      \/ k \in AddressFields /\ c[k] = UNSET /\ ModuleForm(c)[k] = Empty
  BY DEF ModuleForm
<1>3. SettingsOf(ModuleForm(c))[k] = c[k]
  BY <1>1, <1>2 DEF SettingsOf, Typed
<1> QED
  BY <1>1, <1>2, <1>3, ModuleSettingsAssumption DEF FieldValues

\* The form as shown is accepted and stands for the settings it shows.
LEMMA ShownForm ==
  ASSUME NEW c \in Settings
  PROVE  Accepts(ModuleForm(c), c) /\ SettingsOf(ModuleForm(c)) = c
<1>1. SettingsOf(ModuleForm(c)) = c
  <2>1. SettingsOf(ModuleForm(c)) = [k \in Keys |-> SettingsOf(ModuleForm(c))[k]]
    BY DEF SettingsOf
  <2> QED
    BY <2>1, ShownFields, SettingsFields
<1>2. Readable(ModuleForm(c))
  BY ShownFields DEF Readable
<1>3. ChangedKeys(c, c) = {}
  BY DEF ChangedKeys
<1> QED
  BY <1>1, <1>2, <1>3 DEF Accepts

\* Whatever a user makes of the form, what is accepted of it is settings.
LEMMA AcceptedForm ==
  ASSUME NEW c \in Settings, NEW form \in Forms(c), Readable(form)
  PROVE  SettingsOf(form) \in Settings
<1>1. PICK typed \in SUBSET Entries : form = FormWith(c, typed)
  BY DEF Forms
<1>2. ASSUME NEW j \in Keys PROVE form[j] \in FieldValues(j) /\ form[j] # Garbled
  <2>1. \A e \in typed : e[1] = j => e[2] \in FieldValues(j)
    BY DEF Entries
  <2>2. form[j] \in FieldValues(j)
    BY <1>1, <2>1, ShownFields DEF FormWith
  <2> QED
    BY <2>2 DEF Readable
<1>3. ASSUME NEW j \in Keys PROVE SettingsOf(form)[j] \in Stored(j)
  <2>1. CASE j \in AddressFields
    <3>1. Stored(j) = Entered[j] /\ UNSET \in Stored(j)
      BY <2>1, ModuleSettingsAssumption DEF Stored, AddressFields
    <3>2. form[j] \in Stored(j) \cup {Empty, Garbled} /\ form[j] # Garbled
      BY <1>2, <2>1 DEF FieldValues, AddressFields
    <3>3. SettingsOf(form)[j] = IF form[j] = Empty THEN UNSET ELSE form[j]
      BY <2>1 DEF SettingsOf, Typed
    <3> QED
      BY <3>1, <3>2, <3>3
  <2>2. CASE j \notin AddressFields
    <3>1. form[j] \in Stored(j) /\ SettingsOf(form)[j] = form[j]
      BY <1>2, <2>2 DEF FieldValues, SettingsOf
    <3> QED
      BY <3>1
  <2> QED
    BY <2>1, <2>2
<1>4. SettingsOf(form) = [j \in Keys |-> SettingsOf(form)[j]]
  BY DEF SettingsOf
<1> QED
  BY <1>3, <1>4, BuiltSettings

-----------------------------------------------------------------------------

\* What a page writes are the settings it changed among those the module holds.
LEMMA SavesType ==
  ASSUME TypeOK, Saves
  PROVE  TypeOK'
<1>1. current \in Settings /\ registers \in Settings
  BY DEF TypeOK, Saves
<1>2. PICK form \in Forms(current) :
        /\ Readable(form)
        /\ registers' = [k \in Keys |->
             IF k \in ChangedKeys(SettingsOf(form), current)
               THEN SettingsOf(form)[k] ELSE registers[k]]
  BY DEF Saves, Accepts
<1>3. SettingsOf(form) \in Settings
  BY <1>1, <1>2, AcceptedForm
<1>4. \A k \in Keys : registers'[k] \in Stored(k)
  BY <1>1, <1>2, <1>3, SettingsFields
<1>5. registers' = [k \in Keys |-> registers'[k]]
  BY <1>2
<1>6. registers' \in Settings
  BY <1>4, <1>5, BuiltSettings
<1> QED
  BY <1>6 DEF TypeOK, Saves

LEMMA OthersWriteType ==
  ASSUME TypeOK, OthersWrite
  PROVE  TypeOK'
<1>0. PICK k \in Keys : \E v \in Stored(k) : registers' = [registers EXCEPT ![k] = v]
  BY DEF OthersWrite
<1>1. PICK v \in Stored(k) : registers' = [registers EXCEPT ![k] = v]
  BY <1>0
<1>2. /\ registers = [j \in Keys |-> registers[j]]
      /\ \A j \in Keys : registers[j] \in Stored(j)
  BY SettingsFields DEF TypeOK
<1>3. registers' = [j \in Keys |-> IF j = k THEN v ELSE registers[j]]
  BY <1>1, <1>2
<1>4. \A j \in Keys : registers'[j] \in Stored(j)
  BY <1>2, <1>3
<1>5. registers' = [j \in Keys |-> registers'[j]]
  BY <1>3
<1> QED
  BY <1>4, <1>5, BuiltSettings DEF TypeOK, OthersWrite

\* The module holds settings and a page shows settings, whoever writes.
THEOREM TypeCorrect == Spec => []TypeOK
<1>1. Init => TypeOK
  BY DEF Init, TypeOK
<1>2. TypeOK /\ [Next]_vars => TypeOK'
  <2> SUFFICES ASSUME TypeOK, [Next]_vars PROVE TypeOK'
    OBVIOUS
  <2>1. CASE Opens \/ Leaves \/ UNCHANGED vars
    BY <2>1 DEF Opens, Leaves, vars, TypeOK
  <2> QED
    BY <2>1, SavesType, OthersWriteType DEF Next
<1> QED
  BY <1>1, <1>2, PTL DEF Spec

\* Whatever the module holds, the page opens with a form that can be saved as it is,
\* and writes nothing then.
THEOREM UntouchedFormIsHarmless == Spec => []ShownFormWritesNothing
<1>1. TypeOK => ShownFormWritesNothing
  BY ShownForm DEF TypeOK, ShownFormWritesNothing
<1> QED
  BY <1>1, TypeCorrect, PTL

-----------------------------------------------------------------------------
(* Powers of two, and the bits of a number.                                *)

\* Induction over the natural numbers, over a set instead of a predicate: what is
\* proved by it below is that every number belongs to the set that satisfies it.
LEMMA NatInductionOnSets ==
  ASSUME NEW T \in SUBSET Nat, 0 \in T, \A n \in T : n + 1 \in T
  PROVE  T = Nat
<1> SUFFICES ASSUME Nat \ T # {} PROVE FALSE
  OBVIOUS
<1>1. PICK n \in Nat \ T : \A m \in Nat \ T : ~(<<m, n>> \in OpToRel(<, Nat))
  BY NatLessThanWellFounded, WFMin, Nat \ T \subseteq Nat, Zenon
<1>2. n # 0 /\ n - 1 \in Nat /\ n - 1 < n
  OBVIOUS
<1>3. n - 1 \in T
  BY <1>1, <1>2 DEF OpToRel
<1> QED
  BY <1>2, <1>3

\* The powers of two double: a set of n + 1 elements has the subsets without the
\* last one, and as many with it.
LEMMA PowerDoubles ==
  ASSUME NEW n \in Nat
  PROVE  2^n \in Nat /\ 2^(n + 1) = 2 * 2^n
<1> DEFINE A == SUBSET (1..n)
           B == {T \cup {n + 1} : T \in A}
           f == [T \in A |-> T \cup {n + 1}]
<1>1. IsFiniteSet(1..n) /\ Cardinality(1..n) = n
  BY FS_Interval
<1>2. IsFiniteSet(1..(n + 1)) /\ Cardinality(1..(n + 1)) = n + 1
  BY FS_Interval
<1>3. IsFiniteSet(A) /\ Cardinality(A) = 2^n /\ 2^n \in Nat
  BY <1>1, FS_SUBSET, FS_CardinalityType
<1>4. Cardinality(SUBSET (1..(n + 1))) = 2^(n + 1)
  BY <1>2, FS_SUBSET
<1>5. f \in Bijection(A, B)
  <2>1. \A T \in A : n + 1 \notin T
    OBVIOUS
  <2>2. f \in [A -> B]
    OBVIOUS
  <2>3. ASSUME NEW S \in A, NEW T \in A, f[S] = f[T] PROVE S = T
    BY <2>1, <2>3
  <2>4. f \in Injection(A, B)
    BY <2>2, <2>3 DEF Injection, IsInjective
  <2>5. f \in Surjection(A, B)
    BY <2>2 DEF Surjection
  <2> QED
    BY <2>4, <2>5 DEF Bijection
<1>6. IsFiniteSet(B) /\ Cardinality(B) = 2^n
  BY <1>3, <1>5, FS_Bijection DEF ExistsBijection
<1>7. A \cap B = {}
  OBVIOUS
<1>8. A \cup B = SUBSET (1..(n + 1))
  <2>1. ASSUME NEW S \in SUBSET (1..(n + 1)) PROVE S \in A \cup B
    <3>1. S \ {n + 1} \in A
      OBVIOUS
    <3>2. CASE n + 1 \in S
      <4>1. S = (S \ {n + 1}) \cup {n + 1}
        BY <3>2
      <4> QED
        BY <3>1, <4>1
    <3>3. CASE n + 1 \notin S
      BY <3>1, <3>3
    <3> QED
      BY <3>2, <3>3
  <2>2. ASSUME NEW S \in A \cup B PROVE S \in SUBSET (1..(n + 1))
    OBVIOUS
  <2> QED
    BY <2>1, <2>2
<1>9. Cardinality(A \cap B) = 0
  BY <1>7, FS_EmptySet
<1>10. Cardinality(A \cup B) = Cardinality(A) + Cardinality(B) - Cardinality(A \cap B)
  BY <1>3, <1>6, FS_Union
<1> HIDE DEF A, B
<1>11. Cardinality(A \cup B) = 2^n + 2^n - 0
  BY <1>3, <1>6, <1>9, <1>10, Zenon
<1>12. 2^(n + 1) = 2^n + 2^n - 0
  BY <1>4, <1>8, <1>11, Zenon
<1>13. \A a \in Nat : a + a - 0 = 2 * a
  OBVIOUS
<1> QED
  BY <1>3, <1>12, <1>13, Zenon

\* Powers of two are positive,
LEMMA PowerPositive ==
  ASSUME NEW n \in Nat
  PROVE  2^n \in Nat /\ 2^n > 0
<1> DEFINE T == {m \in Nat : 2^m > 0}
<1>1. 0 \in T
  OBVIOUS
<1>2. ASSUME NEW m \in T PROVE m + 1 \in T
  <2>1. 2^m \in Nat /\ 2^m > 0 /\ 2^(m + 1) = 2 * 2^m
    BY PowerDoubles
  <2>2. \A x \in Nat : x > 0 => 2 * x > 0
    OBVIOUS
  <2>3. 2^(m + 1) > 0
    BY <2>1, <2>2, Zenon
  <2> QED
    BY <2>3
<1>3. T = Nat
  BY <1>1, <1>2, NatInductionOnSets
<1> QED
  BY <1>3, PowerDoubles

\* and grow.
LEMMA PowerGrows ==
  ASSUME NEW n \in Nat, NEW k \in Nat, n <= k
  PROVE  2^n <= 2^k
<1> DEFINE T == {j \in Nat : n <= j => 2^n <= 2^j}
<1>1. 0 \in T
  <2>1. n <= 0 => n = 0
    OBVIOUS
  <2>2. 2^0 <= 2^0
    BY 2^0 = 1
  <2> QED
    BY <2>1, <2>2
<1>2. ASSUME NEW m \in T PROVE m + 1 \in T
  <2> SUFFICES ASSUME n <= m + 1 PROVE 2^n <= 2^(m + 1)
    OBVIOUS
  <2>1. CASE n = m + 1
    BY <2>1, PowerPositive
  <2>2. CASE n <= m
    <3>1. 2^n \in Nat /\ 2^m \in Nat /\ 2^n <= 2^m /\ 2^(m + 1) = 2 * 2^m
      BY <2>2, PowerDoubles
    <3>2. \A x, y \in Nat : x <= y => x <= 2 * y
      OBVIOUS
    <3>3. 2^n <= 2 * 2^m
      BY <3>1, <3>2
    <3> QED
      BY <3>1, <3>3, Zenon
  <2> QED
    BY <2>1, <2>2
<1>3. T = Nat
  BY <1>1, <1>2, NatInductionOnSets
<1> QED
  BY <1>3

\* Quotient and remainder,
LEMMA DivMod ==
  ASSUME NEW a \in Nat, NEW b \in Nat, b > 0
  PROVE  /\ a \div b \in Nat /\ a % b \in 0..(b - 1)
         /\ a = b * (a \div b) + (a % b)
OBVIOUS

\* which are unique.
LEMMA DivModUnique ==
  ASSUME NEW a \in Nat, NEW b \in Nat, NEW q \in Nat, NEW r \in 0..(b - 1), a = b * q + r
  PROVE  q = a \div b /\ r = a % b
OBVIOUS

\* Division by twice as much: the last digit of the quotient goes to the remainder.
LEMMA Halves ==
  ASSUME NEW a \in Nat, NEW M \in Nat, M > 0
  PROVE  /\ a \div M = 2 * (a \div (2 * M)) + ((a \div M) % 2)
         /\ a % (2 * M) = M * ((a \div M) % 2) + (a % M)
<1> DEFINE q == a \div M
           r == a % M
           h == q \div 2
           d == q % 2
<1>1. q \in Nat /\ r \in 0..(M - 1) /\ a = M * q + r
  BY DivMod
<1>2. h \in Nat /\ d \in 0..1 /\ q = 2 * h + d
  BY <1>1
<1> HIDE DEF q, r, h, d
<1>3. M * d \in Nat /\ M * d + r \in 0..(2 * M - 1)
  <2>1. d = 0 \/ d = 1
    BY <1>2
  <2> QED
    BY <2>1, <1>1
<1>4. M * q = M * (2 * h) + M * d
  BY <1>2
<1>5. M * (2 * h) = (2 * M) * h
  BY <1>2
<1>6. a = (2 * M) * h + (M * d + r)
  <2>1. \A x, y, z \in Nat : (x + y) + z = x + (y + z)
    OBVIOUS
  <2>2. (2 * M) * h \in Nat
    BY <1>2
  <2>3. a = ((2 * M) * h + M * d) + r
    BY <1>1, <1>4, <1>5, Zenon
  <2>4. r \in Nat
    BY <1>1
  <2> QED
    BY <1>3, <2>1, <2>2, <2>3, <2>4, Zenon
<1>7. h = a \div (2 * M) /\ M * d + r = a % (2 * M)
  BY <1>2, <1>3, <1>6, DivModUnique, 2 * M \in Nat
<1> QED
  BY <1>2, <1>7 DEF q, r, h, d

\* One bit more: it leaves the quotient and joins the remainder.
LEMMA OneBitMore ==
  ASSUME NEW a \in Nat, NEW n \in Nat
  PROVE  /\ a \div 2^n = 2 * (a \div 2^(n + 1)) + Bit(a, n)
         /\ a % 2^(n + 1) = 2^n * Bit(a, n) + (a % 2^n)
         /\ Bit(a, n) \in 0..1 /\ a % 2^n \in 0..(2^n - 1)
         /\ a \div 2^(n + 1) \in Nat
<1>1. 2^n \in Nat /\ 2^n > 0 /\ 2^(n + 1) = 2 * 2^n
  BY PowerDoubles, PowerPositive
<1>2. a \div 2^n \in Nat /\ a % 2^n \in 0..(2^n - 1)
  BY <1>1, DivMod
<1>3. \A x \in Nat : x % 2 \in 0..1
  OBVIOUS
<1>4. Bit(a, n) \in 0..1
  BY <1>2, <1>3 DEF Bit
<1>5. /\ a \div 2^n = 2 * (a \div (2 * 2^n)) + ((a \div 2^n) % 2)
      /\ a % (2 * 2^n) = 2^n * ((a \div 2^n) % 2) + (a % 2^n)
  BY <1>1, Halves
<1>6. a \div 2^(n + 1) \in Nat
  BY DivMod, PowerPositive, n + 1 \in Nat
<1> QED
  BY <1>1, <1>2, <1>4, <1>5, <1>6, Zenon DEF Bit

\* A number without its lower 0 bits is itself;
LEMMA NoBits ==
  ASSUME NEW a \in Nat
  PROVE  a % 2^0 = 0 /\ a \div 2^0 = a
<1>1. 2^0 = 1
  OBVIOUS
<1>2. a % 1 = 0 /\ a \div 1 = a
  OBVIOUS
<1> QED
  BY <1>1, <1>2, Zenon

\* an address without its lower Bits bits is nothing.
LEMMA AllBits ==
  ASSUME NEW a \in 0..(2^Bits - 1), Bits \in Nat
  PROVE  a \in Nat /\ a % 2^Bits = a /\ a \div 2^Bits = 0
<1>1. 2^Bits \in Nat /\ 2^Bits > 0
  BY PowerPositive
<1>2. \A M \in Nat : \A x \in 0..(M - 1) : x \in Nat /\ x % M = x /\ x \div M = 0
  OBVIOUS
<1> QED
  BY <1>1, <1>2, Zenon

\* The n lower bits of a number are zero when it is the first of its network,
LEMMA LowZeros ==
  ASSUME NEW a \in Nat, NEW n \in Nat
  PROVE  a % 2^n = 0 <=> \A i \in 0..(n - 1) : Bit(a, i) = 0
<1> DEFINE T == {m \in Nat : a % 2^m = 0 <=> \A i \in 0..(m - 1) : Bit(a, i) = 0}
<1>1. 0 \in T
  BY NoBits
<1>2. ASSUME NEW m \in T PROVE m + 1 \in T
  <2>1. \A M \in Nat : \A b \in 0..1 : \A r \in 0..(M - 1) :
          M * b + r = 0 <=> b = 0 /\ r = 0
    <3>1. ASSUME NEW M \in Nat, NEW b \in 0..1, NEW r \in 0..(M - 1)
          PROVE  M * b + r = 0 <=> b = 0 /\ r = 0
      <4>1. b = 0 \/ b = 1
        OBVIOUS
      <4> QED
        BY <4>1
    <3> QED
      BY <3>1
  <2>2. a % 2^(m + 1) = 2^m * Bit(a, m) + (a % 2^m)
    BY OneBitMore
  <2>3. a % 2^(m + 1) = 0 <=> Bit(a, m) = 0 /\ a % 2^m = 0
    <3>1. 2^m \in Nat /\ Bit(a, m) \in 0..1 /\ a % 2^m \in 0..(2^m - 1)
      BY PowerPositive, OneBitMore
    <3>2. 2^m * Bit(a, m) + (a % 2^m) = 0 <=> Bit(a, m) = 0 /\ a % 2^m = 0
      BY <2>1, <3>1
    <3> QED
      BY <2>2, <3>2, Zenon
  <2>4. 0..(m + 1 - 1) = 0..(m - 1) \cup {m}
    OBVIOUS
  <2> QED
    BY <2>3, <2>4
<1> QED
  BY <1>1, <1>2, NatInductionOnSets

\* and one when it is the last.
LEMMA LowOnes ==
  ASSUME NEW a \in Nat, NEW n \in Nat
  PROVE  a % 2^n = 2^n - 1 <=> \A i \in 0..(n - 1) : Bit(a, i) = 1
<1> DEFINE T == {m \in Nat : a % 2^m = 2^m - 1 <=> \A i \in 0..(m - 1) : Bit(a, i) = 1}
<1>1. 0 \in T
  BY NoBits, 2^0 = 1
<1>2. ASSUME NEW m \in T PROVE m + 1 \in T
  <2>1. \A M \in Nat : \A b \in 0..1 : \A r \in 0..(M - 1) :
          M * b + r = 2 * M - 1 <=> b = 1 /\ r = M - 1
    <3>1. ASSUME NEW M \in Nat, NEW b \in 0..1, NEW r \in 0..(M - 1)
          PROVE  M * b + r = 2 * M - 1 <=> b = 1 /\ r = M - 1
      <4>1. b = 0 \/ b = 1
        OBVIOUS
      <4> QED
        BY <4>1
    <3> QED
      BY <3>1
  <2>2. a % 2^(m + 1) = 2^m * Bit(a, m) + (a % 2^m) /\ 2^(m + 1) = 2 * 2^m
    BY OneBitMore, PowerDoubles
  <2>3. a % 2^(m + 1) = 2^(m + 1) - 1 <=> Bit(a, m) = 1 /\ a % 2^m = 2^m - 1
    <3>1. 2^m \in Nat /\ Bit(a, m) \in 0..1 /\ a % 2^m \in 0..(2^m - 1)
      BY PowerPositive, OneBitMore
    <3>2. 2^m * Bit(a, m) + (a % 2^m) = 2 * 2^m - 1 <=> Bit(a, m) = 1 /\ a % 2^m = 2^m - 1
      BY <2>1, <3>1
    <3> QED
      BY <2>2, <3>2, Zenon
  <2>4. 0..(m + 1 - 1) = 0..(m - 1) \cup {m}
    OBVIOUS
  <2> QED
    BY <2>3, <2>4
<1> QED
  BY <1>1, <1>2, NatInductionOnSets

\* Zeros in the n lower bits and ones above them, up to bit k.
LEMMA HighOnes ==
  ASSUME NEW a \in Nat, NEW n \in Nat, NEW k \in Nat, n <= k
  PROVE  a % 2^k = 2^k - 2^n <=> a % 2^n = 0 /\ \A i \in n..(k - 1) : Bit(a, i) = 1
<1> DEFINE Q(j) == a % 2^j = 2^j - 2^n <=> a % 2^n = 0 /\ \A i \in n..(j - 1) : Bit(a, i) = 1
           T == {j \in Nat : n <= j => Q(j)}
<1>1. Q(n)
  <2>1. n..(n - 1) = {} /\ 2^n - 2^n = 0
    BY PowerPositive
  <2> QED
    BY <2>1
<1>2. 0 \in T
  <2>1. n <= 0 => n = 0
    OBVIOUS
  <2> QED
    BY <1>1, <2>1
<1>3. ASSUME NEW m \in T PROVE m + 1 \in T
  <2> SUFFICES ASSUME n <= m PROVE Q(m + 1)
    <3>1. n <= m + 1 => n <= m \/ n = m + 1
      OBVIOUS
    <3> QED
      BY <1>1, <3>1
  <2>1. ASSUME NEW M \in Nat, NEW N \in Nat, NEW b \in 0..1, NEW r \in 0..(M - 1), N > 0, N <= M
        PROVE  M * b + r = 2 * M - N <=> b = 1 /\ r = M - N
    <3>1. b = 0 \/ b = 1
      OBVIOUS
    <3> QED
      BY <2>1, <3>1
  <2>2. a % 2^(m + 1) = 2^m * Bit(a, m) + (a % 2^m) /\ 2^(m + 1) = 2 * 2^m
    BY OneBitMore, PowerDoubles
  <2>3. a % 2^(m + 1) = 2^(m + 1) - 2^n <=> Bit(a, m) = 1 /\ a % 2^m = 2^m - 2^n
    <3>1. /\ 2^m \in Nat /\ 2^n \in Nat /\ 2^n > 0 /\ 2^n <= 2^m
          /\ Bit(a, m) \in 0..1 /\ a % 2^m \in 0..(2^m - 1)
      BY PowerPositive, PowerGrows, OneBitMore
    <3>2. 2^m * Bit(a, m) + (a % 2^m) = 2 * 2^m - 2^n <=> Bit(a, m) = 1 /\ a % 2^m = 2^m - 2^n
      BY <2>1, <3>1
    <3> QED
      BY <2>2, <3>2, Zenon
  <2>4. n..(m + 1 - 1) = n..(m - 1) \cup {m}
    OBVIOUS
  <2> QED
    BY <2>3, <2>4
<1>4. T = Nat
  BY <1>2, <1>3, NatInductionOnSets
<1> QED
  BY <1>4

\* Numbers that agree from bit n on, up to bit k.
LEMMA HighEqual ==
  ASSUME NEW a \in Nat, NEW b \in Nat, NEW n \in Nat, NEW k \in Nat, n <= k
  PROVE  a \div 2^n = b \div 2^n
           <=> a \div 2^k = b \div 2^k /\ \A i \in n..(k - 1) : Bit(a, i) = Bit(b, i)
<1> DEFINE Q(j) == a \div 2^n = b \div 2^n
             <=> a \div 2^j = b \div 2^j /\ \A i \in n..(j - 1) : Bit(a, i) = Bit(b, i)
           T == {j \in Nat : n <= j => Q(j)}
<1>1. Q(n)
  <2>1. n..(n - 1) = {}
    OBVIOUS
  <2> QED
    BY <2>1
<1>2. 0 \in T
  <2>1. n <= 0 => n = 0
    OBVIOUS
  <2> QED
    BY <1>1, <2>1
<1>3. ASSUME NEW m \in T PROVE m + 1 \in T
  <2> SUFFICES ASSUME n <= m PROVE Q(m + 1)
    <3>1. n <= m + 1 => n <= m \/ n = m + 1
      OBVIOUS
    <3> QED
      BY <1>1, <3>1
  <2>1. a \div 2^m = b \div 2^m <=> a \div 2^(m + 1) = b \div 2^(m + 1) /\ Bit(a, m) = Bit(b, m)
    <3> DEFINE q == a \div 2^(m + 1)
               r == b \div 2^(m + 1)
               x == Bit(a, m)
               y == Bit(b, m)
    <3>1. /\ a \div 2^m = 2 * q + x /\ b \div 2^m = 2 * r + y
          /\ q \in Nat /\ r \in Nat /\ x \in 0..1 /\ y \in 0..1
      BY OneBitMore
    <3>2. 2 * q + x = 2 * r + y <=> q = r /\ x = y
      <4> HIDE DEF q, r, x, y
      <4> QED
        BY <3>1
    <3> QED
      BY <3>1, <3>2, Zenon
  <2>2. n..(m + 1 - 1) = n..(m - 1) \cup {m}
    OBVIOUS
  <2> QED
    BY <2>1, <2>2
<1>4. T = Nat
  BY <1>2, <1>3, NatInductionOnSets
<1> QED
  BY <1>4

-----------------------------------------------------------------------------
(* Networks by their bits.                                                 *)

\* The netmask of a network with n host bits, bit by bit (_check_network).
LEMMA MaskBits ==
  ASSUME Bits \in Nat, NEW a \in 0..(2^Bits - 1), NEW n \in 0..Bits
  PROVE  a = 2^Bits - 2^n <=> \A i \in 0..(Bits - 1) : Bit(a, i) = IF i < n THEN 0 ELSE 1
<1>1. n \in Nat /\ n <= Bits
  OBVIOUS
<1>2. a \in Nat /\ a % 2^Bits = a
  BY AllBits
<1>3. a = 2^Bits - 2^n <=> a % 2^n = 0 /\ \A i \in n..(Bits - 1) : Bit(a, i) = 1
  <2>1. a % 2^Bits = 2^Bits - 2^n
          <=> a % 2^n = 0 /\ \A i \in n..(Bits - 1) : Bit(a, i) = 1
    BY <1>1, <1>2, HighOnes
  <2> QED
    BY <1>2, <2>1, Zenon
<1>4. a % 2^n = 0 <=> \A i \in 0..(n - 1) : Bit(a, i) = 0
  BY <1>1, <1>2, LowZeros
<1>5. /\ \A i \in 0..(n - 1) : i \in 0..(Bits - 1) /\ i < n
      /\ \A i \in n..(Bits - 1) : i \in 0..(Bits - 1) /\ ~(i < n)
      /\ \A i \in 0..(Bits - 1) : IF i < n THEN i \in 0..(n - 1) ELSE i \in n..(Bits - 1)
  OBVIOUS
<1> QED
  BY <1>3, <1>4, <1>5

\* Host bits that are neither all zero nor all one are those of neither edge.
LEMMA HostBits ==
  ASSUME NEW a \in Nat, NEW n \in Nat
  PROVE  (\E i, j \in 0..(n - 1) : Bit(a, i) = 0 /\ Bit(a, j) = 1)
           <=> a % 2^n # 0 /\ a % 2^n # 2^n - 1
<1>1. \A i \in 0..(n - 1) : Bit(a, i) \in {0, 1}
  BY OneBitMore
<1> QED
  BY <1>1, LowZeros, LowOnes

\* Addresses that share their network bits are those of one network, and have one base.
LEMMA NetworkBits ==
  ASSUME Bits \in Nat, NEW a \in 0..(2^Bits - 1), NEW b \in 0..(2^Bits - 1), NEW n \in 0..Bits
  PROVE  /\ a \in (b - (b % 2^n))..(b - (b % 2^n) + (2^n - 1)) <=> a \div 2^n = b \div 2^n
         /\ a \div 2^n = b \div 2^n <=> \A i \in n..(Bits - 1) : Bit(a, i) = Bit(b, i)
         /\ a \div 2^n = b \div 2^n => a - (a % 2^n) = b - (b % 2^n)
<1>1. n \in Nat /\ n <= Bits
  OBVIOUS
<1>2. a \in Nat /\ b \in Nat /\ a \div 2^Bits = 0 /\ b \div 2^Bits = 0
  BY AllBits
<1>3. a \div 2^n = b \div 2^n <=> \A i \in n..(Bits - 1) : Bit(a, i) = Bit(b, i)
  <2>1. a \div 2^n = b \div 2^n
          <=> a \div 2^Bits = b \div 2^Bits /\ \A i \in n..(Bits - 1) : Bit(a, i) = Bit(b, i)
    BY <1>1, <1>2, HighEqual
  <2> QED
    BY <1>2, <2>1, Zenon
<1>4. ASSUME NEW M \in Nat, M > 0
      PROVE  /\ a \in (b - (b % M))..(b - (b % M) + (M - 1)) <=> a \div M = b \div M
             /\ a \div M = b \div M => a - (a % M) = b - (b % M)
  <2> DEFINE q == a \div M
             t == b \div M
             x == a % M
             y == b % M
             B == M * t
  <2>1. q \in Nat /\ x \in 0..(M - 1) /\ a = M * q + x
    BY <1>2, <1>4, DivMod
  <2>2. t \in Nat /\ y \in 0..(M - 1) /\ b = B + y /\ B \in Nat
    BY <1>2, <1>4, DivMod
  <2>3. b - y = B
    <3> HIDE DEF B, y
    <3> QED
      BY <2>2
  <2>4. ASSUME a \in B..(B + (M - 1)) PROVE q = t
    <3>1. a - B \in 0..(M - 1) /\ a = B + (a - B)
      BY <1>2, <2>2, <2>4
    <3> QED
      BY <1>2, <1>4, <2>2, <3>1, DivModUnique
  <2>5. ASSUME q = t PROVE a = B + x /\ a - x = B /\ a \in B..(B + (M - 1))
    <3>1. a = B + x
      BY <2>1, <2>5
    <3> HIDE DEF B, x
    <3> QED
      BY <2>1, <2>2, <3>1
  <2> QED
    BY <2>3, <2>4, <2>5, Zenon
<1>5. 2^n \in Nat /\ 2^n > 0
  BY <1>1, PowerPositive
<1>6. /\ a \in (b - (b % 2^n))..(b - (b % 2^n) + (2^n - 1)) <=> a \div 2^n = b \div 2^n
      /\ a \div 2^n = b \div 2^n => a - (a % 2^n) = b - (b % 2^n)
  BY <1>4, <1>5, Zenon
<1> QED
  BY <1>3, <1>6, Zenon

\* Every address there is.
Addresses == 0..(2^Bits - 1)

\* An address one host can have lies between the edges of its network (is_host_address).
LEMMA HostAgrees ==
  ASSUME Bits \in Nat, NEW a \in Addresses, NEW p \in 1..(Bits - 2)
  PROVE  HostOf(a, Bits - p) <=> IsHostAddress(a) /\ a \notin Edges(p, a)
<1> DEFINE n == Bits - p
<1>1. n \in Nat /\ a \in Nat /\ 2^n \in Nat /\ 2^n > 0
  BY AllBits, PowerPositive DEF Addresses
<1>2. a % 2^n \in 0..(2^n - 1)
  BY <1>1, OneBitMore
<1>3. \A r, M \in Nat : /\ a = a - r <=> r = 0
                      /\ a = a - r + (M - 1) <=> r = M - 1
  BY <1>1
<1>4. /\ a = a - (a % 2^n) <=> a % 2^n = 0
      /\ a = a - (a % 2^n) + (2^n - 1) <=> a % 2^n = 2^n - 1
  BY <1>1, <1>2, <1>3
<1>5. (\E i, j \in 0..(n - 1) : Bit(a, i) = 0 /\ Bit(a, j) = 1)
        <=> a % 2^n # 0 /\ a % 2^n # 2^n - 1
  BY <1>1, HostBits
<1> QED
  BY <1>4, <1>5, Zenon DEF HostOf, IsHostAddress, Edges, Base, HostMask

\* What the page computes with networks is what the reference reads bit by bit: a
\* prefix length of p leaves Bits - p host bits.
LEMMA CheckAgrees ==
  ASSUME Bits \in Nat, NEW s, s.netmask \in Addresses, s.ip_address \in Addresses,
         s.gateway \in Addresses
  PROVE  CheckNetwork(s) <=> Workable(s)
<1> DEFINE Works(n) ==
       /\ \A i \in 0..(Bits - 1) : Bit(s.netmask, i) = IF i < n THEN 0 ELSE 1
       /\ HostOf(s.ip_address, n)
       /\ s.gateway # UNSET =>
            /\ HostOf(s.gateway, n) /\ s.gateway # s.ip_address
            /\ \A i \in n..(Bits - 1) : Bit(s.gateway, i) = Bit(s.ip_address, i)
     Checked(p) ==
       /\ s.netmask = Mask(p)
       /\ IsHostAddress(s.ip_address) /\ s.ip_address \notin Edges(p, s.ip_address)
       /\ \/ s.gateway = UNSET
          \/ /\ IsHostAddress(s.gateway) /\ s.gateway \notin Edges(p, s.ip_address)
             /\ s.gateway \in Network(p, s.ip_address) /\ s.gateway # s.ip_address
<1>1. ASSUME NEW p \in 1..(Bits - 2) PROVE Checked(p) <=> Works(Bits - p)
  <2> DEFINE n == Bits - p
             ip == s.ip_address
             gw == s.gateway
  <2>1. n \in 0..Bits
    OBVIOUS
  <2>2. s.netmask = Mask(p)
          <=> \A i \in 0..(Bits - 1) : Bit(s.netmask, i) = IF i < n THEN 0 ELSE 1
    BY <2>1, MaskBits DEF Mask, Addresses
  <2>3. HostOf(ip, n) <=> IsHostAddress(ip) /\ ip \notin Edges(p, ip)
    BY HostAgrees
  <2>4. HostOf(gw, n) <=> IsHostAddress(gw) /\ gw \notin Edges(p, gw)
    BY HostAgrees
  <2>5. /\ gw \in Network(p, ip) <=> \A i \in n..(Bits - 1) : Bit(gw, i) = Bit(ip, i)
        /\ gw \in Network(p, ip) => Base(p, gw) = Base(p, ip)
    <3>1. /\ gw \in (ip - (ip % 2^n))..(ip - (ip % 2^n) + (2^n - 1)) <=> gw \div 2^n = ip \div 2^n
          /\ gw \div 2^n = ip \div 2^n <=> \A i \in n..(Bits - 1) : Bit(gw, i) = Bit(ip, i)
          /\ gw \div 2^n = ip \div 2^n => gw - (gw % 2^n) = ip - (ip % 2^n)
      <4> ip \in 0..(2^Bits - 1) /\ gw \in 0..(2^Bits - 1)
        BY DEF Addresses
      <4> HIDE DEF n, ip, gw
      <4> QED
        BY <2>1, NetworkBits, Zenon
    <3> QED
      BY <3>1, Zenon DEF Network, Base, HostMask
  <2>6. gw \in Network(p, ip) => Edges(p, gw) = Edges(p, ip)
    BY <2>5, Zenon DEF Edges
  <2> HIDE DEF n, ip, gw
  <2>7. Works(n) <=> Checked(p)
    BY <2>2, <2>3, <2>4, <2>5, <2>6, Zenon DEF ip, gw
  <2> QED
    BY <2>7 DEF n
<1>2. CheckNetwork(s) <=> \E p \in 1..(Bits - 2) : Checked(p)
  BY DEF CheckNetwork, Prefixes
<1>3. Workable(s) <=> \E n \in 2..(Bits - 1) : Works(n)
  BY Zenon DEF Workable
<1>4. /\ \A p \in 1..(Bits - 2) : Bits - p \in 2..(Bits - 1)
      /\ \A n \in 2..(Bits - 1) : Bits - n \in 1..(Bits - 2) /\ n = Bits - (Bits - n)
  OBVIOUS
<1> HIDE DEF Works, Checked
<1> QED
  BY <1>1, <1>2, <1>3, <1>4

\* The page's check of the network settings (_check_network) finds exactly those with
\* which the module can be reached and can answer, for addresses of any length.
THEOREM CheckedSettingsWork ==
  ASSUME NEW s \in Settings
  PROVE  CheckNetwork(s) <=> Workable(s)
<1>1. s.netmask \in Addresses /\ s.ip_address \in Addresses /\ s.gateway \in Addresses
  BY ModuleSettingsAssumption DEF Settings, Addresses, AddressFields
<1> QED
  BY <1>1, CheckAgrees, ModuleSettingsAssumption

-----------------------------------------------------------------------------
(* What is saved, and what is refused.                                     *)

\* No address works with what is no netmask.
LEMMA OnlyNetmasksWork ==
  ASSUME NEW s, s.netmask \in Addresses, Workable(s)
  PROVE  Prefixes(s.netmask) # {}
<1>1. Bits \in Nat
  BY ModuleSettingsAssumption
<1>2. PICK n \in 2..(Bits - 1) :
        \A i \in 0..(Bits - 1) : Bit(s.netmask, i) = IF i < n THEN 0 ELSE 1
  BY DEF Workable
<1>3. n \in 0..Bits /\ Bits - n \in 1..(Bits - 2) /\ Bits - (Bits - n) = n
  BY <1>1
<1>4. s.netmask = 2^Bits - 2^n
  BY <1>1, <1>2, <1>3, MaskBits DEF Addresses
<1>5. s.netmask = Mask(Bits - n)
  BY <1>3, <1>4, Zenon DEF Mask
<1> QED
  BY <1>3, <1>5 DEF Prefixes

\* Whether the module can be reached depends on its addresses alone.
LEMMA WorkableFields ==
  ASSUME NEW s, NEW t, Workable(s),
         t.netmask = s.netmask, t.ip_address = s.ip_address, t.gateway = s.gateway
  PROVE  Workable(t)
BY DEF Workable

\* What a save stores when the page still shows the module's network settings.
LEMMA SavesWork ==
  ASSUME TypeOK, Saves, SameNetwork(current, registers), ~SameNetwork(registers, registers')
  PROVE  registers'.dhcp \/ Workable(registers')
<1>1. current \in Settings /\ registers \in Settings
  BY DEF TypeOK, Saves
<1>2. PICK form \in Forms(current) :
        /\ Accepts(form, current)
        /\ registers' = [k \in Keys |->
             IF k \in ChangedKeys(SettingsOf(form), current)
               THEN SettingsOf(form)[k] ELSE registers[k]]
  BY DEF Saves
<1> DEFINE s == SettingsOf(form)
<1>3. s \in Settings
  BY <1>1, <1>2, AcceptedForm DEF Accepts
<1> HIDE DEF s
<1>4. \A k \in NETWORK_FIELDS : registers'[k] = s[k]
  BY <1>2 DEF SameNetwork, ChangedKeys, Keys, s
<1>5. ChangedKeys(s, current) \cap NETWORK_FIELDS # {}
  <2>1. PICK k \in NETWORK_FIELDS : registers[k] # registers'[k]
    BY DEF SameNetwork
  <2>2. s[k] # current[k]
    BY <1>4, <2>1 DEF SameNetwork
  <2> QED
    BY <2>2 DEF ChangedKeys, Keys
<1>6. s.dhcp \/ CheckNetwork(s)
  BY <1>2, <1>5 DEF Accepts, s
<1>7. /\ registers'.dhcp = s.dhcp /\ registers'.netmask = s.netmask
      /\ registers'.ip_address = s.ip_address /\ registers'.gateway = s.gateway
  BY <1>4 DEF NETWORK_FIELDS
<1> QED
  BY <1>3, <1>6, <1>7, CheckedSettingsWork, WorkableFields

\* A page that changes where the module sits in its network leaves it on DHCP or at an
\* address that works, whatever it held before (_check_network).
THEOREM SavedSettingsWork == Spec => SavedNetworkWorks
<1>1. TypeOK /\ [Next]_vars =>
        [/\ current # Closed /\ current' = Closed
         /\ SameNetwork(current, registers) /\ ~SameNetwork(registers, registers')
         => registers'.dhcp \/ Workable(registers')]_vars
  <2> SUFFICES ASSUME TypeOK, Next, current # Closed, current' = Closed,
                      SameNetwork(current, registers), ~SameNetwork(registers, registers')
               PROVE  registers'.dhcp \/ Workable(registers')
    BY DEF vars
  <2>1. ~(Opens \/ OthersWrite)
    BY DEF Opens, OthersWrite
  <2>2. ~Leaves
    BY DEF Leaves, SameNetwork
  <2>3. Saves
    BY <2>1, <2>2 DEF Next
  <2> QED
    BY <2>3, SavesWork
<1> QED
  BY <1>1, TypeCorrect, PTL DEF Spec, SavedNetworkWorks

\* One refusal after the other: each check of the form fails for the reason it states.
LEMMA RefusalsExplained ==
  ASSUME TypeOK PROVE RefusedForAReason
<1> SUFFICES ASSUME current # Closed, NEW form \in Forms(current), Readable(form),
                    ~Accepts(form, current)
             PROVE  LET s == SettingsOf(form)
                        changed == {k \in Keys : s[k] # current[k]}
                    IN \/ "hostname" \in changed /\ s.hostname \notin Hostnames
                       \/ "timeout" \in changed /\ s.timeout = 0
                       \/ \E k \in changed \cap {"server", "ip_address"} :
                            s[k] # UNSET /\ s[k] \in NoHosts
                       \/ "netmask" \in changed /\ \A a \in 0..(2^Bits - 1) :
                            ~Workable([s EXCEPT !.ip_address = a, !.gateway = UNSET])
                       \/ ~SameNetwork(s, current) /\ ~s.dhcp /\ ~Workable(s)
  BY DEF RefusedForAReason
<1> DEFINE s == SettingsOf(form)
           changed == {k \in Keys : s[k] # current[k]}
<1>1. s \in Settings
  BY AcceptedForm DEF TypeOK
<1> HIDE DEF s
<1>2. changed = ChangedKeys(s, current)
  BY DEF ChangedKeys
<1>3. \/ "server" \in changed /\ ~CheckServer(s.server)
      \/ "hostname" \in changed /\ s.hostname \notin Hostnames
      \/ "timeout" \in changed /\ s.timeout \notin 1..MaxTimeout
      \/ "ip_address" \in changed /\ ~CheckServer(s.ip_address)
      \/ "netmask" \in changed /\ Prefixes(s.netmask) = {}
      \/ changed \cap NETWORK_FIELDS # {} /\ ~s.dhcp /\ ~CheckNetwork(s)
  BY <1>2 DEF Accepts, s
<1>4. CASE "server" \in changed /\ ~CheckServer(s.server)
  BY <1>4 DEF CheckServer, IsHostAddress, s
<1>5. CASE "timeout" \in changed /\ s.timeout \notin 1..MaxTimeout
  <2>1. s.timeout \in 0..MaxTimeout
    BY <1>1 DEF Settings
  <2>2. s.timeout = 0
    BY <1>5, <2>1, ModuleSettingsAssumption
  <2> QED
    BY <1>5, <2>2 DEF s
<1>6. CASE "ip_address" \in changed /\ ~CheckServer(s.ip_address)
  BY <1>6 DEF CheckServer, IsHostAddress, s
<1>7. CASE "netmask" \in changed /\ Prefixes(s.netmask) = {}
  <2>1. ASSUME NEW a, Workable([s EXCEPT !.ip_address = a, !.gateway = UNSET]) PROVE FALSE
    <3> DEFINE t == [s EXCEPT !.ip_address = a, !.gateway = UNSET]
    <3>1. t.netmask = s.netmask
      BY <1>1 DEF Settings
    <3>2. s.netmask \in Addresses
      BY <1>1, ModuleSettingsAssumption DEF Settings, Addresses, AddressFields
    <3> HIDE DEF t
    <3>3. Workable(t)
      BY <2>1 DEF t
    <3> QED
      BY <1>7, <3>1, <3>2, <3>3, OnlyNetmasksWork
  <2> QED
    BY <1>7, <2>1 DEF s
<1>8. CASE changed \cap NETWORK_FIELDS # {} /\ ~s.dhcp /\ ~CheckNetwork(s)
  <2>1. ~SameNetwork(s, current)
    BY <1>8 DEF SameNetwork
  <2>2. ~Workable(s)
    BY <1>1, <1>8, CheckedSettingsWork
  <2> QED
    BY <1>8, <2>1, <2>2 DEF s
<1>9. CASE "hostname" \in changed /\ s.hostname \notin Hostnames
  BY <1>9 DEF s
<1> QED
  BY <1>3, <1>4, <1>5, <1>6, <1>7, <1>8, <1>9

\* A form is refused only for something the user changed, and that the module cannot use
\* or that would put it out of reach (_settings).
THEOREM RefusalsHaveAReason == Spec => []RefusedForAReason
BY TypeCorrect, RefusalsExplained, PTL
=============================================================================
