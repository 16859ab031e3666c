---------------------------- MODULE UmsMenuProofs ----------------------------
(***************************************************************************)
(* Proofs about UmsMenu, for words of any size, any disks and any number   *)
(* of changes of the card: what a session would be given, what the menus   *)
(* offer, and the bounds of the number selector.                           *)
(***************************************************************************)
EXTENDS UmsMenu, WellFoundedInduction, TLAPS

Cfg == [mount : {"no", "ro", "rw"}, mode : {"part", "offset"},
        part : 0 .. MaxParts, offset : Words, size : Words, phys : Words]

\* The state of the number selector.
Selectors == [field : {"offset", "size"}, max : Words, digit : 0 .. Digits - 1, val : Words]

\* A partition table of a disk with `phys` sectors.
Entries(phys) == {e \in Nat \X Nat : e[2] >= 1 /\ e[1] + e[2] <= phys}
TableOf(t, phys) ==
  /\ t = [n |-> t.n, parts |-> t.parts]
  /\ t.parts \in Seq(Entries(phys))
  /\ t.n \in 0 .. MaxParts /\ t.n <= Len(t.parts)

\* The range lies inside the volume and is not empty.
FitsVolume(c) == c.offset < c.phys /\ c.offset + c.size <= c.phys /\ c.size >= 1

Types ==
  /\ cfg \in [Volumes -> Cfg] /\ errors \subseteq {"sd", "emmc"}
  /\ greyed \subseteq Volumes \cup {"start"}
  /\ vgreyed \subseteq {"mode", "part", "offset", "size"}
  /\ cursor \in 1 .. 7 /\ vcursor \in 1 .. 6 /\ vol \in Volumes
  /\ card \in Cards \cup {NoCard}
  /\ sel \in Selectors
  /\ settled \in [Volumes -> BOOLEAN] /\ DOMAIN seen = Volumes
  /\ swaps \in 0 .. MaxSwaps
  /\ at \in {"left", "main", "volume", "select", "session", "hung"}

\* The table of a volume is one of a disk of the size that is shown, and a
\* volume is given by partition only when there are some.
Tables ==
  \A v \in Volumes :
    /\ TableOf(seen[v], cfg[v].phys)
    /\ cfg[v].mode = "part" => seen[v].n > 0

\* A volume given by partition fits, whatever disk was there before.
Partitions ==
  \A v \in Volumes : cfg[v].mode = "part" /\ Mounted(cfg[v]) => FitsVolume(cfg[v])

\* While the disk stays the same, what was chosen fits it.
Settled ==
  \A v \in Volumes : settled[v] =>
    /\ cfg[v].part = 0 \/ cfg[v].part < seen[v].n
    /\ IF cfg[v].phys = 0
       THEN cfg[v].offset = 0 /\ cfg[v].size = 0 /\ cfg[v].part = 0 /\ cfg[v].mode = "offset"
       ELSE FitsVolume(cfg[v])
    /\ cfg[v].mode = "part" /\ Mounted(cfg[v]) =>
         <<cfg[v].offset, cfg[v].size>> = Entry(seen[v], cfg[v].part)

\* What is disabled in the menus is what the settings say; a volume is mounted
\* only on a storage that came up.
Offered ==
  /\ \A v \in Volumes : Mounted(cfg[v]) => Storage(v) \notin errors
  /\ at # "left" => greyed = VolumeUpdate(cfg, errors)
  /\ at \in {"volume", "select"} =>
       /\ vgreyed = Greyed(cfg[vol], seen[vol])
       /\ MainEntries[cursor] = vol /\ Storage(vol) \notin errors

\* The entry that was chosen is the one the menu stands on.
Standing ==
  /\ at = "main" => MainEntries[cursor] \notin greyed
  /\ at = "session" => MainEntries[cursor] = "start" /\ "start" \notin greyed
  /\ at = "volume" => VolumeEntries[vcursor] \notin vgreyed
  /\ at = "select" => VolumeEntries[vcursor] = sel.field

\* The selector works on a volume given by offset, below the maximum.
Selecting ==
  /\ at \in {"volume", "select"} /\ settled[vol] => cfg[vol].phys > 0
  /\ at = "select" =>
       /\ Mounted(cfg[vol]) /\ cfg[vol].mode = "offset"
       /\ sel.max = IF sel.field = "offset" THEN Sub(cfg[vol].phys, 1)
                    ELSE Sub(cfg[vol].phys, cfg[vol].offset)
       /\ settled[vol] => sel.val <= sel.max
  /\ at = "hung" => ~settled[vol]

IInv == Types /\ Tables /\ Partitions /\ Settled /\ Offered /\ Standing /\ Selecting

-----------------------------------------------------------------------------
(* Arithmetic of words.                                                    *)

\* The number of words.
LEMMA WordPositive == Word \in Nat \ {0}
  BY PowerAssumption, UmsAssumption DEF Word

\* Words are numbers.
LEMMA WordsNat == \A w \in Words : w \in Nat /\ w < Word
  <1> HIDE DEF Word
  <1> QED BY WordPositive DEF Words

\* A difference that does not wrap.
LEMMA SubSmall ==
  ASSUME NEW a \in Words, NEW b \in Nat, b <= a
  PROVE  Sub(a, b) = a - b
  <1>1. Word \in Nat \ {0}
    BY WordPositive
  <1>2. a - b \in 0 .. Word - 1
    BY <1>1 DEF Words
  <1> HIDE DEF Word
  <1>3. \A w \in Nat \ {0} : \A x \in 0 .. w - 1 : x % w = x
    OBVIOUS
  <1> QED
    BY <1>1, <1>2, <1>3 DEF Sub

\* Any difference is a word.
LEMMA SubWord ==
  ASSUME NEW a \in Nat, NEW b \in Nat
  PROVE  Sub(a, b) \in Words
  <1>1. Word \in Nat \ {0}
    BY WordPositive
  <1> HIDE DEF Word
  <1>2. \A w \in Nat \ {0} : \A x \in Int : x % w \in 0 .. w - 1
    OBVIOUS
  <1> QED
    BY <1>1, <1>2 DEF Sub, Words

-----------------------------------------------------------------------------
(* Digits.                                                                 *)

\* Division with a remainder.
LEMMA Division ==
  ASSUME NEW n \in Nat, NEW p \in Nat \ {0}
  PROVE  \E m \in Nat, k \in 0 .. p - 1 : n = p * m + k
  <1> DEFINE q == n \div p
             r == n % p
  <1>1. r \in 0 .. p - 1 /\ q \in Int
    OBVIOUS
  <1>2. r = n - q * p
    OBVIOUS
  <1> HIDE DEF q, r
  <1>3. \A x \in Int : x < 0 => x * p <= 0 - p
    OBVIOUS
  <1>4. q >= 0
    <2>1. q < 0 => q * p <= 0 - p
      BY <1>1, <1>3
    <2> DEFINE m == q * p
    <2>2. m \in Int
      BY <1>1
    <2> HIDE DEF m
    <2> QED
      BY <1>1, <1>2, <2>1, <2>2 DEF m
  <1>5. q * p = p * q /\ q * p \in Int
    BY <1>1
  <1>6. n = p * q + r
    BY <1>1, <1>2, <1>5
  <1>7. q \in Nat /\ r \in 0 .. p - 1 /\ n = p * q + r
    BY <1>1, <1>4, <1>6
  <1> QED
    BY <1>7

\* The quotient is the only one.
LEMMA Quotient ==
  ASSUME NEW m \in Nat, NEW p \in Nat \ {0}, NEW r \in 0 .. p - 1
  PROVE  (p * m + r) \div p = m
  OBVIOUS

\* The last digit of a number that is written with it.
LEMMA Remainder ==
  ASSUME NEW m \in Nat, NEW p \in Nat \ {0}, NEW r \in 0 .. p - 1
  PROVE  (p * m + r) % p = r
  OBVIOUS

\* The parts of a word around the digit i: what is above, the digit, what is
\* below.  Any other digit in its place gives a word.
LEMMA Parts ==
  ASSUME NEW w \in Words, NEW i \in 0 .. Digits - 1
  PROVE  \E h \in Nat, d \in 0 .. Base - 1, l \in 0 .. Base ^ i - 1 :
           /\ w = Base ^ i * (Base * h + d) + l
           /\ \A e \in 0 .. Base - 1 : Base ^ i * (Base * h + e) + l \in Words
  <1> DEFINE p == Base ^ i
             z == Base ^ (Digits - 1 - i)
  <1>1. Base \in Nat \ {0} /\ p \in Nat \ {0} /\ z \in Nat \ {0}
    BY UmsAssumption, PowerAssumption
  <1>2. Word = p * (Base * z)
    BY PowerAssumption
  <1>3. w \in Nat /\ w < Word /\ Word \in Nat
    BY WordsNat, WordPositive
  <1> HIDE DEF p, z
  <1>4. PICK m \in Nat, l \in 0 .. p - 1 : w = p * m + l
    BY <1>1, <1>3, Division
  <1>5. PICK h \in Nat, d \in 0 .. Base - 1 : m = Base * h + d
    BY <1>1, <1>4, Division
  <1>6. h < z
    <2>1. m < Base * z
      <3> DEFINE b == Base * z
      <3>1. b \in Nat
        BY <1>1
      <3> HIDE DEF b
      <3>2. \A x \in Nat : x >= b => p * x >= p * b
        BY <1>1, <3>1
      <3> HIDE DEF Word
      <3> QED BY <1>1, <1>2, <1>3, <1>4, <3>1, <3>2 DEF b
    <2>2. h >= z => Base * h >= Base * z
      BY <1>1, <1>5
    <2> QED
      BY <1>1, <1>5, <2>1, <2>2
  <1>7. ASSUME NEW e \in 0 .. Base - 1
        PROVE  p * (Base * h + e) + l \in Words
    <2> DEFINE x == Base * h + e
    <2>1. x \in Nat /\ x + 1 <= Base * z
      <3>1. Base * (h + 1) <= Base * z
        BY <1>1, <1>5, <1>6
      <3> QED BY <1>1, <1>5, <3>1
    <2> HIDE DEF x
    <2>2. p * (x + 1) <= p * (Base * z)
      BY <1>1, <2>1
    <2>3. p * x + l \in Nat /\ p * x + l < p * (x + 1)
      BY <1>1, <1>4, <2>1
    <2> HIDE DEF Word
    <2> QED BY <1>1, <1>2, <1>3, <2>1, <2>2, <2>3 DEF Words, x
  <1> QED
    BY <1>4, <1>5, <1>7 DEF p

\* A digit is one of the base, and the digit that is set is the digit read.
LEMMA DigitFacts ==
  ASSUME NEW w \in Words, NEW i \in 0 .. Digits - 1
  PROVE  /\ Digit(w, i) \in 0 .. Base - 1
         /\ \A e \in 0 .. Base - 1 :
              /\ WithDigit(w, i, e) \in Words
              /\ Digit(WithDigit(w, i, e), i) = e
              /\ WithDigit(w, i, e) = w + (e - Digit(w, i)) * Base ^ i
  <1> DEFINE p == Base ^ i
  <1>1. Base \in Nat \ {0} /\ p \in Nat \ {0}
    BY UmsAssumption, PowerAssumption
  <1>2. PICK h \in Nat, d \in 0 .. Base - 1, l \in 0 .. p - 1 :
          /\ w = p * (Base * h + d) + l
          /\ \A e \in 0 .. Base - 1 : p * (Base * h + e) + l \in Words
    BY Parts
  <1> HIDE DEF p
  <1>3. ASSUME NEW e \in 0 .. Base - 1
        PROVE  Digit(p * (Base * h + e) + l, i) = e
    <2> DEFINE m == Base * h + e
    <2>1. m \in Nat /\ m % Base = e
      BY <1>1, Remainder
    <2> HIDE DEF m
    <2>2. (p * m + l) \div p = m
      BY <1>1, <2>1, Quotient
    <2> QED
      BY <2>1, <2>2 DEF Digit, m, p
  <1>4. Digit(w, i) = d
    BY <1>2, <1>3
  <1>5. ASSUME NEW e \in 0 .. Base - 1
        PROVE  WithDigit(w, i, e) = p * (Base * h + e) + l
    <2>1. WithDigit(w, i, e) = w + (e - d) * p
      BY <1>4 DEF WithDigit, p
    <2>2. p * (Base * h + d) + l + (e - d) * p = p * (Base * h + e) + l
      <3> DEFINE x == Base * h
      <3>1. x \in Nat
        BY <1>1
      <3> HIDE DEF x
      <3>2. p * (x + d) = p * x + p * d /\ p * (x + e) = p * x + p * e
            /\ (e - d) * p = p * e - p * d
        BY <1>1, <3>1
      <3>3. p * x \in Int /\ p * d \in Int /\ p * e \in Int
        BY <1>1, <3>1
      <3> QED
        BY <3>2, <3>3 DEF x
    <2> QED
      BY <1>2, <2>1, <2>2
  <1>6. \A e \in 0 .. Base - 1 : WithDigit(w, i, e) = w + (e - Digit(w, i)) * Base ^ i
    BY DEF WithDigit
  <1> QED
    BY <1>2, <1>3, <1>4, <1>5, <1>6

\* A set of numbers has a least one.
LEMMA LeastNumber ==
  ASSUME NEW T, T \subseteq Nat, T # {}
  PROVE  \E k \in T : \A j \in T : k <= j
  <1>1. PICK k \in T : \A j \in T : <<j, k>> \notin OpToRel(<, Nat)
    BY NatLessThanWellFounded, WFMin, Zenon
  <1>2. \A j \in T : ~(j < k)
    BY <1>1 DEF OpToRel
  <1> QED
    BY <1>2

\* VOL+ gives a word, at most the maximum if the value was.
LEMMA HigherFacts ==
  ASSUME NEW s \in Selectors
  PROVE  Higher(s) \in Words /\ (s.val <= s.max => Higher(s) <= s.max)
  <1> DEFINE d == Digit(s.val, s.digit)
             p == Base ^ s.digit
             e == (d + 1) % Base
             x == WithDigit(s.val, s.digit, e)
             o == WithDigit(s.val, s.digit, 0)
  <1>1. s.val \in Words /\ s.digit \in 0 .. Digits - 1 /\ s.max \in Words
    BY DEF Selectors
  <1>2. Base \in Nat \ {0} /\ p \in Nat
    BY <1>1, UmsAssumption, PowerAssumption
  <1>3. d \in 0 .. Base - 1
    BY <1>1, DigitFacts
  <1>4. 0 \in 0 .. Base - 1 /\ e \in 0 .. Base - 1
    <2> HIDE DEF d
    <2> QED BY <1>2, <1>3
  <1>5. x \in Words /\ o \in Words /\ o = s.val + (0 - d) * p
    BY <1>1, <1>4, DigitFacts
  <1>6. Higher(s) = IF x > s.max THEN o ELSE x
    BY DEF Higher
  <1>7. o <= s.val
    <2> DEFINE y == (0 - d) * p
    <2> HIDE DEF d, p
    <2>1. y \in Int /\ y <= 0
      BY <1>2, <1>3
    <2> HIDE DEF y
    <2>2. s.val \in Nat
      BY <1>1, WordsNat
    <2> HIDE DEF o
    <2> QED BY <1>5, <2>1, <2>2 DEF y
  <1>8. s.val \in Nat /\ s.max \in Nat /\ x \in Nat /\ o \in Nat
    BY <1>1, <1>5, WordsNat
  <1> HIDE DEF x, o
  <1> QED
    BY <1>5, <1>6, <1>7, <1>8

\* VOL- ends in a word when it ends; when the value was at most the maximum it
\* ends, and below the maximum: a digit that is not zero goes down by one, and a
\* zero digit passes, from the highest on, through values that differ from the
\* old one in this digit alone, back to the old one.
LEMMA LowerFacts ==
  ASSUME NEW s \in Selectors
  PROVE  /\ Fits(s) # {} => Lower(s) \in Words
         /\ s.val <= s.max => Fits(s) # {} /\ Lower(s) <= s.max
  <1> DEFINE i == s.digit
             d == Digit(s.val, i)
             p == Base ^ i
             N == Base ^ (Digits - i)
             e == (d - 1) % Base
             x == WithDigit(s.val, i, e)
             y(k) == WithDigit(s.val, i, e - k)
  <1>1. s.val \in Words /\ i \in 0 .. Digits - 1 /\ s.max \in Words
    BY DEF Selectors
  <1>2. Base \in Nat \ {0} /\ p \in Nat \ {0}
    BY <1>1, UmsAssumption, PowerAssumption
  <1>3. N \in Nat /\ N >= Base
    <2>1. Digits - i \in 0 .. Digits /\ Digits - i > 0
      BY <1>1, UmsAssumption
    <2> QED
      BY <2>1, PowerAssumption
  <1>4. d \in 0 .. Base - 1
    BY <1>1, DigitFacts
  <1>5. e \in 0 .. Base - 1 /\ (d > 0 => e = d - 1) /\ (d = 0 => e = Base - 1)
    <2> HIDE DEF d
    <2>1. e \in 0 .. Base - 1
      BY <1>2, <1>4
    <2>2. CASE d > 0
      <3>1. d - 1 \in 0 .. Base - 1
        BY <1>2, <1>4, <2>2
      <3>2. (d - 1) % Base = d - 1
        BY <1>2, <3>1
      <3> QED BY <2>1, <2>2, <3>2
    <2>3. CASE d = 0
      <3>1. (0 - 1) % Base = Base - 1
        BY <1>2
      <3> QED BY <1>4, <2>1, <2>3, <3>1
    <2> QED
      BY <1>2, <1>4, <2>2, <2>3
  <1>6. s.val \in Nat /\ s.max \in Nat /\ x \in Words /\ x \in Nat
        /\ x = s.val + (e - d) * p
    BY <1>1, <1>5, DigitFacts, WordsNat
  <1>7. Below(s) = [k \in 0 .. N - 1 |-> Sub(x, k * p)]
    BY DEF Below
  <1> HIDE DEF d, p, N, e, x
  <1>8. \A k \in 0 .. e : /\ k \in 0 .. N - 1 /\ Below(s)[k] = y(k)
                          /\ y(k) \in Words /\ Digit(y(k), i) = e - k
    <2> SUFFICES ASSUME NEW k \in 0 .. e
                 PROVE  /\ k \in 0 .. N - 1 /\ Below(s)[k] = y(k)
                        /\ y(k) \in Words /\ Digit(y(k), i) = e - k
      OBVIOUS
    <2>1. k \in 0 .. N - 1 /\ e - k \in 0 .. Base - 1 /\ k \in Nat
      BY <1>2, <1>3, <1>5
    <2>2. y(k) \in Words /\ Digit(y(k), i) = e - k /\ y(k) = s.val + (e - k - d) * p
          /\ y(k) \in Nat
      BY <1>1, <2>1, DigitFacts, WordsNat DEF d, p
    <2> DEFINE z == y(k)
               b == k * p
    <2>3. z = s.val + (e - k - d) * p /\ z \in Nat /\ z = y(k)
      BY <2>2
    <2> HIDE DEF z
    <2>4. b \in Nat /\ z = x - b
      <3>1. (e - k - d) * p = (e - d) * p - k * p
        BY <1>2, <1>4, <1>5, <2>1
      <3>2. (e - d) * p \in Int /\ k * p \in Nat
        BY <1>2, <1>4, <1>5, <2>1
      <3> QED
        BY <1>6, <2>3, <3>1, <3>2
    <2>5. Sub(x, b) = x - b
      <3>1. b <= x
        BY <1>6, <2>3, <2>4
      <3> QED
        BY <1>6, <2>4, <3>1, SubSmall
    <2>6. Below(s)[k] = Sub(x, b)
      BY <1>7, <2>1
    <2> QED
      BY <2>1, <2>2, <2>3, <2>4, <2>5, <2>6
  <1>9. s.val <= s.max => \E k \in 0 .. e : y(k) <= s.max
    <2> SUFFICES ASSUME s.val <= s.max PROVE \E k \in 0 .. e : y(k) <= s.max
      OBVIOUS
    <2>1. CASE d > 0
      <3>1. y(0) = s.val + (e - d) * p
        <4>1. e - 0 = e
          BY <1>5
        <4> QED BY <1>6, <4>1 DEF x
      <3>2. e - d = 0 - 1
        BY <1>4, <1>5, <2>1
      <3>3. y(0) <= s.max /\ 0 \in 0 .. e
        BY <1>2, <1>5, <1>6, <3>1, <3>2
      <3> QED
        BY <3>3
    <2>2. CASE d = 0
      <3>1. e - e \in 0 .. Base - 1 /\ e - e = 0 /\ e \in 0 .. e
        BY <1>2, <1>5
      <3>2. y(e) = s.val + (e - e - d) * p
        BY <1>1, <3>1, DigitFacts DEF d, p
      <3>3. (e - e - d) * p = 0
        <4>1. e - e - d = 0
          BY <1>5, <2>2
        <4> QED BY <1>2, <4>1
      <3> DEFINE z == y(e)
      <3>4. z = s.val + 0
        BY <3>2, <3>3
      <3> HIDE DEF z
      <3>5. z <= s.max
        BY <1>6, <3>4
      <3> QED
        BY <3>1, <3>5 DEF z
    <2> QED
      BY <1>4, <2>1, <2>2
  <1>10. Fits(s) \subseteq 0 .. N - 1 /\ \A k \in Fits(s) : Below(s)[k] <= s.max
    BY <1>7 DEF Fits
  <1>11. s.val <= s.max => \E k \in 0 .. e : k \in Fits(s)
    BY <1>7, <1>8, <1>9 DEF Fits
  <1>12. ASSUME Fits(s) # {}
         PROVE  /\ Lower(s) \in Words
                /\ s.val <= s.max => Lower(s) <= s.max
    <2> DEFINE m == CHOOSE k \in Fits(s) : \A j \in Fits(s) : k <= j
    <2>1. m \in Fits(s) /\ \A j \in Fits(s) : m <= j
      <3>1. Fits(s) \subseteq Nat
        BY <1>3, <1>10
      <3> QED
        BY <1>12, <3>1, LeastNumber
    <2>2. Lower(s) = WithDigit(s.val, i, Digit(Below(s)[m], i))
      BY DEF Lower
    <2> HIDE DEF m
    <2>3. m \in 0 .. N - 1 /\ Below(s)[m] = Sub(x, m * p) /\ Below(s)[m] <= s.max
      BY <1>7, <1>10, <2>1
    <2>4. Below(s)[m] \in Words
      <3>1. m * p \in Nat
        BY <1>2, <1>3, <2>3
      <3> QED
        BY <1>6, <2>3, <3>1, SubWord
    <2>5. Lower(s) \in Words
      BY <1>1, <2>2, <2>4, DigitFacts
    <2>6. ASSUME s.val <= s.max
          PROVE  Lower(s) <= s.max
      <3>1. PICK k \in 0 .. e : k \in Fits(s)
        BY <1>11, <2>6
      <3>2. m \in 0 .. e
        BY <1>3, <1>5, <2>1, <2>3, <3>1
      <3>3. Below(s)[m] = y(m) /\ Digit(y(m), i) = e - m
        BY <1>8, <3>2
      <3> QED
        BY <2>2, <2>3, <3>3
    <2> QED
      BY <2>5, <2>6
  <1> QED
    BY <1>11, <1>12

-----------------------------------------------------------------------------
(* The updates of a volume's settings.                                     *)

\* Two settings of a volume differ at most in mode, offset and size.
Same(c, d) == c.mount = d.mount /\ c.part = d.part /\ c.phys = d.phys

\* config_size_update changes the size alone, and makes what starts inside the
\* volume end inside it.
LEMMA SizeUpdateFacts ==
  ASSUME NEW c \in Cfg
  PROVE  /\ SizeUpdate(c) \in Cfg /\ Same(SizeUpdate(c), c)
         /\ SizeUpdate(c).mode = c.mode /\ SizeUpdate(c).offset = c.offset
         /\ c.offset < c.phys => FitsVolume(SizeUpdate(c))
         /\ FitsVolume(c) => SizeUpdate(c) = c
  <1> DEFINE r == Sub(c.phys, c.offset)
             s == Least(c.size, r)
             z == IF s = 0 THEN r ELSE s
  <1>1. c.phys \in Words /\ c.phys \in Nat /\ c.offset \in Nat /\ c.size \in Nat
    BY WordsNat DEF Cfg
  <1>2. r \in Words /\ r \in Nat
    BY <1>1, SubWord, WordsNat
  <1>3. SizeUpdate(c) = [c EXCEPT !.size = z]
    BY DEF SizeUpdate
  <1>4. z \in Words
    BY <1>1, <1>2 DEF Least, Cfg
  <1>5. SizeUpdate(c) \in Cfg
    BY <1>3, <1>4 DEF Cfg
  <1>6. Same(SizeUpdate(c), c) /\ SizeUpdate(c).mode = c.mode /\ SizeUpdate(c).offset = c.offset
        /\ SizeUpdate(c).size = z /\ SizeUpdate(c).phys = c.phys
    BY <1>3 DEF Cfg, Same
  <1>7. c.offset < c.phys => r = c.phys - c.offset
    BY <1>1, SubSmall
  <1>8. c.offset < c.phys => FitsVolume(SizeUpdate(c))
    <2> HIDE DEF r
    <2> QED BY <1>1, <1>6, <1>7 DEF FitsVolume, Least
  <1>9. FitsVolume(c) => SizeUpdate(c) = c
    <2> SUFFICES ASSUME FitsVolume(c) PROVE SizeUpdate(c) = c
      OBVIOUS
    <2>1. z = c.size
      <3> HIDE DEF r
      <3> QED BY <1>1, <1>7 DEF FitsVolume, Least
    <2> HIDE DEF z
    <2> QED BY <1>3, <2>1 DEF Cfg
  <1> QED
    BY <1>5, <1>6, <1>8, <1>9

\* The entry of a partition is one of the table or zero.
LEMMA EntryFacts ==
  ASSUME NEW t, NEW h \in Nat, TableOf(t, h), NEW p \in Nat
  PROVE  /\ Entry(t, p) \in Nat \X Nat
         /\ Entry(t, p) = <<0, 0>> \/ Entry(t, p) \in Entries(h)
         /\ p < t.n => Entry(t, p) = t.parts[p + 1] /\ Entry(t, p) \in Entries(h)
         /\ t.n > 0 => h > 0
  <1>1. t.parts \in Seq(Entries(h)) /\ t.n \in Nat /\ t.n <= Len(t.parts)
    BY UmsAssumption DEF TableOf
  <1>2. Len(t.parts) \in Nat /\ \A i \in 1 .. Len(t.parts) : t.parts[i] \in Entries(h)
    BY <1>1
  <1>3. CASE p < Len(t.parts)
    <2>1. Entry(t, p) = t.parts[p + 1] /\ p + 1 \in 1 .. Len(t.parts)
      BY <1>2, <1>3 DEF Entry
    <2>2. Entry(t, p) \in Entries(h)
      BY <1>2, <2>1
    <2>3. Entry(t, p) \in Nat \X Nat
      BY <2>2 DEF Entries
    <2>4. h > 0
      BY <2>2 DEF Entries
    <2> QED
      BY <2>1, <2>2, <2>3, <2>4
  <1>4. CASE ~(p < Len(t.parts))
    <2>1. Entry(t, p) = <<0, 0>> /\ ~(p < t.n)
      BY <1>1, <1>2, <1>4 DEF Entry
    <2>2. t.n > 0 => h > 0
      <3> SUFFICES ASSUME t.n > 0 PROVE h > 0
        OBVIOUS
      <3>1. t.parts[1] \in Entries(h)
        BY <1>1, <1>2
      <3> QED
        BY <3>1 DEF Entries
    <2> QED
      BY <2>1, <2>2
  <1> QED
    BY <1>3, <1>4

\* config_part_update: a mounted volume given by partition gets an entry of the
\* table, or all of the disk; any other keeps its offset.
LEMMA PartUpdateFacts ==
  ASSUME NEW c \in Cfg, NEW t, TableOf(t, c.phys), c.mode = "part" => t.n > 0
  PROVE  /\ PartUpdate(c, t) \in Cfg /\ Same(PartUpdate(c, t), c)
         /\ PartUpdate(c, t).mode = c.mode
         /\ c.mode = "part" /\ Mounted(c) =>
              /\ FitsVolume(PartUpdate(c, t))
              /\ c.part < t.n => <<PartUpdate(c, t).offset, PartUpdate(c, t).size>>
                                   = Entry(t, c.part)
         /\ ~(c.mode = "part" /\ Mounted(c)) => PartUpdate(c, t) = SizeUpdate(c)
  <1>1. c.phys \in Words /\ c.phys \in Nat /\ c.part \in Nat
    BY WordsNat, UmsAssumption DEF Cfg
  <1>2. CASE c.mode = "part" /\ Mounted(c)
    <2> DEFINE e == Entry(t, c.part)
               d == [c EXCEPT !.offset = e[1], !.size = e[2]]
    <2>1. PartUpdate(c, t) = SizeUpdate(d)
      BY <1>2 DEF PartUpdate
    <2>2. e \in Nat \X Nat /\ (e = <<0, 0>> \/ e \in Entries(c.phys)) /\ c.phys > 0
      BY <1>1, <1>2, EntryFacts
    <2>3. c.part < t.n => e \in Entries(c.phys)
      BY <1>1, EntryFacts
    <2>10. e[1] \in Words /\ e[2] \in Words
      <3>1. \A x \in Nat : x <= c.phys => x \in Words
        <4> HIDE DEF Word
        <4> QED BY <1>1, WordPositive DEF Words
      <3> HIDE DEF e
      <3> QED BY <1>1, <2>2, <3>1 DEF Entries
    <2> HIDE DEF e
    <2>4. d \in Cfg /\ Same(d, c) /\ d.mode = c.mode /\ d.offset = e[1] /\ d.size = e[2]
          /\ d.phys = c.phys
      BY <2>2, <2>10 DEF Cfg, Same
    <2>5. d.offset < d.phys
      BY <1>1, <2>2, <2>4 DEF Entries
    <2>6. c.part < t.n => FitsVolume(d)
      BY <1>1, <2>3, <2>4, <2>5 DEF Entries, FitsVolume
    <2>7. <<d.offset, d.size>> = e
      BY <2>2, <2>4
    <2> HIDE DEF d
    <2>8. /\ SizeUpdate(d) \in Cfg /\ Same(SizeUpdate(d), d) /\ SizeUpdate(d).mode = d.mode
          /\ FitsVolume(SizeUpdate(d))
          /\ FitsVolume(d) => SizeUpdate(d) = d
      BY <2>4, <2>5, SizeUpdateFacts
    <2>9. Same(SizeUpdate(d), c) /\ SizeUpdate(d).mode = c.mode
      BY <2>4, <2>8 DEF Same
    <2> QED
      BY <1>2, <2>1, <2>6, <2>7, <2>8, <2>9 DEF e
  <1>3. CASE ~(c.mode = "part" /\ Mounted(c))
    <2>1. PartUpdate(c, t) = SizeUpdate(c)
      BY <1>3 DEF PartUpdate
    <2> QED
      BY <1>3, <2>1, SizeUpdateFacts
  <1> QED
    BY <1>2, <1>3

\* config_mode_update, from any mode and any table of the disk.
LEMMA ModeUpdateFacts ==
  ASSUME NEW c \in Cfg, NEW t, TableOf(t, c.phys)
  PROVE  /\ ModeUpdate(c, t) \in Cfg /\ Same(ModeUpdate(c, t), c)
         /\ ModeUpdate(c, t).mode = IF t.n = 0 THEN "offset" ELSE c.mode
         /\ ModeUpdate(c, t).mode = "part" /\ Mounted(c) =>
              /\ FitsVolume(ModeUpdate(c, t))
              /\ c.part < t.n => <<ModeUpdate(c, t).offset, ModeUpdate(c, t).size>>
                                   = Entry(t, c.part)
         /\ c.offset < c.phys => FitsVolume(ModeUpdate(c, t))
  <1> DEFINE d == IF t.n = 0 THEN [c EXCEPT !.mode = "offset"] ELSE c
  <1>1. ModeUpdate(c, t) = PartUpdate(d, t)
    BY DEF ModeUpdate
  <1>2. /\ d \in Cfg /\ Same(d, c) /\ d.mode = (IF t.n = 0 THEN "offset" ELSE c.mode)
        /\ d.phys = c.phys /\ d.offset = c.offset /\ d.part = c.part /\ d.mount = c.mount
    BY DEF Cfg, Same
  <1>3. d.mode = "part" => t.n > 0
    BY <1>2, UmsAssumption DEF TableOf
  <1> HIDE DEF d
  <1>4. /\ PartUpdate(d, t) \in Cfg /\ Same(PartUpdate(d, t), d)
        /\ PartUpdate(d, t).mode = d.mode
        /\ d.mode = "part" /\ Mounted(d) =>
              /\ FitsVolume(PartUpdate(d, t))
              /\ d.part < t.n => <<PartUpdate(d, t).offset, PartUpdate(d, t).size>>
                                   = Entry(t, d.part)
        /\ ~(d.mode = "part" /\ Mounted(d)) => PartUpdate(d, t) = SizeUpdate(d)
    BY <1>2, <1>3, PartUpdateFacts
  <1>5. Same(PartUpdate(d, t), c)
    BY <1>2, <1>4 DEF Same
  <1>6. d.offset < d.phys => FitsVolume(SizeUpdate(d))
    BY <1>2, SizeUpdateFacts
  <1>7. Mounted(d) <=> Mounted(c)
    BY <1>2 DEF Mounted
  <1> QED
    BY <1>1, <1>2, <1>4, <1>5, <1>6, <1>7

\* What is read from a disk is a table of that disk.
LEMMA TableFacts ==
  ASSUME NEW d, Sane(d)
  PROVE  TableOf(Table(d), d.sectors) /\ d.sectors \in Words /\ d.sectors > 0
  <1> DEFINE m == Least(IF d.gpt THEN MaxParts ELSE 4, Len(d.parts))
             kept == SubSeq(d.parts, 1, m)
  <1>1. d.sectors \in Words /\ d.sectors > 0 /\ d.sectors \in Nat
    <2>1. d.sectors \in 1 .. Word - 1
      BY DEF Sane
    <2> HIDE DEF Word
    <2> QED BY <2>1, WordPositive DEF Words
  <1>2. d.parts \in Seq(Entries(d.sectors))
    <2>1. d.parts \in Seq((0 .. Word - 1) \X (1 .. Word - 1))
          /\ \A i \in DOMAIN d.parts : d.parts[i][1] + d.parts[i][2] <= d.sectors
      BY DEF Sane
    <2>2. \A e \in (0 .. Word - 1) \X (1 .. Word - 1) : e \in Nat \X Nat /\ e[2] >= 1
      <3> HIDE DEF Word
      <3> QED BY WordPositive
    <2>3. Len(d.parts) \in Nat /\ DOMAIN d.parts = 1 .. Len(d.parts)
          /\ \A i \in 1 .. Len(d.parts) : d.parts[i] \in (0 .. Word - 1) \X (1 .. Word - 1)
      BY <2>1
    <2>4. \A i \in 1 .. Len(d.parts) : d.parts[i] \in Entries(d.sectors)
      BY <2>1, <2>2, <2>3 DEF Entries
    <2>5. d.parts = [i \in 1 .. Len(d.parts) |-> d.parts[i]]
      BY <2>1
    <2> QED
      BY <2>3, <2>4, <2>5
  <1>3. Len(d.parts) \in Nat /\ m \in 0 .. Len(d.parts) /\ m <= MaxParts
    BY <1>2, UmsAssumption DEF Least
  <1> HIDE DEF m
  <1>4. kept \in Seq(Entries(d.sectors)) /\ Len(kept) = m
    BY <1>2, <1>3
  <1> DEFINE n == IF d.gpt \/ kept = <<>> THEN Len(kept) ELSE Len(kept) - 1
  <1>5. Table(d) = [n |-> n, parts |-> kept]
    BY DEF Table, m
  <1> HIDE DEF kept
  <1>6. n \in 0 .. MaxParts /\ n <= Len(kept)
    <2>1. kept # <<>> => Len(kept) > 0
      BY <1>4
    <2> QED
      BY <1>3, <1>4, <2>1, UmsAssumption
  <1> HIDE DEF n
  <1>7. TableOf(Table(d), d.sectors)
    BY <1>4, <1>5, <1>6 DEF TableOf
  <1> QED
    BY <1>1, <1>7

\* The disk of a volume, when there is one, has a size and partitions inside.
LEMMA DiskFacts ==
  ASSUME NEW v \in Volumes, Disk(v) # NoCard, card \in Cards \cup {NoCard}
  PROVE  Sane(Disk(v))
  <1>1. CASE v = "sd"
    BY <1>1, UmsAssumption DEF Disk
  <1>2. CASE v = "gpp"
    BY <1>2, UmsAssumption DEF Disk
  <1>3. CASE v \in {"boot0", "boot1"}
    <2> DEFINE d == [sectors |-> BootSize, parts |-> <<>>, gpt |-> FALSE]
    <2>1. Disk(v) = d
      BY <1>3 DEF Disk
    <2>2. d.sectors \in 1 .. Word - 1 /\ d.gpt \in BOOLEAN /\ d.parts = <<>>
      BY UmsAssumption
    <2> HIDE DEF d
    <2>3. d.parts \in Seq((0 .. Word - 1) \X (1 .. Word - 1)) /\ DOMAIN d.parts = {}
      BY <2>2
    <2> QED
      BY <2>1, <2>2, <2>3 DEF Sane
  <1> QED
    BY <1>1, <1>2, <1>3 DEF Volumes

-----------------------------------------------------------------------------
(* The menus.                                                              *)

\* The entries by number.
LEMMA EntriesOf ==
  /\ DOMAIN MainEntries = 1 .. 7 /\ DOMAIN VolumeEntries = 1 .. 6
  /\ MainEntries[7] = "back" /\ MainEntries[6] = "reload" /\ MainEntries[5] = "start"
  /\ VolumeEntries[6] = "back"
  BY DEF MainEntries, VolumeEntries

\* A menu whose last entry is enabled starts at an enabled one.
LEMMA FirstFacts ==
  ASSUME NEW entries, NEW off, NEW n \in 1 .. 7, DOMAIN entries = 1 .. n,
         entries[n] \notin off
  PROVE  First(entries, off) \in 1 .. n /\ entries[First(entries, off)] \notin off
  <1>1. \E i \in Live(entries, off) : \A j \in Live(entries, off) : i <= j
    <2>1. n \in Live(entries, off) /\ Live(entries, off) \subseteq Nat
      BY DEF Live
    <2> QED
      BY <2>1, LeastNumber
  <1>2. First(entries, off) \in Live(entries, off)
    BY <1>1 DEF First
  <1> QED
    BY <1>2 DEF Live

\* What config_volume_update disables in the main menu.
LEMMA VolumeUpdateFacts ==
  ASSUME NEW c, NEW bad
  PROVE  /\ "start" \in VolumeUpdate(c, bad) <=> \A v \in Volumes : ~Mounted(c[v])
         /\ \A v \in Volumes : v \in VolumeUpdate(c, bad) <=> Storage(v) \in bad
         /\ "back" \notin VolumeUpdate(c, bad) /\ "reload" \notin VolumeUpdate(c, bad)
  BY DEF VolumeUpdate, Volumes

\* What the updates of a volume disable in its menu.
LEMMA GreyedFacts ==
  ASSUME NEW c \in Cfg, NEW t
  PROVE  /\ "mount" \notin Greyed(c, t) /\ "back" \notin Greyed(c, t)
         /\ "mode" \notin Greyed(c, t) <=> Mounted(c) /\ t.n # 0
         /\ "part" \notin Greyed(c, t) <=> Mounted(c) /\ c.mode = "part"
         /\ \A f \in {"offset", "size"} :
              f \notin Greyed(c, t) <=> Mounted(c) /\ c.mode = "offset"
  BY DEF Greyed, Cfg

-----------------------------------------------------------------------------
(* The initial state, and a fresh start of the menu.                       *)

\* No disk, no table.
LEMMA NoTableFacts == TableOf(NoTable, 0) /\ NoTable.n = 0
  <1>1. NoTable.parts \in Seq(Entries(0)) /\ Len(NoTable.parts) = 0 /\ NoTable.n = 0
    BY DEF NoTable
  <1>2. NoTable = [n |-> NoTable.n, parts |-> NoTable.parts]
    BY DEF NoTable
  <1> QED
    BY <1>1, <1>2, UmsAssumption DEF TableOf

\* The settings a volume starts with.
LEMMA BlankFacts ==
  /\ Blank \in Cfg /\ [Blank EXCEPT !.mount = "rw"] \in Cfg
  /\ Blank.phys = 0 /\ Blank.offset = 0 /\ Blank.size = 0 /\ Blank.part = 0
  /\ Blank.mode = "offset" /\ Blank.mount = "no"
  <1>1. 0 \in Words /\ 0 \in 0 .. MaxParts
    <2> HIDE DEF Word
    <2> QED BY WordPositive, UmsAssumption DEF Words
  <1> QED
    BY <1>1 DEF Blank, Cfg

LEMMA InitOK == Init => IInv
  <1> SUFFICES ASSUME Init PROVE IInv
    OBVIOUS
  <1> USE DEF Init
  <1>1. \A v \in Volumes : cfg[v] = Blank /\ seen[v] = NoTable /\ settled[v] = TRUE
    OBVIOUS
  <1>2. Types
    <2>1. cfg \in [Volumes -> Cfg]
      BY BlankFacts
    <2>2. cursor \in 1 .. 7 /\ vcursor \in 1 .. 6 /\ vol \in Volumes
      BY DEF MainEntries, VolumeEntries, Volumes
    <2>3. sel \in Selectors
      <3>1. 0 \in Words /\ 0 \in 0 .. Digits - 1
        <4> HIDE DEF Word
        <4> QED BY WordPositive, UmsAssumption DEF Words
      <3> QED BY <3>1 DEF Idle, Selectors
    <2>4. swaps \in 0 .. MaxSwaps
      BY UmsAssumption
    <2>5. settled \in [Volumes -> BOOLEAN] /\ DOMAIN seen = Volumes
      OBVIOUS
    <2> QED
      BY <2>1, <2>2, <2>3, <2>4, <2>5 DEF Types
  <1>3. Tables
    BY <1>1, BlankFacts, NoTableFacts DEF Tables
  <1>4. Partitions
    BY <1>1, BlankFacts DEF Partitions
  <1>5. Settled
    BY <1>1, BlankFacts DEF Settled
  <1>6. Offered
    BY <1>1, BlankFacts DEF Offered, Mounted
  <1>7. Standing /\ Selecting
    BY DEF Standing, Selecting
  <1> QED
    BY <1>2, <1>3, <1>4, <1>5, <1>6, <1>7 DEF IInv

\* init_ums_cfg, whatever was there before.
LEMMA FreshOK ==
  ASSUME IInv, NEW bad \in SUBSET {"sd", "emmc"}, Fresh(bad), at' = "main",
         cursor' \in 1 .. 7, MainEntries[cursor'] \notin greyed',
         UNCHANGED <<vcursor, sel, card, swaps>>
  PROVE  IInv'
  <1>1. \A v \in Volumes :
          /\ \/ cfg'[v] = Blank
             \/ cfg'[v] = [Blank EXCEPT !.mount = "rw"] /\ Storage(v) \notin bad
          /\ seen'[v] = NoTable /\ settled'[v] = TRUE
    BY DEF Fresh, Storage
  <1>2. \A v \in Volumes :
          /\ cfg'[v] \in Cfg /\ cfg'[v].mode = "offset" /\ cfg'[v].phys = 0
          /\ cfg'[v].offset = 0 /\ cfg'[v].size = 0 /\ cfg'[v].part = 0
          /\ Mounted(cfg'[v]) => Storage(v) \notin bad
    BY <1>1, BlankFacts DEF Mounted, Blank
  <1>3. Types'
    <2>1. cfg' \in [Volumes -> Cfg]
      BY BlankFacts DEF Fresh
    <2>2. settled' \in [Volumes -> BOOLEAN] /\ DOMAIN seen' = Volumes
      BY DEF Fresh
    <2>3. greyed' \subseteq Volumes \cup {"start"}
      BY DEF Fresh, VolumeUpdate
    <2> QED
      BY <2>1, <2>2, <2>3 DEF IInv, Types, Fresh
  <1>4. Tables'
    BY <1>1, <1>2, NoTableFacts DEF Tables
  <1>5. Partitions'
    BY <1>2 DEF Partitions
  <1>6. Settled'
    BY <1>2 DEF Settled
  <1>7. Offered'
    <2>1. errors' = bad /\ greyed' = VolumeUpdate(cfg', bad)
      BY DEF Fresh
    <2>2. greyed' = VolumeUpdate(cfg', errors')
      BY <2>1
    <2>3. \A v \in Volumes : Mounted(cfg'[v]) => Storage(v) \notin errors'
      BY <1>2, <2>1
    <2>4. at' \notin {"volume", "select"}
      OBVIOUS
    <2> QED
      BY <2>2, <2>3, <2>4 DEF Offered
  <1>8. Standing' /\ Selecting'
    BY DEF Standing, Selecting
  <1> QED
    BY <1>3, <1>4, <1>5, <1>6, <1>7, <1>8 DEF IInv

-----------------------------------------------------------------------------
(* The steps that leave the settings alone.                                *)

LEMMA SettingsKept ==
  ASSUME IInv, UNCHANGED settings
  PROVE  Tables' /\ Partitions' /\ Settled'
  <1>1. Tables'
    BY DEF IInv, Tables, settings
  <1>2. Partitions'
    BY DEF IInv, Partitions, settings
  <1>3. Settled'
    BY DEF IInv, Settled, settings
  <1> QED
    BY <1>1, <1>2, <1>3

LEMMA SwapOK == IInv /\ Swap => IInv'
  <1> SUFFICES ASSUME IInv, Swap PROVE IInv'
    OBVIOUS
  <1>1. UNCHANGED settings
    BY DEF Swap
  <1>2. Types'
    BY UmsAssumption DEF Swap, settings, IInv, Types
  <1>3. Offered'
    BY DEF Swap, settings, IInv, Offered
  <1>4. Standing'
    BY DEF Swap, settings, IInv, Standing
  <1>5. Selecting'
    BY DEF Swap, settings, IInv, Selecting
  <1> QED
    BY <1>1, <1>2, <1>3, <1>4, <1>5, SettingsKept DEF IInv

LEMMA OpenOK == IInv /\ Open => IInv'
  <1> SUFFICES ASSUME IInv, Open PROVE IInv'
    OBVIOUS
  <1>1. PICK bad \in SUBSET {"sd", "emmc"} : Fresh(bad)
    BY DEF Open
  <1>2. MainEntries[7] \notin greyed'
    <2>1. greyed' = VolumeUpdate(cfg', bad)
      BY <1>1 DEF Fresh
    <2> QED
      BY <2>1, EntriesOf, VolumeUpdateFacts
  <1>3. cursor' \in 1 .. 7 /\ MainEntries[cursor'] \notin greyed'
    BY <1>2, EntriesOf, FirstFacts DEF Open
  <1>4. at' = "main" /\ UNCHANGED <<vcursor, sel, card, swaps>>
    BY DEF Open
  <1> QED
    BY <1>1, <1>3, <1>4, FreshOK

LEMMA ReloadOK == IInv /\ Reload => IInv'
  <1> SUFFICES ASSUME IInv, Reload PROVE IInv'
    OBVIOUS
  <1>1. PICK bad \in SUBSET {"sd", "emmc"} : Fresh(bad)
    BY DEF Reload
  <1>2. at' = "main" /\ cursor' = cursor /\ MainEntries[cursor] = "reload"
        /\ UNCHANGED <<vcursor, sel, card, swaps>>
    BY DEF Reload
  <1>3. cursor' \in 1 .. 7
    BY <1>2 DEF IInv, Types
  <1>4. MainEntries[cursor'] \notin greyed'
    <2>1. greyed' = VolumeUpdate(cfg', bad)
      BY <1>1 DEF Fresh
    <2> QED
      BY <1>2, <2>1, VolumeUpdateFacts
  <1> QED
    BY <1>1, <1>2, <1>3, <1>4, FreshOK

LEMMA NavigateOK == IInv /\ Navigate => IInv'
  <1> SUFFICES ASSUME IInv, Navigate PROVE IInv'
    OBVIOUS
  <1>1. UNCHANGED settings /\ UNCHANGED <<at, sel, card, swaps>>
    BY DEF Navigate
  <1>2. CASE at = "main" /\ cursor' \in Steps(MainEntries, greyed, cursor) /\ vcursor' = vcursor
    <2>1. cursor' \in 1 .. 7 /\ MainEntries[cursor'] \notin greyed
      BY <1>2, EntriesOf DEF Steps, Live
    <2>2. Types'
      BY <1>1, <1>2, <2>1 DEF settings, IInv, Types
    <2>3. Offered'
      BY <1>1, <1>2 DEF settings, IInv, Offered
    <2>4. Standing'
      BY <1>1, <1>2, <2>1 DEF settings, Standing
    <2>5. Selecting'
      BY <1>1, <1>2 DEF settings, Selecting
    <2> QED
      BY <1>1, <2>2, <2>3, <2>4, <2>5, SettingsKept DEF IInv
  <1>3. CASE at = "volume" /\ vcursor' \in Steps(VolumeEntries, vgreyed, vcursor)
             /\ cursor' = cursor
    <2>1. vcursor' \in 1 .. 6 /\ VolumeEntries[vcursor'] \notin vgreyed
      BY <1>3, EntriesOf DEF Steps, Live
    <2>2. Types'
      BY <1>1, <1>3, <2>1 DEF settings, IInv, Types
    <2>3. Offered'
      BY <1>1, <1>3 DEF settings, IInv, Offered
    <2>4. Standing'
      BY <1>1, <1>3, <2>1 DEF settings, Standing
    <2>5. Selecting'
      BY <1>1, <1>3 DEF settings, IInv, Selecting
    <2> QED
      BY <1>1, <2>2, <2>3, <2>4, <2>5, SettingsKept DEF IInv
  <1> QED
    BY <1>2, <1>3 DEF Navigate

\* Leave, Start and the end of a session.
LEMMA MainMenuOK == IInv /\ (Leave \/ Start \/ SessionEnds) => IInv'
  <1> SUFFICES ASSUME IInv, Leave \/ Start \/ SessionEnds PROVE IInv'
    OBVIOUS
  <1>1. /\ UNCHANGED settings /\ UNCHANGED <<cursor, vcursor, sel, card, swaps>>
        /\ at \in {"main", "session"} /\ at' \in {"left", "main", "session"}
        /\ at' = "session" => MainEntries[cursor] = "start" /\ "start" \notin greyed
        /\ at' = "main" => at = "session"
    BY DEF Leave, Start, SessionEnds
  <1>2. Types'
    BY <1>1 DEF settings, IInv, Types
  <1>3. Offered'
    BY <1>1 DEF settings, IInv, Offered
  <1>4. Standing'
    BY <1>1 DEF settings, IInv, Standing
  <1>5. Selecting'
    BY <1>1 DEF settings, Selecting
  <1> QED
    BY <1>1, <1>2, <1>3, <1>4, <1>5, SettingsKept DEF IInv

\* The entry that was chosen in the volume menu is enabled.
LEMMA SelectOK ==
  ASSUME IInv, NEW f \in {"offset", "size"}, Select(f)
  PROVE  IInv'
  <1>1. /\ at = "volume" /\ VolumeEntries[vcursor] = f /\ f \notin vgreyed /\ at' = "select"
        /\ UNCHANGED settings /\ UNCHANGED <<cursor, vcursor, card, swaps>>
    BY DEF Select, Chosen
  <1>2. vol \in Volumes /\ cfg[vol] \in Cfg /\ vgreyed = Greyed(cfg[vol], seen[vol])
    BY <1>1 DEF IInv, Types, Offered
  <1>3. Mounted(cfg[vol]) /\ cfg[vol].mode = "offset"
    BY <1>1, <1>2, GreyedFacts
  <1> DEFINE m == IF f = "offset" THEN Sub(cfg[vol].phys, 1)
                  ELSE Sub(cfg[vol].phys, cfg[vol].offset)
             w == cfg[vol][f]
  <1>4. sel' = [field |-> f, digit |-> Digits - 1, val |-> w, max |-> m]
    BY DEF Select
  <1>5. w \in Words
    BY <1>2 DEF Cfg
  <1>6. m \in Words
    BY <1>2, SubWord, WordsNat DEF Cfg
  <1>7. sel' \in Selectors
    <2>1. Digits - 1 \in 0 .. Digits - 1
      BY UmsAssumption
    <2> HIDE DEF m, w
    <2> QED BY <1>4, <1>5, <1>6, <2>1 DEF Selectors
  <1>8. settled[vol] => w <= m
    <2> SUFFICES ASSUME settled[vol] PROVE w <= m
      OBVIOUS
    <2> DEFINE c == cfg[vol]
    <2>1. c \in Cfg /\ c.phys > 0 /\ FitsVolume(c)
      BY <1>1, <1>2 DEF IInv, Selecting, Settled
    <2> HIDE DEF c
    <2>2. c.phys \in Words /\ c.phys \in Nat /\ c.offset \in Nat /\ c.size \in Nat
      BY <2>1, WordsNat DEF Cfg
    <2>3. Sub(c.phys, 1) = c.phys - 1 /\ Sub(c.phys, c.offset) = c.phys - c.offset
      BY <2>1, <2>2, SubSmall DEF FitsVolume
    <2>4. CASE f = "offset"
      <3>1. w = c.offset /\ m = c.phys - 1
        BY <2>3, <2>4 DEF c
      <3> HIDE DEF w, m
      <3> QED BY <2>1, <2>2, <3>1 DEF FitsVolume
    <2>5. CASE f = "size"
      <3>1. w = c.size /\ m = c.phys - c.offset
        BY <2>3, <2>5 DEF c
      <3> HIDE DEF w, m
      <3> QED BY <2>1, <2>2, <3>1 DEF FitsVolume
    <2> QED
      BY <2>4, <2>5
  <1>9. Types'
    BY <1>1, <1>7 DEF settings, IInv, Types
  <1>10. Offered'
    BY <1>1 DEF settings, IInv, Offered
  <1>11. Standing'
    BY <1>1, <1>4 DEF settings, Standing
  <1>12. Selecting'
    <2>1. sel'.max = m /\ sel'.field = f /\ sel'.val = w
      <3> HIDE DEF m, w
      <3> QED BY <1>4
    <2>2. settled[vol] => cfg[vol].phys > 0
      BY <1>1 DEF IInv, Selecting
    <2> QED
      BY <1>1, <1>3, <1>8, <2>1, <2>2 DEF settings, Selecting
  <1> QED
    BY <1>1, <1>9, <1>10, <1>11, <1>12, SettingsKept DEF IInv

LEMMA TurnOK == IInv /\ Turn => IInv'
  <1> SUFFICES ASSUME IInv, Turn PROVE IInv'
    OBVIOUS
  <1>1. /\ at = "select" /\ UNCHANGED settings /\ UNCHANGED <<cursor, vcursor, card, swaps>>
    BY DEF Turn
  <1>2. sel \in Selectors
    BY DEF IInv, Types
  <1>3. settled[vol] => sel.val <= sel.max
    BY <1>1 DEF IInv, Selecting
  <1>4. /\ Higher(sel) \in Words /\ (sel.val <= sel.max => Higher(sel) <= sel.max)
        /\ Fits(sel) # {} => Lower(sel) \in Words
        /\ sel.val <= sel.max => Fits(sel) # {} /\ Lower(sel) <= sel.max
    BY <1>2, HigherFacts, LowerFacts
  <1>5. ASSUME NEW w \in Words, sel' = [sel EXCEPT !.val = w], at' = at,
               settled[vol] => w <= sel.max
        PROVE  IInv'
    <2>1. sel' \in Selectors /\ sel'.val = w /\ sel'.max = sel.max /\ sel'.field = sel.field
      BY <1>2, <1>5 DEF Selectors
    <2>2. Types'
      BY <1>1, <1>5, <2>1 DEF settings, IInv, Types
    <2>3. Offered'
      BY <1>1, <1>5 DEF settings, IInv, Offered
    <2>4. Standing'
      BY <1>1, <1>5, <2>1 DEF settings, IInv, Standing
    <2>5. Selecting'
      BY <1>1, <1>5, <2>1 DEF settings, IInv, Selecting
    <2> QED
      BY <1>1, <2>2, <2>3, <2>4, <2>5, SettingsKept DEF IInv
  <1>6. CASE sel' = [sel EXCEPT !.val = Higher(sel)] /\ at' = at
    BY <1>3, <1>4, <1>5, <1>6
  <1>7. CASE Fits(sel) # {} /\ sel' = [sel EXCEPT !.val = Lower(sel)] /\ at' = at
    BY <1>3, <1>4, <1>5, <1>7
  <1>8. CASE Fits(sel) = {} /\ at' = "hung" /\ sel' = sel
    <2>1. ~settled[vol]
      BY <1>3, <1>4, <1>8
    <2>2. Types'
      BY <1>1, <1>8 DEF settings, IInv, Types
    <2>3. Offered'
      BY <1>1, <1>8 DEF settings, IInv, Offered
    <2>4. Standing' /\ Selecting'
      BY <1>1, <1>8, <2>1 DEF settings, Standing, Selecting
    <2> QED
      BY <1>1, <2>2, <2>3, <2>4, SettingsKept DEF IInv
  <1> QED
    BY <1>6, <1>7, <1>8 DEF Turn

-----------------------------------------------------------------------------
(* The steps that change the settings of a volume.                         *)

\* New settings for the volume whose menu is open, with the same disk and
\* table, and a menu that stands on an entry they leave enabled.
LEMMA EditOK ==
  ASSUME IInv, at \in {"volume", "select"}, at' = "volume",
         NEW c \in Cfg, Apply(vol, c, seen[vol]),
         UNCHANGED <<errors, vol, seen, settled, cursor, vcursor, card, swaps>>,
         sel' \in Selectors,
         c.phys = cfg[vol].phys,
         c.mode = "part" => seen[vol].n > 0,
         c.mode = "part" /\ Mounted(c) => FitsVolume(c),
         settled[vol] =>
           /\ c.part = 0 \/ c.part < seen[vol].n
           /\ FitsVolume(c)
           /\ c.mode = "part" /\ Mounted(c) =>
                <<c.offset, c.size>> = Entry(seen[vol], c.part),
         VolumeEntries[vcursor] \notin Greyed(c, seen[vol])
  PROVE  IInv'
  <1>1. vol \in Volumes /\ cfg \in [Volumes -> Cfg]
    BY DEF IInv, Types
  <1>2. /\ cfg' = [cfg EXCEPT ![vol] = c] /\ greyed' = VolumeUpdate(cfg', errors)
        /\ vgreyed' = Greyed(c, seen[vol])
    BY DEF Apply
  <1>3. cfg'[vol] = c /\ \A v \in Volumes \ {vol} : cfg'[v] = cfg[v]
    BY <1>1, <1>2
  <1>4. Types'
    <2>1. cfg' \in [Volumes -> Cfg]
      BY <1>1, <1>2
    <2>2. greyed' \subseteq Volumes \cup {"start"}
      BY <1>2 DEF VolumeUpdate
    <2>3. vgreyed' \subseteq {"mode", "part", "offset", "size"}
      BY <1>2 DEF Greyed
    <2> QED
      BY <2>1, <2>2, <2>3 DEF IInv, Types
  <1>5. Tables'
    <2>1. Tables
      BY DEF IInv
    <2> QED
      BY <1>1, <1>3, <2>1 DEF Tables
  <1>6. Partitions'
    <2>1. Partitions
      BY DEF IInv
    <2> QED
      BY <1>1, <1>3, <2>1 DEF Partitions
  <1>7. settled[vol] => c.phys > 0
    BY DEF IInv, Selecting
  <1>8. Settled'
    <2>1. Settled
      BY DEF IInv
    <2>2. settled[vol] => c.phys # 0
      BY <1>7
    <2> QED
      BY <1>1, <1>3, <2>1, <2>2 DEF Settled
  <1>9. Offered'
    <2>1. Offered
      BY DEF IInv
    <2>2. MainEntries[cursor] = vol /\ Storage(vol) \notin errors
      BY <2>1 DEF Offered
    <2>3. \A v \in Volumes : Mounted(cfg'[v]) => Storage(v) \notin errors'
      BY <1>3, <2>1, <2>2 DEF Offered
    <2> QED
      BY <1>2, <1>3, <2>2, <2>3 DEF Offered
  <1>10. Standing'
    BY <1>2 DEF Standing
  <1>11. Selecting'
    BY <1>3, <1>7 DEF Selecting
  <1> QED
    BY <1>4, <1>5, <1>6, <1>8, <1>9, <1>10, <1>11 DEF IInv

\* What holds while the menu of a volume is open.
LEMMA VolumeMenuFacts ==
  ASSUME IInv, at \in {"volume", "select"}
  PROVE  /\ vol \in Volumes /\ cfg[vol] \in Cfg /\ TableOf(seen[vol], cfg[vol].phys)
         /\ vgreyed = Greyed(cfg[vol], seen[vol])
         /\ cfg[vol].mode = "part" => seen[vol].n > 0
         /\ settled[vol] =>
              /\ cfg[vol].part = 0 \/ cfg[vol].part < seen[vol].n
              /\ FitsVolume(cfg[vol])
  <1>1. vol \in Volumes /\ cfg[vol] \in Cfg
    BY DEF IInv, Types
  <1>2. TableOf(seen[vol], cfg[vol].phys) /\ (cfg[vol].mode = "part" => seen[vol].n > 0)
    BY <1>1 DEF IInv, Tables
  <1>3. vgreyed = Greyed(cfg[vol], seen[vol])
    BY DEF IInv, Offered
  <1>4. settled[vol] =>
          /\ cfg[vol].part = 0 \/ cfg[vol].part < seen[vol].n
          /\ FitsVolume(cfg[vol])
    <2>1. settled[vol] => cfg[vol].phys # 0
      BY DEF IInv, Selecting
    <2> QED
      BY <1>1, <2>1 DEF IInv, Settled
  <1> QED
    BY <1>1, <1>2, <1>3, <1>4

\* The mount mode and the mode: config_mode_update follows both.
LEMMA ModeEditOK ==
  ASSUME IInv, at = "volume", NEW b \in Cfg, Edit(ModeUpdate(b, seen[vol])),
         b.phys = cfg[vol].phys, b.part = cfg[vol].part, b.offset = cfg[vol].offset,
         VolumeEntries[vcursor] \notin Greyed(ModeUpdate(b, seen[vol]), seen[vol])
  PROVE  IInv'
  <1> DEFINE t == seen[vol]
             c == ModeUpdate(b, t)
  <1>1. /\ TableOf(t, b.phys)
        /\ settled[vol] => (b.part = 0 \/ b.part < t.n) /\ b.offset < b.phys
    BY VolumeMenuFacts DEF FitsVolume
  <1>2. /\ c \in Cfg /\ Same(c, b) /\ c.mode = (IF t.n = 0 THEN "offset" ELSE b.mode)
        /\ c.mode = "part" /\ Mounted(b) =>
              /\ FitsVolume(c)
              /\ b.part < t.n => <<c.offset, c.size>> = Entry(t, b.part)
        /\ b.offset < b.phys => FitsVolume(c)
    BY <1>1, ModeUpdateFacts
  <1>3. /\ Apply(vol, c, t) /\ at' = "volume" /\ sel' = sel
        /\ UNCHANGED <<errors, vol, seen, settled, cursor, vcursor, card, swaps>>
    BY DEF Edit
  <1>4. sel' \in Selectors
    BY <1>3 DEF IInv, Types
  <1>5. t.n \in Nat
    BY <1>1, UmsAssumption DEF TableOf
  <1> HIDE DEF c
  <1>6. c.part = b.part /\ c.phys = b.phys /\ (Mounted(c) <=> Mounted(b))
    BY <1>2 DEF Same, Mounted
  <1>7. c.mode = "part" => t.n > 0
    BY <1>2, <1>5
  <1>8. c.mode = "part" /\ Mounted(c) => FitsVolume(c)
    BY <1>2, <1>6
  <1>9. settled[vol] =>
          /\ c.part = 0 \/ c.part < t.n
          /\ FitsVolume(c)
          /\ c.mode = "part" /\ Mounted(c) => <<c.offset, c.size>> = Entry(t, c.part)
    BY <1>1, <1>2, <1>5, <1>6, <1>7
  <1>10. VolumeEntries[vcursor] \notin Greyed(c, t)
    BY DEF c
  <1> QED
    BY <1>2, <1>3, <1>4, <1>6, <1>7, <1>8, <1>9, <1>10, EditOK

LEMMA CycleMountOK == IInv /\ CycleMount => IInv'
  <1> SUFFICES ASSUME IInv, CycleMount PROVE IInv'
    OBVIOUS
  <1> DEFINE b == [cfg[vol] EXCEPT !.mount = NextMount(@)]
  <1>1. at = "volume" /\ VolumeEntries[vcursor] = "mount" /\ Edit(ModeUpdate(b, seen[vol]))
    BY DEF CycleMount, Chosen
  <1>2. cfg[vol] \in Cfg /\ TableOf(seen[vol], cfg[vol].phys)
    BY <1>1, VolumeMenuFacts
  <1>3. NextMount(cfg[vol].mount) \in {"no", "ro", "rw"}
    BY <1>2 DEF Cfg, NextMount
  <1>4. b \in Cfg /\ b.phys = cfg[vol].phys /\ b.part = cfg[vol].part
        /\ b.offset = cfg[vol].offset
    BY <1>2, <1>3 DEF Cfg
  <1> HIDE DEF b
  <1>5. "mount" \notin Greyed(ModeUpdate(b, seen[vol]), seen[vol])
    BY <1>2, <1>4, ModeUpdateFacts, GreyedFacts
  <1> QED
    BY <1>1, <1>4, <1>5, ModeEditOK

LEMMA ToggleModeOK == IInv /\ ToggleMode => IInv'
  <1> SUFFICES ASSUME IInv, ToggleMode PROVE IInv'
    OBVIOUS
  <1> DEFINE m == IF cfg[vol].mode = "offset" /\ seen[vol].n > 0 THEN "part" ELSE "offset"
             b == [cfg[vol] EXCEPT !.mode = m]
  <1>1. at = "volume" /\ VolumeEntries[vcursor] = "mode" /\ "mode" \notin vgreyed
        /\ Edit(ModeUpdate(b, seen[vol]))
    BY DEF ToggleMode, Chosen
  <1>2. cfg[vol] \in Cfg /\ TableOf(seen[vol], cfg[vol].phys)
        /\ vgreyed = Greyed(cfg[vol], seen[vol])
    BY <1>1, VolumeMenuFacts
  <1>3. Mounted(cfg[vol]) /\ seen[vol].n # 0
    BY <1>1, <1>2, GreyedFacts
  <1>4. b \in Cfg /\ b.phys = cfg[vol].phys /\ b.part = cfg[vol].part
        /\ b.offset = cfg[vol].offset /\ b.mount = cfg[vol].mount
    BY <1>2 DEF Cfg
  <1> HIDE DEF b
  <1> DEFINE c == ModeUpdate(b, seen[vol])
  <1>5. c \in Cfg /\ Same(c, b)
    BY <1>2, <1>4, ModeUpdateFacts
  <1> HIDE DEF c
  <1>6. Mounted(c)
    BY <1>3, <1>4, <1>5 DEF Same, Mounted
  <1>7. "mode" \notin Greyed(c, seen[vol])
    BY <1>3, <1>5, <1>6, GreyedFacts
  <1> QED
    BY <1>1, <1>4, <1>7, ModeEditOK DEF c

LEMMA NextPartOK == IInv /\ NextPart => IInv'
  <1> SUFFICES ASSUME IInv, NextPart PROVE IInv'
    OBVIOUS
  <1> DEFINE t == seen[vol]
             q == Following(cfg[vol].part, t.n)
             b == [cfg[vol] EXCEPT !.part = q]
             c == PartUpdate(b, t)
  <1>1. at = "volume" /\ VolumeEntries[vcursor] = "part" /\ "part" \notin vgreyed
        /\ Edit(c)
    BY DEF NextPart, Chosen
  <1>2. cfg[vol] \in Cfg /\ TableOf(t, cfg[vol].phys) /\ vgreyed = Greyed(cfg[vol], t)
        /\ (cfg[vol].mode = "part" => t.n > 0)
    BY <1>1, VolumeMenuFacts
  <1>3. Mounted(cfg[vol]) /\ cfg[vol].mode = "part" /\ t.n \in 0 .. MaxParts /\ t.n > 0
    BY <1>1, <1>2, GreyedFacts DEF TableOf
  <1>4. q \in 0 .. t.n - 1
    <2>1. cfg[vol].part + 1 \in Nat
      BY <1>2, UmsAssumption DEF Cfg
    <2>2. \A x, n \in Nat : n > 0 => x % n \in 0 .. n - 1
      OBVIOUS
    <2> DEFINE n == t.n
    <2>3. n \in Nat /\ n > 0
      BY <1>3, UmsAssumption
    <2> HIDE DEF n
    <2>4. (cfg[vol].part + 1) % n \in 0 .. n - 1
      BY <2>1, <2>2, <2>3
    <2> QED
      BY <2>4 DEF Following, n
  <1>5. q \in 0 .. MaxParts /\ q < t.n
    BY <1>3, <1>4, UmsAssumption
  <1> HIDE DEF q
  <1>6. b \in Cfg /\ b.phys = cfg[vol].phys /\ b.part = q /\ b.mode = "part"
        /\ b.mount = cfg[vol].mount
    BY <1>2, <1>3, <1>5 DEF Cfg
  <1>7. Mounted(b)
    BY <1>3, <1>6 DEF Mounted
  <1> HIDE DEF b
  <1>8. /\ c \in Cfg /\ Same(c, b) /\ c.mode = b.mode /\ FitsVolume(c)
        /\ <<c.offset, c.size>> = Entry(t, b.part)
    BY <1>2, <1>3, <1>5, <1>6, <1>7, PartUpdateFacts
  <1>9. /\ Apply(vol, c, t) /\ at' = "volume" /\ sel' = sel
        /\ UNCHANGED <<errors, vol, seen, settled, cursor, vcursor, card, swaps>>
    BY <1>1 DEF Edit
  <1> HIDE DEF c
  <1>10. sel' \in Selectors
    BY <1>9 DEF IInv, Types
  <1>11. c.part = q /\ c.phys = cfg[vol].phys /\ Mounted(c) /\ c.mode = "part"
    BY <1>6, <1>7, <1>8 DEF Same, Mounted
  <1>12. VolumeEntries[vcursor] \notin Greyed(c, t)
    BY <1>1, <1>8, <1>11, GreyedFacts
  <1> QED
    BY <1>1, <1>3, <1>5, <1>6, <1>8, <1>9, <1>10, <1>11, <1>12, EditOK

LEMMA LeaveVolumeOK == IInv /\ LeaveVolume => IInv'
  <1> SUFFICES ASSUME IInv, LeaveVolume PROVE IInv'
    OBVIOUS
  <1>1. /\ at = "volume" /\ at' = "main" /\ greyed' = VolumeUpdate(cfg, errors) /\ vgreyed' = {}
        /\ UNCHANGED <<cfg, errors, vol, seen, settled, cursor, vcursor, sel, card, swaps>>
    BY DEF LeaveVolume, Chosen
  <1>2. Types'
    <2>1. greyed' \subseteq Volumes \cup {"start"}
      BY <1>1 DEF VolumeUpdate
    <2> QED
      BY <1>1, <2>1 DEF IInv, Types
  <1>3. Tables'
    BY <1>1 DEF IInv, Tables
  <1>4. Partitions'
    BY <1>1 DEF IInv, Partitions
  <1>5. Settled'
    BY <1>1 DEF IInv, Settled
  <1>6. Offered'
    BY <1>1 DEF IInv, Offered
  <1>7. Standing'
    <2>1. vol \in Volumes /\ MainEntries[cursor] = vol /\ Storage(vol) \notin errors
      BY <1>1 DEF IInv, Types, Offered
    <2>2. vol \notin greyed'
      BY <1>1, <2>1, VolumeUpdateFacts
    <2> QED
      BY <1>1, <2>1, <2>2 DEF Standing
  <1>8. Selecting'
    BY <1>1 DEF Selecting
  <1> QED
    BY <1>2, <1>3, <1>4, <1>5, <1>6, <1>7, <1>8 DEF IInv

LEMMA AcceptOK == IInv /\ Accept => IInv'
  <1> SUFFICES ASSUME IInv, Accept PROVE IInv'
    OBVIOUS
  <1>1. at = "select" /\ sel \in Selectors
    BY DEF Accept, IInv, Types
  <1>2. CASE sel.digit > 0
    <2>1. /\ sel' = [sel EXCEPT !.digit = @ - 1]
          /\ UNCHANGED settings /\ UNCHANGED <<at, cursor, vcursor, card, swaps>>
      BY <1>2 DEF Accept
    <2>2. sel' \in Selectors /\ sel'.val = sel.val /\ sel'.max = sel.max
          /\ sel'.field = sel.field
      <3>1. sel.digit - 1 \in 0 .. Digits - 1
        BY <1>1, <1>2, UmsAssumption DEF Selectors
      <3> QED
        BY <1>1, <2>1, <3>1 DEF Selectors
    <2>3. Types'
      BY <2>1, <2>2 DEF settings, IInv, Types
    <2>4. Offered'
      BY <2>1 DEF settings, IInv, Offered
    <2>5. Standing'
      BY <1>1, <2>1, <2>2 DEF settings, IInv, Standing
    <2>6. Selecting'
      BY <1>1, <2>1, <2>2 DEF settings, IInv, Selecting
    <2> QED
      BY <2>1, <2>3, <2>4, <2>5, <2>6, SettingsKept DEF IInv
  <1>3. CASE ~(sel.digit > 0)
    <2> DEFINE b == [cfg[vol] EXCEPT ![sel.field] = sel.val]
               c == SizeUpdate(b)
    <2>1. /\ at' = "volume" /\ Apply(vol, c, seen[vol]) /\ sel' = Idle
          /\ UNCHANGED <<errors, vol, seen, settled, cursor, vcursor, card, swaps>>
      BY <1>3 DEF Accept
    <2>2. /\ vol \in Volumes /\ cfg[vol] \in Cfg
          /\ settled[vol] => /\ cfg[vol].part = 0 \/ cfg[vol].part < seen[vol].n
                            /\ FitsVolume(cfg[vol])
      BY <1>1, VolumeMenuFacts
    <2>3. /\ Mounted(cfg[vol]) /\ cfg[vol].mode = "offset"
          /\ VolumeEntries[vcursor] = sel.field
          /\ settled[vol] => sel.val <= sel.max
          /\ sel.max = IF sel.field = "offset" THEN Sub(cfg[vol].phys, 1)
                       ELSE Sub(cfg[vol].phys, cfg[vol].offset)
      BY <1>1 DEF IInv, Selecting, Standing
    <2>4. sel.field \in {"offset", "size"} /\ sel.val \in Words /\ sel.val \in Nat
      BY <1>1, WordsNat DEF Selectors
    <2>5. /\ b \in Cfg /\ b.phys = cfg[vol].phys /\ b.part = cfg[vol].part
          /\ b.mode = "offset" /\ b.mount = cfg[vol].mount
          /\ b.offset = IF sel.field = "offset" THEN sel.val ELSE cfg[vol].offset
      BY <2>2, <2>3, <2>4 DEF Cfg
    <2>6. settled[vol] => b.offset < b.phys
      <3> SUFFICES ASSUME settled[vol] PROVE b.offset < b.phys
        OBVIOUS
      <3> DEFINE h == cfg[vol].phys
                 o == cfg[vol].offset
      <3>1. o < h /\ h \in Words /\ h \in Nat /\ o \in Nat
        BY <2>2, WordsNat DEF FitsVolume, Cfg
      <3> HIDE DEF h, o, b
      <3>2. Sub(h, 1) = h - 1
        BY <3>1, SubSmall
      <3>3. CASE sel.field = "offset"
        BY <2>3, <2>4, <2>5, <3>1, <3>2, <3>3 DEF h
      <3>4. CASE sel.field # "offset"
        BY <2>5, <3>1, <3>4 DEF h, o
      <3> QED
        BY <3>3, <3>4
    <2> HIDE DEF b
    <2>7. /\ c \in Cfg /\ Same(c, b) /\ c.mode = "offset"
          /\ b.offset < b.phys => FitsVolume(c)
      BY <2>5, SizeUpdateFacts
    <2> HIDE DEF c
    <2>8. c.part = cfg[vol].part /\ c.phys = cfg[vol].phys /\ Mounted(c)
      BY <2>3, <2>5, <2>7 DEF Same, Mounted
    <2>9. sel' \in Selectors
      <3>1. 0 \in Words /\ 0 \in 0 .. Digits - 1
        <4> HIDE DEF Word
        <4> QED BY WordPositive, UmsAssumption DEF Words
      <3> QED
        BY <2>1, <3>1 DEF Idle, Selectors
    <2>10. VolumeEntries[vcursor] \notin Greyed(c, seen[vol])
      BY <2>3, <2>4, <2>7, <2>8, GreyedFacts
    <2>11. settled[vol] => /\ c.part = 0 \/ c.part < seen[vol].n
                           /\ FitsVolume(c)
      BY <2>2, <2>6, <2>7, <2>8
    <2> QED
      BY <1>1, <2>1, <2>7, <2>8, <2>9, <2>10, <2>11, EditOK
  <1> QED
    BY <1>2, <1>3

LEMMA VisitOK ==
  ASSUME IInv, NEW v \in Volumes, NEW readable \in BOOLEAN, Visit(v, readable)
  PROVE  IInv'
  <1> DEFINE t == IF readable THEN Table(Disk(v)) ELSE NoTable
             b == IF readable THEN Loaded(v, Disk(v)) ELSE [cfg[v] EXCEPT !.phys = 0]
             c == ModeUpdate(b, t)
  <1>1. /\ at = "main" /\ MainEntries[cursor] = v /\ v \notin greyed
        /\ readable => Disk(v) # NoCard
        /\ at' = "volume" /\ vol' = v
        /\ cfg' = [cfg EXCEPT ![v] = c] /\ greyed' = VolumeUpdate(cfg', errors)
        /\ vgreyed' = Greyed(c, t)
        /\ seen' = [seen EXCEPT ![v] = t]
        /\ vcursor' = First(VolumeEntries, vgreyed')
        /\ UNCHANGED <<errors, cursor, sel, card, swaps>>
    BY DEF Visit, Apply
  <1>2. settled' = [settled EXCEPT ![v] = /\ @ /\ readable
                       /\ \/ cfg[v].phys = 0
                          \/ cfg[v].phys = Disk(v).sectors /\ seen[v] = t]
    BY DEF Visit
  <1>3. /\ cfg \in [Volumes -> Cfg] /\ settled \in [Volumes -> BOOLEAN] /\ DOMAIN seen = Volumes
        /\ card \in Cards \cup {NoCard}
    BY DEF IInv, Types
  <1>4. /\ b \in Cfg /\ TableOf(t, b.phys)
        /\ b.mount = cfg[v].mount /\ b.mode = cfg[v].mode /\ b.part = cfg[v].part
        /\ b.offset = cfg[v].offset
        /\ readable => b.phys = Disk(v).sectors /\ b.phys > 0
    <2>1. cfg[v] \in Cfg
      BY <1>3
    <2>2. CASE readable
      <3> DEFINE h == Disk(v).sectors
      <3>1. Sane(Disk(v))
        BY <1>1, <1>3, <2>2, DiskFacts
      <3>2. TableOf(t, h) /\ h \in Words /\ h > 0
        BY <2>2, <3>1, TableFacts
      <3>3. b = [cfg[v] EXCEPT !.phys = h, !.size = h]
        BY <2>2 DEF Loaded
      <3> HIDE DEF h, t, b
      <3>4. /\ b \in Cfg /\ b.phys = h /\ b.mount = cfg[v].mount /\ b.mode = cfg[v].mode
            /\ b.part = cfg[v].part /\ b.offset = cfg[v].offset
        BY <2>1, <3>2, <3>3 DEF Cfg
      <3> QED
        BY <2>2, <3>2, <3>4 DEF h
    <2>3. CASE ~readable
      <3>1. t = NoTable /\ b = [cfg[v] EXCEPT !.phys = 0]
        BY <2>3
      <3> HIDE DEF t, b
      <3>2. 0 \in Words
        <4> HIDE DEF Word
        <4> QED BY WordPositive DEF Words
      <3>3. /\ b \in Cfg /\ b.phys = 0 /\ b.mount = cfg[v].mount /\ b.mode = cfg[v].mode
            /\ b.part = cfg[v].part /\ b.offset = cfg[v].offset
        BY <2>1, <3>1, <3>2 DEF Cfg
      <3> QED
        BY <2>3, <3>1, <3>3, NoTableFacts
    <2> QED
      BY <2>2, <2>3
  <1> HIDE DEF t, b
  <1>5. /\ c \in Cfg /\ Same(c, b) /\ c.mode = (IF t.n = 0 THEN "offset" ELSE b.mode)
        /\ c.mode = "part" /\ Mounted(b) =>
              /\ FitsVolume(c)
              /\ b.part < t.n => <<c.offset, c.size>> = Entry(t, b.part)
        /\ b.offset < b.phys => FitsVolume(c)
    BY <1>4, ModeUpdateFacts
  <1> HIDE DEF c
  <1>6. c.part = cfg[v].part /\ c.phys = b.phys /\ (Mounted(c) <=> Mounted(cfg[v]))
        /\ (Mounted(c) <=> Mounted(b))
    BY <1>4, <1>5 DEF Same, Mounted
  <1>7. t.n \in Nat
    BY <1>4, UmsAssumption DEF TableOf
  <1>8. /\ cfg'[v] = c /\ seen'[v] = t
        /\ \A w \in Volumes \ {v} : cfg'[w] = cfg[w] /\ seen'[w] = seen[w] /\ settled'[w] = settled[w]
    BY <1>1, <1>2, <1>3
  <1>9. ASSUME settled'[v]
        PROVE  /\ c.phys > 0 /\ FitsVolume(c) /\ (c.part = 0 \/ c.part < t.n)
               /\ c.mode = "part" /\ Mounted(c) => <<c.offset, c.size>> = Entry(t, c.part)
    <2>1. /\ settled[v] /\ readable
          /\ \/ cfg[v].phys = 0
             \/ cfg[v].phys = Disk(v).sectors /\ seen[v] = t
      BY <1>2, <1>3, <1>9
    <2>2. c.phys > 0 /\ b.phys > 0
      BY <1>4, <1>6, <2>1
    <2>3. Settled
      BY DEF IInv
    <2>4. b.offset < b.phys /\ (c.part = 0 \/ c.part < t.n)
      <3>1. CASE cfg[v].phys = 0
        <4>1. cfg[v].offset = 0 /\ cfg[v].part = 0
          BY <2>1, <2>3, <3>1 DEF Settled
        <4> QED BY <1>4, <1>6, <2>2, <4>1
      <3>2. CASE cfg[v].phys # 0 /\ cfg[v].phys = Disk(v).sectors /\ seen[v] = t
        <4>1. FitsVolume(cfg[v]) /\ (cfg[v].part = 0 \/ cfg[v].part < t.n)
          BY <2>1, <2>3, <3>2 DEF Settled
        <4> QED BY <1>4, <1>6, <2>1, <3>2, <4>1 DEF FitsVolume
      <3> QED
        BY <2>1, <3>1, <3>2
    <2>5. c.mode = "part" => t.n > 0
      BY <1>5, <1>7
    <2>6. c.mode = "part" /\ Mounted(c) => <<c.offset, c.size>> = Entry(t, c.part)
      <3>1. c.part = b.part
        BY <1>5 DEF Same
      <3> SUFFICES ASSUME c.mode = "part", Mounted(c)
                   PROVE  <<c.offset, c.size>> = Entry(t, c.part)
        OBVIOUS
      <3>2. b.part < t.n
        BY <1>7, <2>4, <2>5, <3>1
      <3>3. <<c.offset, c.size>> = Entry(t, b.part)
        BY <1>5, <1>6, <3>2
      <3> QED
        BY <3>1, <3>3
    <2> QED
      BY <1>5, <2>2, <2>4, <2>6
  <1>10. Storage(v) \notin errors
    <2>1. greyed = VolumeUpdate(cfg, errors)
      BY <1>1 DEF IInv, Offered
    <2> QED
      BY <1>1, <2>1, VolumeUpdateFacts
  <1>11. vcursor' \in 1 .. 6 /\ VolumeEntries[vcursor'] \notin vgreyed'
    <2>1. VolumeEntries[6] \notin vgreyed'
      BY <1>1, <1>5, EntriesOf, GreyedFacts
    <2> QED
      BY <1>1, <2>1, EntriesOf, FirstFacts
  <1>12. Types'
    <2>1. cfg' \in [Volumes -> Cfg]
      BY <1>1, <1>3, <1>5
    <2>2. settled' \in [Volumes -> BOOLEAN]
      <3> DEFINE z == /\ settled[v] /\ readable
                      /\ \/ cfg[v].phys = 0
                         \/ cfg[v].phys = Disk(v).sectors /\ seen[v] = t
      <3>1. settled' = [settled EXCEPT ![v] = z]
        BY <1>2
      <3>2. z \in BOOLEAN
        OBVIOUS
      <3> HIDE DEF z
      <3> QED BY <1>3, <3>1, <3>2
    <2>3. DOMAIN seen' = Volumes
      BY <1>1, <1>3
    <2>4. greyed' \subseteq Volumes \cup {"start"}
      BY <1>1 DEF VolumeUpdate
    <2>5. vgreyed' \subseteq {"mode", "part", "offset", "size"}
      BY <1>1 DEF Greyed
    <2> QED
      BY <1>1, <1>11, <2>1, <2>2, <2>3, <2>4, <2>5 DEF IInv, Types
  <1>13. Tables'
    <2>1. Tables
      BY DEF IInv
    <2>2. TableOf(t, c.phys) /\ (c.mode = "part" => t.n > 0)
      BY <1>4, <1>5, <1>6, <1>7
    <2> QED
      BY <1>8, <2>1, <2>2 DEF Tables
  <1>14. Partitions'
    <2>1. Partitions
      BY DEF IInv
    <2>2. c.mode = "part" /\ Mounted(c) => FitsVolume(c)
      BY <1>5, <1>6
    <2> QED
      BY <1>8, <2>1, <2>2 DEF Partitions
  <1>15. Settled'
    <2>1. Settled
      BY DEF IInv
    <2>2. settled'[v] => c.phys # 0
      BY <1>9
    <2> QED
      BY <1>8, <1>9, <2>1, <2>2 DEF Settled
  <1>16. Offered'
    <2>1. \A w \in Volumes : Mounted(cfg'[w]) => Storage(w) \notin errors'
      <3>1. \A w \in Volumes : Mounted(cfg[w]) => Storage(w) \notin errors
        BY DEF IInv, Offered
      <3> QED
        BY <1>1, <1>8, <1>10, <3>1
    <2> QED
      BY <1>1, <1>8, <1>10, <2>1 DEF Offered
  <1>17. Standing'
    BY <1>1, <1>11 DEF Standing
  <1>18. Selecting'
    BY <1>1, <1>8, <1>9 DEF Selecting
  <1> QED
    BY <1>12, <1>13, <1>14, <1>15, <1>16, <1>17, <1>18 DEF IInv

-----------------------------------------------------------------------------
(* The theorems.                                                           *)

LEMMA StepOK == IInv /\ [Next]_vars => IInv'
  <1> SUFFICES ASSUME IInv, [Next]_vars PROVE IInv'
    OBVIOUS
  <1>1. CASE Swap
    BY <1>1, SwapOK
  <1>2. CASE Open
    BY <1>2, OpenOK
  <1>3. CASE Reload
    BY <1>3, ReloadOK
  <1>4. CASE Navigate
    BY <1>4, NavigateOK
  <1>5. CASE Leave \/ Start \/ SessionEnds
    BY <1>5, MainMenuOK
  <1>6. ASSUME NEW v \in Volumes, NEW readable \in BOOLEAN, Visit(v, readable)
        PROVE  IInv'
    BY <1>6, VisitOK
  <1>7. CASE CycleMount
    BY <1>7, CycleMountOK
  <1>8. CASE ToggleMode
    BY <1>8, ToggleModeOK
  <1>9. CASE NextPart
    BY <1>9, NextPartOK
  <1>10. CASE LeaveVolume
    BY <1>10, LeaveVolumeOK
  <1>11. ASSUME NEW f \in {"offset", "size"}, Select(f)
         PROVE  IInv'
    BY <1>11, SelectOK
  <1>12. CASE Turn
    BY <1>12, TurnOK
  <1>13. CASE Accept
    BY <1>13, AcceptOK
  <1>14. CASE UNCHANGED vars
    <2>1. UNCHANGED settings /\ UNCHANGED <<at, cursor, vcursor, sel, card, swaps>>
      BY <1>14 DEF vars
    <2>2. Types'
      BY <2>1 DEF settings, IInv, Types
    <2>3. Offered'
      BY <2>1 DEF settings, IInv, Offered
    <2>4. Standing' /\ Selecting'
      BY <2>1 DEF settings, IInv, Standing, Selecting
    <2> QED
      BY <2>1, <2>2, <2>3, <2>4, SettingsKept DEF IInv
  <1> QED
    BY <1>1, <1>2, <1>3, <1>4, <1>5, <1>6, <1>7, <1>8, <1>9, <1>10, <1>11, <1>12,
       <1>13, <1>14 DEF Next

\* The invariant the theorems below are read off.
THEOREM MenuInvariant == Spec => []IInv
  BY InitOK, StepOK, PTL DEF Spec

\* Every field keeps its range: an offset, a size and the number in the selector
\* are words, and a partition is one of those part_table_t has room for.
THEOREM TypesHold == Spec => []TypeOK
  <1>1. IInv => TypeOK
    <2> SUFFICES ASSUME IInv PROVE TypeOK
      OBVIOUS
    <2>1. DOMAIN MainEntries = 1 .. 7 /\ DOMAIN VolumeEntries = 1 .. 6
      BY EntriesOf
    <2> QED
      BY <2>1 DEF IInv, Types, Cfg, Selectors, TypeOK
  <1> QED
    BY <1>1, MenuInvariant, PTL

\* The part of a volume the host would be given lies inside the volume.
THEOREM ExportFitsHolds == Spec => []ExportFits
  <1>1. IInv => ExportFits
    <2> SUFFICES ASSUME IInv, NEW v \in Volumes,
                        settled[v] \/ (cfg[v].mode = "part" /\ Mounted(cfg[v]))
                 PROVE  /\ cfg[v].offset + cfg[v].size <= cfg[v].phys
                        /\ cfg[v].phys > 0 => cfg[v].size > 0
      BY DEF ExportFits
    <2> DEFINE c == cfg[v]
    <2>1. c \in Cfg
      BY DEF IInv, Types
    <2>2. FitsVolume(c) \/ (c.phys = 0 /\ c.offset = 0 /\ c.size = 0)
      BY DEF IInv, Settled, Partitions
    <2> HIDE DEF c
    <2>3. c.size \in Nat /\ c.offset \in Nat /\ c.phys \in Nat
      BY <2>1, WordsNat DEF Cfg
    <2>4. c.offset + c.size <= c.phys /\ (c.phys > 0 => c.size > 0)
      BY <2>2, <2>3 DEF FitsVolume
    <2> QED
      BY <2>4 DEF c
  <1> QED
    BY <1>1, MenuInvariant, PTL

\* A volume given by partition is the partition of that number.
THEOREM PartExportedHolds == Spec => []PartExported
  <1>1. IInv => PartExported
    <2> SUFFICES ASSUME IInv, NEW v \in Volumes,
                        cfg[v].mode = "part", Mounted(cfg[v]), settled[v]
                 PROVE  /\ cfg[v].part < seen[v].n
                        /\ <<cfg[v].offset, cfg[v].size>> = seen[v].parts[cfg[v].part + 1]
      BY DEF PartExported
    <2> DEFINE c == cfg[v]
               t == seen[v]
    <2>1. c \in Cfg
      BY DEF IInv, Types
    <2>2. TableOf(t, c.phys) /\ t.n > 0
      BY DEF IInv, Tables
    <2>3. c.part = 0 \/ c.part < t.n
      BY DEF IInv, Settled
    <2>4. <<c.offset, c.size>> = Entry(t, c.part)
      BY DEF IInv, Settled
    <2> HIDE DEF c, t
    <2>5. c.part < t.n
      BY <2>2, <2>3
    <2>6. c.phys \in Nat /\ c.part \in Nat
      BY <2>1, WordsNat, UmsAssumption DEF Cfg
    <2>7. Entry(t, c.part) = t.parts[c.part + 1]
      BY <2>2, <2>5, <2>6, EntryFacts
    <2> QED
      BY <2>4, <2>5, <2>7 DEF c, t
  <1> QED
    BY <1>1, MenuInvariant, PTL

\* config_part_cb divides by n_parts only when it is not zero.
THEOREM PartsToStepHolds == Spec => []PartsToStep
  <1>1. IInv => PartsToStep
    <2> SUFFICES ASSUME IInv, at = "volume", "part" \notin vgreyed PROVE seen[vol].n > 0
      BY DEF PartsToStep
    <2>1. /\ vol \in Volumes /\ cfg[vol] \in Cfg /\ vgreyed = Greyed(cfg[vol], seen[vol])
          /\ cfg[vol].mode = "part" => seen[vol].n > 0
      BY VolumeMenuFacts
    <2> QED
      BY <2>1, GreyedFacts
  <1> QED
    BY <1>1, MenuInvariant, PTL

\* Start is offered exactly when a session has a volume.
THEOREM StartHasVolumeHolds == Spec => []StartHasVolume
  <1>1. IInv => StartHasVolume
    <2> SUFFICES ASSUME IInv, at # "left"
                 PROVE  "start" \notin greyed <=> Exported # {}
      BY DEF StartHasVolume
    <2>1. /\ greyed = VolumeUpdate(cfg, errors)
          /\ \A v \in Volumes : Mounted(cfg[v]) => Storage(v) \notin errors
      BY DEF IInv, Offered
    <2>2. "start" \notin greyed <=> \E v \in Volumes : Mounted(cfg[v])
      BY <2>1, VolumeUpdateFacts
    <2> QED
      BY <2>1, <2>2 DEF Exported
  <1> QED
    BY <1>1, MenuInvariant, PTL

\* The number selector stays at or below its maximum and does not hang.
THEOREM SelectorBoundedHolds == Spec => []SelectorBounded
  <1>1. IInv => SelectorBounded
    BY DEF IInv, Selecting, SelectorBounded
  <1> QED
    BY <1>1, MenuInvariant, PTL

\* The menus stand on an entry that is enabled.
THEOREM CursorLiveHolds == Spec => []CursorLive
  <1>1. IInv => CursorLive
    BY DEF IInv, Standing, CursorLive
  <1> QED
    BY <1>1, MenuInvariant, PTL

=============================================================================
