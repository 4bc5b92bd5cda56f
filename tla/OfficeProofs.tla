---------------------------- MODULE OfficeProofs ----------------------------
(***************************************************************************)
(* Why the office's parts keep their promises, whatever the constants.     *)
(*                                                                         *)
(* Printed codes: one changed character moves the weighted sum by a        *)
(* product of two numbers smaller than a prime, and an exchange of two     *)
(* characters by another such product; what is typed keeps twelve marks in *)
(* order, whatever is put between them.                                    *)
(*                                                                         *)
(* Checkout keys: while a request works, the key's row is unfinished, its  *)
(* lease is running and it has not expired, so no insert, takeover or      *)
(* revival can make a second owner; only the owner's own last statement    *)
(* finishes or drops the row.  Until something goes wrong the claim also   *)
(* remembers the order.                                                    *)
(*                                                                         *)
(* Sessions: a cache entry is written in the moment its row was read, so   *)
(* whoever kills the token between the two leaves an entry dated to its    *)
(* death; refund requests: the index and the row's status carry the        *)
(* decision; accounts: what a request holds between two statements is      *)
(* still what the tables say; recurring jobs: a row stays open until its   *)
(* turn, and an attempt's deadlines end before the sweep's patience; the   *)
(* ledger: what it has of an order is spelled out, and adds up; the till   *)
(* is BasketsProofs.                                                       *)
(*                                                                         *)
(* Every part gets an invariant, shown by one lemma a handler; the last    *)
(* section puts the parts together.                                        *)
(***************************************************************************)
EXTENDS Office, TLAPS, FiniteSetTheorems

-----------------------------------------------------------------------------
(* Printed codes.                                                          *)

Words == [1..12 -> Alphabet]

LEMMA WeightedInt == ASSUME NEW c \in [1..12 -> Int] PROVE Weighted(c) \in Int
  BY DEF Weighted

LEMMA OneChange ==
  ASSUME NEW c \in [1..12 -> Int], NEW i \in 1..11, NEW v \in Int
  PROVE  Weighted([c EXCEPT ![i] = v]) = Weighted(c) + i * (v - c[i])
  BY DEF Weighted

LEMMA LastChange ==
  ASSUME NEW c \in [1..12 -> Int], NEW v \in Int
  PROVE  Weighted([c EXCEPT ![12] = v]) = Weighted(c)
  BY DEF Weighted

LEMMA Exchange ==
  ASSUME NEW c \in [1..12 -> Int], NEW i \in 1..11, NEW j \in 1..11, i # j
  PROVE  Weighted([c EXCEPT ![i] = c[j], ![j] = c[i]]) = Weighted(c) + (i - j) * (c[j] - c[i])
<1> DEFINE e == [c EXCEPT ![i] = c[j]]
<1>1. e \in [1..12 -> Int] /\ c[i] \in Int /\ c[j] \in Int /\ e[j] = c[j]
  OBVIOUS
<1>2. Weighted(e) = Weighted(c) + i * (c[j] - c[i])
  BY OneChange, <1>1
<1>3. Weighted([e EXCEPT ![j] = c[i]]) = Weighted(e) + j * (c[i] - c[j])
  BY OneChange, <1>1
<1>4. ASSUME NEW w \in Int, NEW a \in Int, NEW b \in Int
      PROVE  (w + i * (b - a)) + j * (a - b) = w + (i - j) * (b - a)
  OBVIOUS
<1>5. [c EXCEPT ![i] = c[j], ![j] = c[i]] = [e EXCEPT ![j] = c[i]]
  OBVIOUS
<1> QED BY <1>1, <1>2, <1>3, <1>4, <1>5, WeightedInt

(* Thirty-one is prime, said without naming primes.                        *)
LEMMA NoZeroDivisors ==
  ASSUME NEW k \in -12..12, k # 0, NEW x \in -30..30, x # 0, NEW w \in Int
  PROVE  (w + k * x) % 31 # w % 31
  BY SMTT(60)

LEMMA Shape ==
  ASSUME NEW c \in Words
  PROVE  /\ c \in [1..12 -> Int] /\ Weighted(c) \in Int
         /\ \A i \in 1..12 : c[i] \in 0..30
         /\ Verified(c) => c[12] = Weighted(c) % 31
<1>1. Alphabet = 0..30 /\ AlphabetSize = 31 /\ DataLength + 1 = 12
  BY DEF Alphabet, AlphabetSize, DataLength
<1>2. c \in [1..12 -> 0..30]
  BY <1>1 DEF Words
<1>3. c \in [1..12 -> Int]
  BY <1>2
<1>4. Verified(c) => c[12] = Weighted(c) % 31
  BY <1>1 DEF Verified, CheckCharacter
<1> QED BY <1>2, <1>3, <1>4, WeightedInt

LEMMA Carry ==
  ASSUME NEW w \in Int, NEW x \in Int, (w % 31) + x \in 0..30
  PROVE  (w + x) % 31 = (w % 31) + x
  OBVIOUS

(* A valid code with one character replaced by another is never valid,     *)
(* whichever of the twelve it is.                                          *)
THEOREM SubstitutionRefused ==
  ASSUME NEW c \in Words, Verified(c), NEW i \in 1..12, NEW v \in Alphabet, v # c[i]
  PROVE  ~Verified([c EXCEPT ![i] = v])
<1> DEFINE e == [c EXCEPT ![i] = v]
<1>1. e \in Words /\ v \in Int /\ v \in 0..30
  BY DEF Words, Alphabet, AlphabetSize
<1>2. SUFFICES ASSUME Verified(e) PROVE FALSE
  OBVIOUS
<1>3. e[12] = Weighted(e) % 31 /\ c[12] = Weighted(c) % 31
  BY <1>1, <1>2, Shape
<1>4. CASE i = 12
  <2>1. Weighted(e) = Weighted(c)
    BY <1>1, <1>4, LastChange, Shape
  <2>2. e[12] = v
    BY <1>4 DEF Words
  <2> QED BY <1>3, <1>4, <2>1, <2>2
<1>5. CASE i \in 1..11
  <2>1. Weighted(e) = Weighted(c) + i * (v - c[i])
    BY <1>1, <1>5, OneChange, Shape
  <2>2. v - c[i] \in -30..30 /\ v - c[i] # 0 /\ Weighted(c) \in Int
    <3>1. c[i] \in 0..30 /\ Weighted(c) \in Int
      BY Shape
    <3> QED BY <1>1, <3>1
  <2>3. i \in -12..12 /\ i # 0
    BY <1>5
  <2>4. e[12] = c[12]
    BY <1>5 DEF Words
  <2>5. (Weighted(c) + i * (v - c[i])) % 31 # Weighted(c) % 31
    BY <2>2, <2>3, NoZeroDivisors
  <2> QED BY <1>3, <2>1, <2>4, <2>5
<1> QED BY <1>4, <1>5

(* Two different characters exchanged, adjacent or not.                    *)
LEMMA ExchangeRefused ==
  ASSUME NEW c \in Words, Verified(c), NEW i \in 1..11, NEW j \in 1..12, i < j, c[i] # c[j]
  PROVE  ~Verified([c EXCEPT ![i] = c[j], ![j] = c[i]])
<1> DEFINE e == [c EXCEPT ![i] = c[j], ![j] = c[i]]
<1> DEFINE x == c[j] - c[i]
<1>1. e \in Words
  BY DEF Words
<1>2. SUFFICES ASSUME Verified(e) PROVE FALSE
  OBVIOUS
<1>3. /\ e[12] = Weighted(e) % 31 /\ c[12] = Weighted(c) % 31
      /\ x \in -30..30 /\ x # 0 /\ Weighted(c) \in Int /\ Weighted(e) \in Int
      /\ c[i] \in 0..30 /\ c[j] \in 0..30
  BY <1>1, <1>2, Shape, SMTT(60)
<1>4. CASE j = 12
  <2>1. e[12] = c[i] /\ c[j] = c[12]
    BY <1>4 DEF Words
  <2>2. Weighted(e) = Weighted(c) + i * x
    <3> DEFINE f == [c EXCEPT ![i] = c[j]]
    <3>1. f \in [1..12 -> Int] /\ c \in [1..12 -> Int] /\ c[j] \in Int /\ c[i] \in Int
      BY Shape
    <3>2. Weighted(f) = Weighted(c) + i * x
      BY <3>1, OneChange
    <3>3. e = [f EXCEPT ![12] = c[i]]
      BY <1>4
    <3> QED BY <3>1, <3>2, <3>3, LastChange
  <2>3. i + 1 \in -12..12 /\ i + 1 # 0
    OBVIOUS
  <2>4. (Weighted(c) + (i + 1) * x) % 31 # Weighted(c) % 31
    BY <1>3, <2>3, NoZeroDivisors, ZenonT(60)
  <2>5. Weighted(c) + (i + 1) * x = Weighted(e) + x
    <3>1. ASSUME NEW w \in Int, NEW y \in Int PROVE w + (i + 1) * y = (w + i * y) + y
      OBVIOUS
    <3> QED BY <1>3, <2>2, <3>1
  <2>6. (Weighted(e) % 31) + x = Weighted(c) % 31
    BY <1>3, <2>1
  <2> HIDE DEF x
  <2>7. (Weighted(e) + x) % 31 = Weighted(c) % 31
    BY <1>3, <2>1, <2>6, Carry
  <2> QED BY <2>4, <2>5, <2>7
<1>5. CASE j \in 1..11
  <2>1. Weighted(e) = Weighted(c) + (i - j) * x
    BY <1>5, Exchange, Shape, ZenonT(60)
  <2>2. i - j \in -12..12 /\ i - j # 0
    BY <1>5
  <2>3. e[12] = c[12]
    BY <1>5, SMTT(60) DEF Words
  <2>4. (Weighted(c) + (i - j) * x) % 31 # Weighted(c) % 31
    BY <1>3, <2>2, NoZeroDivisors, ZenonT(60)
  <2> QED BY <1>3, <2>1, <2>3, <2>4, SMTT(60)
<1> QED BY <1>4, <1>5

(* The same, whichever of the two comes first and the check character      *)
(* included.                                                               *)
THEOREM TranspositionRefused ==
  ASSUME NEW c \in Words, Verified(c), NEW i \in 1..12, NEW j \in 1..12, c[i] # c[j]
  PROVE  ~Verified([c EXCEPT ![i] = c[j], ![j] = c[i]])
<1>1. CASE i < j
  <2>1. i \in 1..11
    BY <1>1
  <2> QED BY <1>1, <2>1, ExchangeRefused
<1>2. CASE j < i
  <2>1. [c EXCEPT ![i] = c[j], ![j] = c[i]] = [c EXCEPT ![j] = c[i], ![i] = c[j]]
    BY <1>2 DEF Words
  <2>2. j \in 1..11 /\ c[j] # c[i]
    BY <1>2
  <2>3. ~Verified([c EXCEPT ![j] = c[i], ![i] = c[j]])
    BY <1>2, <2>2, ExchangeRefused
  <2> QED BY <2>1, <2>3
<1>3. i \in 1..12 /\ j \in 1..12 /\ i # j
  OBVIOUS
<1> QED BY <1>1, <1>2, <1>3

(* What stands on a slip of paper: the places of twelve marks in the order *)
(* they are read, and what each is taken for.                              *)
Shown == Alphabet \cup {Foreign}
Typed == Shown \cup {Separator} \cup DOMAIN LookAlike
Placed12(raw, pos) ==
    /\ \A k \in 1..12 : pos[k] \in Int /\ 1 <= pos[k] /\ pos[k] <= Len(raw)
    /\ \A a, b \in 1..12 : a < b => pos[a] < pos[b]
MarkedBy(raw, pos) ==
    /\ \A k \in 1..12 : pos[k] \in Marks(raw)
    /\ \A p \in Marks(raw) : \E k \in 1..12 : p = pos[k]
ReadAs(raw, pos, word) ==
    /\ raw \in Seq(Typed) /\ word \in [1..12 -> Shown]
    /\ Placed12(raw, pos) /\ MarkedBy(raw, pos)
    /\ \A k \in 1..12 : Meant(raw[pos[k]]) = word[k]

LEMMA MarksIs ==
  ASSUME NEW raw, raw \in Seq(Typed)
  PROVE  /\ Len(raw) \in Nat
         /\ \A p : p \in Marks(raw) <=> (p \in Int /\ 1 <= p /\ p <= Len(raw) /\ raw[p] # Separator)
  <1>1. DOMAIN raw = 1..Len(raw) /\ Len(raw) \in Nat
    OBVIOUS
  <1>2. \A p : p \in 1..Len(raw) <=> (p \in Int /\ 1 <= p /\ p <= Len(raw))
    BY <1>1
  <1> QED
    BY <1>1, <1>2 DEF Marks

LEMMA Ordered ==
  ASSUME NEW raw, NEW pos, Placed12(raw, pos), NEW a \in 1..12, NEW b \in 1..12
  PROVE  /\ pos[a] \in Int /\ pos[b] \in Int
         /\ pos[a] <= pos[b] <=> a <= b
         /\ pos[a] = pos[b] <=> a = b
  <1>1. pos[a] \in Int /\ pos[b] \in Int /\ (a < b => pos[a] < pos[b]) /\ (b < a => pos[b] < pos[a])
    BY DEF Placed12
  <1>2. a < b \/ a = b \/ b < a
    OBVIOUS
  <1> QED
    BY <1>1, <1>2

First(pos, n) == {pos[k] : k \in 1..n}

(* Marks are counted as they stand, so the nth is where the nth stands.    *)
LEMMA CountTo ==
  ASSUME NEW raw, NEW pos, Placed12(raw, pos), NEW n \in 0..12
  PROVE  Cardinality(First(pos, n)) = n
  <1>1. PICK T : T = First(pos, n)
    OBVIOUS
  <1>2. PICK f : f = [k \in 1..n |-> pos[k]]
    OBVIOUS
  <1>3. f \in [1..n -> T] /\ \A t \in T : \E k \in 1..n : f[k] = t
    BY <1>1, <1>2 DEF First
  <1>4. \A a, b \in 1..n : f[a] = f[b] => a = b
    <2>1. \A a, b \in 1..12 : pos[a] = pos[b] => a = b
      BY Ordered
    <2>2. \A a \in 1..n : a \in 1..12 /\ f[a] = pos[a]
      BY <1>2
    <2> QED
      BY <2>1, <2>2
  <1>5. f \in Bijection(1..n, T)
    BY <1>3, <1>4 DEF Bijection, Injection, Surjection, IsInjective
  <1>6. ExistsBijection(1..n, T) /\ n \in Nat
    BY <1>5 DEF ExistsBijection
  <1> QED
    BY <1>1, <1>6, FS_CountingElements

LEMMA NthStands ==
  ASSUME NEW raw, NEW pos, Placed12(raw, pos), MarkedBy(raw, pos), NEW n \in 1..12
  PROVE  NthMark(raw, n) = pos[n]
  <1>1. ASSUME NEW k \in 1..12
        PROVE  Cardinality(MarksUpTo(raw, pos[k])) = k
    <2>1. \A a \in 1..12 : pos[a] <= pos[k] <=> a <= k
      BY Ordered
    <2>2. k \in 0..12 /\ \A a \in 1..12 : a <= k <=> a \in 1..k
      OBVIOUS
    <2>3. \A a \in 1..k : a \in 1..12
      OBVIOUS
    <2>4. MarksUpTo(raw, pos[k]) = First(pos, k)
      BY <2>1, <2>2, <2>3 DEF MarkedBy, MarksUpTo, First
    <2> QED
      BY <2>2, <2>4, CountTo
  <1>2. ASSUME NEW p \in Marks(raw), Cardinality(MarksUpTo(raw, p)) = n PROVE p = pos[n]
    <2>1. PICK k \in 1..12 : p = pos[k]
      BY DEF MarkedBy
    <2> QED
      BY <1>1, <1>2, <2>1
  <1>3. pos[n] \in Marks(raw) /\ Cardinality(MarksUpTo(raw, pos[n])) = n
    BY <1>1 DEF MarkedBy
  <1> QED
    BY <1>2, <1>3 DEF NthMark

LEMMA ReadingIs ==
  ASSUME NEW raw, NEW pos, NEW word, ReadAs(raw, pos, word)
  PROVE  Characters(raw) = word
  <1>1. Marks(raw) = First(pos, 12)
    BY DEF ReadAs, MarkedBy, First
  <1>2. Cardinality(Marks(raw)) = 12
    BY <1>1, CountTo DEF ReadAs
  <1>3. \A n \in 1..12 : Meant(raw[NthMark(raw, n)]) = word[n]
    BY NthStands DEF ReadAs
  <1>4. Characters(raw) = [n \in 1..12 |-> word[n]]
    BY <1>2, <1>3 DEF Characters
  <1> QED
    BY <1>4 DEF ReadAs

(* How far the word read is from the code on the ticket.                   *)
Slipped(word) ==
    /\ slip \in {"none", "substituted", "swapped"}
    /\ slip = "none" => word = code
    /\ slip = "substituted" =>
          \E i \in 1..12, v \in Shown : v # code[i] /\ word = [code EXCEPT ![i] = v]
    /\ slip = "swapped" =>
          \E i, j \in 1..12 : code[i] # code[j] /\ word = [code EXCEPT ![i] = code[j], ![j] = code[i]]
CodeInv ==
    /\ code \in Words /\ Verified(code)
    /\ \E pos, word : ReadAs(typed, pos, word) /\ Slipped(word)

(* Two sequences, one behind the other.                                    *)
Behind(a, b, c) ==
    /\ Len(c) = Len(a) + Len(b)
    /\ \A p \in 1..Len(a) : c[p] = a[p]
    /\ \A p \in 1..Len(b) : c[Len(a) + p] = b[p]
LEMMA Joins ==
  ASSUME NEW S, NEW a \in Seq(S), NEW b \in Seq(S)
  PROVE  a \o b \in Seq(S) /\ Behind(a, b, a \o b)
  BY DEF Behind
LEMMA OneMore ==
  ASSUME NEW S, NEW a \in Seq(S), NEW e \in S
  PROVE  Append(a, e) \in Seq(S) /\ Behind(a, <<e>>, Append(a, e))
  BY DEF Behind
LEMMA SeqIs ==
  ASSUME NEW S, NEW a \in Seq(S)
  PROVE  a \in [1..Len(a) -> S]
  OBVIOUS
LEMMA WeightedOf ==
  ASSUME NEW d \in [1..11 -> Int]
  PROVE  Weighted(d) \in Int
  BY DEF Weighted

LEMMA NewCodeIs ==
  ASSUME NEW d \in Data, NEW c, c = NewCode(d)
  PROVE  c \in Words /\ Verified(c) /\ c \in Seq(Alphabet) /\ Len(c) = 12
  <1>1. Alphabet = 0..30 /\ AlphabetSize = 31 /\ DataLength = 11
    BY DEF Alphabet, AlphabetSize, DataLength
  <1>2. d \in [1..11 -> 0..30]
    BY <1>1 DEF Data
  <1>3. PICK check : check = CheckCharacter(d)
    OBVIOUS
  <1>4. check \in 0..30
    <2>1. Weighted(d) \in Int
      <3>1. d \in [1..11 -> Int]
        BY <1>2
      <3> QED
        BY <3>1, WeightedOf
    <2>2. check = Weighted(d) % 31
      BY <1>1, <1>3 DEF CheckCharacter
    <2> QED
      BY <2>1, <2>2
  <1>5. PICK s : s = [i \in 1..11 |-> d[i]]
    OBVIOUS
  <1>6. s \in Seq(0..30) /\ Len(s) = 11 /\ \A i \in 1..11 : s[i] = d[i]
    BY <1>2, <1>5
  <1>7. c = Append(s, check)
    BY <1>1, <1>3, <1>5 DEF NewCode
  <1>8. c \in Seq(0..30) /\ Len(c) = 12 /\ c[12] = check /\ \A i \in 1..11 : c[i] = s[i]
    <2>1. c \in Seq(0..30) /\ Behind(s, <<check>>, c)
      BY <1>4, <1>6, <1>7, OneMore
    <2>2. Len(<<check>>) = 1 /\ <<check>>[1] = check
      OBVIOUS
    <2> QED
      BY <1>6, <2>1, <2>2 DEF Behind
  <1>9. c[12] = check /\ \A i \in 1..11 : c[i] = s[i]
    BY <1>8
  <1>10. c \in [1..12 -> 0..30]
    <2>1. c \in [1..Len(c) -> 0..30]
      BY <1>8, SeqIs
    <2> QED
      BY <1>8, <2>1
  <1>11. \A i \in 1..11 : c[i] = d[i]
    BY <1>6, <1>9
  <1>12. Weighted(c) = Weighted(d)
    BY <1>11 DEF Weighted
  <1>13. Verified(c)
    BY <1>1, <1>3, <1>8, <1>9, <1>10, <1>12 DEF Verified, CheckCharacter
  <1> QED
    BY <1>1, <1>8, <1>10, <1>13 DEF Words

LEMMA CodeStarts == CodeInit => CodeInv
  <1> SUFFICES ASSUME CodeInit PROVE CodeInv
    OBVIOUS
  <1>1. PICK d \in Drawn : code = NewCode(d)
    BY DEF CodeInit
  <1>2. code \in Words /\ Verified(code) /\ code \in Seq(Alphabet) /\ Len(code) = 12
    BY <1>1, NewCodeIs, CodeAssumption
  <1>3. \A k \in 1..12 : code[k] \in Alphabet /\ code[k] # Separator /\ Meant(code[k]) = code[k]
    BY <1>2, CodeAssumption DEF Words, Meant
  <1>4. PICK pos : pos = [k \in 1..12 |-> k]
    OBVIOUS
  <1>5. code \in Seq(Typed) /\ code \in [1..12 -> Shown]
    BY <1>2 DEF Typed, Shown, Words
  <1>6. Placed12(code, pos)
    BY <1>2, <1>4 DEF Placed12
  <1>7. MarkedBy(code, pos)
    <2>1. \A p : p \in Marks(code) <=> p \in 1..12
      <3> TAKE p
      <3>1. p \in Marks(code) <=> (p \in Int /\ 1 <= p /\ p <= Len(code) /\ code[p] # Separator)
        BY <1>5, MarksIs
      <3>2. p \in 1..12 <=> (p \in Int /\ 1 <= p /\ p <= 12)
        OBVIOUS
      <3>3. p \in 1..12 => code[p] # Separator
        BY <1>3
      <3>4. Len(code) = 12
        BY <1>2
      <3> QED
        BY ONLY <3>1, <3>2, <3>3, <3>4
    <2> QED
      BY <1>4, <2>1 DEF MarkedBy
  <1>8. ReadAs(code, pos, code)
    BY <1>3, <1>4, <1>5, <1>6, <1>7 DEF ReadAs
  <1>9. Slipped(code) /\ typed = code
    BY SMTT(30) DEF CodeInit, Slipped
  <1> QED
    BY <1>2, <1>8, <1>9 DEF CodeInv

(* A separator moves what stands behind it by one.                         *)
Opened(raw, i, next) ==
    /\ next \in Seq(Typed) /\ Len(next) = Len(raw) + 1 /\ next[i + 1] = Separator
    /\ \A p \in 1..i : next[p] = raw[p]
    /\ \A p \in (i + 1)..Len(raw) : next[p + 1] = raw[p]
LEMMA Opens ==
  ASSUME NEW raw \in Seq(Typed), NEW i \in 0..Len(raw),
         NEW next, next = SubSeq(raw, 1, i) \o <<Separator>> \o SubSeq(raw, i + 1, Len(raw))
  PROVE  Opened(raw, i, next)
  <1>1. Separator \in Typed /\ Len(raw) \in Nat /\ i \in Nat /\ i <= Len(raw)
    BY DEF Typed
  <1>2. PICK front : front = SubSeq(raw, 1, i)
    OBVIOUS
  <1>3. PICK back : back = SubSeq(raw, i + 1, Len(raw))
    OBVIOUS
  <1>4. front \in Seq(Typed) /\ Len(front) = i /\ \A p \in 1..i : front[p] = raw[p]
    BY <1>1, <1>2
  <1>5. /\ back \in Seq(Typed) /\ Len(back) = Len(raw) - i
        /\ \A p \in 1..(Len(raw) - i) : back[p] = raw[i + p]
    BY <1>1, <1>3
  <1>6. PICK mid : mid = front \o <<Separator>>
    OBVIOUS
  <1>7. PICK sep : sep = <<Separator>>
    OBVIOUS
  <1>8. sep \in Seq(Typed) /\ Len(sep) = 1 /\ sep[1] = Separator
    BY <1>1, <1>7
  <1>9. /\ mid \in Seq(Typed) /\ Len(mid) = i + 1 /\ mid[i + 1] = Separator
        /\ \A p \in 1..i : mid[p] = raw[p]
    <2>1. mid \in Seq(Typed) /\ Behind(front, sep, mid)
      BY <1>4, <1>6, <1>7, <1>8, Joins
    <2> QED
      BY <1>1, <1>4, <1>8, <2>1 DEF Behind
  <1>10. next = mid \o back
    BY <1>2, <1>3, <1>6
  <1>11. /\ next \in Seq(Typed) /\ Len(next) = Len(mid) + Len(back)
         /\ \A p \in 1..Len(mid) : next[p] = mid[p]
         /\ \A p \in 1..Len(back) : next[Len(mid) + p] = back[p]
    <2>1. next \in Seq(Typed) /\ Behind(mid, back, next)
      BY <1>5, <1>9, <1>10, Joins
    <2> QED
      BY <2>1 DEF Behind
  <1>12. Len(next) = Len(raw) + 1
    <2>1. PICK length \in Int : length = Len(raw)
      BY <1>1
    <2>2. Len(next) = (i + 1) + (length - i)
      BY <1>5, <1>9, <1>11, <2>1
    <2>3. (i + 1) + (length - i) = length + 1
      BY <1>1
    <2> QED
      BY <2>1, <2>2, <2>3
  <1>13. next[i + 1] = Separator /\ \A p \in 1..i : next[p] = raw[p]
    <2>1. i + 1 \in 1..Len(mid) /\ \A p \in 1..i : p \in 1..Len(mid)
      BY <1>1, <1>9
    <2> QED
      BY <1>9, <1>11, <2>1
  <1>14. ASSUME NEW p \in (i + 1)..Len(raw) PROVE next[p + 1] = raw[p]
    <2>1. PICK q \in Int : q = p - i
      BY <1>1
    <2>2. q \in 1..(Len(raw) - i) /\ i + q = p /\ Len(mid) + q = p + 1 /\ q \in 1..Len(back)
      BY <1>1, <1>5, <1>9, <2>1
    <2>3. next[Len(mid) + q] = back[q] /\ back[q] = raw[i + q]
      BY <1>5, <1>11, <2>2
    <2> QED
      BY <2>2, <2>3
  <1> QED
    BY <1>11, <1>12, <1>13, <1>14 DEF Opened

LEMMA SeparateKept ==
  ASSUME NEW raw, NEW pos, NEW word, ReadAs(raw, pos, word), NEW i \in 0..Len(raw),
         NEW next, Opened(raw, i, next)
  PROVE  \E after : ReadAs(next, after, word)
  <1>1. PICK after : after = [k \in 1..12 |-> IF pos[k] <= i THEN pos[k] ELSE pos[k] + 1]
    OBVIOUS
  <1>2. /\ raw \in Seq(Typed) /\ Len(raw) \in Nat /\ i \in Int /\ 0 <= i /\ i <= Len(raw)
        /\ next \in Seq(Typed) /\ Len(next) = Len(raw) + 1
    BY DEF ReadAs, Opened
  <1>3. \A k \in 1..12 : pos[k] \in Int /\ 1 <= pos[k] /\ pos[k] <= Len(raw)
    BY DEF ReadAs, Placed12
  <1>4. /\ \A k \in 1..12 : pos[k] <= i => after[k] = pos[k]
        /\ \A k \in 1..12 : ~(pos[k] <= i) => after[k] = pos[k] + 1
    BY <1>1
  <1>5. \A k \in 1..12 : next[after[k]] = raw[pos[k]]
    <2> TAKE k \in 1..12
    <2>1. PICK x \in Int : x = pos[k] /\ 1 <= x /\ x <= Len(raw)
      BY <1>3
    <2>2. CASE x <= i
      <3>1. x \in 1..i
        BY <1>2, <2>1, <2>2
      <3>2. after[k] = x /\ next[x] = raw[x]
        BY <1>4, <2>1, <2>2, <3>1 DEF Opened
      <3> QED
        BY <2>1, <3>2
    <2>3. CASE ~(x <= i)
      <3>1. x \in (i + 1)..Len(raw)
        BY <1>2, <2>1, <2>3
      <3>2. after[k] = x + 1 /\ next[x + 1] = raw[x]
        BY <1>4, <2>1, <2>3, <3>1 DEF Opened
      <3> QED
        BY <2>1, <3>2
    <2> QED
      BY <2>2, <2>3
  <1>6. Placed12(next, after)
    <2>1. ASSUME NEW k \in 1..12 PROVE after[k] \in Int /\ 1 <= after[k] /\ after[k] <= Len(next)
      <3>1. PICK x \in Int : x = pos[k] /\ 1 <= x /\ x <= Len(raw)
        BY <1>3
      <3>2. after[k] = x \/ after[k] = x + 1
        BY <1>4, <3>1
      <3> QED
        BY <1>2, <3>1, <3>2
    <2>2. ASSUME NEW a \in 1..12, NEW b \in 1..12, a < b PROVE after[a] < after[b]
      <3>1. pos[a] < pos[b]
        BY <2>2 DEF ReadAs, Placed12
      <3>2. PICK x \in Int : x = pos[a]
        BY <1>3
      <3>3. PICK y \in Int : y = pos[b]
        BY <1>3
      <3>4. /\ (x <= i /\ after[a] = x) \/ (~(x <= i) /\ after[a] = x + 1)
            /\ (y <= i /\ after[b] = y) \/ (~(y <= i) /\ after[b] = y + 1)
        BY <1>4, <3>2, <3>3
      <3> QED
        BY <1>2, <3>1, <3>2, <3>3, <3>4, SMTT(30)
    <2> QED
      BY <2>1, <2>2 DEF Placed12
  <1>7. \A k \in 1..12 : after[k] \in Marks(next)
    <2> TAKE k \in 1..12
    <2>1. raw[pos[k]] # Separator
      BY <1>2, MarksIs DEF ReadAs, MarkedBy
    <2> QED
      BY <1>2, <1>5, <1>6, <2>1, MarksIs DEF Placed12
  <1>8. ASSUME NEW p \in Marks(next) PROVE \E k \in 1..12 : p = after[k]
    <2>1. p \in Int /\ 1 <= p /\ p <= Len(raw) + 1 /\ next[p] # Separator
      BY <1>2, MarksIs
    <2>2. CASE p <= i
      <3>1. next[p] = raw[p]
        BY <1>2, <2>1, <2>2 DEF Opened
      <3>2. p \in Marks(raw)
        BY <1>2, <2>1, <2>2, <3>1, MarksIs
      <3>3. PICK k \in 1..12 : p = pos[k]
        BY <3>2 DEF ReadAs, MarkedBy
      <3> QED
        BY <1>4, <2>2, <3>3
    <2>3. CASE ~(p <= i)
      <3>1. p # i + 1
        BY <2>1 DEF Opened
      <3>2. PICK q \in Int : q = p - 1
        BY <2>1
      <3>3. q \in (i + 1)..Len(raw) /\ p = q + 1
        BY <1>2, <2>1, <2>3, <3>1, <3>2
      <3>4. next[p] = raw[q]
        BY <3>3 DEF Opened
      <3>5. q \in Marks(raw) /\ ~(q <= i)
        BY <1>2, <2>1, <3>3, <3>4, MarksIs
      <3>6. PICK k \in 1..12 : q = pos[k]
        BY <3>5 DEF ReadAs, MarkedBy
      <3> QED
        BY <1>4, <3>3, <3>5, <3>6
    <2> QED
      BY <2>2, <2>3
  <1>9. ReadAs(next, after, word)
    BY <1>2, <1>5, <1>6, <1>7, <1>8 DEF ReadAs, MarkedBy
  <1> QED
    BY <1>9

(* Writing one mark over another moves none.                               *)
Rewrites(raw, p, c, next) ==
    /\ next \in Seq(Typed) /\ Len(next) = Len(raw)
    /\ next[p] = c
    /\ \A q : (q \in Int /\ 1 <= q /\ q <= Len(raw) /\ q # p) => next[q] = raw[q]
LEMMA Writes ==
  ASSUME NEW raw \in Seq(Typed), NEW p \in 1..Len(raw), NEW c \in Typed,
         NEW next, next = [raw EXCEPT ![p] = c]
  PROVE  Rewrites(raw, p, c, next)
  <1>1. Len(raw) \in Nat /\ DOMAIN raw = 1..Len(raw) /\ raw \in [1..Len(raw) -> Typed]
    OBVIOUS
  <1>2. next \in [1..Len(raw) -> Typed]
    BY <1>1
  <1>3. next \in Seq(Typed) /\ Len(next) = Len(raw)
    BY <1>1, <1>2
  <1>4. next[p] = c /\ \A q \in 1..Len(raw) : q # p => next[q] = raw[q]
    BY <1>1
  <1>5. \A q : (q \in Int /\ 1 <= q /\ q <= Len(raw)) => q \in 1..Len(raw)
    BY <1>1
  <1> QED
    BY <1>3, <1>4, <1>5 DEF Rewrites

LEMMA Rewritten ==
  ASSUME NEW raw, NEW pos, NEW word, ReadAs(raw, pos, word), NEW a \in 1..12,
         NEW c \in Typed, c # Separator, NEW next, Rewrites(raw, pos[a], c, next),
         NEW heard, heard = [word EXCEPT ![a] = Meant(c)]
  PROVE  ReadAs(next, pos, heard)
  <1>1. /\ raw \in Seq(Typed) /\ next \in Seq(Typed) /\ Len(next) = Len(raw) /\ word \in [1..12 -> Shown]
    BY DEF ReadAs, Rewrites
  <1>2. Meant(c) \in Shown
    BY CodeAssumption DEF Typed, Shown, Meant
  <1>3. heard \in [1..12 -> Shown] /\ heard[a] = Meant(c) /\ \A k \in 1..12 : k # a => heard[k] = word[k]
    BY <1>1, <1>2
  <1>4. Placed12(next, pos) /\ \A k \in 1..12 : pos[k] \in Int /\ 1 <= pos[k] /\ pos[k] <= Len(raw)
    BY <1>1 DEF ReadAs, Placed12
  <1>5. \A k \in 1..12 : k # a => next[pos[k]] = raw[pos[k]]
    <2>1. Placed12(raw, pos)
      BY DEF ReadAs
    <2>2. \A k \in 1..12 : k # a => pos[k] # pos[a]
      BY <2>1, Ordered
    <2> QED
      BY <1>4, <2>2 DEF Rewrites
  <1>6. next[pos[a]] = c
    BY DEF Rewrites
  <1>7. \A k \in 1..12 : Meant(next[pos[k]]) = heard[k]
    BY <1>3, <1>5, <1>6 DEF ReadAs
  <1>8. \A p : p \in Marks(next) <=> p \in Marks(raw)
    <2> TAKE p
    <2>1. pos[a] \in Marks(raw)
      BY DEF ReadAs, MarkedBy
    <2>2. CASE p = pos[a]
      <3>1. p \in Marks(next)
        <4>1. p \in Int /\ 1 <= p /\ p <= Len(next) /\ next[p] # Separator
          BY <1>1, <1>4, <1>6, <2>2
        <4> QED
          BY <1>1, <4>1, MarksIs
      <3> QED
        BY <2>1, <2>2, <3>1
    <2>3. CASE p # pos[a]
      <3>1. (p \in Int /\ 1 <= p /\ p <= Len(raw)) => next[p] = raw[p]
        BY <2>3 DEF Rewrites
      <3>2. p \in Marks(raw) <=> (p \in Int /\ 1 <= p /\ p <= Len(raw) /\ raw[p] # Separator)
        BY <1>1, MarksIs
      <3>3. p \in Marks(next) <=> (p \in Int /\ 1 <= p /\ p <= Len(next) /\ next[p] # Separator)
        BY <1>1, MarksIs
      <3>4. Len(next) = Len(raw)
        BY <1>1
      <3> QED
        BY ONLY <3>1, <3>2, <3>3, <3>4
    <2> QED
      BY <2>2, <2>3
  <1>9. MarkedBy(next, pos)
    BY <1>8 DEF ReadAs, MarkedBy
  <1> QED
    BY <1>1, <1>3, <1>4, <1>7, <1>9 DEF ReadAs

LEMMA CodeKept == CodeInv /\ [CodeNext]_codeVars => CodeInv'
  <1> SUFFICES ASSUME CodeInv, [CodeNext]_codeVars PROVE CodeInv'
    OBVIOUS
  <1>1. code' = code /\ code \in Words /\ Verified(code)
    BY DEF CodeInv, CodeNext, codeVars, Separate, MisreadAs, Substitute, Swap
  <1>2. PICK pos, word : ReadAs(typed, pos, word) /\ Slipped(word)
    BY DEF CodeInv
  <1> SUFFICES \E after, heard : ReadAs(typed', after, heard) /\ Slipped(heard)'
    BY <1>1 DEF CodeInv
  <1>3. typed \in Seq(Typed) /\ word \in [1..12 -> Shown] /\ DOMAIN typed = 1..Len(typed)
    BY <1>2 DEF ReadAs
  <1>4. ASSUME NEW i \in DOMAIN typed, typed[i] # Separator PROVE \E k \in 1..12 : i = pos[k]
    <2>1. i \in Int /\ 1 <= i /\ i <= Len(typed)
      BY <1>3
    <2> QED
      BY <1>2, <1>3, <1>4, <2>1, MarksIs DEF ReadAs, MarkedBy
  <1>5. ASSUME NEW c \in Shown PROVE c \in Typed /\ c # Separator /\ Meant(c) = c
    BY <1>5, CodeAssumption DEF Shown, Typed, Meant
  <1>6. ASSUME NEW k \in 1..12 PROVE Meant(typed[pos[k]]) = word[k] /\ pos[k] \in 1..Len(typed)
    <2>1. Meant(typed[pos[k]]) = word[k]
      BY <1>2 DEF ReadAs
    <2>2. PICK p \in Int : p = pos[k] /\ 1 <= p /\ p <= Len(typed)
      BY <1>2 DEF ReadAs, Placed12
    <2>3. Len(typed) \in Nat
      BY <1>3, MarksIs
    <2>4. p \in 1..Len(typed)
      BY <2>2, <2>3
    <2> QED
      BY <2>1, <2>2, <2>4
  <1>7. CASE \E i \in 0..Len(typed) : Separate(i)
    <2>1. PICK i \in 0..Len(typed) : Separate(i)
      BY <1>7
    <2>2. Opened(typed, i, typed')
      BY <1>3, <2>1, Opens DEF Separate
    <2>3. \E after : ReadAs(typed', after, word)
      BY <1>2, <2>2, SeparateKept
    <2>4. Slipped(word)'
      BY <1>1, <1>2, <2>1 DEF Slipped, Separate
    <2> QED
      BY <2>3, <2>4
  <1>8. CASE \E i \in DOMAIN typed, c \in DOMAIN LookAlike : MisreadAs(i, c)
    <2>1. PICK i \in DOMAIN typed, c \in DOMAIN LookAlike : MisreadAs(i, c)
      BY <1>8
    <2>2. typed[i] = LookAlike[c] /\ LookAlike[c] \in Shown /\ typed' = [typed EXCEPT ![i] = c]
      BY <2>1, CodeAssumption DEF MisreadAs, Shown
    <2>3. PICK k \in 1..12 : i = pos[k]
      BY <1>4, <1>5, <2>2
    <2>4. word[k] = LookAlike[c] /\ Meant(c) = LookAlike[c] /\ c \in Typed /\ c # Separator
      BY <1>5, <1>6, <2>2, <2>3, CodeAssumption DEF Meant, Typed
    <2>5. Rewrites(typed, pos[k], c, typed')
      BY <1>3, <1>6, <2>2, <2>3, <2>4, Writes
    <2>6. word = [word EXCEPT ![k] = Meant(c)]
      BY <1>3, <2>4
    <2>7. ReadAs(typed', pos, word)
      BY <1>2, <2>4, <2>5, <2>6, Rewritten, SMTT(30)
    <2>8. Slipped(word)'
      BY <1>1, <1>2, <2>1, SMTT(60) DEF Slipped, MisreadAs
    <2> QED
      BY <2>7, <2>8
  <1>9. CASE \E i \in DOMAIN typed, c \in Alphabet \cup {Foreign} : Substitute(i, c)
    <2>1. PICK i \in DOMAIN typed, c \in Shown : Substitute(i, c)
      BY <1>9 DEF Shown
    <2>2. slip = "none" /\ typed[i] # Separator /\ c # Meant(typed[i]) /\ typed' = [typed EXCEPT ![i] = c] /\ slip' = "substituted"
      BY <2>1 DEF Substitute
    <2>3. PICK k \in 1..12 : i = pos[k]
      BY <1>4, <2>2
    <2>4. PICK heard : heard = [word EXCEPT ![k] = Meant(c)]
      OBVIOUS
    <2>5. c \in Typed /\ c # Separator /\ Meant(c) = c
      BY <1>5
    <2>6. Rewrites(typed, pos[k], c, typed')
      BY <1>3, <1>6, <2>2, <2>3, <2>5, Writes
    <2>7. ReadAs(typed', pos, heard)
      BY <1>2, <2>4, <2>5, <2>6, Rewritten
    <2>8. word = code
      BY <1>2, <2>2 DEF Slipped
    <2>9. c # code[k] /\ heard = [code EXCEPT ![k] = c]
      BY <1>6, <2>2, <2>3, <2>4, <2>5, <2>8
    <2>10. Slipped(heard)'
      BY <1>1, <2>2, <2>9 DEF Slipped
    <2> QED
      BY <2>7, <2>10
  <1>10. CASE \E i \in DOMAIN typed, j \in DOMAIN typed : Swap(i, j)
    <2>1. PICK i \in DOMAIN typed, j \in DOMAIN typed : Swap(i, j)
      BY <1>10
    <2>2. /\ slip = "none" /\ typed[i] # Separator /\ typed[j] # Separator /\ Meant(typed[i]) # Meant(typed[j])
          /\ typed' = [typed EXCEPT ![i] = typed[j], ![j] = typed[i]] /\ slip' = "swapped"
      BY <2>1 DEF Swap
    <2>3. PICK a \in 1..12 : i = pos[a]
      BY <1>4, <2>2
    <2>4. PICK b \in 1..12 : j = pos[b]
      BY <1>4, <2>2
    <2>5. PICK x \in Typed : x = typed[i]
      BY <1>3, SMTT(30)
    <2>6. PICK y \in Typed : y = typed[j]
      BY <1>3, SMTT(30)
    <2>7. PICK middle : middle = [typed EXCEPT ![i] = y]
      OBVIOUS
    <2>8. i # j /\ a # b
      BY <2>2, <2>3, <2>4
    <2>9. typed' = [middle EXCEPT ![j] = x]
      BY <2>2, <2>5, <2>6, <2>7
    <2>10. PICK half : half = [word EXCEPT ![a] = Meant(y)]
      OBVIOUS
    <2>11. Rewrites(typed, pos[a], y, middle)
      BY <1>3, <1>6, <2>3, <2>6, <2>7, Writes
    <2>12. ReadAs(middle, pos, half)
      BY <1>2, <2>2, <2>6, <2>10, <2>11, Rewritten
    <2>13. middle \in Seq(Typed) /\ pos[b] \in 1..Len(middle)
      BY <1>6, <2>11 DEF Rewrites
    <2>14. Rewrites(middle, pos[b], x, typed')
      BY <2>4, <2>9, <2>13, Writes
    <2>15. PICK heard : heard = [half EXCEPT ![b] = Meant(x)]
      OBVIOUS
    <2>16. ReadAs(typed', pos, heard)
      BY <2>2, <2>5, <2>12, <2>14, <2>15, Rewritten
    <2>17. word = code
      BY <1>2, <2>2 DEF Slipped
    <2>18. Meant(x) = code[a] /\ Meant(y) = code[b] /\ code[a] # code[b]
      BY <1>6, <2>2, <2>3, <2>4, <2>5, <2>6, <2>17
    <2>19. heard = [code EXCEPT ![a] = code[b], ![b] = code[a]]
      BY <2>10, <2>15, <2>17, <2>18, SMTT(30)
    <2>20. Slipped(heard)'
      BY <1>1, <2>2, <2>18, <2>19 DEF Slipped
    <2> QED
      BY <2>16, <2>20
  <1>11. CASE UNCHANGED codeVars
    <2>1. typed' = typed /\ Slipped(word)'
      BY <1>2, <1>11 DEF codeVars, Slipped
    <2> QED
      BY <1>2, <2>1
  <1> QED
    BY <1>7, <1>8, <1>9, <1>10, <1>11 DEF CodeNext

Replaced(c, i, v, w) == v # c[i] /\ w = [c EXCEPT ![i] = v]
Exchanged(c, i, j, w) == c[i] # c[j] /\ w = [c EXCEPT ![i] = c[j], ![j] = c[i]]
LEMMA ReplacedRefused ==
  ASSUME NEW c \in Words, Verified(c), NEW i \in 1..12, NEW v \in Shown, NEW w, Replaced(c, i, v, w)
  PROVE  ~Verified(w)
  <1>1. CASE v \in Alphabet
    <2>1. v # c[i] /\ w = [c EXCEPT ![i] = v]
      BY Zenon DEF Replaced
    <2>2. ~Verified([c EXCEPT ![i] = v])
      BY <1>1, <2>1, SubstitutionRefused, ZenonT(60)
    <2> QED
      BY ONLY <2>1, <2>2, ZenonT(60)
  <1>2. CASE v \notin Alphabet
    <2>1. w[i] = v
      BY DEF Words, Replaced
    <2>2. DataLength + 1 = 12
      BY DEF DataLength
    <2>3. ASSUME Verified(w) PROVE w[i] \in Alphabet
      <3>1. Len(w) = DataLength + 1 /\ \A k \in 1..Len(w) : w[k] \in Alphabet
        BY ONLY <2>3 DEF Verified
      <3> QED
        BY <2>2, <3>1
    <2> QED
      BY <1>2, <2>1, <2>3
  <1> QED
    BY <1>1, <1>2
LEMMA ExchangedRefused ==
  ASSUME NEW c \in Words, Verified(c), NEW i \in 1..12, NEW j \in 1..12, NEW w, Exchanged(c, i, j, w)
  PROVE  ~Verified(w)
  <1>1. c[i] # c[j]
    BY Zenon DEF Exchanged
  <1>2. ~Verified([c EXCEPT ![i] = c[j], ![j] = c[i]])
    BY <1>1, TranspositionRefused, ZenonT(60)
  <1>3. w = [c EXCEPT ![i] = c[j], ![j] = c[i]]
    BY Zenon DEF Exchanged
  <1> QED
    BY ONLY <1>2, <1>3, ZenonT(60)

LEMMA CodeSafe == CodeInv => ReadsBack /\ SlipsCaught
  <1> SUFFICES ASSUME CodeInv PROVE ReadsBack /\ SlipsCaught
    OBVIOUS
  <1>1. PICK pos, word : ReadAs(typed, pos, word) /\ Slipped(word)
    BY DEF CodeInv
  <1>2. Characters(typed) = word
    BY <1>1, ReadingIs
  <1>3. code \in Words /\ Verified(code)
    BY DEF CodeInv
  <1>4. ReadsBack
    BY <1>1, <1>2, <1>3 DEF ReadsBack, ParseCode, Slipped
  <1>5. ASSUME slip # "none" PROVE ~Verified(word)
    <2>1. CASE slip = "substituted"
      <3>1. PICK i \in 1..12, v \in Shown : Replaced(code, i, v, word)
        BY <1>1, <2>1 DEF Slipped, Replaced
      <3> QED
        BY <1>3, <3>1, ReplacedRefused
    <2>2. CASE slip = "swapped"
      <3>1. PICK i, j \in 1..12 : Exchanged(code, i, j, word)
        BY <1>1, <2>2, ZenonT(60) DEF Slipped, Exchanged
      <3> QED
        BY <1>3, <3>1, ExchangedRefused
    <2> QED
      BY <1>1, <1>5, <2>1, <2>2 DEF Slipped
  <1>6. SlipsCaught
    BY <1>2, <1>5 DEF SlipsCaught, ParseCode
  <1> QED
    BY <1>4, <1>6

-----------------------------------------------------------------------------
(* Checkout keys.                                                          *)

(* The row of a key somebody works under.                                  *)
Claimed == row # Nothing /\ row.state = "processing" /\ ~row.lapsed /\ ~row.expired

OwnersClaim == \A r \in Requests : stage[r] \in Working => Claimed

OneOwner == \A r, s \in Requests : stage[r] \in Working /\ stage[s] \in Working => r = s

(* A request about to take over read a row that had not expired, and       *)
(* nothing expires while a request is in flight.                           *)
TakersInTime ==
    \A r \in Requests :
        stage[r] \in {"takeover", "readRevived"} => row = Nothing \/ ~row.expired

Honoured == "overrun" \notin mishaps

ClaimInv == TypeOK /\ TakersInTime /\ (Honoured => OneOwner /\ OwnersClaim)

-----------------------------------------------------------------------------
LEMMA InitClaim == Init => ClaimInv
  BY DEF Init, ClaimInv, TypeOK, OneOwner, TakersInTime, OwnersClaim, Stages, Live, Reading, Working, Ended

LEMMA FreshRow == ASSUME NEW r \in Requests PROVE Fresh(r) \in Rows /\ Fresh(r) # Nothing
<1>1. BodyOf[r] \in Bodies
  BY ReplayAssumption
<1>2. Fresh(r) \in Rows
  BY <1>1 DEF Fresh, Rows
<1> QED BY <1>2, NothingIsNoRow

LEMMA MishapsStay ==
  ASSUME TypeOK, [Next]_vars
  PROVE  mishaps \subseteq mishaps' /\ mishaps' \subseteq Mishaps
<1>1. mishaps' = mishaps \/ mishaps' = mishaps \cup {"overrun"} \/ mishaps' = mishaps \cup {"expiry"}
         \/ mishaps' = mishaps \cup {"fault"}
  <2>1. ASSUME NEW r \in Requests,
               \/ Insert(r) \/ Read(r) \/ ReadNothing(r) \/ Revive(r) \/ TakeOver(r) \/ Recover(r)
               \/ Work(r) \/ WorkFails(r) \/ WorkRefused(r) \/ Crash(r)
        PROVE  mishaps' = mishaps
    BY <2>1 DEF Insert, Read, ReadNothing, Revive, TakeOver, Recover, Work, WorkFails, WorkRefused, Crash
  <2>2. ASSUME NEW r \in Requests, LookupFails(r) \/ CommitUnanswered(r) \/ Complete(r) \/ Release(r)
        PROVE  mishaps' = mishaps \/ mishaps' = mishaps \cup {"fault"}
    BY <2>2 DEF LookupFails, CommitUnanswered, Complete, Release, Fault
  <2> QED BY <2>1, <2>2 DEF Next, Lapse, Expire, DeleteExpired, vars
<1> QED BY <1>1 DEF TypeOK, Mishaps

LEMMA TypeStep == TypeOK /\ [Next]_vars => TypeOK'
<1> SUFFICES ASSUME TypeOK, [Next]_vars PROVE TypeOK'
  OBVIOUS
<1> USE ReplayAssumption, NothingIsNoRow, MishapsStay
<1>1. ASSUME NEW r \in Requests, NEW to \in Stages, Goes(r, to)
      PROVE  stage' \in [Requests -> Stages]
  BY <1>1 DEF Goes, TypeOK
<1>2. ASSUME NEW r \in Requests, NEW o \in Requests \cup {Nothing}, Shows(r, o)
      PROVE  shown' \in [Requests -> Requests \cup {Nothing}]
  BY <1>2 DEF Shows, TypeOK
<1>3. {"new", "revive", "takeover", "read", "readRevived", "readTaken", "recover", "work", "complete",
       "release", "created", "replayed", "reused", "inflight", "taken", "error", "dead"} \subseteq Stages
  BY DEF Stages, Live, Reading, Working, Ended
<1>4. row # Nothing => row \in Rows /\ row.response \in Requests \cup {Nothing}
  BY DEF TypeOK, Rows
<1>5. ASSUME NEW r \in Requests, Insert(r) PROVE TypeOK'
  BY <1>1, <1>3, <1>5, FreshRow DEF Insert, TypeOK
<1>6. ASSUME NEW r \in Requests, Read(r) PROVE TypeOK'
  <2>1. Verdict(r, row) \in Stages
    BY <1>3 DEF Verdict, Refusal
  <2> QED BY <1>1, <1>2, <1>4, <1>6, <2>1 DEF Read, TypeOK
<1>7. ASSUME NEW r \in Requests, ReadNothing(r) PROVE TypeOK'
  BY <1>1, <1>3, <1>7 DEF ReadNothing, TypeOK
<1>8. ASSUME NEW r \in Requests, Revive(r) PROVE TypeOK'
  BY <1>1, <1>3, <1>8, FreshRow DEF Revive, TypeOK
<1>9. ASSUME NEW r \in Requests, TakeOver(r) PROVE TypeOK'
  <2>1. row # Nothing => [row EXCEPT !.lapsed = FALSE] \in Rows
    BY DEF TypeOK, Rows
  <2> QED BY <1>1, <1>3, <1>9, <2>1 DEF TakeOver, TypeOK
<1>10. ASSUME NEW r \in Requests, Recover(r) PROVE TypeOK'
  BY <1>1, <1>2, <1>3, <1>10 DEF Recover, TypeOK
<1>11. ASSUME NEW r \in Requests, WorkFails(r) \/ LookupFails(r) \/ Crash(r) PROVE TypeOK'
  BY <1>1, <1>3, <1>11 DEF WorkFails, LookupFails, Crash, TypeOK
<1>12. ASSUME NEW r \in Requests, Work(r) \/ CommitUnanswered(r) PROVE TypeOK'
  BY <1>1, <1>2, <1>3, <1>12 DEF Work, CommitUnanswered, TypeOK
<1>13. ASSUME NEW r \in Requests, WorkRefused(r) PROVE TypeOK'
  <2>1. (CHOOSE o \in orders : TRUE) \in Requests
    BY <1>13 DEF WorkRefused, MayCreate, TypeOK
  <2> QED BY <1>1, <1>2, <1>3, <1>13, <2>1 DEF WorkRefused, TypeOK
<1>14. ASSUME NEW r \in Requests, Complete(r) PROVE TypeOK'
  <2>1. shown[r] \in Requests \cup {Nothing}
    BY DEF TypeOK
  <2>2. row # Nothing => [row EXCEPT !.state = "completed", !.lapsed = FALSE, !.response = shown[r]] \in Rows
    BY <2>1 DEF TypeOK, Rows
  <2> QED BY <1>1, <1>3, <1>14, <2>2 DEF Complete, TypeOK
<1>15. ASSUME NEW r \in Requests, Release(r) PROVE TypeOK'
  BY <1>1, <1>3, <1>15 DEF Release, TypeOK
<1>16. CASE Lapse \/ Expire \/ DeleteExpired
  <2>1. row # Nothing => /\ [row EXCEPT !.lapsed = TRUE] \in Rows
                         /\ [row EXCEPT !.expired = TRUE, !.lapsed = (row.state = "processing")] \in Rows
    BY DEF TypeOK, Rows
  <2> QED BY <1>16, <2>1 DEF Lapse, Expire, DeleteExpired, TypeOK
<1>17. CASE UNCHANGED vars
  BY <1>17 DEF vars, TypeOK
<1> QED BY <1>5, <1>6, <1>7, <1>8, <1>9, <1>10, <1>11, <1>12, <1>13, <1>14, <1>15, <1>16, <1>17 DEF Next

(* A step after which nobody new works, and the claim of whoever still     *)
(* does is untouched.                                                      *)
LEMMA NoNewOwner ==
  ASSUME ClaimInv, Honoured,
         \A r \in Requests : stage'[r] \in Working => stage[r] \in Working /\ (Claimed => Claimed')
  PROVE  OneOwner' /\ OwnersClaim'
  BY DEF ClaimInv, OneOwner, OwnersClaim

(* A step that makes one owner where there was none.                       *)
LEMMA NewOwner ==
  ASSUME ClaimInv, Honoured, ~Claimed, NEW r \in Requests, Claimed',
         \A s \in Requests \ {r} : stage'[s] = stage[s]
  PROVE  OneOwner' /\ OwnersClaim'
  BY DEF ClaimInv, OneOwner, OwnersClaim

LEMMA OwnerStep ==
  ASSUME ClaimInv, Honoured', [Next]_vars PROVE OneOwner' /\ OwnersClaim'
<1> USE ReplayAssumption, NothingIsNoRow
<1>0. Honoured
  BY MishapsStay DEF Honoured, ClaimInv
<1> USE <1>0
<1> DEFINE Goal == OneOwner' /\ OwnersClaim'
<1>1. ASSUME NEW r \in Requests, NEW to, Goes(r, to)
      PROVE  stage'[r] = to /\ \A s \in Requests \ {r} : stage'[s] = stage[s]
  BY <1>1 DEF Goes, ClaimInv, TypeOK
<1>2. ASSUME NEW r \in Requests, Insert(r) PROVE Goal
  <2>1. CASE row = Nothing
    <3>1. Claimed'
      BY <1>2, <2>1, FreshRow DEF Insert, Claimed, Fresh
    <3>2. ~Claimed
      BY <2>1 DEF Claimed
    <3> QED BY <1>1, <1>2, <3>1, <3>2, NewOwner DEF Insert
  <2>2. CASE row # Nothing
    <3>1. "read" \notin Working
      BY DEF Working
    <3> QED BY <1>1, <1>2, <2>2, <3>1, NoNewOwner DEF Insert, Claimed
  <2> QED BY <2>1, <2>2
<1>3. ASSUME NEW r \in Requests, Read(r) PROVE Goal
  <2>1. Verdict(r, row) \notin Working
    BY DEF Verdict, Refusal, Working
  <2> QED BY <1>1, <1>3, <2>1, NoNewOwner DEF Read, Claimed
<1>4. ASSUME NEW r \in Requests, ReadNothing(r) PROVE Goal
  <2>1. "error" \notin Working
    BY DEF Working
  <2> QED BY <1>1, <1>4, <2>1, NoNewOwner DEF ReadNothing, Claimed
<1>5. ASSUME NEW r \in Requests, Revive(r) PROVE Goal
  <2>1. CASE row # Nothing /\ row.expired
    <3>1. Claimed' /\ ~Claimed
      BY <1>5, <2>1, FreshRow DEF Revive, Claimed, Fresh
    <3> QED BY <1>1, <1>5, <2>1, <3>1, NewOwner DEF Revive
  <2>2. CASE ~(row # Nothing /\ row.expired)
    <3>1. "readRevived" \notin Working
      BY DEF Working
    <3> QED BY <1>1, <1>5, <2>2, <3>1, NoNewOwner DEF Revive, Claimed
  <2> QED BY <2>1, <2>2
<1>6. ASSUME NEW r \in Requests, TakeOver(r) PROVE Goal
  <2>1. CASE row # Nothing /\ MayTakeOver(r, row)
    <3>1. row' = [row EXCEPT !.lapsed = FALSE] /\ row \in Rows /\ ~row.expired
      BY <1>6, <2>1 DEF TakeOver, ClaimInv, TypeOK, TakersInTime
    <3>2. row'.state = "processing" /\ ~row'.lapsed /\ ~row'.expired /\ row' \in Rows
      BY <2>1, <3>1 DEF MayTakeOver, Rows
    <3>3. Claimed' /\ ~Claimed
      BY <2>1, <3>2 DEF Claimed, MayTakeOver
    <3> QED BY <1>1, <1>6, <2>1, <3>3, NewOwner DEF TakeOver
  <2>2. CASE ~(row # Nothing /\ MayTakeOver(r, row))
    <3>1. "readTaken" \notin Working
      BY DEF Working
    <3> QED BY <1>1, <1>6, <2>2, <3>1, NoNewOwner DEF TakeOver, Claimed
  <2> QED BY <2>1, <2>2
<1>7. ASSUME NEW r \in Requests,
             Recover(r) \/ LookupFails(r) \/ Work(r) \/ WorkFails(r) \/ WorkRefused(r) \/ CommitUnanswered(r)
      PROVE Goal
  <2>1. stage[r] \in Working /\ UNCHANGED row /\ \A s \in Requests \ {r} : stage'[s] = stage[s]
    BY <1>1, <1>7 DEF Recover, LookupFails, Work, WorkFails, WorkRefused, CommitUnanswered, Working
  <2> QED BY <2>1, NoNewOwner DEF Claimed
(* The owner leaves: nobody else was working.                              *)
<1>8. ASSUME NEW r \in Requests, Complete(r) \/ Release(r) PROVE Goal
  <2>1. stage[r] \in Working /\ stage'[r] \notin Working /\ \A s \in Requests \ {r} : stage'[s] = stage[s]
    BY <1>1, <1>8 DEF Complete, Release, Working
  <2>2. \A s \in Requests : stage'[s] \notin Working
    BY <2>1 DEF ClaimInv, OneOwner
  <2> QED BY <2>2 DEF OneOwner, OwnersClaim
<1>9. ASSUME NEW r \in Requests, Crash(r) PROVE Goal
  <2>1. "dead" \notin Working
    BY DEF Working
  <2> QED BY <1>1, <1>9, <2>1, NoNewOwner DEF Crash, Claimed
<1>10. CASE Lapse
  <2>1. \A r \in Requests : stage'[r] \notin Working
    BY <1>10 DEF Lapse, Honoured
  <2> QED BY <2>1 DEF OneOwner, OwnersClaim
<1>11. CASE Expire
  <2>1. \A r \in Requests : stage'[r] \notin Working
    BY <1>11 DEF Expire, Live
  <2> QED BY <2>1 DEF OneOwner, OwnersClaim
<1>12. CASE DeleteExpired
  <2>1. ~Claimed /\ UNCHANGED stage
    BY <1>12 DEF DeleteExpired, Claimed
  <2> QED BY <2>1, NoNewOwner
<1>13. CASE UNCHANGED vars
  BY <1>13, NoNewOwner DEF vars, Claimed
<1> QED BY <1>2, <1>3, <1>4, <1>5, <1>6, <1>7, <1>8, <1>9, <1>10, <1>11, <1>12, <1>13 DEF Next

LEMMA TakerStep == ClaimInv /\ [Next]_vars => TakersInTime'
<1> SUFFICES ASSUME ClaimInv, [Next]_vars, NEW t \in Requests,
                    stage'[t] \in {"takeover", "readRevived"}, row' # Nothing, row'.expired
             PROVE  FALSE
  BY DEF TakersInTime
<1> USE ReplayAssumption, NothingIsNoRow
<1>1. ASSUME NEW r \in Requests, NEW to, Goes(r, to)
      PROVE  stage'[r] = to /\ \A s \in Requests \ {r} : stage'[s] = stage[s]
  BY <1>1 DEF Goes, ClaimInv, TypeOK
<1>2. CASE stage'[t] = stage[t]
  <2>1. stage[t] \in Live
    BY <1>2 DEF Live, Reading
  <2>2. row = Nothing \/ ~row.expired
    BY <1>2 DEF ClaimInv, TakersInTime
  <2>3. row' # row
    BY <2>2
  <2>4. ~(Lapse \/ Expire \/ DeleteExpired)
    <3>1. ASSUME Lapse PROVE FALSE
      BY <2>2, <3>1 DEF Lapse, ClaimInv, TypeOK, Rows
    <3>2. ASSUME Expire PROVE FALSE
      BY <2>1, <3>2 DEF Expire
    <3>3. ASSUME DeleteExpired PROVE FALSE
      BY <3>3 DEF DeleteExpired
    <3> QED BY <3>1, <3>2, <3>3
  <2>5. PICK r \in Requests : Insert(r) \/ Revive(r) \/ TakeOver(r) \/ Complete(r) \/ Release(r)
    BY <2>3, <2>4 DEF Next, vars, Read, ReadNothing, Recover, LookupFails, Work, WorkFails,
       WorkRefused, CommitUnanswered, Crash
  <2>6. ~Fresh(r).expired
    BY DEF Fresh
  <2>7. row # Nothing => [row EXCEPT !.lapsed = FALSE].expired = row.expired
                         /\ [row EXCEPT !.state = "completed", !.lapsed = FALSE, !.response = shown[r]].expired
                            = row.expired
    BY DEF ClaimInv, TypeOK, Rows
  <2> QED BY <2>2, <2>3, <2>5, <2>6, <2>7 DEF Insert, Revive, TakeOver, Complete, Release
<1>3. CASE stage'[t] # stage[t]
  <2>1. Read(t) \/ Revive(t)
    <3>1. ASSUME NEW r \in Requests, NEW to, Goes(r, to), to \notin {"takeover", "readRevived"}
          PROVE  FALSE
      BY <1>1, <1>3, <3>1
    <3>2. ASSUME NEW r \in Requests, NEW to, Goes(r, to) PROVE r = t
      BY <1>1, <1>3, <3>2
    <3>3. ASSUME NEW r \in Requests,
                 \/ Insert(r) \/ ReadNothing(r) \/ TakeOver(r) \/ Recover(r) \/ LookupFails(r)
                 \/ Work(r) \/ WorkFails(r) \/ WorkRefused(r) \/ CommitUnanswered(r)
          PROVE  FALSE
      BY <3>1, <3>3 DEF Insert, ReadNothing, TakeOver, Recover, LookupFails, Work, WorkFails,
         WorkRefused, CommitUnanswered
    <3>4. ASSUME NEW r \in Requests, Complete(r) \/ Release(r) \/ Crash(r) PROVE FALSE
      BY <3>1, <3>4 DEF Complete, Release, Crash
    <3>5. ASSUME Lapse \/ Expire \/ DeleteExpired \/ UNCHANGED vars PROVE FALSE
      BY <1>3, <3>5 DEF Lapse, Expire, DeleteExpired, vars
    <3>6. ASSUME NEW r \in Requests, Read(r) \/ Revive(r) PROVE r = t
      BY <3>2, <3>6 DEF Read, Revive
    <3> QED BY <3>3, <3>4, <3>5, <3>6 DEF Next
  <2>2. CASE Read(t)
    <3>1. Verdict(t, row) = "takeover" /\ UNCHANGED row /\ stage[t] \in Reading
      BY <1>1, <2>2 DEF Read, Verdict, Refusal
    <3>2. stage[t] = "readRevived" \/ ~row.expired
      BY <3>1 DEF Verdict, Refusal, Reading
    <3> QED BY <3>1, <3>2 DEF ClaimInv, TakersInTime
  <2>3. CASE Revive(t)
    BY <1>1, <2>3 DEF Revive, Fresh
  <2> QED BY <2>1, <2>2, <2>3
<1> QED BY <1>2, <1>3

LEMMA ClaimStep == ClaimInv /\ [Next]_vars => ClaimInv'
<1> SUFFICES ASSUME ClaimInv, [Next]_vars PROVE ClaimInv'
  OBVIOUS
<1>1. TypeOK' /\ TakersInTime'
  BY TypeStep, TakerStep DEF ClaimInv
<1>2. CASE Honoured'
  BY <1>1, <1>2, OwnerStep DEF ClaimInv
<1>3. CASE ~Honoured'
  BY <1>1, <1>3 DEF ClaimInv
<1> QED BY <1>2, <1>3

(* However many retries race, at most one of them does the checkout, until *)
(* a request outlives the lease of its claim.                              *)
THEOREM OneWorker == Spec => []SingleWorker
<1>1. ClaimInv => SingleWorker
  BY DEF ClaimInv, SingleWorker, OneOwner, Honoured
<1> QED BY <1>1, InitClaim, ClaimStep, PTL DEF Spec
-----------------------------------------------------------------------------
(* What the row says of the order stored under the key.                    *)
RowTells ==
    /\ row # Nothing => ~row.expired
    /\ orders # {} => row # Nothing /\ \A o \in orders : BodyOf[o] = row.hash
    /\ row # Nothing /\ row.state = "completed" => row.response \in orders

(* What a request's stage says of it.                                      *)
StageTells(r) ==
    /\ stage[r] \in Working => row # Nothing /\ row.hash = BodyOf[r]
    /\ stage[r] \in {"work", "release"} => orders = {}
    /\ stage[r] \in {"new"} \cup (Live \ {"complete"}) => shown[r] = Nothing
    /\ stage[r] = "complete" => shown[r] \in orders
    /\ stage[r] \in {"created", "replayed"} => shown[r] \in orders /\ BodyOf[shown[r]] = BodyOf[r]
    /\ stage[r] \notin {"revive", "readRevived", "taken"}

Told == RowTells /\ \A r \in Requests : StageTells(r)
Calm == mishaps = {} => Told

LEMMA InitCalm == Init => Calm
  BY DEF Init, Calm, Told, RowTells, StageTells, Working, Live, Reading

(* A request that a step does not move, and under which it does not pull   *)
(* the row away.                                                           *)
LEMMA Bystander ==
  ASSUME NEW s \in Requests, StageTells(s), stage'[s] = stage[s], shown'[s] = shown[s],
         orders \subseteq orders',
         stage[s] \in Working => row' # Nothing /\ row'.hash = row.hash /\ orders' = orders
  PROVE  StageTells(s)'
  BY DEF StageTells, Working

(* A step of one request that leaves row and orders alone.                 *)
LEMMA OneMoves ==
  ASSUME Told, NEW r \in Requests, UNCHANGED <<row, orders>>,
         \A s \in Requests \ {r} : stage'[s] = stage[s] /\ shown'[s] = shown[s],
         StageTells(r)'
  PROVE  Told'
<1>1. RowTells'
  BY DEF Told, RowTells
<1>2. ASSUME NEW s \in Requests PROVE StageTells(s)'
  BY <1>2, Bystander DEF Told, StageTells
<1> QED BY <1>1, <1>2 DEF Told

LEMMA ToldStep ==
  ASSUME ClaimInv, Told, [Next]_vars, mishaps = {}, mishaps' = {}
  PROVE  Told'
<1> USE ReplayAssumption, NothingIsNoRow
<1>0. Honoured /\ OneOwner /\ OwnersClaim
  BY DEF Honoured, ClaimInv
<1>1. ASSUME NEW r \in Requests, NEW to, Goes(r, to)
      PROVE  stage'[r] = to /\ \A s \in Requests \ {r} : stage'[s] = stage[s]
  BY <1>1 DEF Goes, ClaimInv, TypeOK
<1>2. ASSUME NEW r \in Requests, NEW o, Shows(r, o)
      PROVE  shown'[r] = o /\ \A s \in Requests \ {r} : shown'[s] = shown[s]
  BY <1>2 DEF Shows, ClaimInv, TypeOK
<1>3. ASSUME NEW r \in Requests PROVE StageTells(r) /\ RowTells
  BY DEF Told
<1>4. ASSUME NEW r \in Requests, Insert(r) PROVE Told'
  <2>1. CASE row = Nothing
    <3>1. row' = Fresh(r) /\ row' # Nothing /\ row'.hash = BodyOf[r] /\ ~row'.expired
             /\ row'.state = "processing" /\ orders = {} /\ orders' = {}
      BY <1>3, <1>4, <2>1, FreshRow DEF Insert, Fresh, RowTells
    <3>2. RowTells'
      BY <3>1 DEF RowTells
    <3>3. StageTells(r)'
      BY <1>1, <1>3, <1>4, <2>1, <3>1 DEF Insert, StageTells
    <3>4. ASSUME NEW s \in Requests \ {r} PROVE StageTells(s)'
      <4>1. stage[s] \notin Working
        BY <2>1, <1>0 DEF OwnersClaim, Claimed
      <4> QED BY <1>1, <1>3, <1>4, <2>1, <3>1, <4>1, Bystander DEF Insert
    <3> QED BY <3>2, <3>3, <3>4 DEF Told
  <2>2. CASE row # Nothing
    <3>1. StageTells(r)'
      BY <1>1, <1>3, <1>4, <2>2 DEF Insert, StageTells, Working, Live, Reading
    <3> QED BY <1>1, <1>4, <2>2, <3>1, OneMoves DEF Insert
  <2> QED BY <2>1, <2>2
<1>5. ASSUME NEW r \in Requests, Read(r) PROVE Told'
  <2>1. ~row.expired /\ stage[r] \notin {"revive", "readRevived"} /\ row # Nothing
    BY <1>3, <1>5 DEF Read, RowTells, StageTells
  <2>2. Verdict(r, row) \in {"takeover", "reused", "replayed", "inflight"}
    BY <2>1 DEF Verdict, Refusal
  <2>3. Verdict(r, row) = "replayed" => row.hash = BodyOf[r] /\ row.state = "completed"
    BY <2>1 DEF Verdict, Refusal
  <2>4. Verdict(r, row) = "replayed" => row.response \in orders /\ BodyOf[row.response] = BodyOf[r]
    BY <1>3, <2>1, <2>3 DEF RowTells
  <2>5. stage'[r] = Verdict(r, row)
           /\ shown'[r] = (IF Verdict(r, row) = "replayed" THEN row.response ELSE Nothing)
    BY <1>1, <1>2, <1>5 DEF Read
  <2>6. StageTells(r)'
    BY <1>5, <2>2, <2>4, <2>5 DEF Read, StageTells, Working, Live, Reading
  <2> QED BY <1>1, <1>2, <1>5, <2>6, OneMoves DEF Read
<1>6. ASSUME NEW r \in Requests, ReadNothing(r) \/ Crash(r) PROVE Told'
  <2>1. StageTells(r)'
    BY <1>1, <1>6 DEF ReadNothing, Crash, StageTells, Working, Live, Reading
  <2> QED BY <1>1, <1>6, <2>1, OneMoves DEF ReadNothing, Crash
<1>7. ASSUME NEW r \in Requests, Revive(r) PROVE Told'
  BY <1>3, <1>7 DEF Revive, StageTells
<1>8. ASSUME NEW r \in Requests, TakeOver(r) PROVE Told'
  <2>0. shown[r] = Nothing
    BY <1>3, <1>8 DEF TakeOver, StageTells, Live
  <2>1. CASE row # Nothing /\ MayTakeOver(r, row)
    <3>1. row \in Rows /\ row' = [row EXCEPT !.lapsed = FALSE]
      BY <1>8, <2>1 DEF TakeOver, ClaimInv, TypeOK
    <3>2. row' \in Rows /\ row'.hash = row.hash /\ row'.state = row.state /\ row'.expired = row.expired
      BY <3>1 DEF Rows
    <3>3. row' # Nothing /\ row.hash = BodyOf[r] /\ row.state = "processing" /\ orders' = orders
      BY <1>8, <2>1, <3>2 DEF MayTakeOver, TakeOver
    <3>4. RowTells'
      BY <1>3, <2>1, <3>2, <3>3 DEF RowTells
    <3>5. StageTells(r)'
      BY <1>1, <1>8, <2>0, <2>1, <3>2, <3>3 DEF TakeOver, StageTells
    <3>6. ASSUME NEW s \in Requests \ {r} PROVE StageTells(s)'
      BY <1>1, <1>3, <1>8, <2>1, <3>2, <3>3, Bystander DEF TakeOver
    <3> QED BY <3>4, <3>5, <3>6 DEF Told
  <2>2. CASE ~(row # Nothing /\ MayTakeOver(r, row))
    <3>1. StageTells(r)'
      BY <1>1, <1>8, <2>0, <2>2 DEF TakeOver, StageTells, Working, Live, Reading
    <3> QED BY <1>1, <1>8, <2>2, <3>1, OneMoves DEF TakeOver
  <2> QED BY <2>1, <2>2
<1>9. ASSUME NEW r \in Requests, Recover(r) PROVE Told'
  <2>1. shown[r] = Nothing /\ row # Nothing /\ row.hash = BodyOf[r]
    BY <1>3, <1>9 DEF Recover, StageTells, Live, Working
  <2>2. CASE orders = {}
    <3>1. StageTells(r)'
      BY <1>1, <1>9, <2>1, <2>2 DEF Recover, StageTells
    <3> QED BY <1>1, <1>9, <2>2, <3>1, OneMoves DEF Recover
  <2>3. CASE orders # {}
    <3>1. PICK o \in orders : Goes(r, "complete") /\ Shows(r, o)
      BY <1>9, <2>3 DEF Recover
    <3>2. StageTells(r)'
      BY <1>1, <1>2, <1>9, <2>1, <3>1 DEF Recover, StageTells
    <3> QED BY <1>1, <1>2, <1>9, <3>1, <3>2, OneMoves DEF Recover
  <2> QED BY <2>2, <2>3
<1>10. ASSUME NEW r \in Requests, Work(r) PROVE Told'
  <2>1. row # Nothing /\ row.hash = BodyOf[r] /\ orders' = {r} /\ row' = row
    BY <1>3, <1>10 DEF Work, MayCreate, StageTells, Working
  <2>2. row.state = "processing" /\ ~row.expired
    BY <1>0, <1>10 DEF Work, OwnersClaim, Claimed, Working
  <2>3. RowTells'
    BY <2>1, <2>2 DEF RowTells
  <2>4. StageTells(r)'
    BY <1>1, <1>2, <1>10, <2>1 DEF Work, StageTells, Working, Live, Reading
  <2>5. ASSUME NEW s \in Requests \ {r} PROVE StageTells(s)'
    <3>1. stage[s] \notin Working
      BY <1>0, <1>10 DEF Work, OneOwner, Working
    <3>2. orders \subseteq orders'
      BY <1>10 DEF Work
    <3> QED BY <1>1, <1>2, <1>3, <1>10, <3>1, <3>2, Bystander DEF Work
  <2> QED BY <2>3, <2>4, <2>5 DEF Told
<1>11. ASSUME NEW r \in Requests, WorkFails(r) PROVE Told'
  <2>1. StageTells(r)'
    BY <1>1, <1>3, <1>11 DEF WorkFails, StageTells, Working, Live, Reading
  <2> QED BY <1>1, <1>11, <2>1, OneMoves DEF WorkFails
<1>12. ASSUME NEW r \in Requests, WorkRefused(r) PROVE Told'
  BY <1>3, <1>12 DEF WorkRefused, MayCreate, StageTells
<1>13. ASSUME NEW r \in Requests, LookupFails(r) \/ CommitUnanswered(r) PROVE Told'
  BY <1>13 DEF LookupFails, CommitUnanswered, Fault
<1>14. ASSUME NEW r \in Requests, Complete(r) PROVE Told'
  <2>1. row # Nothing /\ row.hash = BodyOf[r] /\ shown[r] \in orders
    BY <1>3, <1>14 DEF Complete, StageTells, Working
  <2>2. row' = [row EXCEPT !.state = "completed", !.lapsed = FALSE, !.response = shown[r]]
           /\ row \in Rows /\ orders' = orders /\ shown' = shown
    BY <1>14, <2>1 DEF Complete, Fault, ClaimInv, TypeOK
  <2>3. row' \in Rows /\ row'.hash = row.hash /\ row'.expired = row.expired /\ row'.response = shown[r]
    <3>1. shown[r] \in Requests \cup {Nothing}
      BY DEF ClaimInv, TypeOK
    <3> QED BY <2>2, <3>1 DEF Rows
  <2>4. RowTells'
    BY <1>3, <2>1, <2>2, <2>3 DEF RowTells
  <2>5. StageTells(r)'
    <3>1. BodyOf[shown[r]] = BodyOf[r]
      BY <1>3, <2>1 DEF RowTells
    <3>2. stage'[r] \in {"created", "replayed"}
      BY <1>1, <1>14 DEF Complete
    <3> QED BY <2>1, <2>2, <3>1, <3>2 DEF StageTells, Working, Live, Reading
  <2>6. ASSUME NEW s \in Requests \ {r} PROVE StageTells(s)'
    BY <1>1, <1>3, <1>14, <2>2, <2>3, Bystander DEF Complete
  <2> QED BY <2>4, <2>5, <2>6 DEF Told
<1>15. ASSUME NEW r \in Requests, Release(r) PROVE Told'
  <2>1. orders = {} /\ shown[r] = Nothing /\ Claimed
    BY <1>0, <1>3, <1>15 DEF Release, StageTells, OwnersClaim, Working, Live
  <2>2. row' = Nothing /\ orders' = {} /\ shown' = shown
    BY <1>15, <2>1 DEF Release, Fault, Claimed
  <2>3. RowTells'
    BY <2>2 DEF RowTells
  <2>4. StageTells(r)'
    BY <1>1, <1>15, <2>1, <2>2 DEF Release, StageTells, Working, Live, Reading
  <2>5. ASSUME NEW s \in Requests \ {r} PROVE StageTells(s)'
    <3>1. stage[s] \notin Working
      BY <1>0, <1>15 DEF Release, OneOwner, Working
    <3> QED BY <1>1, <1>3, <1>15, <2>1, <2>2, <3>1, Bystander DEF Release
  <2> QED BY <2>3, <2>4, <2>5 DEF Told
<1>16. CASE Lapse
  <2>1. row # Nothing /\ row \in Rows /\ row' = [row EXCEPT !.lapsed = TRUE]
           /\ orders' = orders /\ stage' = stage /\ shown' = shown
    BY <1>16 DEF Lapse, ClaimInv, TypeOK
  <2>2. row' \in Rows /\ row'.hash = row.hash /\ row'.expired = row.expired
           /\ row'.state = row.state /\ row'.response = row.response
    BY <2>1 DEF Rows
  <2>3. row' # Nothing
    BY <2>2
  <2>4. RowTells'
    <3>1. RowTells
      BY DEF Told
    <3> QED BY <2>1, <2>2, <2>3, <3>1 DEF RowTells
  <2>5. ASSUME NEW s \in Requests PROVE StageTells(s)'
    BY <1>3, <2>1, <2>2, <2>3, Bystander
  <2> QED BY <2>4, <2>5 DEF Told
<1>17. CASE Expire
  BY <1>17 DEF Expire
<1>18. CASE DeleteExpired
  BY <1>18 DEF DeleteExpired, Told, RowTells
<1>19. CASE UNCHANGED vars
  <2>1. RowTells'
    BY <1>19 DEF vars, Told, RowTells
  <2>2. ASSUME NEW s \in Requests PROVE StageTells(s)'
    BY <1>3, <1>19, Bystander DEF vars, StageTells
  <2> QED BY <2>1, <2>2 DEF Told
<1> QED BY <1>4, <1>5, <1>6, <1>7, <1>8, <1>9, <1>10, <1>11, <1>12, <1>13, <1>14, <1>15, <1>16,
        <1>17, <1>18, <1>19 DEF Next

LEMMA CalmStep == ClaimInv /\ Calm /\ [Next]_vars => Calm'
<1> SUFFICES ASSUME ClaimInv, Calm, [Next]_vars, mishaps' = {} PROVE Told'
  BY DEF Calm
<1>1. mishaps = {}
  BY MishapsStay DEF ClaimInv
<1> QED BY <1>1, ToldStep DEF Calm

(* Until a request outlives its lease, a day goes by or a statement fails, *)
(* whoever is answered with an order is answered with the one they asked   *)
(* for, however many died on the way.                                      *)
THEOREM AnswersMatch == Spec => []AnswerMatchesBody
<1>1. ClaimInv /\ Calm => AnswerMatchesBody
  <2> SUFFICES ASSUME ClaimInv, Told, NEW r \in Requests, stage[r] \in {"created", "replayed"}
               PROVE  shown[r] # Nothing /\ BodyOf[shown[r]] = BodyOf[r]
    BY DEF Calm, AnswerMatchesBody
  <2> QED BY ReplayAssumption DEF Told, StageTells, ClaimInv, TypeOK
<1> QED BY <1>1, InitClaim, ClaimStep, InitCalm, CalmStep, PTL DEF Spec

(* Until then no retry is turned away with only the news that its key is   *)
(* taken: the order a dead request left behind is found and shown.         *)
THEOREM RetriesAreShown == Spec => []RetryIsShownTheOrder
<1>1. Calm => RetryIsShownTheOrder
  BY DEF Calm, Told, StageTells, RetryIsShownTheOrder
<1> QED BY <1>1, InitClaim, ClaimStep, InitCalm, CalmStep, PTL DEF Spec

-----------------------------------------------------------------------------
(* Sessions.                                                               *)

LoginRows == [hash : Login!Tokens, previous : Login!Tokens \cup {idle}, rotated : Nat,
              revoked : BOOLEAN, expires : {SessionSeconds}]
LoginHands ==
    [stage : {"idle"}] \cup [stage : {"rotate"}, expected : Login!Tokens]
    \cup [stage : {"forget", "answered"}, then : Login!Tokens \cup {idle}]
    \cup [stage : {"store"}, jti : Login!Tokens, expires : {SessionSeconds}]
    \cup [stage : {"point"}, jti : Login!Tokens]
LoginShape ==
    /\ now \in Nat /\ session \in LoginRows /\ issued \in Login!Tokens
    /\ jar \in Login!Tokens \cup {idle}
    /\ cache \in [Login!Tokens -> [until : Nat] \cup {idle}]
    /\ pointer \in [jti : Login!Tokens, until : Nat] \cup {idle}
    /\ tab \in [Callers -> LoginHands]
    /\ died \in [Login!Tokens -> Nat \cup {idle}]

Naming(j) == \E t \in Callers : tab[t].stage \in {"store", "point"} /\ tab[t].jti = j
CacheBounded ==
    \A j \in Login!Tokens : cache[j] # idle =>
        /\ cache[j].until <= now + 30 /\ cache[j].until <= SessionSeconds
        /\ died[j] # idle => cache[j].until <= died[j] + 30
JustDied == \A j \in Login!Tokens : Naming(j) /\ died[j] # idle => died[j] = now
KnownWasCurrent ==
    \A j \in Login!Tokens : cache[j] # idle \/ Naming(j) =>
        died[j] # idle \/ (j = session.hash /\ ~session.revoked)
Chain ==
    /\ session.hash <= issued
    /\ session.previous # idle => session.previous < session.hash /\ died[session.previous] # idle
    /\ ~session.revoked => died[session.hash] = idle
    /\ \A j \in Login!Tokens : died[j] # idle => j <= issued
LoginInv == LoginShape /\ CacheBounded /\ JustDied /\ KnownWasCurrent /\ Chain

LEMMA LoginStarts == Login!Init => LoginInv
  BY OfficeAssumption DEF LoginInv, LoginShape, CacheBounded, JustDied, KnownWasCurrent, Chain, Naming, LoginRows, LoginHands,
     Login!Init, Login!Idle, Login!Tokens, Login!SessionAssumption

(* A step that kills nothing and caches nothing new.                       *)
LEMMA LoginForgets ==
  ASSUME LoginInv, LoginShape', UNCHANGED <<now, session, died>>, issued <= issued',
         \A j \in Login!Tokens : cache'[j] # idle => cache'[j] = cache[j],
         \A j \in Login!Tokens : Naming(j)' => Naming(j)
  PROVE  LoginInv'
  <1>1. CacheBounded' /\ JustDied' /\ KnownWasCurrent'
    BY DEF LoginInv, CacheBounded, JustDied, KnownWasCurrent
  <1>2. Chain'
    BY DEF LoginInv, LoginShape, LoginRows, Login!Tokens, Chain
  <1> QED
    BY <1>1, <1>2 DEF LoginInv

(* A step on which the current token dies, replaced or revoked.            *)
LEMMA LoginKills ==
  ASSUME LoginInv, LoginShape', UNCHANGED <<now, cache>>, ~session.revoked, Login!Dies(session.hash),
         \/ /\ issued' = issued /\ session' = [session EXCEPT !.revoked = TRUE]
         \/ /\ issued' = issued + 1 /\ ~session'.revoked
            /\ session'.hash = issued' /\ session'.previous = session.hash,
         \A j \in Login!Tokens : Naming(j)' => Naming(j)
  PROVE  LoginInv'
  <1> DEFINE j0 == session.hash
  <1>1. /\ j0 \in Login!Tokens /\ now \in Nat /\ now # idle
        /\ died[j0] = idle /\ died' = [died EXCEPT ![j0] = now] /\ died'[j0] = now
        /\ \A j \in Login!Tokens \ {j0} : died'[j] = died[j]
    BY OfficeAssumption DEF LoginInv, LoginShape, LoginRows, Chain, Login!Dies, Login!SessionAssumption
  <1>2. CacheBounded'
    BY <1>1 DEF LoginInv, CacheBounded
  <1>3. JustDied'
    BY <1>1 DEF LoginInv, JustDied
  <1>4. KnownWasCurrent'
    BY <1>1 DEF LoginInv, KnownWasCurrent
  <1>5. Chain'
    <2>1. /\ issued \in Nat /\ issued' \in Nat /\ j0 <= issued /\ j0 \in Nat
          /\ \A j \in Login!Tokens : j \in Nat /\ (died'[j] # idle => j <= issued)
      BY <1>1 DEF LoginInv, LoginShape, LoginRows, Chain, Login!Tokens
    <2>2. CASE issued' = issued /\ session' = [session EXCEPT !.revoked = TRUE]
      BY <1>1, <2>1, <2>2 DEF LoginInv, LoginShape, LoginRows, Chain
    <2>3. CASE issued' = issued + 1 /\ ~session'.revoked /\ session'.hash = issued' /\ session'.previous = j0
      <3>1. issued' \in Login!Tokens
        BY <2>3 DEF LoginShape
      <3> QED
        BY <1>1, <2>1, <2>3, <3>1 DEF Chain
    <2> QED
      BY <2>2, <2>3
  <1> QED
    BY <1>2, <1>3, <1>4, <1>5 DEF LoginInv

(* What a request may carry from one statement to the next.                *)
LEMMA LoginHandsAre ==
  /\ [stage |-> "idle"] \in LoginHands
  /\ \A j \in Login!Tokens :
       /\ [stage |-> "rotate", expected |-> j] \in LoginHands
       /\ [stage |-> "store", jti |-> j, expires |-> SessionSeconds] \in LoginHands
       /\ [stage |-> "point", jti |-> j] \in LoginHands
  /\ \A j \in Login!Tokens \cup {idle} : [stage |-> "forget", then |-> j] \in LoginHands
  /\ \A j \in Login!Tokens \cup {idle} : [stage |-> "answered", then |-> j] \in LoginHands
  BY DEF LoginHands

LEMMA LoginHanded ==
  ASSUME LoginShape, NEW t \in Callers, NEW r \in LoginHands, Login!Hand(t, r)
  PROVE  /\ tab' \in [Callers -> LoginHands]
         /\ r.stage \notin {"store", "point"} => \A j \in Login!Tokens : Naming(j)' => Naming(j)
  BY DEF LoginShape, Login!Hand, Naming

LEMMA RefreshKept ==
  ASSUME LoginInv, NEW t \in Callers,
         Login!RefreshFinds(t) \/ Login!RefreshFails(t) \/ Login!Rotate(t)
  PROVE  LoginInv'
  <1>0. /\ LoginShape /\ now \in Nat /\ session \in LoginRows /\ session.hash \in Login!Tokens
        /\ died' = died \/ Login!Dies(session.hash) => died' \in [Login!Tokens -> Nat \cup {idle}]
        /\ jar \in Login!Tokens \cup {idle}
    BY DEF LoginInv, LoginShape, LoginRows, Login!Dies
  <1>1. CASE Login!RefreshFinds(t)
    <2>1. tab' \in [Callers -> LoginHands] /\ \A j \in Login!Tokens : Naming(j)' => Naming(j)
      <3>1. CASE UNCHANGED tab
        BY <1>0, <3>1 DEF LoginShape, Naming
      <3>2. CASE Login!Hand(t, [stage |-> "rotate", expected |-> session.hash])
        BY <1>0, <3>2, LoginHanded, LoginHandsAre
      <3>3. CASE Login!Hand(t, [stage |-> "forget", then |-> idle])
        <4>1. [stage |-> "forget", then |-> idle] \in LoginHands
          BY LoginHandsAre
        <4> QED
          BY <1>0, <3>3, <4>1, LoginHanded
      <3> QED
        BY <1>1, <3>1, <3>2, <3>3 DEF Login!RefreshFinds
    <2>2. jar' \in Login!Tokens \cup {idle} /\ (died' = died \/ Login!Dies(session.hash))
      BY <1>0, <1>1 DEF Login!RefreshFinds, Login!SignedOut
    <2>3. UNCHANGED <<now, issued, cache, pointer>>
      BY <1>1 DEF Login!RefreshFinds
    <2>4. CASE UNCHANGED <<session, died>>
      <3>1. LoginShape'
        BY <1>0, <2>1, <2>2, <2>3, <2>4 DEF LoginShape
      <3> QED
        BY <2>1, <2>3, <2>4, <3>1, LoginForgets DEF LoginInv, Chain, LoginShape, Login!Tokens
    <2>5. CASE ~session.revoked /\ session' = [session EXCEPT !.revoked = TRUE] /\ Login!Dies(session.hash)
      <3>1. session' \in LoginRows
        BY <1>0, <2>5 DEF LoginRows
      <3>2. LoginShape'
        BY <1>0, <2>1, <2>2, <2>3, <3>1 DEF LoginShape
      <3> QED
        BY <2>1, <2>3, <2>5, <3>2, LoginKills
    <2> QED
      BY <1>1, <2>4, <2>5 DEF Login!RefreshFinds
  <1>2. CASE Login!RefreshFails(t)
    <2>1. tab' \in [Callers -> LoginHands] /\ \A j \in Login!Tokens : Naming(j)' => Naming(j)
      BY <1>0, <1>2, LoginHanded, LoginHandsAre DEF Login!RefreshFails, Login!Idle
    <2>2. LoginShape'
      BY <1>0, <1>2, <2>1 DEF Login!RefreshFails, Login!SignedOut, LoginShape
    <2> QED
      BY <1>2, <2>1, <2>2, LoginForgets DEF Login!RefreshFails, LoginShape, Login!Tokens
  <1>3. CASE Login!Rotate(t)
    <2>1. /\ issued' = issued + 1 /\ issued <= issued' /\ issued' \in Login!Tokens
          /\ UNCHANGED <<now, cache, pointer>>
      BY <1>0, <1>3, OfficeAssumption DEF Login!Rotate, LoginShape, Login!Tokens, Login!SessionAssumption
    <2>2. CASE Login!CanRotate(tab[t].expected)
      <3>1. /\ session' = [session EXCEPT !.hash = issued', !.previous = session.hash, !.rotated = now]
            /\ ~session.revoked /\ Login!Dies(session.hash) /\ UNCHANGED jar
            /\ Login!Hand(t, [stage |-> "forget", then |-> issued'])
        BY <1>3, <2>2 DEF Login!Rotate, Login!CanRotate
      <3>2. tab' \in [Callers -> LoginHands] /\ \A j \in Login!Tokens : Naming(j)' => Naming(j)
        <4>1. [stage |-> "forget", then |-> issued'] \in LoginHands
          BY <2>1, LoginHandsAre
        <4> QED
          BY <1>0, <3>1, <4>1, LoginHanded
      <3>3. /\ session' \in LoginRows /\ session'.hash = issued' /\ session'.previous = session.hash
            /\ ~session'.revoked
        BY <1>0, <2>1, <3>1 DEF LoginRows
      <3>4. LoginShape'
        BY <1>0, <2>1, <3>1, <3>2, <3>3 DEF LoginShape
      <3> QED
        BY <2>1, <3>1, <3>2, <3>3, <3>4, LoginKills
    <2>3. CASE ~Login!CanRotate(tab[t].expected)
      <3>1. tab' \in [Callers -> LoginHands] /\ \A j \in Login!Tokens : Naming(j)' => Naming(j)
        BY <1>0, <1>3, <2>3, LoginHanded, LoginHandsAre DEF Login!Rotate, Login!Idle
      <3>2. LoginShape'
        BY <1>0, <1>3, <2>1, <2>3, <3>1 DEF Login!Rotate, Login!SignedOut, LoginShape
      <3> QED
        BY <1>3, <2>1, <2>3, <3>1, <3>2, LoginForgets DEF Login!Rotate
    <2> QED
      BY <2>2, <2>3
  <1> QED
    BY <1>1, <1>2, <1>3

LEMMA AnswerKept ==
  ASSUME LoginInv, NEW t \in Callers,
         Login!Forget(t) \/ Login!Answered(t) \/ Login!Logout(t)
  PROVE  LoginInv'
  <1>0. /\ LoginShape /\ now \in Nat /\ session \in LoginRows /\ session.hash \in Login!Tokens
        /\ died' = died \/ Login!Dies(session.hash) => died' \in [Login!Tokens -> Nat \cup {idle}]
        /\ tab[t].stage \in {"forget", "answered"} => tab[t].then \in Login!Tokens \cup {idle}
    BY DEF LoginInv, LoginShape, LoginRows, LoginHands, Login!Dies
  <1>1. CASE Login!Forget(t)
    <2>1. tab' \in [Callers -> LoginHands] /\ \A j \in Login!Tokens : Naming(j)' => Naming(j)
      BY <1>0, <1>1, LoginHanded, LoginHandsAre DEF Login!Forget
    <2>2. /\ cache' \in [Login!Tokens -> [until : Nat] \cup {idle}]
          /\ pointer' \in [jti : Login!Tokens, until : Nat] \cup {idle}
          /\ \A j \in Login!Tokens : cache'[j] # idle => cache'[j] = cache[j]
      BY <1>0, <1>1 DEF Login!Forget, LoginShape
    <2>3. LoginShape'
      BY <1>0, <1>1, <2>1, <2>2 DEF Login!Forget, LoginShape
    <2> QED
      BY <1>1, <2>1, <2>2, <2>3, LoginForgets DEF Login!Forget, LoginShape, Login!Tokens
  <1>2. CASE Login!Answered(t)
    <2>1. tab' \in [Callers -> LoginHands] /\ \A j \in Login!Tokens : Naming(j)' => Naming(j)
      BY <1>0, <1>2, LoginHanded, LoginHandsAre DEF Login!Answered, Login!Idle
    <2>2. LoginShape'
      BY <1>0, <1>2, <2>1 DEF Login!Answered, LoginShape
    <2> QED
      BY <1>2, <2>1, <2>2, LoginForgets DEF Login!Answered, LoginShape, Login!Tokens
  <1>3. CASE Login!Logout(t) /\ session.revoked
    BY <1>3, LoginForgets DEF Login!Logout, LoginInv, LoginShape, Login!Tokens, Naming
  <1>4. CASE Login!Logout(t) /\ ~session.revoked
    <2>1. tab' \in [Callers -> LoginHands] /\ \A j \in Login!Tokens : Naming(j)' => Naming(j)
      BY <1>0, <1>4, LoginHanded, LoginHandsAre DEF Login!Logout
    <2>2. session' \in LoginRows
      BY <1>0, <1>4 DEF Login!Logout, LoginRows
    <2>3. LoginShape'
      BY <1>0, <1>4, <2>1, <2>2 DEF Login!Logout, LoginShape
    <2> QED
      BY <1>4, <2>1, <2>3, LoginKills DEF Login!Logout
  <1> QED
    BY <1>1, <1>2, <1>3, <1>4

LEMMA LookupKept ==
  ASSUME LoginInv, NEW t \in Callers, Login!Lookup(t) \/ Login!Store(t) \/ Login!Point(t)
  PROVE  LoginInv'
  <1> USE DEF LoginShape, LoginRows, LoginHands, Login!Tokens, Login!Idle, Login!Hand
  <1>1. CASE Login!Lookup(t)
    <2>1. LoginShape'
      BY <1>1 DEF LoginInv, Login!Lookup
    <2>2. \A j \in Login!Tokens : Naming(j)' => Naming(j) \/ (j = session.hash /\ ~session.revoked)
      BY <1>1 DEF LoginInv, Login!Lookup, Login!FindByAccessJTI, Naming
    <2>3. UNCHANGED <<now, session, issued, cache, died>>
      BY <1>1 DEF Login!Lookup
    <2> QED
      BY <2>1, <2>2, <2>3 DEF LoginInv, CacheBounded, JustDied, KnownWasCurrent, Chain
  <1>2. CASE Login!Store(t)
    <2> DEFINE until == Login!LivesFor(SessionSeconds)
    <2>1. SessionSeconds \in Nat /\ now \in Nat
      BY OfficeAssumption DEF LoginInv, Login!SessionAssumption
    <2>2. until \in Nat /\ until <= SessionSeconds /\ until <= now + 30
      BY <2>1 DEF Login!LivesFor, Login!SessionTTL
    <2>3. LoginShape'
      <3>1. tab[t] \in LoginHands /\ tab[t].jti \in Login!Tokens /\ tab[t].expires = SessionSeconds
        BY <1>2 DEF LoginInv, Login!Store
      <3>2. PICK e : e = [until |-> until]
        OBVIOUS
      <3>3. e \in [until : Nat] /\ (cache' = cache \/ cache' = [cache EXCEPT ![tab[t].jti] = e])
        BY <1>2, <2>2, <3>1, <3>2 DEF Login!Store
      <3>4. cache' \in [Login!Tokens -> [until : Nat] \cup {idle}]
        BY <3>1, <3>3 DEF LoginInv
      <3>5. PICK r : r = [stage |-> "point", jti |-> tab[t].jti]
        OBVIOUS
      <3>6. r \in LoginHands /\ Login!Idle \in LoginHands
        BY <3>1, <3>5
      <3>7. tab' = [tab EXCEPT ![t] = r] \/ tab' = [tab EXCEPT ![t] = Login!Idle]
        BY <1>2, <3>5 DEF Login!Store
      <3>8. tab' \in [Callers -> LoginHands]
        BY <3>6, <3>7, SMTT(30) DEF LoginInv
      <3> QED
        BY <1>2, <3>4, <3>8 DEF LoginInv, Login!Store
    <2>4. UNCHANGED <<now, session, issued, died>>
      BY <1>2 DEF Login!Store
    <2>5. \A j \in Login!Tokens : Naming(j)' => Naming(j)
      BY <1>2, SMTT(60) DEF LoginInv, Login!Store, Naming
    <2>6. \A j \in Login!Tokens : cache'[j] = cache[j] \/ (Naming(j) /\ cache'[j] = [until |-> until])
      BY <1>2, ZenonT(60) DEF LoginInv, Login!Store, Naming
    <2>7. CacheBounded'
      BY <2>2, <2>4, <2>6, SMTT(30) DEF LoginInv, CacheBounded, JustDied
    <2>8. JustDied' /\ KnownWasCurrent' /\ Chain'
      BY <2>4, <2>5, <2>6 DEF LoginInv, JustDied, KnownWasCurrent, Chain
    <2> QED
      BY <2>3, <2>7, <2>8 DEF LoginInv
  <1>3. CASE Login!Point(t)
    <2>1. SessionSeconds \in Nat /\ now \in Nat
      BY OfficeAssumption DEF LoginInv, Login!SessionAssumption
    <2>2. Login!LivesFor(SessionSeconds) \in Nat
      BY <2>1 DEF Login!LivesFor, Login!SessionTTL
    <2>3. LoginShape'
      BY <1>3, <2>2, SMTT(30) DEF LoginInv, Login!Point
    <2>4. UNCHANGED <<now, session, issued, died>> /\ \A j \in Login!Tokens : Naming(j)' => Naming(j)
      BY <1>3 DEF LoginInv, Login!Point, Naming
    <2>5. \A j \in Login!Tokens : cache'[j] # idle => cache'[j] = cache[j]
      BY <1>3 DEF LoginInv, Login!Point
    <2> QED
      BY <2>3, <2>4, <2>5, LoginForgets DEF LoginInv
  <1> QED
    BY <1>1, <1>2, <1>3

LEMMA LoginKept == LoginInv /\ [Login!Next]_loginVars => LoginInv'
<1> SUFFICES ASSUME LoginInv, [Login!Next]_loginVars PROVE LoginInv'
  OBVIOUS
<1>1. CASE Login!Tick
  BY <1>1, OfficeAssumption, SMTT(60) DEF LoginInv, LoginShape, CacheBounded, JustDied, KnownWasCurrent, Chain, Naming, LoginRows, LoginHands,
     Login!Tick, Login!Tokens, Login!SessionAssumption
<1>2. CASE \E t \in Callers : Login!RefreshFinds(t) \/ Login!RefreshFails(t) \/ Login!Rotate(t)
  BY <1>2, RefreshKept
<1>3. CASE \E t \in Callers : Login!Forget(t) \/ Login!Answered(t) \/ Login!Logout(t)
  BY <1>3, AnswerKept
<1>4. CASE \E t \in Callers : Login!Lookup(t) \/ Login!Store(t) \/ Login!Point(t)
  BY <1>4, LookupKept
<1>5. CASE UNCHANGED loginVars
  BY <1>5 DEF loginVars, LoginInv, LoginShape, CacheBounded, JustDied, KnownWasCurrent, Chain, Naming
<1> QED BY <1>1, <1>2, <1>3, <1>4, <1>5 DEF Login!Next

LEMMA LoginSafe == LoginInv => Login!DeadTokensLapse
  BY OfficeAssumption DEF LoginInv, LoginShape, CacheBounded, JustDied, KnownWasCurrent, Chain, Naming, LoginRows, LoginHands,
     Login!Tokens, Login!SessionAssumption, Login!DeadTokensLapse, Login!Authenticates,  Login!FindByAccessJTI, Login!SessionTTL

-----------------------------------------------------------------------------
(* Refund requests.                                                        *)

DeskRequests == [id : Nat, order : Orders, reason : Desk!Reasons, by : People \cup {"nobody"},
                 status : {"pending", "approved", "rejected"}, decidedBy : People \cup {"nobody"}]
DeskPurchases == [status : {"pending", "paid", "refund_required", "refunded"}, paidAt : Days]
CallShape ==
    /\ call = [c \in Callers |-> call[c]]
    /\ \A c \in Callers : call[c].stage \in {"judge", "file"} =>
          call[c].who \in People /\ call[c].order \in Orders /\ call[c].reason \in Desk!Reasons
DeskShape ==
    /\ today \in Days
    /\ purchase \in [Orders -> DeskPurchases]
    /\ requests \subseteq DeskRequests /\ IsFiniteSet(requests)
    /\ money \in [Orders -> [stage : {"none", "queued", "moved"}, direct : BOOLEAN]]
    /\ CallShape

Open(r) == r.status \in {"pending", "approved"}
OneOpen == \A r, s \in requests : Open(r) /\ Open(s) /\ r.order = s.order => r = s
Approved(o) == {r \in requests : r.order = o /\ r.status = "approved"}
ApprovedIsPaid == \A o \in Orders : Approved(o) # {} => money[o].stage = "queued" \/ purchase[o].status = "refunded"
MoneyIsAsked == \A o \in Orders : money[o].stage # "none" => Approved(o) # {} \/ money[o].direct
DeskInv == DeskShape /\ OneOpen /\ ApprovedIsPaid /\ MoneyIsAsked

LEMMA DeskSizes == ASSUME NEW S PROVE Desk!Cardinality(S) = Cardinality(S)
  BY DEF Desk!Cardinality, Cardinality

LEMMA DeskStarts == Desk!Init => DeskInv
  <1> SUFFICES ASSUME Desk!Init PROVE DeskInv
    OBVIOUS
  <1>1. DeskShape
    BY OfficeAssumption, FS_EmptySet DEF Desk!Init, Desk!DeskAssumption, DeskShape, CallShape, DeskPurchases
  <1> QED
    BY <1>1 DEF Desk!Init, DeskInv, OneOpen, ApprovedIsPaid, MoneyIsAsked, Approved

(* What a new row of refund_requests holds.                                *)
LEMMA DeskFiles ==
  ASSUME DeskShape, NEW o \in Orders, NEW reason \in Desk!Reasons, NEW by \in People \cup {"nobody"}
  PROVE  LET r == Desk!NewRequest(o, reason, by) IN
         /\ r \in DeskRequests /\ r.order = o /\ r.status \in {"pending", "approved"}
         /\ reason = "operator" => r.status = "approved"
         /\ requests \cup {r} \subseteq DeskRequests /\ IsFiniteSet(requests \cup {r})
  <1>1. Cardinality(requests) + 1 \in Nat
    BY FS_CardinalityType DEF DeskShape
  <1>2. Desk!NewRequest(o, reason, by) \in DeskRequests
    BY <1>1, DeskSizes DEF Desk!NewRequest, DeskRequests
  <1>3. IsFiniteSet(requests \cup {Desk!NewRequest(o, reason, by)})
    BY FS_AddElement DEF DeskShape
  <1> QED
    BY <1>2, <1>3 DEF Desk!NewRequest, Desk!AutoApproves, DeskShape

(* Money is queued for an order, and stays as it was for the others.       *)
LEMMA DeskQueues ==
  ASSUME DeskShape, NEW o \in Orders, NEW direct \in BOOLEAN, Desk!EnqueueRefund(o, direct)
  PROVE  /\ money' \in [Orders -> [stage : {"none", "queued", "moved"}, direct : BOOLEAN]]
         /\ money'[o].stage = "queued" /\ money'[o].direct = (money[o].direct \/ direct)
         /\ \A p \in Orders \ {o} : money'[p] = money[p]
  BY DEF DeskShape, Desk!EnqueueRefund

LEMMA DeskAnswers ==
  ASSUME DeskShape, NEW c \in Callers, NEW err, Desk!Answer(c, err)
  PROVE  CallShape'
  BY DEF DeskShape, CallShape, Desk!Answer

(* A row is added for an order that has none open; if it is approved, its  *)
(* money is queued in the same transaction.                                *)
LEMMA DeskAdds ==
  ASSUME DeskInv, DeskShape', NEW o \in Orders, NEW r \in DeskRequests, r.order = o, Open(r),
         Desk!FindOpenByOrder(o) = {}, requests' = requests \cup {r},
         \A p \in Orders : purchase[p].status = "refunded" => purchase'[p].status = "refunded",
         IF r.status = "approved" THEN Desk!EnqueueRefund(o, FALSE) ELSE UNCHANGED money
  PROVE  DeskInv'
  <1>1. OneOpen'
    BY DEF DeskInv, OneOpen, Open, Desk!FindOpenByOrder, Desk!OpenStatuses
  <1>2. \A p \in Orders : Approved(p) \subseteq Approved(p)' /\ (p # o => Approved(p)' = Approved(p))
    BY DEF Approved
  <1>3. CASE r.status = "approved"
    <2>1. r \in Approved(o)'
      BY <1>3 DEF Approved
    <2>2. /\ money'[o].stage = "queued" /\ money'[o].direct = money[o].direct
          /\ \A p \in Orders \ {o} : money'[p] = money[p]
      BY <1>3, DeskQueues DEF DeskInv, DeskShape
    <2>3. ApprovedIsPaid'
      BY <1>2, <2>2 DEF DeskInv, ApprovedIsPaid
    <2>4. MoneyIsAsked'
      BY <1>2, <2>1, <2>2 DEF DeskInv, MoneyIsAsked
    <2> QED
      BY <1>1, <2>3, <2>4 DEF DeskInv
  <1>4. CASE r.status # "approved"
    <2>1. Approved(o)' = Approved(o)
      BY <1>4 DEF Approved
    <2> QED
      BY <1>1, <1>2, <1>4, <2>1 DEF DeskInv, ApprovedIsPaid, MoneyIsAsked
  <1> QED
    BY <1>3, <1>4

LEMMA DeskFileKept ==
  ASSUME DeskInv, NEW c \in Callers, Desk!File(c)
  PROVE  DeskInv'
  <1> DEFINE k == call[c]
             r == Desk!NewRequest(k.order, k.reason, k.who)
  <1>1. k.order \in Orders /\ k.reason \in Desk!Reasons /\ k.who \in People
    BY DEF DeskInv, DeskShape, CallShape, Desk!File
  <1>2. CASE Desk!Taken(k.order)
    BY <1>2, DeskAnswers DEF Desk!File, DeskInv, DeskShape, CallShape, OneOpen, ApprovedIsPaid, MoneyIsAsked, Approved
  <1>3. CASE ~Desk!Taken(k.order)
    <2>1. /\ r \in DeskRequests /\ r.order = k.order /\ Open(r)
          /\ requests \cup {r} \subseteq DeskRequests /\ IsFiniteSet(requests \cup {r})
      BY <1>1, DeskFiles, ZenonT(60) DEF DeskInv, Open
    <2>2. /\ requests' = requests \cup {r} /\ UNCHANGED <<today, show, purchase>>
          /\ Desk!Answer(c, Desk!Nil) /\ Desk!Schedule(r)
      BY <1>3 DEF Desk!File
    <2>3. IF r.status = "approved" THEN Desk!EnqueueRefund(k.order, FALSE) ELSE UNCHANGED money
      BY <2>1, <2>2 DEF Desk!Schedule
    <2>4. DeskShape'
      BY <1>1, <2>1, <2>2, <2>3, DeskQueues, DeskAnswers DEF DeskInv, DeskShape
    <2>5. Desk!FindOpenByOrder(k.order) = {}
      BY <1>3 DEF Desk!Taken
    <2> HIDE DEF k, r
    <2> QED
      BY <1>1, <2>1, <2>2, <2>3, <2>4, <2>5, DeskAdds
  <1> QED
    BY <1>2, <1>3

LEMMA DeskDecideKept ==
  ASSUME DeskInv, NEW c \in Callers, NEW who \in People, NEW r \in requests,
         NEW status \in {"approved", "rejected"}, Desk!Decide(c, who, r, status)
  PROVE  DeskInv'
  <1> DEFINE decided == [r EXCEPT !.status = status, !.decidedBy = who]
  <1>1. CASE ~(Desk!MayDecide(who) = Desk!Nil /\ Desk!Decidable(r))
    BY <1>1, DeskAnswers DEF Desk!Decide, DeskInv, DeskShape, CallShape, OneOpen, ApprovedIsPaid, MoneyIsAsked, Approved
  <1>2. CASE Desk!MayDecide(who) = Desk!Nil /\ Desk!Decidable(r)
    <2>1. r \in DeskRequests /\ r.status = "pending"
      BY <1>2 DEF Desk!Decidable, DeskInv, DeskShape
    <2>2. /\ decided \in DeskRequests /\ decided.order = r.order /\ decided.status = status
      BY <2>1 DEF DeskRequests
    <2>3. /\ requests' = (requests \ {r}) \cup {decided} /\ UNCHANGED <<today, show, purchase>>
          /\ Desk!Answer(c, Desk!Nil) /\ Desk!Schedule(decided)
      BY <1>2 DEF Desk!Decide
    <2> HIDE DEF decided
    <2>4. IF status = "approved" THEN Desk!EnqueueRefund(r.order, FALSE) ELSE UNCHANGED money
      BY <2>2, <2>3 DEF Desk!Schedule
    <2>5. r.order \in Orders
      BY <2>1 DEF DeskRequests
    <2>6. IsFiniteSet(requests')
      BY <2>3, FS_AddElement, FS_RemoveElement DEF DeskInv, DeskShape
    <2>7. DeskShape'
      BY <2>2, <2>3, <2>4, <2>5, <2>6, DeskQueues, DeskAnswers DEF DeskInv, DeskShape
    <2>8. OneOpen'
      BY <2>1, <2>2, <2>3 DEF DeskInv, OneOpen, Open
    <2>9. \A p \in Orders : Approved(p) \subseteq Approved(p)' /\ (p # r.order => Approved(p)' = Approved(p))
      BY <2>1, <2>2, <2>3 DEF Approved
    <2>10. CASE status = "approved"
      <3>1. decided \in Approved(r.order)'
        BY <2>2, <2>3, <2>10 DEF Approved
      <3> QED
        BY <2>3, <2>4, <2>5, <2>7, <2>8, <2>9, <2>10, <3>1, DeskQueues, ZenonT(60) DEF DeskInv, ApprovedIsPaid, MoneyIsAsked
    <2>11. CASE status = "rejected"
      <3>1. Approved(r.order)' = Approved(r.order)
        BY <2>1, <2>2, <2>3, <2>11 DEF Approved
      <3> QED
        BY <2>3, <2>4, <2>7, <2>8, <2>9, <2>11, <3>1 DEF DeskInv, ApprovedIsPaid, MoneyIsAsked
    <2> QED
      BY <2>10, <2>11
  <1> QED
    BY <1>1, <1>2

LEMMA DeskCallKept ==
  ASSUME DeskInv, NEW c \in Callers,
         \/ \E who \in People, o \in Orders, reason \in Desk!Reasons : Desk!Ask(c, who, o, reason)
         \/ Desk!Judge(c) \/ Desk!FileFails(c)
  PROVE  DeskInv'
  <1>1. UNCHANGED <<today, show, purchase, requests, money>>
    BY DEF Desk!Ask, Desk!Judge, Desk!FileFails
  <1>2. CallShape'
    <2>1. CASE \E err : Desk!Answer(c, err)
      BY <2>1, DeskAnswers DEF DeskInv
    <2>2. ASSUME NEW who \in People, NEW o \in Orders, NEW reason \in Desk!Reasons, Desk!Ask(c, who, o, reason)
          PROVE  CallShape'
      <3>1. CASE Desk!MayAct(who, reason) = Desk!Nil
        <4>1. call' = [call EXCEPT ![c] = [stage |-> "judge", who |-> who, order |-> o,
                                           reason |-> reason, item |-> purchase[o]]]
          BY <2>2, <3>1 DEF Desk!Ask
        <4> QED
          BY <4>1 DEF DeskInv, DeskShape, CallShape
      <3>2. CASE Desk!MayAct(who, reason) # Desk!Nil
        BY <2>1, <2>2, <3>2 DEF Desk!Ask
      <3> QED
        BY <3>1, <3>2
    <2>3. CASE Desk!Judge(c)
      BY <2>1, <2>3 DEF Desk!Judge, DeskInv, DeskShape, CallShape
    <2>4. CASE Desk!FileFails(c)
      BY <2>1, <2>4 DEF Desk!FileFails
    <2> QED
      BY <2>2, <2>3, <2>4
  <1> QED
    BY <1>1, <1>2 DEF DeskInv, DeskShape, OneOpen, ApprovedIsPaid, MoneyIsAsked, Approved

LEMMA DeskOrderKept ==
  ASSUME DeskInv, NEW o \in Orders,
         Desk!Pay(o) \/ Desk!OpenOperatorRefund(o) \/ Desk!RequestRefund(o) \/ Desk!GiveBack(o)
  PROVE  DeskInv'
  <1>1. CASE Desk!Pay(o)
    <2>1. DeskShape' /\ UNCHANGED <<requests, money>>
      BY <1>1 DEF Desk!Pay, DeskInv, DeskShape, CallShape, DeskPurchases
    <2>2. \A p \in Orders : purchase[p].status = "refunded" => purchase'[p].status = "refunded"
      BY <1>1 DEF Desk!Pay, DeskInv, DeskShape, CallShape, DeskPurchases
    <2> QED
      BY <2>1, <2>2 DEF DeskInv, OneOpen, ApprovedIsPaid, MoneyIsAsked, Approved
  <1>2. CASE Desk!OpenOperatorRefund(o)
    <2> DEFINE r == Desk!NewRequest(o, "operator", "nobody")
    <2>1. /\ purchase' \in [Orders -> DeskPurchases]
          /\ \A p \in Orders : purchase[p].status = "refunded" => purchase'[p].status = "refunded"
      BY <1>2 DEF Desk!OpenOperatorRefund, DeskInv, DeskShape, DeskPurchases
    <2>2. CASE Desk!Taken(o)
      BY <1>2, <2>1, <2>2 DEF Desk!OpenOperatorRefund, DeskInv, DeskShape, CallShape, OneOpen, ApprovedIsPaid, MoneyIsAsked, Approved
    <2>3. CASE ~Desk!Taken(o)
      <3>1. /\ r \in DeskRequests /\ r.order = o /\ r.status = "approved"
            /\ requests \cup {r} \subseteq DeskRequests /\ IsFiniteSet(requests \cup {r})
        BY DeskFiles, ZenonT(60) DEF DeskInv, Desk!Reasons
      <3>2. requests' = requests \cup {r} /\ Desk!EnqueueRefund(o, FALSE) /\ UNCHANGED <<today, show, call>>
        BY <1>2, <2>3 DEF Desk!OpenOperatorRefund
      <3>3. DeskShape'
        BY <2>1, <3>1, <3>2, DeskQueues DEF DeskInv, DeskShape, CallShape
      <3>4. Desk!FindOpenByOrder(o) = {}
        BY <2>3 DEF Desk!Taken
      <3> HIDE DEF r
      <3> QED
        BY <2>1, <3>1, <3>2, <3>3, <3>4, DeskAdds DEF Open
    <2> QED
      BY <2>2, <2>3
  <1>3. CASE Desk!RequestRefund(o)
    <2>1. UNCHANGED <<today, show, purchase, requests, call>> /\ Desk!EnqueueRefund(o, TRUE)
      BY <1>3 DEF Desk!RequestRefund
    <2> QED
      BY <2>1, DeskQueues, ZenonT(60) DEF DeskInv, DeskShape, CallShape, OneOpen, ApprovedIsPaid, MoneyIsAsked, Approved
  <1>4. CASE Desk!GiveBack(o)
    <2>1. DeskShape' /\ UNCHANGED requests
      BY <1>4 DEF Desk!GiveBack, DeskInv, DeskShape, CallShape, DeskPurchases
    <2>2. /\ purchase'[o].status = "refunded" /\ money[o].stage # "none" /\ money'[o].direct = money[o].direct
          /\ \A p \in Orders \ {o} : purchase'[p] = purchase[p] /\ money'[p] = money[p]
      BY <1>4 DEF Desk!GiveBack, DeskInv, DeskShape, CallShape, DeskPurchases
    <2> QED
      BY <2>1, <2>2 DEF DeskInv, OneOpen, ApprovedIsPaid, MoneyIsAsked, Approved
  <1> QED
    BY <1>1, <1>2, <1>3, <1>4

LEMMA DeskKept == DeskInv /\ [Desk!Next]_deskVars => DeskInv'
  <1> SUFFICES ASSUME DeskInv, [Desk!Next]_deskVars PROVE DeskInv'
    OBVIOUS
  <1>1. CASE \/ Desk!Tick \/ UNCHANGED deskVars
             \/ \E d \in ShowDays, s \in {"published", "cancelled"} : Desk!EditShow(d, s)
    BY <1>1 DEF Desk!Tick, Desk!EditShow, deskVars, DeskInv, DeskShape, CallShape, OneOpen, ApprovedIsPaid, MoneyIsAsked, Approved
  <1>2. CASE \E o \in Orders :
               Desk!Pay(o) \/ Desk!OpenOperatorRefund(o) \/ Desk!RequestRefund(o) \/ Desk!GiveBack(o)
    BY <1>2, DeskOrderKept
  <1>3. CASE \E c \in Callers :
               \/ \E who \in People, o \in Orders, reason \in Desk!Reasons : Desk!Ask(c, who, o, reason)
               \/ Desk!Judge(c) \/ Desk!FileFails(c)
    BY <1>3, DeskCallKept
  <1>4. CASE \E c \in Callers : Desk!File(c)
    BY <1>4, DeskFileKept
  <1>5. CASE \E c \in Callers, who \in People, r \in requests, s \in {"approved", "rejected"} :
               Desk!Decide(c, who, r, s)
    BY <1>5, DeskDecideKept
  <1> QED
    BY <1>1, <1>2, <1>3, <1>4, <1>5 DEF Desk!Next

(* At most one open request an order is a count of at most one.            *)
LEMMA DeskSafe == DeskInv => Desk!RequestsAccountable
  <1> SUFFICES ASSUME DeskInv, NEW o \in Orders
               PROVE  /\ Desk!Cardinality(Desk!FindOpenByOrder(o)) <= 1
                      /\ Approved(o) # {} => money[o].stage = "queued" \/ purchase[o].status = "refunded"
                      /\ money[o].stage # "none" => Approved(o) # {} \/ money[o].direct
    BY DEF Desk!RequestsAccountable, Approved
  <1>1. \A r, s \in Desk!FindOpenByOrder(o) : r = s
    BY DEF DeskInv, OneOpen, Open, Desk!FindOpenByOrder, Desk!OpenStatuses
  <1>2. Desk!FindOpenByOrder(o) = {} \/ \E r : Desk!FindOpenByOrder(o) = {r}
    BY <1>1
  <1>3. Cardinality(Desk!FindOpenByOrder(o)) <= 1
    <2>1. CASE Desk!FindOpenByOrder(o) = {}
      BY <2>1, FS_EmptySet
    <2>2. ASSUME NEW r, Desk!FindOpenByOrder(o) = {r} PROVE Cardinality(Desk!FindOpenByOrder(o)) = 1
      BY <2>2, FS_Singleton
    <2>3. CASE \E r : Desk!FindOpenByOrder(o) = {r}
      <3>1. Cardinality(Desk!FindOpenByOrder(o)) = 1
        BY <2>2, <2>3
      <3> QED
        BY <3>1
    <2> QED
      BY <1>2, <2>1, <2>3
  <1> QED
    BY <1>3, DeskSizes DEF DeskInv, ApprovedIsPaid, MoneyIsAsked

LEMMA DeskDecides == DeskInv /\ [Desk!Next]_deskVars => Desk!DecisionKept
  <1> SUFFICES ASSUME DeskInv, [Desk!Next]_deskVars PROVE Desk!DecisionKept
    OBVIOUS
  <1>1. CASE requests \subseteq requests'
    BY <1>1 DEF Desk!DecisionKept
  <1>2. ASSUME NEW c \in Callers, NEW who \in People, NEW r \in requests, NEW status \in {"approved", "rejected"},
               Desk!Decide(c, who, r, status), ~(requests \subseteq requests')
        PROVE  Desk!DecisionKept
    <2> DEFINE decided == [r EXCEPT !.status = status, !.decidedBy = who]
    <2>1. r.status = "pending" /\ requests' = (requests \ {r}) \cup {decided}
      BY <1>2 DEF Desk!Decide, Desk!Decidable
    <2>2. /\ decided.id = r.id /\ decided.order = r.order /\ decided.reason = r.reason /\ decided.by = r.by
          /\ decided \in requests'
      BY <2>1 DEF DeskInv, DeskShape, DeskRequests
    <2> HIDE DEF decided
    <2> QED
      BY <2>1, <2>2 DEF Desk!DecisionKept
  <1>3. requests \subseteq requests' \/ \E c \in Callers, who \in People, r \in requests, s \in {"approved", "rejected"} :
               Desk!Decide(c, who, r, s)
    BY DEF Desk!Next, Desk!Tick, Desk!EditShow, Desk!Pay, Desk!OpenOperatorRefund, Desk!RequestRefund, Desk!GiveBack,
           Desk!Ask, Desk!Judge, Desk!File, Desk!FileFails, deskVars
  <1> QED
    BY <1>1, <1>2, <1>3

-----------------------------------------------------------------------------
(* Accounts.                                                               *)

Letters == [purpose : {"sign_in"}, to : Addresses, user : {idle},
            attempts : 0..MaxCodeAttempts, consumed : BOOLEAN, created : Nat]
Texts == [purpose : {"phone"}, to : Phones, user : Ids,
          attempts : 0..MaxCodeAttempts, consumed : BOOLEAN, created : Nat]
Challenges == Letters \cup Texts
Guessed == [stage : {"spend", "count"}, code : Codes, owner : Ids \cup {idle}, row : Challenges]
Written == [stage : {"write"}, user : Ids, next : [phone : Phones] \cup [document : {idle, "cpf"}],
            profile : Users!Profiles]
UsersHands ==
    [stage : {"free"}]
    \cup [stage : {"send"}, purpose : {"sign_in"}, to : Addresses, user : {idle}]
    \cup [stage : {"send"}, purpose : {"phone"}, to : Phones, user : Ids]
    \cup Guessed
    \cup [stage : {"find", "create", "again"}, to : Users!Emails]
    \cup [stage : {"prove"}, to : Phones, user : Ids]
    \cup Written
UsersShape ==
    /\ acctClock \in AccountMoments
    /\ challenges \in [Codes -> Challenges \cup {idle}]
    /\ users \in [Ids -> Users!Profiles \cup {idle}]
    /\ sessions \subseteq Ids \X Users!Emails
    /\ acctDesk \in [Callers -> UsersHands]

OneEach ==
    \A u, v \in Ids : users[u] # idle /\ users[v] # idle =>
        /\ users[u].email = users[v].email => u = v
        /\ users[u].document # idle /\ users[u].document = users[v].document => u = v
SignedIn == \A s \in sessions : users[s[1]] # idle /\ users[s[1]].email = s[2]
PhonesProven == \A u \in Ids : users[u] # idle /\ users[u].phone # idle => <<u, users[u].phone>> \in proved
(* What a request holds between two statements is what the tables said.    *)
HandHonest(k) ==
    /\ k.stage \in {"spend", "count"} =>
          /\ k.row.attempts < MaxCodeAttempts
          /\ k.row.purpose = "phone" => k.owner \in Ids /\ users[k.owner] # idle
    /\ k.stage = "prove" => users[k.user] # idle /\ <<k.user, k.to>> \in proved
    /\ k.stage = "write" =>
          /\ users[k.user] # idle /\ users[k.user].email = k.profile.email
          /\ k.profile.phone # idle => <<k.user, k.profile.phone>> \in proved
          /\ "phone" \in DOMAIN k.next => <<k.user, k.next.phone>> \in proved
HandsHonest == \A c \in Callers : HandHonest(acctDesk[c])
UsersInv == UsersShape /\ OneEach /\ SignedIn /\ PhonesProven /\ HandsHonest

LEMMA NoAccountIsIdle == \A p \in Users!Profiles : p # idle
  BY OfficeAssumption DEF Users!AccountAssumption

LEMMA NewAccounts ==
  ASSUME NEW a \in Users!Emails
  PROVE  /\ Users!NewAccount(a) \in Users!Profiles /\ Users!NewAccount(a).email = a
         /\ Users!NewAccount(a).phone = idle /\ Users!NewAccount(a).document = idle
  BY DEF Users!NewAccount, Users!Profiles

LEMMA UsersStart == Users!Init => UsersInv
  <1> SUFFICES ASSUME Users!Init PROVE UsersInv
    OBVIOUS
  <1>1. \A u \in DOMAIN Members : Members[u] \in Users!Emails
    BY DEF Users!Emails
  <1>2. UsersShape
    BY OfficeAssumption, <1>1, NewAccounts DEF Users!Init, Users!AccountAssumption, Users!Free, UsersShape, UsersHands
  <1>3. \A u \in Ids : users[u] # idle => u \in DOMAIN Members /\ users[u] = Users!NewAccount(Members[u])
    BY DEF Users!Init
  <1>4. OneEach /\ PhonesProven
    BY OfficeAssumption, <1>1, <1>3, NewAccounts DEF OneEach, PhonesProven, Users!AccountAssumption
  <1> QED
    BY <1>2, <1>4 DEF UsersInv, SignedIn, HandsHonest, HandHonest, Users!Init, Users!Free

(* A request takes something in hand; the others hold what they held.      *)
LEMMA UsersHanded ==
  ASSUME UsersInv, NEW c \in Callers, NEW r \in UsersHands, Users!InHand(c, r),
         UNCHANGED users, proved \subseteq proved', HandHonest(r)'
  PROVE  acctDesk' \in [Callers -> UsersHands] /\ HandsHonest'
  <1>1. acctDesk' = [acctDesk EXCEPT ![c] = r] /\ acctDesk \in [Callers -> UsersHands]
    BY DEF Users!InHand, UsersInv, UsersShape
  <1>2. acctDesk' \in [Callers -> UsersHands] /\ acctDesk'[c] = r
    BY <1>1
  <1>3. ASSUME NEW d \in Callers \ {c} PROVE HandHonest(acctDesk[d])'
    <2>1. acctDesk'[d] = acctDesk[d] /\ HandHonest(acctDesk[d])
      BY <1>1 DEF UsersInv, HandsHonest
    <2> QED
      BY <2>1 DEF HandHonest
  <1>4. HandHonest(acctDesk[c])'
    BY <1>2 DEF HandHonest
  <1> QED
    BY <1>2, <1>3, <1>4 DEF HandsHonest

LEMMA FreeHands ==
  /\ Users!Free \in UsersHands /\ HandHonest(Users!Free)'
  BY DEF Users!Free, UsersHands, HandHonest

(* A step on nothing but what is in hand, and on more being proven.        *)
LEMMA UsersQuiet ==
  ASSUME UsersInv, UNCHANGED <<acctClock, users, sessions>>, proved \subseteq proved',
         challenges' \in [Codes -> Challenges \cup {idle}],
         acctDesk' \in [Callers -> UsersHands], HandsHonest'
  PROVE  UsersInv'
  BY DEF UsersInv, UsersShape, OneEach, SignedIn, PhonesProven

LEMMA ChallengeKept ==
  ASSUME UsersInv, NEW c \in Callers,
         \/ \E a \in Addresses : Users!StartEmailSignIn(c, a)
         \/ \E u \in Ids, phone \in Phones : Users!StartPhoneVerification(c, u, phone)
         \/ \E k \in Codes : Users!Send(c, k)
         \/ \E k \in Codes, right \in BOOLEAN : Users!Present(c, k, "sign_in", idle, right)
         \/ \E k \in Codes, u \in Ids : users[u] # idle /\ Users!Present(c, k, "phone", u, TRUE)
         \/ Users!Count(c)
  PROVE  UsersInv'
  <1>1. ASSUME NEW purpose, NEW to, NEW u, Users!Start(c, purpose, to, u),
               \/ purpose = "sign_in" /\ to \in Addresses /\ u = idle
               \/ purpose = "phone" /\ to \in Phones /\ u \in Ids
        PROVE  UsersInv'
    <2> DEFINE r == [stage |-> "send", purpose |-> purpose, to |-> to, user |-> u]
    <2>1. r \in UsersHands /\ HandHonest(r)'
      BY <1>1 DEF UsersHands, HandHonest
    <2>2. CASE Users!InHand(c, r)
      BY <1>1, <2>1, <2>2, UsersHanded, UsersQuiet DEF Users!Start, UsersInv, UsersShape
    <2>3. CASE UNCHANGED acctDesk
      BY <1>1, <2>3 DEF Users!Start, UsersInv, UsersShape, OneEach, SignedIn, PhonesProven, HandsHonest, HandHonest
    <2> QED
      BY <1>1, <2>2, <2>3 DEF Users!Start
  <1>2. ASSUME NEW k \in Codes, Users!Send(c, k) PROVE UsersInv'
    <2>1. acctDesk[c] \in UsersHands /\ acctDesk[c].stage = "send"
      BY <1>2 DEF Users!Send, UsersInv, UsersShape
    <2>2. [purpose |-> acctDesk[c].purpose, to |-> acctDesk[c].to, user |-> acctDesk[c].user,
           attempts |-> 0, consumed |-> FALSE, created |-> acctClock] \in Challenges
      BY <2>1, OfficeAssumption DEF UsersHands, Guessed, Written, Challenges, Letters, Texts, Users!AccountAssumption, UsersInv, UsersShape
    <2>3. challenges' \in [Codes -> Challenges \cup {idle}]
      BY <1>2, <2>2 DEF Users!Send, UsersInv, UsersShape
    <2> QED
      BY <1>2, <2>3, UsersHanded, UsersQuiet, FreeHands DEF Users!Send, Users!Answer
  <1>3. ASSUME NEW k \in Codes, NEW right \in BOOLEAN, NEW purpose \in {"sign_in", "phone"}, NEW owner \in Ids \cup {idle},
               purpose = "phone" => owner \in Ids /\ users[owner] # idle,
               Users!Present(c, k, purpose, owner, right)
        PROVE  UsersInv'
    <2>0. PICK r : r = [stage |-> IF right THEN "spend" ELSE "count", code |-> k, owner |-> owner,
                        row |-> challenges[k]]
      OBVIOUS
    <2>1. challenges[k] \in Challenges
      BY <1>3 DEF Users!Present, UsersInv, UsersShape
    <2>2. CASE challenges[k].purpose = purpose /\ Users!Live(k)
      <3>1. r \in UsersHands
        BY <2>0, <2>1 DEF UsersHands, Guessed
      <3>2. HandHonest(r)'
        BY <1>3, <2>0, <2>2 DEF HandHonest, Users!Live, Users!Present
      <3>3. Users!InHand(c, r) /\ UNCHANGED <<acctClock, challenges, users, sessions, proved>>
        BY <1>3, <2>0, <2>2, SMTT(30) DEF Users!Present
      <3> QED
        BY <3>1, <3>2, <3>3, UsersHanded, UsersQuiet DEF UsersInv, UsersShape
    <2>3. CASE ~(challenges[k].purpose = purpose /\ Users!Live(k))
      BY <1>3, <2>3, SMTT(30) DEF Users!Present, UsersInv, UsersShape, OneEach, SignedIn, PhonesProven, HandsHonest, HandHonest
    <2> QED
      BY <2>2, <2>3
  <1>4. CASE Users!Count(c)
    <2>1. /\ acctDesk[c].row \in Challenges /\ acctDesk[c].code \in Codes
          /\ acctDesk[c].row.attempts < MaxCodeAttempts
      BY <1>4 DEF Users!Count, UsersInv, UsersShape, UsersHands, Guessed, Written, HandsHonest, HandHonest
    <2>2. acctDesk[c].row.attempts + 1 \in 0..MaxCodeAttempts /\ acctDesk[c].row.consumed \in BOOLEAN
      BY <2>1, OfficeAssumption DEF Users!AccountAssumption, Challenges, Letters, Texts
    <2>3. challenges' \in [Codes -> Challenges \cup {idle}]
      <3> DEFINE k == acctDesk[c].code
                 counted == [challenges[k] EXCEPT !.attempts = acctDesk[c].row.attempts + 1,
                                                  !.consumed = acctDesk[c].row.consumed]
      <3>1. CASE challenges[k] = idle
        BY <1>4, <3>1 DEF Users!Count, UsersInv, UsersShape
      <3>2. CASE challenges[k] # idle
        <4>1. challenges[k] \in Challenges
          BY <2>1, <3>2 DEF UsersInv, UsersShape
        <4>2. counted \in Challenges
          BY <2>2, <4>1 DEF Challenges, Letters, Texts
        <4>3. challenges' = [challenges EXCEPT ![k] = counted]
          BY <1>4, <2>1, <3>2 DEF Users!Count, UsersInv, UsersShape
        <4> QED
          BY <4>2, <4>3 DEF UsersInv, UsersShape
      <3> QED
        BY <3>1, <3>2
    <2> QED
      BY <1>4, <2>3, UsersHanded, UsersQuiet, FreeHands DEF Users!Count, Users!Answer
  <1> QED
    BY <1>1, <1>2, <1>3, <1>4 DEF Users!StartEmailSignIn, Users!StartPhoneVerification

LEMMA SpendKept ==
  ASSUME UsersInv, NEW c \in Callers, Users!Spend(c)
  PROVE  UsersInv'
  <1> DEFINE k == acctDesk[c].code
             row_ == acctDesk[c].row
             owner == acctDesk[c].owner
  <1>1. /\ row_ \in Challenges /\ k \in Codes /\ owner \in Ids \cup {idle}
        /\ row_.purpose = "phone" => owner \in Ids /\ users[owner] # idle
    BY DEF Users!Spend, UsersInv, UsersShape, UsersHands, Guessed, Written, HandsHonest, HandHonest
  <1>2. CASE challenges[k] = idle
    <2>1. UNCHANGED <<acctClock, challenges, users, sessions, proved>> /\ Users!InHand(c, Users!Free)
      BY <1>2 DEF Users!Spend, Users!Answer
    <2> QED
      BY <2>1, UsersHanded, UsersQuiet, FreeHands DEF UsersInv, UsersShape
  <1>3. CASE challenges[k] # idle
    <2>1. /\ challenges' = [challenges EXCEPT ![k].consumed = TRUE, ![k].attempts = row_.attempts]
          /\ proved' = proved \cup {<<row_.user, row_.to>>}
          /\ UNCHANGED <<acctClock, users, sessions>>
      BY <1>3 DEF Users!Spend
    <2>2. challenges' \in [Codes -> Challenges \cup {idle}]
      <3>1. challenges[k] \in Challenges
        BY <1>1, <1>3 DEF UsersInv, UsersShape
      <3>2. [challenges[k] EXCEPT !.consumed = TRUE, !.attempts = row_.attempts] \in Challenges
        BY <1>1, <3>1 DEF Challenges, Letters, Texts
      <3>3. challenges' = [challenges EXCEPT ![k] = [challenges[k] EXCEPT !.consumed = TRUE, !.attempts = row_.attempts]]
        BY <1>1, <2>1 DEF UsersInv, UsersShape
      <3> QED
        BY <3>2, <3>3 DEF UsersInv, UsersShape
    <2>3. CASE row_.purpose = "sign_in"
      <3>0. PICK r : r = [stage |-> "find", to |-> row_.to]
        OBVIOUS
      <3>1. Users!InHand(c, r)
        BY <1>3, <2>3, <3>0 DEF Users!Spend
      <3>2. r \in UsersHands /\ HandHonest(r)'
        BY <1>1, <2>3, <3>0, SMTT(30) DEF UsersHands, HandHonest, Challenges, Letters, Texts, Users!Emails
      <3> QED
        BY <2>1, <2>2, <3>1, <3>2, UsersHanded, UsersQuiet
    <2>4. CASE row_.purpose # "sign_in" /\ Users!PhoneOf(row_, owner) = idle
      <3>1. Users!InHand(c, Users!Free)
        BY <1>3, <2>4 DEF Users!Spend, Users!Answer
      <3> QED
        BY <2>1, <2>2, <3>1, UsersHanded, UsersQuiet, FreeHands
    <2>5. CASE row_.purpose # "sign_in" /\ Users!PhoneOf(row_, owner) # idle
      <3>0. PICK r : r = [stage |-> "prove", to |-> row_.to, user |-> Users!PhoneOf(row_, owner)]
        OBVIOUS
      <3>1. Users!InHand(c, r)
        BY <1>3, <2>5, <3>0 DEF Users!Spend
      <3>2. row_.purpose = "phone" /\ row_.to \in Phones /\ Users!PhoneOf(row_, owner) = row_.user /\ owner = row_.user
        BY <1>1, <2>5 DEF Challenges, Letters, Texts, Users!PhoneOf
      <3>3. r \in UsersHands
        BY <1>1, <3>0, <3>2 DEF UsersHands
      <3>4. HandHonest(r)'
        BY <1>1, <2>1, <3>0, <3>2 DEF HandHonest
      <3> QED
        BY <2>1, <2>2, <3>1, <3>3, <3>4, UsersHanded, UsersQuiet
    <2> QED
      BY <2>3, <2>4, <2>5
  <1> QED
    BY <1>2, <1>3

LEMMA SignInKept ==
  ASSUME UsersInv, NEW c \in Callers,
         Users!FindByEmail(c) \/ \E u \in Ids : Users!Create(c, u)
  PROVE  UsersInv'
  <1> DEFINE to == acctDesk[c].to
  <1>1. to \in Users!Emails
    BY DEF Users!FindByEmail, Users!Create, UsersInv, UsersShape, UsersHands, Guessed, Written
  <1>2. CASE Users!FindByEmail(c)
    <2>1. UNCHANGED <<acctClock, challenges, users, proved>>
      BY <1>2 DEF Users!FindByEmail
    <2>2. CASE Users!ByEmail(to) # {}
      <3>1. sessions' = sessions \cup (Users!ByEmail(to) \X {to}) /\ Users!InHand(c, Users!Free)
        BY <1>2, <2>2 DEF Users!FindByEmail, Users!Answer
      <3>2. acctDesk' \in [Callers -> UsersHands] /\ HandsHonest'
        BY <2>1, <3>1, UsersHanded, FreeHands
      <3>3. UsersShape'
        BY <1>1, <2>1, <3>1, <3>2 DEF UsersInv, UsersShape, Users!ByEmail
      <3>4. SignedIn'
        BY <2>1, <3>1 DEF UsersInv, SignedIn, Users!ByEmail
      <3> QED
        BY <2>1, <3>2, <3>3, <3>4 DEF UsersInv, OneEach, PhonesProven
    <2>3. CASE Users!ByEmail(to) = {}
      <3>0. PICK r : r = [stage |-> "create", to |-> to]
        OBVIOUS
      <3>1. Users!InHand(c, r) /\ UNCHANGED sessions
        BY <1>2, <2>3, <3>0 DEF Users!FindByEmail
      <3>2. r \in UsersHands /\ HandHonest(r)'
        BY <1>1, <3>0 DEF UsersHands, HandHonest
      <3> QED
        BY <2>1, <3>1, <3>2, UsersHanded, UsersQuiet DEF UsersInv, UsersShape
    <2> QED
      BY <2>2, <2>3
  <1>3. ASSUME NEW u \in Ids, Users!Create(c, u) PROVE UsersInv'
    <2>1. users[u] = idle /\ UNCHANGED <<acctClock, challenges, proved>>
      BY <1>3 DEF Users!Create
    <2>2. CASE Users!EmailFree(to)
      <3>1. /\ users' = [users EXCEPT ![u] = Users!NewAccount(to)]
            /\ sessions' = sessions \cup {<<u, to>>}
            /\ acctDesk' = [acctDesk EXCEPT ![c] = Users!Free]
        BY <1>3, <2>2 DEF Users!Create, Users!Answer, Users!InHand
      <3>2. /\ Users!NewAccount(to) \in Users!Profiles /\ Users!NewAccount(to) # idle
            /\ Users!NewAccount(to).email = to /\ Users!NewAccount(to).phone = idle
            /\ Users!NewAccount(to).document = idle
        BY <1>1, NewAccounts, NoAccountIsIdle
      <3>3. users'[u] = Users!NewAccount(to) /\ \A v \in Ids \ {u} : users'[v] = users[v]
        BY <3>1 DEF UsersInv, UsersShape
      <3>4. UsersShape'
        BY <1>1, <2>1, <3>1, <3>2, FreeHands DEF UsersInv, UsersShape
      <3>5. \A v \in Ids : users[v] # idle => users[v].email # to
        BY <2>2 DEF Users!EmailFree, Users!ByEmail
      <3>6. OneEach'
        BY <3>2, <3>3, <3>5 DEF UsersInv, OneEach
      <3>7. SignedIn'
        BY <2>1, <3>1, <3>2, <3>3 DEF UsersInv, UsersShape, SignedIn
      <3>8. PhonesProven'
        BY <2>1, <3>2, <3>3 DEF UsersInv, PhonesProven
      <3>9. HandsHonest'
        <4>1. ASSUME NEW d \in Callers PROVE HandHonest(acctDesk[d])'
          <5>1. acctDesk[d] \in UsersHands /\ HandHonest(acctDesk[d])
            BY DEF UsersInv, UsersShape, HandsHonest
          <5>2. acctDesk'[d] = acctDesk[d] \/ acctDesk'[d] = Users!Free
            BY <3>1 DEF UsersInv, UsersShape
          <5>3. acctDesk[d].stage \in {"prove", "write"} => acctDesk[d].user \in Ids /\ acctDesk[d].user # u
            BY <2>1, <5>1 DEF UsersHands, Guessed, Written, HandHonest
          <5>4. acctDesk[d].stage \in {"spend", "count"} /\ acctDesk[d].row.purpose = "phone" => acctDesk[d].owner # u
            BY <2>1, <5>1 DEF HandHonest
          <5> QED
            BY <2>1, <3>3, <5>1, <5>2, <5>3, <5>4 DEF HandHonest, Users!Free
        <4> QED
          BY <4>1 DEF HandsHonest
      <3> QED
        BY <3>4, <3>6, <3>7, <3>8, <3>9 DEF UsersInv
    <2>3. CASE ~Users!EmailFree(to)
      <3>0. PICK r : r = [stage |-> "again", to |-> to]
        OBVIOUS
      <3>1. Users!InHand(c, r) /\ UNCHANGED <<users, sessions>>
        BY <1>3, <2>3, <3>0 DEF Users!Create
      <3>2. r \in UsersHands /\ HandHonest(r)'
        BY <1>1, <3>0 DEF UsersHands, HandHonest
      <3> QED
        BY <2>1, <3>1, <3>2, UsersHanded, UsersQuiet DEF UsersInv, UsersShape
    <2> QED
      BY <2>2, <2>3
  <1> QED
    BY <1>2, <1>3

LEMMA ProfileReadKept ==
  ASSUME UsersInv, NEW c \in Callers, NEW u \in Ids, users[u] # idle,
         NEW next \in [phone : Phones] \cup [document : {idle, "cpf"}],
         "phone" \in DOMAIN next => <<u, next.phone>> \in proved,
         Users!ReadProfile(c, u, next), UNCHANGED <<acctClock, challenges, users, sessions, proved>>
  PROVE  UsersInv'
  <1>0. PICK r : r = [stage |-> "write", user |-> u, next |-> next, profile |-> users[u]]
    OBVIOUS
  <1>1. users[u] \in Users!Profiles
    BY DEF UsersInv, UsersShape
  <1>2. r \in UsersHands
    BY <1>0, <1>1 DEF UsersHands, Written
  <1>3. HandHonest(r)'
    BY <1>0 DEF HandHonest, UsersInv, PhonesProven
  <1>4. Users!InHand(c, r)
    BY <1>0 DEF Users!ReadProfile
  <1> QED
    BY <1>2, <1>3, <1>4, UsersHanded, UsersQuiet DEF UsersInv, UsersShape

LEMMA SaveProfileKept ==
  ASSUME UsersInv, NEW c \in Callers, Users!SaveProfile(c)
  PROVE  UsersInv'
  <1> DEFINE k == acctDesk[c]
             u == k.user
             written == IF "phone" \in DOMAIN k.next
                        THEN [k.profile EXCEPT !.phone = k.next.phone]
                        ELSE [k.profile EXCEPT !.document = k.next.document,
                                               !.completed = IF @ = idle THEN acctClock ELSE @]
  <1>1. k \in Written /\ u \in Ids /\ k.profile \in Users!Profiles /\ acctClock \in AccountMoments
    BY DEF Users!SaveProfile, UsersInv, UsersShape, UsersHands, Guessed, Written
  <1>2. /\ users[u] # idle /\ users[u].email = k.profile.email
        /\ k.profile.phone # idle => <<u, k.profile.phone>> \in proved
        /\ "phone" \in DOMAIN k.next => <<u, k.next.phone>> \in proved
    BY DEF Users!SaveProfile, UsersInv, HandsHonest, HandHonest
  <1>3. /\ written \in Users!Profiles /\ written.email = users[u].email
        /\ written.phone # idle => <<u, written.phone>> \in proved
    <2>1. CASE "phone" \in DOMAIN k.next
      <3>1. k.next.phone \in Phones
        BY <1>1, <2>1 DEF Written
      <3> QED
        BY <1>1, <1>2, <2>1, <3>1 DEF Users!Profiles
    <2>2. CASE "phone" \notin DOMAIN k.next
      <3>1. k.next.document \in {idle, "cpf"}
        BY <1>1, <2>2 DEF Written
      <3> QED
        BY <1>1, <1>2, <2>2, <3>1 DEF Users!Profiles
    <2> QED
      BY <2>1, <2>2
  <1>4. /\ users' = IF Users!DocumentFree(written.document, u) THEN [users EXCEPT ![u] = written] ELSE users
        /\ acctDesk' = [acctDesk EXCEPT ![c] = Users!Free]
        /\ UNCHANGED <<acctClock, challenges, sessions, proved>>
    BY DEF Users!SaveProfile, Users!Answer, Users!InHand
  <1> HIDE DEF written
  <1>5. written # idle
    BY <1>3, NoAccountIsIdle
  <1>6. /\ users' \in [Ids -> Users!Profiles \cup {idle}]
        /\ \A v \in Ids : users[v] # idle => users'[v] # idle /\ users'[v].email = users[v].email
        /\ \A v \in Ids : users[v] = idle => users'[v] = idle
        /\ \A v \in Ids \ {u} : users'[v] = users[v]
        /\ users'[u] = users[u] \/ users'[u] = written
    BY <1>1, <1>2, <1>3, <1>4, <1>5 DEF UsersInv, UsersShape
  <1>7. UsersShape'
    BY <1>4, <1>6, FreeHands DEF UsersInv, UsersShape
  <1>8. OneEach'
    <2>1. CASE Users!DocumentFree(written.document, u)
      <3>1. \A v \in Ids \ {u} : written.document # idle /\ users[v] # idle => users[v].document # written.document
        BY <2>1 DEF Users!DocumentFree
      <3>2. users'[u] = written
        BY <1>1, <1>4, <2>1 DEF UsersInv, UsersShape
      <3> QED
        BY <1>6, <3>1, <3>2 DEF UsersInv, OneEach
    <2>2. CASE ~Users!DocumentFree(written.document, u)
      BY <1>4, <2>2 DEF UsersInv, OneEach
    <2> QED
      BY <2>1, <2>2
  <1>9. SignedIn'
    BY <1>4, <1>6 DEF UsersInv, UsersShape, SignedIn
  <1>10. PhonesProven'
    BY <1>3, <1>4, <1>6 DEF UsersInv, PhonesProven
  <1>11. HandsHonest'
    <2>1. ASSUME NEW d \in Callers PROVE HandHonest(acctDesk[d])'
      <3>1. acctDesk[d] \in UsersHands /\ HandHonest(acctDesk[d])
        BY DEF UsersInv, UsersShape, HandsHonest
      <3>2. acctDesk'[d] = acctDesk[d] \/ acctDesk'[d] = Users!Free
        BY <1>4 DEF UsersInv, UsersShape
      <3>3. acctDesk[d].stage \in {"prove", "write"} => acctDesk[d].user \in Ids
        BY <3>1 DEF UsersHands, Guessed, Written
      <3> QED
        BY <1>4, <1>6, <3>1, <3>2, <3>3 DEF HandHonest, Users!Free
    <2> QED
      BY <2>1 DEF HandsHonest
  <1> QED
    BY <1>7, <1>8, <1>9, <1>10, <1>11 DEF UsersInv

LEMMA ProfileKept ==
  ASSUME UsersInv, NEW c \in Callers,
         Users!VerifyPhone(c) \/ \E u \in Ids, document \in {idle, "cpf"} : Users!Save(c, u, document)
  PROVE  UsersInv'
  <1>1. CASE Users!VerifyPhone(c)
    <2>1. /\ acctDesk[c].user \in Ids /\ acctDesk[c].to \in Phones
          /\ users[acctDesk[c].user] # idle /\ <<acctDesk[c].user, acctDesk[c].to>> \in proved
      BY <1>1 DEF Users!VerifyPhone, UsersInv, UsersShape, UsersHands, Guessed, Written, HandsHonest, HandHonest
    <2>2. [phone |-> acctDesk[c].to] \in [phone : Phones]
      BY <2>1
    <2> QED
      BY <1>1, <2>1, <2>2, ProfileReadKept DEF Users!VerifyPhone
  <1>2. ASSUME NEW u \in Ids, NEW document \in {idle, "cpf"}, Users!Save(c, u, document) PROVE UsersInv'
    <2> DEFINE next == [document |-> IF document = idle THEN users[u].document ELSE document]
    <2>1. CASE document = idle /\ users[u].completed = idle
      BY <1>2, <2>1 DEF Users!Save, UsersInv, UsersShape, OneEach, SignedIn, PhonesProven, HandsHonest, HandHonest
    <2>2. CASE ~(document = idle /\ users[u].completed = idle)
      <3>1. /\ users[u] # idle /\ Users!ReadProfile(c, u, next)
            /\ UNCHANGED <<acctClock, challenges, users, sessions, proved>>
        BY <1>2, <2>2 DEF Users!Save
      <3>2. users[u].document \in {idle, "cpf"}
        BY <3>1 DEF UsersInv, UsersShape, Users!Profiles
      <3>3. next \in [document : {idle, "cpf"}] /\ "phone" \notin DOMAIN next
        BY <3>2
      <3> HIDE DEF next
      <3> QED
        BY <3>1, <3>3, ProfileReadKept
    <2> QED
      BY <2>1, <2>2
  <1> QED
    BY <1>1, <1>2

LEMMA UsersKept == UsersInv /\ [Users!Next]_membersVars => UsersInv'
  <1> SUFFICES ASSUME UsersInv, [Users!Next]_membersVars PROVE UsersInv'
    OBVIOUS
  <1>1. CASE Users!Tick \/ UNCHANGED membersVars
    BY <1>1 DEF Users!Tick, membersVars, UsersInv, UsersShape, OneEach, SignedIn, PhonesProven, HandsHonest, HandHonest
  <1>2. CASE Users!DeleteOlderThan
    <2>1. challenges' \in [Codes -> Challenges \cup {idle}]
      BY <1>2 DEF Users!DeleteOlderThan, UsersInv, UsersShape
    <2> QED
      BY <1>2, <2>1, UsersQuiet DEF Users!DeleteOlderThan, UsersInv, UsersShape, HandsHonest, HandHonest
  <1>3. ASSUME NEW c \in Callers,
         \/ \E a \in Addresses : Users!StartEmailSignIn(c, a)
         \/ \E u \in Ids, phone \in Phones : Users!StartPhoneVerification(c, u, phone)
         \/ \E k \in Codes : Users!Send(c, k)
         \/ \E k \in Codes, right \in BOOLEAN : Users!Present(c, k, "sign_in", idle, right)
         \/ \E k \in Codes, u \in Ids : users[u] # idle /\ Users!Present(c, k, "phone", u, TRUE)
         \/ Users!Count(c)
        PROVE UsersInv'
    BY <1>3, ChallengeKept
  <1>4. ASSUME NEW c \in Callers, Users!Spend(c) PROVE UsersInv'
    BY <1>4, SpendKept
  <1>5. ASSUME NEW c \in Callers, Users!FindByEmail(c) \/ \E u \in Ids : Users!Create(c, u) PROVE UsersInv'
    BY <1>5, SignInKept
  <1>6. ASSUME NEW c \in Callers,
          Users!VerifyPhone(c) \/ \E u \in Ids, document \in {idle, "cpf"} : Users!Save(c, u, document)
        PROVE UsersInv'
    BY <1>6, ProfileKept
  <1>7. ASSUME NEW c \in Callers, Users!SaveProfile(c) PROVE UsersInv'
    BY <1>7, SaveProfileKept
  <1> QED
    BY <1>1, <1>2, <1>3, <1>4, <1>5, <1>6, <1>7 DEF Users!Next

LEMMA UsersSafe == UsersInv => Users!IdentityProven
  BY DEF UsersInv, OneEach, SignedIn, PhonesProven, Users!IdentityProven

-----------------------------------------------------------------------------
(* Multiples of a period.                                                  *)
LEMMA DivMod ==
  ASSUME NEW E \in Nat \ {0}, NEW a \in Int
  PROVE  \E k \in Int, r \in 0..(E - 1) : a \div E = k /\ a % E = r /\ a = E * k + r
  <1>1. PICK k \in Int : k = a \div E
    OBVIOUS
  <1>2. PICK r \in 0..(E - 1) : r = a % E
    OBVIOUS
  <1>3. a = E * k + r
    BY <1>1, <1>2
  <1> QED
    BY <1>1, <1>2, <1>3

LEMMA Stretch ==
  ASSUME NEW E \in Nat \ {0}, NEW d \in Int
  PROVE  /\ E * d \in Int
         /\ d >= 1 => E * d >= E
         /\ d <= -1 => E * d <= -E
         /\ d = 0 => E * d = 0
  OBVIOUS

LEMMA MultipleOf ==
  ASSUME NEW E \in Nat \ {0}, NEW q \in Int
  PROVE  (E * q) % E = 0
  <1>1. PICK k \in Int, r \in 0..(E - 1) : (E * q) % E = r /\ E * q = E * k + r
    BY DivMod
  <1>2. E * (q - k) = r
    BY <1>1
  <1>3. q - k = 0
    BY <1>1, <1>2, Stretch
  <1> QED
    BY <1>1, <1>2, <1>3, Stretch

LEMMA NextMultiple ==
  ASSUME NEW E \in Nat \ {0}, NEW c \in Nat
  PROVE  LET n == (c \div E) * E + E IN n \in Nat /\ n > c /\ n <= c + E /\ n % E = 0
  <1>1. PICK q \in Int, r \in 0..(E - 1) : c \div E = q /\ c = E * q + r
    BY DivMod
  <1>2. (E * (q + 1)) % E = 0
    BY MultipleOf
  <1>3. E * (q + 1) = q * E + E /\ q * E = E * q /\ E * q \in Int
    OBVIOUS
  <1> QED
    BY <1>1, <1>2, <1>3

LEMMA MultiplesApart ==
  ASSUME NEW E \in Nat \ {0}, NEW a \in Int, NEW b \in Int, a % E = 0, b % E = 0, a > b - E
  PROVE  a >= b
  <1>1. PICK i \in Int : a = E * i
    <2>1. PICK k \in Int, r \in 0..(E - 1) : a \div E = k /\ a % E = r /\ a = E * k + r
      BY DivMod
    <2>2. r = 0
      BY <2>1
    <2>3. a = E * k
      BY <2>1, <2>2, Stretch
    <2> QED
      BY <2>3
  <1>2. PICK j \in Int : b = E * j
    <2>1. PICK k \in Int, r \in 0..(E - 1) : b \div E = k /\ b % E = r /\ b = E * k + r
      BY DivMod
    <2>2. r = 0
      BY <2>1
    <2>3. b = E * k
      BY <2>1, <2>2, Stretch
    <2> QED
      BY <2>3
  <1>3. E * (i - j) = a - b /\ i - j \in Int
    BY <1>1, <1>2
  <1>4. i - j >= 0
    <2>1. E * (i - j) > -E
      BY <1>3
    <2> QED
      BY <1>3, <2>1, Stretch
  <1>5. E * (i - j) >= 0
    BY <1>3, <1>4, Stretch
  <1> QED
    BY <1>3, <1>5

-----------------------------------------------------------------------------
(* Recurring jobs.                                                         *)

JobFields == {"status", "attempts", "runAt", "lockedAt", "rerun", "asked"}
(* The moment a row is to run at is a sum with a delay, whose type needs a *)
(* recursion unfolded: nothing is said of it here.                         *)
JobShape(j) ==
    /\ DOMAIN j = JobFields
    /\ j.status \in Clerks!Statuses /\ j.attempts \in Nat /\ j.lockedAt \in Nat /\ j.asked \in Nat
Attempts == [worker : Workers, turn : Clerks!Turns, attempt : Nat, since : Nat,
             at : {"handler", "record"}, end : {"", "ok", "fails", "permanent"},
             after : RetryAfters \cup {0}]
ClerksShape ==
    /\ time \in 0..MaxClock
    /\ due \in [Callers -> Int]
    /\ DOMAIN jobs \subseteq Clerks!Turns /\ \A t \in DOMAIN jobs : JobShape(jobs[t])
    /\ made \in [Clerks!Turns -> {0, 1}] /\ failed \subseteq Clerks!Turns
    /\ hands \subseteq Attempts

(* One row a turn, and the row of a turn to come waits for it.             *)
AskedFor == DOMAIN jobs \cup failed
OncePerTurn ==
    /\ \A t \in Clerks!Turns : t \in DOMAIN jobs <=> made[t] = 1
    /\ \A t \in DOMAIN jobs : t > time => jobs[t].status = "pending" /\ jobs[t].runAt = t
    /\ \A t \in AskedFor : t <= time + Every
    /\ \A h \in hands : h.turn \in DOMAIN jobs /\ h.turn <= time

(* Some ticker asked not long before it is to fire again.                  *)
LatelyAsked == DOMAIN jobs # {} => \E s \in Callers, t \in AskedFor : t > due[s] - Interval

(* What a provider asked for lies before the row's next run.               *)
RowWaits(j) ==
    /\ j.asked = 0 \/ (j.runAt \in Int /\ j.asked <= j.runAt)
    /\ j.status = "processing" => j.asked <= j.lockedAt
    /\ j.status # "processing" => j.lockedAt = 0
Waits ==
    /\ \A t \in DOMAIN jobs : RowWaits(jobs[t])
    /\ \A h \in hands : h.at = "handler" => h.since >= 1

(* Within the sweep's patience an attempt owns its row.                    *)
InTime(h) ==
    /\ jobs[h.turn].status = "processing" /\ jobs[h.turn].attempts = h.attempt
    /\ h.at = "handler" => h.since = jobs[h.turn].lockedAt /\ time <= h.since + JobTimeout
    /\ h.at = "record" => h.since <= jobs[h.turn].lockedAt + JobTimeout /\ time <= h.since + Finalization
Owned ==
    Clerks!Patient =>
        /\ \A h \in hands : InTime(h)
        /\ \A g, h \in hands : g.turn = h.turn => g = h

ClerksInv == ClerksShape /\ OncePerTurn /\ LatelyAsked /\ Clerks!NoTwoTurnsMissed /\ Waits /\ Owned

LEMMA TurnsAre ==
  /\ Every \in Nat /\ Every >= 1 /\ MaxClock \in Nat
  /\ \A t \in Clerks!Turns : t \in Nat /\ t >= 1 /\ t % Every = 0
  BY OfficeAssumption DEF Clerks!CadenceAssumption, Clerks!Turns

LEMMA NextTurnIs ==
  ASSUME time \in 0..MaxClock
  PROVE  Clerks!NextTurn \in Clerks!Turns /\ Clerks!NextTurn > time /\ Clerks!NextTurn <= time + Every
  <1>1. time \in Nat /\ Every \in Nat \ {0} /\ MaxClock \in Nat
    BY OfficeAssumption DEF Clerks!CadenceAssumption
  <1>2. /\ Clerks!NextTurn \in Nat /\ Clerks!NextTurn > time /\ Clerks!NextTurn <= time + Every
        /\ Clerks!NextTurn % Every = 0
    BY <1>1, NextMultiple DEF Clerks!NextTurn
  <1> QED
    BY <1>1, <1>2 DEF Clerks!Turns

LEMMA ClerksStart == Clerks!Init => ClerksInv
  <1> SUFFICES ASSUME Clerks!Init PROVE ClerksInv
    OBVIOUS
  <1>1. DOMAIN jobs = {} /\ hands = {} /\ failed = {}
    BY DEF Clerks!Init
  <1>2. ClerksShape
    BY <1>1, OfficeAssumption DEF Clerks!Init, ClerksShape, Clerks!CadenceAssumption
  <1>3. OncePerTurn
    BY <1>1 DEF Clerks!Init, OncePerTurn, AskedFor
  <1> QED
    BY <1>1, <1>2, <1>3 DEF ClerksInv, LatelyAsked, Clerks!NoTwoTurnsMissed, Clerks!FirstTurn, Waits, Owned

(* A step that leaves the clock, the tickers and the turns asked for: a    *)
(* claim, an end, a record, a death, the sweep for dropped jobs.           *)
LEMMA RowsStep ==
  ASSUME ClerksInv, UNCHANGED <<time, due, made, failed>>, DOMAIN jobs' = DOMAIN jobs,
         \A t \in DOMAIN jobs : jobs'[t] = jobs[t] \/ (t <= time /\ JobShape(jobs'[t]) /\ RowWaits(jobs'[t])),
         hands' \subseteq Attempts,
         \A h \in hands' : h.turn \in DOMAIN jobs /\ h.turn <= time /\ (h.at = "handler" => h.since >= 1),
         Owned'
  PROVE  ClerksInv'
  <1>1. ClerksShape'
    BY DEF ClerksInv, ClerksShape
  <1>2. OncePerTurn'
    <2>1. \A t \in DOMAIN jobs : t > time => ~(t <= time)
      BY TurnsAre DEF ClerksInv, ClerksShape
    <2> QED
      BY <2>1 DEF ClerksInv, OncePerTurn, AskedFor
  <1>3. LatelyAsked' /\ Clerks!NoTwoTurnsMissed'
    BY DEF ClerksInv, LatelyAsked, AskedFor, Clerks!NoTwoTurnsMissed, Clerks!FirstTurn
  <1>4. Waits'
    BY DEF ClerksInv, Waits
  <1> QED
    BY <1>1, <1>2, <1>3, <1>4 DEF ClerksInv

LEMMA Timing ==
  /\ JobTimeout \in Nat /\ Finalization \in Nat /\ Clerks!StaleAfter \in Nat
  BY OfficeAssumption DEF Clerks!CadenceAssumption, Clerks!StaleAfter

LEMMA ClaimKept ==
  ASSUME ClerksInv, NEW w \in Workers, Clerks!Claim(w)
  PROVE  ClerksInv'
  <1>1. PICK t \in DOMAIN jobs :
          /\ jobs[t].status = "pending" /\ jobs[t].runAt <= time
          /\ jobs' = [jobs EXCEPT ![t].status = "processing", ![t].attempts = @ + 1, ![t].lockedAt = time]
          /\ hands' = hands \cup {[worker |-> w, turn |-> t, attempt |-> jobs[t].attempts + 1, since |-> time,
                                   at |-> "handler", end |-> "", after |-> 0]}
          /\ UNCHANGED <<time, due, made, failed, faults>>
    BY DEF Clerks!Claim
  <1>2. t \in Clerks!Turns /\ t \in Nat /\ t >= 1 /\ time \in Nat /\ JobShape(jobs[t]) /\ RowWaits(jobs[t])
    BY TurnsAre DEF ClerksInv, ClerksShape, Waits
  <1>3. jobs[t].status = "pending" /\ jobs[t].runAt <= time
    BY <1>1
  <1>4. t <= time
    BY <1>2, <1>3 DEF ClerksInv, OncePerTurn
  <1>5. /\ DOMAIN jobs' = DOMAIN jobs /\ \A u \in DOMAIN jobs \ {t} : jobs'[u] = jobs[u]
        /\ jobs'[t] = [jobs[t] EXCEPT !.status = "processing", !.attempts = jobs[t].attempts + 1, !.lockedAt = time]
    BY <1>1
  <1>6. JobShape(jobs'[t]) /\ jobs'[t].status = "processing" /\ jobs'[t].attempts = jobs[t].attempts + 1
        /\ jobs'[t].lockedAt = time /\ jobs'[t].asked = jobs[t].asked /\ jobs'[t].runAt = jobs[t].runAt
    BY <1>2, <1>5 DEF JobShape, JobFields, Clerks!Statuses
  <1>7. RowWaits(jobs'[t])
    BY <1>2, <1>3, <1>6 DEF RowWaits, JobShape
  <1>8. PICK a : a = [worker |-> w, turn |-> t, attempt |-> jobs[t].attempts + 1, since |-> time,
                      at |-> "handler", end |-> "", after |-> 0]
    OBVIOUS
  <1>9. /\ a.turn = t /\ a.attempt = jobs[t].attempts + 1 /\ a.since = time /\ a.at = "handler"
        /\ hands' = hands \cup {a}
    BY <1>1, <1>8
  <1>10. a \in Attempts
    <2>1. jobs[t].attempts + 1 \in Nat
      BY <1>2 DEF JobShape
    <2> QED
      BY <1>2, <1>8, <2>1 DEF Attempts
  <1>11. /\ hands' \subseteq Attempts
        /\ \A h \in hands' : h.turn \in DOMAIN jobs /\ h.turn <= time /\ (h.at = "handler" => h.since >= 1)
    BY <1>2, <1>4, <1>9, <1>10 DEF ClerksInv, ClerksShape, OncePerTurn, Waits
  <1>12. Owned'
    <2>1. SUFFICES ASSUME Clerks!Patient PROVE (\A h \in hands' : InTime(h)') /\ \A g, h \in hands' : g.turn = h.turn => g = h
      BY DEF Owned, Clerks!Patient, Clerks!StaleAfter
    <2>2. \A h \in hands : h.turn # t
      BY <1>1, <2>1 DEF ClerksInv, Owned, InTime
    <2>3. \A h \in hands : InTime(h) /\ h.turn \in DOMAIN jobs \ {t}
      BY <2>1, <2>2 DEF ClerksInv, Owned, OncePerTurn
    <2>4. \A h \in hands : InTime(h)'
      BY <1>1, <1>5, <2>3 DEF InTime
    <2>5. InTime(a)'
      <3>1. time' = time /\ time \in Nat
        BY <1>1, <1>2
      <3>2. /\ jobs'[a.turn].status = "processing" /\ jobs'[a.turn].attempts = a.attempt
            /\ a.since = jobs'[a.turn].lockedAt
        BY <1>6, <1>9
      <3>3. a.at # "record" /\ time' <= a.since + JobTimeout
        BY <1>9, <3>1, Timing
      <3> QED
        BY <3>2, <3>3 DEF InTime
    <2>6. \A g, h \in hands : g.turn = h.turn => g = h
      BY <2>1 DEF ClerksInv, Owned
    <2> QED
      BY <1>9, <2>2, <2>4, <2>5, <2>6
  <1> QED
    BY <1>1, <1>4, <1>5, <1>6, <1>7, <1>11, <1>12, RowsStep

LEMMA ReturnKept ==
  ASSUME ClerksInv, NEW h \in hands, Clerks!Return(h)
  PROVE  ClerksInv'
  <1>1. PICK end \in {"ok", "fails", "permanent"}, after \in RetryAfters :
          hands' = (hands \ {h}) \cup {[h EXCEPT !.at = "record", !.end = end, !.after = after, !.since = time]}
    BY DEF Clerks!Return
  <1>2. h.at = "handler" /\ UNCHANGED <<time, due, jobs, made, failed, faults>>
    BY DEF Clerks!Return
  <1>3. PICK a : a = [h EXCEPT !.at = "record", !.end = end, !.after = after, !.since = time]
    OBVIOUS
  <1>4. /\ h \in Attempts /\ time \in Nat /\ a \in Attempts
        /\ a.turn = h.turn /\ a.attempt = h.attempt /\ a.at = "record" /\ a.since = time
    <2>1. h \in Attempts /\ time \in Nat
      BY OfficeAssumption DEF ClerksInv, ClerksShape, Clerks!CadenceAssumption
    <2>2. /\ a.worker = h.worker /\ a.turn = h.turn /\ a.attempt = h.attempt /\ a.at = "record"
          /\ a.since = time /\ a.end = end /\ a.after = after
      BY <1>3, <2>1 DEF Attempts
    <2>3. a \in Attempts
      BY <1>3, <2>1 DEF Attempts
    <2> QED
      BY <2>1, <2>2, <2>3
  <1>5. hands' = (hands \ {h}) \cup {a}
    BY <1>1, <1>3
  <1>6. /\ hands' \subseteq Attempts
        /\ \A g \in hands' : g.turn \in DOMAIN jobs /\ g.turn <= time /\ (g.at = "handler" => g.since >= 1)
    BY <1>4, <1>5 DEF ClerksInv, ClerksShape, OncePerTurn, Waits
  <1>7. Owned'
    <2>1. SUFFICES ASSUME Clerks!Patient PROVE (\A g \in hands' : InTime(g)') /\ \A f, g \in hands' : f.turn = g.turn => f = g
      BY DEF Owned, Clerks!Patient, Clerks!StaleAfter
    <2>2. \A g \in hands : InTime(g) /\ InTime(g)'
      BY <1>2, <2>1 DEF ClerksInv, Owned, InTime
    <2>3. InTime(a)'
      BY <1>2, <1>4, <2>2, Timing DEF InTime
    <2> QED
      BY <1>4, <1>5, <2>1, <2>2, <2>3 DEF ClerksInv, Owned
  <1> QED
    BY <1>2, <1>6, <1>7, RowsStep DEF ClerksInv, ClerksShape, Waits

(* A row as it is inserted, or closed.                                     *)
LEMMA RowsMade ==
  /\ \A r \in Int : JobShape(Clerks!Row(r)) /\ RowWaits(Clerks!Row(r))
                    /\ Clerks!Row(r).status = "pending" /\ Clerks!Row(r).runAt = r
  /\ \A status \in {"done", "dead"} : JobShape(Clerks!Closed(status)) /\ RowWaits(Clerks!Closed(status))
  BY DEF JobShape, JobFields, RowWaits, Clerks!Row, Clerks!Closed, Clerks!Statuses

(* What is written of an attempt that ended.                               *)
LEMMA RecordWrites ==
  ASSUME ClerksInv, NEW h \in hands, NEW delay \in Clerks!RetryDelay(h.after, h.attempt), h.at = "record",
         NEW new, new = IF h.end = "ok" THEN Clerks!Complete(h.turn)
                        ELSE IF h.end = "permanent" \/ h.attempt >= MaxAttempts THEN Clerks!Closed("dead")
                        ELSE Clerks!Retry(h.turn, delay, h.after)
  PROVE  JobShape(new) /\ RowWaits(new)
  <1>1. h.turn \in DOMAIN jobs /\ time \in Nat /\ JobShape(jobs[h.turn]) /\ h.after \in Nat
    <2>1. RetryAfters \subseteq Nat /\ MaxClock \in Nat
      BY OfficeAssumption DEF Clerks!CadenceAssumption
    <2>2. h \in Attempts /\ h.turn \in DOMAIN jobs /\ time \in 0..MaxClock
      BY DEF ClerksInv, ClerksShape, OncePerTurn
    <2>3. h.after \in RetryAfters \cup {0}
      BY <2>2 DEF Attempts
    <2>4. time \in Nat
      BY <2>1, <2>2
    <2>5. h.after \in Nat
      <3>1. 0 \in Nat
        OBVIOUS
      <3> QED
        BY <2>1, <2>3, <3>1, Zenon
    <2>6. JobShape(jobs[h.turn])
      BY <2>2 DEF ClerksInv, ClerksShape
    <2> QED
      BY <2>2, <2>4, <2>6, <2>5
  <1>2. CASE new = Clerks!Complete(h.turn)
    BY <1>1, <1>2, RowsMade DEF Clerks!Complete
  <1>3. CASE new = Clerks!Closed("dead")
    BY <1>3, RowsMade
  <1>4. CASE new = Clerks!Retry(h.turn, delay, h.after)
    <2>1. /\ DOMAIN new = JobFields /\ new.status = "pending" /\ new.attempts = jobs[h.turn].attempts
          /\ new.runAt = time + delay /\ new.lockedAt = 0
          /\ new.asked = IF h.after > 0 THEN time + h.after ELSE 0
      BY <1>1, <1>4 DEF Clerks!Retry, JobShape, JobFields
    <2>2. JobShape(new)
      BY <1>1, <2>1 DEF JobShape, Clerks!Statuses
    <2>3. CASE h.after > 0
      <3>1. delay \in Int /\ delay >= h.after
        BY <1>1, <2>3 DEF Clerks!RetryDelay, Clerks!Jitter
      <3> QED
        BY <1>1, <2>1, <2>2, <2>3, <3>1 DEF RowWaits
    <2>4. CASE ~(h.after > 0)
      BY <2>1, <2>2, <2>4 DEF RowWaits
    <2> QED
      BY <2>3, <2>4
  <1> QED
    BY <1>2, <1>3, <1>4

LEMMA RecordKept ==
  ASSUME ClerksInv, NEW h \in hands, Clerks!Record(h)
  PROVE  ClerksInv'
  <1>1. PICK delay \in Clerks!RetryDelay(h.after, h.attempt) :
          jobs' = [jobs EXCEPT ![h.turn] =
                    IF h.end = "ok" THEN Clerks!Complete(h.turn)
                    ELSE IF h.end = "permanent" \/ h.attempt >= MaxAttempts THEN Clerks!Closed("dead")
                    ELSE Clerks!Retry(h.turn, delay, h.after)]
    BY DEF Clerks!Record
  <1>2. h.at = "record" /\ hands' = hands \ {h} /\ UNCHANGED <<time, due, made, failed, faults>>
    BY DEF Clerks!Record
  <1>3. PICK new : new = IF h.end = "ok" THEN Clerks!Complete(h.turn)
                    ELSE IF h.end = "permanent" \/ h.attempt >= MaxAttempts THEN Clerks!Closed("dead")
                    ELSE Clerks!Retry(h.turn, delay, h.after)
    OBVIOUS
  <1>4. JobShape(new) /\ RowWaits(new)
    BY <1>2, <1>3, RecordWrites
  <1>5. jobs' = [jobs EXCEPT ![h.turn] = new]
    BY <1>1, <1>3
  <1>6. h.turn \in DOMAIN jobs /\ h.turn <= time
    BY DEF ClerksInv, OncePerTurn
  <1>7. /\ DOMAIN jobs' = DOMAIN jobs /\ jobs'[h.turn] = new
        /\ \A t \in DOMAIN jobs \ {h.turn} : jobs'[t] = jobs[t]
    BY <1>5, <1>6
  <1>8. /\ hands' \subseteq Attempts
        /\ \A g \in hands' : g.turn \in DOMAIN jobs /\ g.turn <= time /\ (g.at = "handler" => g.since >= 1)
    BY <1>2 DEF ClerksInv, ClerksShape, OncePerTurn, Waits
  <1>9. Owned'
    <2>1. SUFFICES ASSUME Clerks!Patient PROVE (\A g \in hands' : InTime(g)') /\ \A f, g \in hands' : f.turn = g.turn => f = g
      BY DEF Owned, Clerks!Patient, Clerks!StaleAfter
    <2>2. \A g \in hands' : InTime(g) /\ g.turn \in DOMAIN jobs \ {h.turn}
      BY <1>2, <1>8, <2>1 DEF ClerksInv, Owned
    <2>3. \A g \in hands' : InTime(g)'
      BY <1>2, <1>7, <2>2 DEF InTime
    <2> QED
      BY <1>2, <2>1, <2>3 DEF ClerksInv, Owned
  <1> QED
    BY <1>2, <1>4, <1>6, <1>7, <1>8, <1>9, RowsStep

LEMMA DropKept ==
  ASSUME ClerksInv, hands' \subseteq hands, UNCHANGED <<time, due, jobs, made, failed>>
  PROVE  ClerksInv'
  <1>1. Owned'
    BY SMTT(60) DEF ClerksInv, Owned, InTime, Clerks!Patient, Clerks!StaleAfter
  <1> QED
    BY <1>1, RowsStep DEF ClerksInv, ClerksShape, OncePerTurn, Waits

LEMMA ReclaimKept ==
  ASSUME ClerksInv, Clerks!ReclaimStale
  PROVE  ClerksInv'
  <1> DEFINE stale == {t \in DOMAIN jobs : jobs[t].status = "processing" /\ jobs[t].lockedAt < time - Clerks!StaleAfter}
  <1>1. /\ jobs' = [t \in DOMAIN jobs |->
                      IF t \in stale THEN [jobs[t] EXCEPT !.status = "pending", !.lockedAt = 0] ELSE jobs[t]]
        /\ UNCHANGED <<time, due, made, failed, hands, faults>>
    BY DEF Clerks!ReclaimStale
  <1>2. DOMAIN jobs' = DOMAIN jobs /\ \A t \in DOMAIN jobs \ stale : jobs'[t] = jobs[t]
    BY <1>1
  <1>3. ASSUME NEW t \in stale
        PROVE  t <= time /\ JobShape(jobs'[t]) /\ RowWaits(jobs'[t])
    <2>1. JobShape(jobs[t]) /\ RowWaits(jobs[t]) /\ t \in Nat /\ time \in Nat
      BY TurnsAre DEF ClerksInv, ClerksShape, Waits
    <2>2. t <= time
      BY <2>1 DEF ClerksInv, OncePerTurn
    <2>3. jobs'[t] = [jobs[t] EXCEPT !.status = "pending", !.lockedAt = 0]
      BY <1>1
    <2>4. /\ DOMAIN jobs'[t] = JobFields /\ jobs'[t].status = "pending" /\ jobs'[t].lockedAt = 0
          /\ jobs'[t].attempts = jobs[t].attempts /\ jobs'[t].runAt = jobs[t].runAt /\ jobs'[t].asked = jobs[t].asked
      BY <2>1, <2>3 DEF JobShape, JobFields
    <2> QED
      BY <2>1, <2>2, <2>4 DEF JobShape, RowWaits, Clerks!Statuses
  <1> HIDE DEF stale
  <1>4. Owned'
    <2>1. SUFFICES ASSUME Clerks!Patient PROVE (\A h \in hands' : InTime(h)') /\ \A g, h \in hands' : g.turn = h.turn => g = h
      BY DEF Owned, Clerks!Patient, Clerks!StaleAfter
    <2>2. ASSUME NEW h \in hands PROVE InTime(h)'
      <3>1. InTime(h) /\ h.turn \in DOMAIN jobs /\ h \in Attempts /\ JobShape(jobs[h.turn]) /\ time \in Nat
        BY <2>1 DEF ClerksInv, ClerksShape, Owned, OncePerTurn
      <3>2. h.at \in {"handler", "record"} /\ h.since \in Nat /\ jobs[h.turn].lockedAt \in Nat
        BY <3>1 DEF Attempts, JobShape
      <3>3. time <= jobs[h.turn].lockedAt + Clerks!StaleAfter
        BY <2>1, <3>1, <3>2, Timing DEF InTime, Clerks!Patient
      <3>4. h.turn \notin stale
        BY <3>1, <3>2, <3>3, Timing DEF stale
      <3> QED
        BY <1>1, <1>2, <3>1, <3>4 DEF InTime
    <2> QED
      BY <1>1, <2>1, <2>2 DEF ClerksInv, Owned
  <1> QED
    BY <1>1, <1>2, <1>3, <1>4, RowsStep, ZenonT(60) DEF ClerksInv, ClerksShape, OncePerTurn, Waits

LEMMA ScheduleKept ==
  ASSUME ClerksInv, NEW s \in Callers, Clerks!ScheduleTick(s)
  PROVE  ClerksInv'
  <1> DEFINE n == Clerks!NextTurn
  <1>1. /\ n \in Clerks!Turns /\ n > time /\ n <= time + Every /\ n \in Nat
        /\ time \in Nat /\ due[s] \in Int /\ Interval \in Nat
    BY NextTurnIs, TurnsAre, OfficeAssumption DEF ClerksInv, ClerksShape, Clerks!CadenceAssumption
  <1>2. /\ UNCHANGED <<time, hands>> /\ due[s] <= time
        /\ due' = [due EXCEPT ![s] = @ + Interval]
    BY DEF Clerks!ScheduleTick
  <1>3. due' \in [Callers -> Int] /\ due'[s] = due[s] + Interval
    BY <1>1, <1>2 DEF ClerksInv, ClerksShape
  <1> HIDE DEF n
  <1>4. /\ n \in AskedFor' /\ AskedFor \subseteq AskedFor' /\ AskedFor' \subseteq AskedFor \cup {n}
        /\ made' \in [Clerks!Turns -> {0, 1}] /\ failed' \subseteq Clerks!Turns
        /\ \A t \in Clerks!Turns : t \in DOMAIN jobs' <=> made'[t] = 1
        /\ DOMAIN jobs' \subseteq DOMAIN jobs \cup {n} /\ DOMAIN jobs \subseteq DOMAIN jobs'
        /\ \A t \in DOMAIN jobs : t # n => jobs'[t] = jobs[t]
        /\ n \in DOMAIN jobs' =>
              /\ JobShape(jobs'[n]) /\ RowWaits(jobs'[n])
              /\ jobs'[n].status = "pending" /\ jobs'[n].runAt = n
    <2>1. CASE Clerks!Enqueue(n) /\ UNCHANGED failed /\ ~Clerks!Open(n)
      <3>1. /\ jobs' = [u \in DOMAIN jobs \cup {n} |-> IF u = n THEN Clerks!Row(Clerks!RunAt) ELSE jobs[u]]
            /\ made' = [made EXCEPT ![n] = @ + 1]
        BY <2>1 DEF Clerks!Enqueue
      <3>2. Clerks!RunAt = n
        BY DEF Clerks!RunAt, n
      <3>3. n \notin DOMAIN jobs
        BY <1>1, <2>1 DEF ClerksInv, OncePerTurn, Clerks!Open
      <3>4. made[n] = 0
        BY <1>1, <3>3 DEF ClerksInv, ClerksShape, OncePerTurn
      <3>5. /\ DOMAIN jobs' = DOMAIN jobs \cup {n} /\ jobs'[n] = Clerks!Row(n)
            /\ \A t \in DOMAIN jobs : jobs'[t] = jobs[t]
        BY <3>1, <3>2, <3>3
      <3>6. made'[n] = 1 /\ \A t \in Clerks!Turns \ {n} : made'[t] = made[t]
        BY <1>1, <3>1, <3>4 DEF ClerksInv, ClerksShape
      <3>7. made' \in [Clerks!Turns -> {0, 1}]
        BY <1>1, <3>1, <3>4 DEF ClerksInv, ClerksShape
      <3> QED
        BY <1>1, <2>1, <3>5, <3>6, <3>7, RowsMade DEF ClerksInv, ClerksShape, OncePerTurn, AskedFor
    <2>2. CASE Clerks!Enqueue(n) /\ UNCHANGED failed /\ Clerks!Open(n)
      <3>1. /\ jobs' = [jobs EXCEPT ![n].rerun = @ \/ jobs[n].status = "processing"] /\ UNCHANGED made
            /\ n \in DOMAIN jobs
        BY <2>2 DEF Clerks!Enqueue, Clerks!Open
      <3>2. JobShape(jobs[n]) /\ RowWaits(jobs[n]) /\ jobs[n].status = "pending" /\ jobs[n].runAt = n
        BY <1>1, <3>1 DEF ClerksInv, ClerksShape, Waits, OncePerTurn
      <3>3. /\ DOMAIN jobs' = DOMAIN jobs /\ \A t \in DOMAIN jobs \ {n} : jobs'[t] = jobs[t]
            /\ jobs'[n] = [jobs[n] EXCEPT !.rerun = @ \/ jobs[n].status = "processing"]
        BY <3>1
      <3>4. /\ DOMAIN jobs'[n] = JobFields /\ jobs'[n].status = jobs[n].status /\ jobs'[n].runAt = jobs[n].runAt
            /\ jobs'[n].attempts = jobs[n].attempts /\ jobs'[n].lockedAt = jobs[n].lockedAt
            /\ jobs'[n].asked = jobs[n].asked
        BY <3>2, <3>3 DEF JobShape, JobFields
      <3> QED
        BY <2>2, <3>1, <3>2, <3>3, <3>4 DEF ClerksInv, ClerksShape, OncePerTurn, AskedFor, JobShape, RowWaits
    <2>3. CASE failed' = failed \cup {n} /\ UNCHANGED <<jobs, made>>
      BY <1>1, <2>3 DEF ClerksInv, ClerksShape, OncePerTurn, AskedFor, Waits
    <2> QED
      BY <2>1, <2>2, <2>3 DEF Clerks!ScheduleTick, n
  <1>5. ClerksShape'
    BY <1>1, <1>2, <1>3, <1>4 DEF ClerksInv, ClerksShape
  <1>6. OncePerTurn'
    BY <1>1, <1>2, <1>4 DEF ClerksInv, ClerksShape, OncePerTurn
  <1>7. LatelyAsked'
    <2>1. n > due'[s] - Interval
      BY <1>1, <1>2, <1>3
    <2> QED
      BY <1>4, <2>1 DEF LatelyAsked
  <1>8. Clerks!NoTwoTurnsMissed'
    <2>1. ASSUME NEW t \in Clerks!Turns, NEW u \in DOMAIN jobs', u <= t, t + Every <= time
          PROVE  {t, t + Every} \cap AskedFor # {}
      <3>1. t \in Nat /\ Every \in Nat /\ ~(n <= t)
        BY <1>1, <2>1, TurnsAre
      <3>2. u \in DOMAIN jobs
        BY <1>4, <2>1, <3>1
      <3> QED
        BY <2>1, <3>2 DEF ClerksInv, Clerks!NoTwoTurnsMissed, Clerks!FirstTurn, AskedFor
    <2> QED
      BY <1>2, <1>4, <2>1 DEF Clerks!NoTwoTurnsMissed, Clerks!FirstTurn, AskedFor
  <1>9. Waits'
    BY <1>2, <1>4 DEF ClerksInv, Waits
  <1>10. Owned'
    <2>1. ASSUME NEW h \in hands PROVE h.turn # n /\ jobs'[h.turn] = jobs[h.turn]
      BY <1>1, <1>4 DEF ClerksInv, OncePerTurn
    <2> QED
      BY <1>2, <2>1 DEF ClerksInv, Owned, InTime, Clerks!Patient, Clerks!StaleAfter
  <1> QED
    BY <1>5, <1>6, <1>7, <1>8, <1>9, <1>10 DEF ClerksInv

LEMMA PassKept ==
  ASSUME ClerksInv, Clerks!Pass
  PROVE  ClerksInv'
  <1>1. /\ time' = time + 1 /\ time < MaxClock /\ time \in Nat /\ time' \in 0..MaxClock
        /\ UNCHANGED <<due, jobs, made, failed, hands, faults>>
        /\ \A s \in Callers : time < due[s] + Late
        /\ \A h \in hands : time < Clerks!Deadline(h)
    BY OfficeAssumption DEF Clerks!Pass, ClerksInv, ClerksShape, Clerks!CadenceAssumption
  <1>2. ClerksShape' /\ LatelyAsked' /\ Waits'
    BY <1>1 DEF ClerksInv, ClerksShape, LatelyAsked, AskedFor, Waits
  <1>3. \A t \in AskedFor : t \in Clerks!Turns
    BY DEF ClerksInv, ClerksShape, AskedFor
  <1>4. OncePerTurn'
    BY <1>1, <1>3, TurnsAre DEF ClerksInv, ClerksShape, OncePerTurn, AskedFor
  <1>5. Clerks!NoTwoTurnsMissed'
    <2>1. ASSUME NEW t \in Clerks!Turns, NEW u \in DOMAIN jobs, u <= t, t + Every = time + 1,
                 {t, t + Every} \cap AskedFor = {}
          PROVE  FALSE
      <3>1. PICK s \in Callers, a \in AskedFor : a > due[s] - Interval
        BY <2>1 DEF ClerksInv, LatelyAsked
      <3>2. /\ due[s] \in Int /\ Interval \in Nat /\ Late \in Nat /\ Interval + Late <= 2 * Every
            /\ Every \in Nat \ {0}
        BY OfficeAssumption DEF ClerksInv, ClerksShape, Clerks!CadenceAssumption
      <3>3. a \in Int /\ t \in Int /\ t + Every \in Int /\ a % Every = 0 /\ t % Every = 0
        BY <1>3, <3>2, TurnsAre
      <3>4. a > t - Every
        BY <1>1, <2>1, <3>1, <3>2, <3>3
      <3>5. a >= t
        BY <3>2, <3>3, <3>4, MultiplesApart, Zenon
      <3>6. a <= time + Every
        BY DEF ClerksInv, OncePerTurn
      <3>7. (t + Every) % Every = 0
        <4>1. PICK k \in Int, r \in 0..(Every - 1) : t \div Every = k /\ t % Every = r /\ t = Every * k + r
          BY <3>2, <3>3, DivMod
        <4>2. r = 0 /\ t = Every * k
          BY <3>3, <4>1, <3>2, Stretch
        <4>3. Every * (k + 1) = Every * k + Every /\ (Every * (k + 1)) % Every = 0
          BY <3>2, MultipleOf
        <4> QED
          BY <4>2, <4>3
      <3>8. CASE a > t
        <4>1. a >= t + Every
          <5>1. a > (t + Every) - Every
            BY <3>2, <3>3, <3>8
          <5> QED
            BY <3>2, <3>3, <3>7, <5>1, MultiplesApart, Zenon
        <4>2. t + Every > a - Every
          <5>1. time \in Nat
            BY <1>1
          <5> QED
            BY <2>1, <3>2, <3>3, <3>6, <5>1
        <4>3. t + Every >= a
          BY <3>2, <3>3, <3>7, <4>2, MultiplesApart, Zenon
        <4> QED
          BY <2>1, <3>2, <3>3, <4>1, <4>3
      <3> QED
        BY <2>1, <3>3, <3>5, <3>8
    <2>2. ASSUME NEW t \in Clerks!Turns, NEW u \in DOMAIN jobs, u <= t, t + Every <= time + 1
          PROVE  {t, t + Every} \cap failed # {} \/ {t, t + Every} \cap DOMAIN jobs # {}
      <3>1. t + Every = time + 1 \/ t + Every <= time
        BY <1>1, <2>2, TurnsAre
      <3>2. CASE t + Every <= time
        BY <2>2, <3>2 DEF ClerksInv, Clerks!NoTwoTurnsMissed, Clerks!FirstTurn
      <3>3. CASE t + Every = time + 1
        BY <2>1, <2>2, <3>3 DEF AskedFor
      <3> QED
        BY <3>1, <3>2, <3>3
    <2> QED
      BY <1>1, <2>2 DEF Clerks!NoTwoTurnsMissed, Clerks!FirstTurn
  <1>6. Owned'
    <2>1. SUFFICES ASSUME Clerks!Patient PROVE (\A h \in hands' : InTime(h)') /\ \A g, h \in hands' : g.turn = h.turn => g = h
      BY DEF Owned, Clerks!Patient, Clerks!StaleAfter
    <2>2. ASSUME NEW h \in hands PROVE InTime(h)'
      <3>1. InTime(h) /\ h \in Attempts
        BY <2>1 DEF ClerksInv, ClerksShape, Owned
      <3>2. h.since \in Nat
        BY <3>1 DEF Attempts
      <3> QED
        BY <1>1, <3>1, <3>2, Timing DEF InTime, Clerks!Deadline
    <2> QED
      BY <1>1, <2>1, <2>2 DEF ClerksInv, Owned
  <1> QED
    BY <1>2, <1>4, <1>5, <1>6 DEF ClerksInv

LEMMA ClerksKept == ClerksInv /\ [Clerks!Next]_clerksVars => ClerksInv'
  <1> SUFFICES ASSUME ClerksInv, [Clerks!Next]_clerksVars PROVE ClerksInv'
    OBVIOUS
  <1>1. ASSUME NEW s \in Callers, Clerks!ScheduleTick(s) PROVE ClerksInv'
    BY <1>1, ScheduleKept
  <1>2. ASSUME NEW w \in Workers, Clerks!Claim(w) PROVE ClerksInv'
    BY <1>2, ClaimKept
  <1>3. ASSUME NEW w \in Workers, Clerks!Die(w) PROVE ClerksInv'
    <2>1. hands' \subseteq hands /\ UNCHANGED <<time, due, jobs, made, failed>>
      BY <1>3 DEF Clerks!Die
    <2> QED
      BY <2>1, DropKept
  <1>4. ASSUME NEW h \in hands, Clerks!Return(h) PROVE ClerksInv'
    BY <1>4, ReturnKept
  <1>5. ASSUME NEW h \in hands, Clerks!Record(h) PROVE ClerksInv'
    BY <1>5, RecordKept
  <1>6. ASSUME NEW h \in hands, Clerks!RecordFails(h) PROVE ClerksInv'
    BY <1>6, DropKept DEF Clerks!RecordFails
  <1>7. CASE Clerks!ReclaimStale
    BY <1>7, ReclaimKept
  <1>8. CASE Clerks!Pass
    BY <1>8, PassKept
  <1>9. CASE UNCHANGED clerksVars
    BY <1>9, DropKept DEF clerksVars
  <1> QED
    BY <1>1, <1>2, <1>3, <1>4, <1>5, <1>6, <1>7, <1>8, <1>9 DEF Clerks!Next

LEMMA ClerksSafe == ClerksInv => Clerks!CadenceSound
  <1> SUFFICES ASSUME ClerksInv PROVE Clerks!CadenceSound
    OBVIOUS
  <1>1. Clerks!OneJobPerTurn
    BY DEF ClerksInv, ClerksShape, Clerks!OneJobPerTurn
  <1>2. Clerks!OneHandler /\ Clerks!RecordsItsOwn
    BY DEF ClerksInv, Owned, InTime, Clerks!OneHandler, Clerks!RecordsItsOwn
  <1>3. Clerks!WaitsAsAsked
    <2>1. ASSUME NEW h \in hands, h.at = "handler", h.since = jobs[h.turn].lockedAt
          PROVE  jobs[h.turn].lockedAt >= jobs[h.turn].asked
      <3>1. RowWaits(jobs[h.turn]) /\ JobShape(jobs[h.turn]) /\ h.since >= 1
        BY <2>1 DEF ClerksInv, ClerksShape, OncePerTurn, Waits
      <3> QED
        BY <2>1, <3>1 DEF RowWaits, JobShape
    <2> QED
      BY <2>1 DEF Clerks!WaitsAsAsked
  <1> QED
    BY <1>1, <1>2, <1>3 DEF ClerksInv, Clerks!CadenceSound

-----------------------------------------------------------------------------
(* Sums.                                                                   *)
(* A set of which no finite part without a property is without a smaller   *)
(* one has the property for all its finite parts.                          *)
LEMMA SmallestFinite ==
  ASSUME NEW S, NEW Odd, Odd \subseteq FiniteSubsetsOf(S), Odd # {}
  PROVE  \E T \in Odd : \A x \in T : T \ {x} \notin Odd
  <1>1. IsWellFoundedOn(StrictSubsetOrdering(S), FiniteSubsetsOf(S))
    BY FS_StrictSubsetOrderingWellFounded
  <1>2. PICK T \in Odd : \A U \in Odd : ~ (<<U, T>> \in StrictSubsetOrdering(S))
    BY <1>1, WFMin
  <1>3. ASSUME NEW x \in T, T \ {x} \in Odd PROVE FALSE
    <2>1. T \in SUBSET S /\ T \ {x} \in SUBSET S /\ T \ {x} # T
      BY <1>2 DEF FiniteSubsetsOf
    <2>2. <<T \ {x}, T>> \in StrictSubsetOrdering(S)
      BY <2>1 DEF StrictSubsetOrdering
    <2> QED
      BY <1>2, <1>3, <2>2
  <1> QED
    BY <1>2, <1>3

(* A sum over a set is a function on its subsets that takes one member at  *)
(* a time.  There is one such function, so a sum does not depend on which  *)
(* set it is part of, nor on the order its members are taken in.           *)
Picked(T) == CHOOSE x \in T : TRUE
AddsUp(g, w, S) ==
    g = [s \in SUBSET S |-> IF s = {} THEN 0 ELSE w[Picked(s)] + g[s \ {Picked(s)}]]
Total(w, S) == (CHOOSE g : AddsUp(g, w, S))[S]

LEMMA PickedIn == ASSUME NEW T, T # {} PROVE Picked(T) \in T
  BY DEF Picked

LEMMA SumUnfolds ==
  ASSUME NEW w, NEW S, NEW g, AddsUp(g, w, S), NEW U, U \subseteq S
  PROVE  g[U] = IF U = {} THEN 0 ELSE w[Picked(U)] + g[U \ {Picked(U)}]
  BY DEF AddsUp

LEMMA OneSum ==
  ASSUME NEW w, NEW S, NEW T, NEW g, NEW h, AddsUp(g, w, S), AddsUp(h, w, T),
         NEW U, U \subseteq S, U \subseteq T, IsFiniteSet(U)
  PROVE  g[U] = h[U]
  <1> DEFINE Odd == {V \in FiniteSubsetsOf(U) : g[V] # h[V]}
  <1>1. ASSUME g[U] # h[U] PROVE FALSE
    <2>1. U \in Odd /\ Odd \subseteq FiniteSubsetsOf(U)
      BY <1>1 DEF FiniteSubsetsOf
    <2>2. PICK V \in Odd : \A x \in V : V \ {x} \notin Odd
      <3> HIDE DEF Odd
      <3> QED
        BY <2>1, SmallestFinite
    <2>3. V \subseteq U /\ IsFiniteSet(V) /\ g[V] # h[V]
      BY <2>2 DEF FiniteSubsetsOf
    <2>4. g[V] = (IF V = {} THEN 0 ELSE w[Picked(V)] + g[V \ {Picked(V)}])
      BY <2>3, SumUnfolds
    <2>5. h[V] = (IF V = {} THEN 0 ELSE w[Picked(V)] + h[V \ {Picked(V)}])
      BY <2>3, SumUnfolds
    <2>6. V # {} /\ Picked(V) \in V
      BY <2>3, <2>4, <2>5, PickedIn
    <2>7. V \ {Picked(V)} \in FiniteSubsetsOf(U)
      BY <2>3, FS_Subset DEF FiniteSubsetsOf
    <2>8. g[V \ {Picked(V)}] = h[V \ {Picked(V)}]
      BY <2>2, <2>6, <2>7
    <2> QED
      BY <2>3, <2>4, <2>5, <2>6, <2>8
  <1> QED
    BY <1>1

LEMMA SumNarrows ==
  ASSUME NEW w, NEW S, NEW g, AddsUp(g, w, S), NEW U, U \subseteq S
  PROVE  AddsUp([s \in SUBSET U |-> g[s]], w, U)
  <1> DEFINE h == [s \in SUBSET U |-> g[s]]
  <1>1. ASSUME NEW s \in SUBSET U
        PROVE  h[s] = IF s = {} THEN 0 ELSE w[Picked(s)] + h[s \ {Picked(s)}]
    <2>1. g[s] = IF s = {} THEN 0 ELSE w[Picked(s)] + g[s \ {Picked(s)}]
      BY SumUnfolds
    <2>2. h[s] = g[s] /\ h[s \ {Picked(s)}] = g[s \ {Picked(s)}]
      OBVIOUS
    <2> QED
      BY <2>1, <2>2
  <1> QED
    BY <1>1 DEF AddsUp

LEMMA SumExists ==
  ASSUME NEW w, NEW S, IsFiniteSet(S)
  PROVE  \E g : AddsUp(g, w, S)
  <1> DEFINE Odd == {T \in FiniteSubsetsOf(S) : ~ \E g : AddsUp(g, w, T)}
  <1>1. ASSUME ~ \E g : AddsUp(g, w, S) PROVE FALSE
    <2>1. S \in Odd /\ Odd \subseteq FiniteSubsetsOf(S)
      BY <1>1 DEF FiniteSubsetsOf
    <2>2. PICK T \in Odd : \A x \in T : T \ {x} \notin Odd
      <3> HIDE DEF Odd
      <3> QED
        BY <2>1, SmallestFinite
    <2>3. T \subseteq S /\ IsFiniteSet(T) /\ ~ \E g : AddsUp(g, w, T)
      BY <2>2 DEF FiniteSubsetsOf
    <2> DEFINE G == [s \in SUBSET T |->
                       IF s = {} THEN 0 ELSE w[Picked(s)] + Total(w, s \ {Picked(s)})]
    <2>4. ASSUME NEW s \in SUBSET T, NEW x \in T, x \notin s
          PROVE  \E g : AddsUp(g, w, s)
      <3>1. T \ {x} \in FiniteSubsetsOf(S)
        BY <2>3, FS_Subset DEF FiniteSubsetsOf
      <3>2. PICK k : AddsUp(k, w, T \ {x})
        BY <2>2, <3>1
      <3>3. s \subseteq T \ {x}
        BY <2>4
      <3>4. AddsUp([v \in SUBSET s |-> k[v]], w, s)
        BY <3>2, <3>3, SumNarrows
      <3> QED
        BY <3>4
    <2>5. ASSUME NEW s \in SUBSET T, s # {}
          PROVE  Total(w, s \ {Picked(s)}) = G[s \ {Picked(s)}]
      <3> DEFINE u == s \ {Picked(s)}
      <3>1. Picked(s) \in T /\ Picked(s) \in s /\ u \in SUBSET T /\ Picked(s) \notin u
        BY <2>5, PickedIn
      <3>2. PICK h : AddsUp(h, w, u) /\ Total(w, u) = h[u]
        <4> HIDE DEF u
        <4> QED
          BY <2>4, <3>1 DEF Total
      <3>3. CASE u = {}
        BY <3>1, <3>2, <3>3, SumUnfolds
      <3>4. CASE u # {}
        <4> DEFINE v == u \ {Picked(u)}
        <4>1. v \in SUBSET T /\ v \subseteq u /\ Picked(s) \notin v /\ IsFiniteSet(v)
          BY <2>3, <3>1, FS_Subset
        <4>2. PICK k : AddsUp(k, w, v) /\ Total(w, v) = k[v]
          <5> HIDE DEF u, v
          <5> QED
            BY <2>4, <3>1, <4>1 DEF Total
        <4>3. k[v] = h[v]
          <5> HIDE DEF u, v
          <5> QED
            BY <3>2, <4>1, <4>2, OneSum
        <4>4. h[u] = w[Picked(u)] + h[v]
          <5> HIDE DEF u
          <5> QED
            BY <3>2, <3>4, SumUnfolds
        <4>5. G[u] = w[Picked(u)] + Total(w, v)
          <5> HIDE DEF u
          <5> QED
            BY <3>1, <3>4
        <4> QED
          BY <3>2, <4>2, <4>3, <4>4, <4>5
      <3> QED
        BY <3>3, <3>4
    <2>6. AddsUp(G, w, T)
      <3>1. \A s \in SUBSET T : G[s] = IF s = {} THEN 0 ELSE w[Picked(s)] + G[s \ {Picked(s)}]
        BY <2>5
      <3> QED
        BY <3>1 DEF AddsUp
    <2> QED
      BY <2>3, <2>6
  <1> QED
    BY <1>1

LEMMA TotalStep ==
  ASSUME NEW w, NEW S, IsFiniteSet(S)
  PROVE  Total(w, S) = IF S = {} THEN 0 ELSE w[Picked(S)] + Total(w, S \ {Picked(S)})
  <1>1. PICK g : AddsUp(g, w, S) /\ Total(w, S) = g[S]
    BY SumExists DEF Total
  <1>2. g[S] = IF S = {} THEN 0 ELSE w[Picked(S)] + g[S \ {Picked(S)}]
    BY <1>1, SumUnfolds
  <1>3. IsFiniteSet(S \ {Picked(S)})
    BY FS_Subset
  <1>4. PICK h : AddsUp(h, w, S \ {Picked(S)}) /\ Total(w, S \ {Picked(S)}) = h[S \ {Picked(S)}]
    BY <1>3, SumExists DEF Total
  <1>5. h[S \ {Picked(S)}] = g[S \ {Picked(S)}]
    BY <1>1, <1>3, <1>4, OneSum
  <1> QED
    BY <1>1, <1>2, <1>4, <1>5

LEMMA TotalInt ==
  ASSUME NEW w, NEW S, IsFiniteSet(S), \A x \in S : w[x] \in Int
  PROVE  Total(w, S) \in Int
  <1> DEFINE Odd == {T \in FiniteSubsetsOf(S) : Total(w, T) \notin Int}
  <1>1. ASSUME Total(w, S) \notin Int PROVE FALSE
    <2>1. S \in Odd /\ Odd \subseteq FiniteSubsetsOf(S)
      BY <1>1 DEF FiniteSubsetsOf
    <2>2. PICK T \in Odd : \A x \in T : T \ {x} \notin Odd
      <3> HIDE DEF Odd
      <3> QED
        BY <2>1, SmallestFinite
    <2>3. T \subseteq S /\ IsFiniteSet(T) /\ Total(w, T) \notin Int
      BY <2>2 DEF FiniteSubsetsOf
    <2>4. Total(w, T) = IF T = {} THEN 0 ELSE w[Picked(T)] + Total(w, T \ {Picked(T)})
      BY <2>3, TotalStep
    <2>5. T # {} /\ Picked(T) \in T
      BY <2>3, <2>4, PickedIn
    <2>6. T \ {Picked(T)} \in FiniteSubsetsOf(S)
      BY <2>3, FS_Subset DEF FiniteSubsetsOf
    <2>7. Total(w, T \ {Picked(T)}) \in Int
      BY <2>2, <2>5, <2>6
    <2> QED
      BY <2>3, <2>4, <2>5, <2>7
  <1> QED
    BY <1>1

LEMMA TotalWithout ==
  ASSUME NEW w, NEW S, IsFiniteSet(S), \A x \in S : w[x] \in Int, NEW x \in S
  PROVE  Total(w, S) = w[x] + Total(w, S \ {x})
  <1> DEFINE Odd == {T \in FiniteSubsetsOf(S) : \E y \in T : Total(w, T) # w[y] + Total(w, T \ {y})}
  <1>1. ASSUME Total(w, S) # w[x] + Total(w, S \ {x}) PROVE FALSE
    <2>1. S \in Odd /\ Odd \subseteq FiniteSubsetsOf(S)
      BY <1>1 DEF FiniteSubsetsOf
    <2>2. PICK T \in Odd : \A y \in T : T \ {y} \notin Odd
      <3> HIDE DEF Odd
      <3> QED
        BY <2>1, SmallestFinite
    <2>3. T \subseteq S /\ IsFiniteSet(T) /\ T \in FiniteSubsetsOf(S)
      BY <2>2 DEF FiniteSubsetsOf
    <2>4. PICK y \in T : Total(w, T) # w[y] + Total(w, T \ {y})
      BY <2>2
    <2> DEFINE c == Picked(T)
    <2>5. c \in T /\ Total(w, T) = w[c] + Total(w, T \ {c})
      BY <2>3, <2>4, TotalStep, PickedIn
    <2> HIDE DEF c
    <2>6. c # y
      BY <2>4, <2>5
    <2>7. T \ {c} \in FiniteSubsetsOf(S) /\ T \ {y} \in FiniteSubsetsOf(S)
      BY <2>3, FS_Subset DEF FiniteSubsetsOf
    <2>8. Total(w, T \ {c}) = w[y] + Total(w, (T \ {c}) \ {y})
      BY <2>2, <2>5, <2>6, <2>7
    <2>9. Total(w, T \ {y}) = w[c] + Total(w, (T \ {y}) \ {c})
      BY <2>2, <2>5, <2>6, <2>7
    <2>10. (T \ {c}) \ {y} = (T \ {y}) \ {c}
      OBVIOUS
    <2>11. IsFiniteSet((T \ {c}) \ {y})
      BY <2>3, FS_Subset
    <2>12. Total(w, (T \ {c}) \ {y}) \in Int
      BY <2>3, <2>11, TotalInt
    <2>13. w[c] \in Int /\ w[y] \in Int
      BY <2>3, <2>5
    <2>14. ASSUME NEW a \in Int, NEW b \in Int, NEW r \in Int, NEW t, NEW p, NEW q,
                  t = a + p, p = b + r, q = a + r
           PROVE  t = b + q
      BY <2>14
    <2>15. Total(w, T) = w[y] + Total(w, T \ {y})
      <3>1. Total(w, T \ {y}) = w[c] + Total(w, (T \ {c}) \ {y})
        BY <2>9, <2>10
      <3> QED
        BY <2>5, <2>8, <3>1, <2>12, <2>13, <2>14
    <2> QED
      BY <2>4, <2>15
  <1> QED
    BY <1>1

(* The ledger's sums are such sums.                                        *)
LEMMA SumIsTotal ==
  ASSUME NEW S, NEW T, T \subseteq S, IsFiniteSet(T)
  PROVE  Books!SumOf(T) = Total([e \in S |-> e.amount], T)
  <1> DEFINE w == [e \in S |-> e.amount]
             Adds(g) == g = [s \in SUBSET T |->
                               IF s = {} THEN 0 ELSE (CHOOSE x \in s : TRUE).amount + g[s \ {CHOOSE x \in s : TRUE}]]
  <1>1. Books!SumOf(T) = (CHOOSE g : Adds(g))[T]
    BY DEF Books!SumOf, Books!MapThenSumSet, Books!MapThenFoldSet
  <1>2. ASSUME NEW s \in SUBSET T, s # {}
        PROVE  w[Picked(s)] = (CHOOSE x \in s : TRUE).amount /\ Picked(s) = (CHOOSE x \in s : TRUE)
    BY <1>2, PickedIn DEF Picked
  <1>3. ASSUME NEW g PROVE Adds(g) <=> AddsUp(g, w, T)
    BY <1>2, ZenonT(60) DEF AddsUp
  <1>4. \E g : AddsUp(g, w, T)
    BY SumExists
  <1> HIDE DEF Adds, w
  <1>5. PICK g : Adds(g) /\ Books!SumOf(T) = g[T]
    BY <1>1, <1>3, <1>4
  <1>6. PICK h : AddsUp(h, w, T) /\ Total(w, T) = h[T]
    BY <1>4 DEF Total
  <1>7. g[T] = h[T]
    BY <1>3, <1>5, <1>6, OneSum
  <1> QED
    BY <1>5, <1>6, <1>7 DEF w

-----------------------------------------------------------------------------
(* Banking days.                                                           *)
LEMMA BookSizes ==
  /\ \A S : Books!Cardinality(S) = Cardinality(S)
  /\ \A S : Books!IsFiniteSet(S) <=> IsFiniteSet(S)
  <1>1. ASSUME NEW S PROVE Books!Cardinality(S) = Cardinality(S)
    BY DEF Books!Cardinality, Cardinality
  <1>2. ASSUME NEW S PROVE Books!IsFiniteSet(S) <=> IsFiniteSet(S)
    BY DEF Books!IsFiniteSet, IsFiniteSet
  <1> QED
    BY <1>1, <1>2

LEMMA BookConstants ==
  /\ Faces \subseteq Nat /\ Quantities \subseteq Nat /\ BookMoments \subseteq Int /\ 0 \in BookMoments
  /\ \A hours \in ShowTimes : hours.starts \in Int /\ hours.ends \in Int
  /\ Holidays \subseteq Int /\ IsFiniteSet(Holidays)
  BY OfficeAssumption, BookSizes DEF Books!LedgerAssumption

(* A finite set of numbers has a least member.                             *)
LEMMA Least ==
  ASSUME NEW S, S \subseteq Int, IsFiniteSet(S), S # {}
  PROVE  \E x \in S : \A y \in S : x <= y
  <1> DEFINE Low(T) == \E x \in T : \A y \in T : x <= y
             Odd == {T \in FiniteSubsetsOf(S) : T # {} /\ ~Low(T)}
  <1>1. ASSUME ~Low(S) PROVE FALSE
    <2>1. S \in Odd /\ Odd \subseteq FiniteSubsetsOf(S)
      BY <1>1 DEF FiniteSubsetsOf
    <2>2. PICK T \in Odd : \A x \in T : T \ {x} \notin Odd
      <3> HIDE DEF Odd
      <3> QED
        BY <2>1, SmallestFinite
    <2>3. PICK x : x \in T
      OBVIOUS
    <2>4. T \subseteq Int /\ IsFiniteSet(T)
      BY DEF FiniteSubsetsOf
    <2>5. T \ {x} \in FiniteSubsetsOf(S)
      BY <2>4, FS_Subset DEF FiniteSubsetsOf
    <2>6. T \ {x} = {} \/ Low(T \ {x})
      BY <2>2, <2>3, <2>5
    <2>7. Low(T)
      <3>1. CASE T \ {x} = {}
        BY <2>3, <2>4, <3>1
      <3>2. CASE Low(T \ {x})
        BY <2>3, <2>4, <3>2
      <3> QED
        BY <2>6, <3>1, <3>2
    <2> QED
      BY <2>7
  <1> QED
    BY <1>1

(* The banks' calendar.                                                    *)
WorkingDays(from, to) == {d \in from..to : Books!IsBusinessDay(d)}

LEMMA DaysFinite ==
  ASSUME NEW a \in Int, NEW b \in Int
  PROVE  IsFiniteSet(WorkingDays(a, b)) /\ Cardinality(WorkingDays(a, b)) \in Nat
  BY FS_Interval, FS_Subset, FS_CardinalityType DEF WorkingDays

(* Every week has a Monday, and only so many of them are holidays.         *)
LEMMA DaysEnough ==
  ASSUME NEW start \in Int, NEW n \in Nat, n >= Cardinality(Holidays)
  PROVE  Cardinality(WorkingDays(start + 1, start + 7 * n)) >= n - Cardinality(Holidays)
  <1> DEFINE A == WorkingDays(start + 1, start + 7 * n)
             monday == [i \in 1..n |-> start + 7 * i - (start % 7)]
  <1>1. PICK q \in Int, r \in 0..6 : start % 7 = r /\ start = 7 * q + r
    BY DivMod
  <1>2. ASSUME NEW i \in 1..n
        PROVE  /\ monday[i] \in (start + 1)..(start + 7 * n) /\ monday[i] % 7 = 0
               /\ monday[i] = start + 7 * i - r
    <2>1. i \in Nat /\ i >= 1 /\ i <= n /\ monday[i] = start + 7 * i - r
      BY <1>1
    <2>2. monday[i] = 7 * (q + i)
      BY <1>1, <2>1
    <2>3. (7 * (q + i)) % 7 = 0
      BY MultipleOf
    <2> QED
      BY <1>1, <2>1, <2>2, <2>3
  <1>3. ASSUME NEW i \in 1..n PROVE monday[i] \in A \cup Holidays
    BY <1>2 DEF WorkingDays, Books!IsBusinessDay
  <1>4. monday \in Injection(1..n, A \cup Holidays)
    <2>1. \A i, j \in 1..n : monday[i] = monday[j] => i = j
      BY <1>1, <1>2
    <2>2. monday \in [1..n -> A \cup Holidays]
      BY <1>3
    <2> HIDE DEF monday, A
    <2> QED
      BY <2>1, <2>2 DEF Injection, IsInjective
  <1>5. IsFiniteSet(A) /\ Cardinality(A) \in Nat
    <2>1. start + 1 \in Int /\ start + 7 * n \in Int
      OBVIOUS
    <2> QED
      BY ONLY <2>1, DaysFinite
  <1>6. IsFiniteSet(Holidays) /\ Cardinality(Holidays) \in Nat
    BY BookConstants, FS_CardinalityType
  <1> HIDE DEF monday, A
  <1>7. IsFiniteSet(A \cup Holidays) /\ IsFiniteSet(A \cap Holidays)
        /\ Cardinality(A \cup Holidays) = Cardinality(A) + Cardinality(Holidays) - Cardinality(A \cap Holidays)
    BY <1>5, <1>6, FS_Union, FS_Intersection
  <1>8. Cardinality(A \cap Holidays) \in Nat
    BY <1>7, FS_CardinalityType
  <1>9. Cardinality(1..n) = n
    BY FS_Interval
  <1>10. n <= Cardinality(A \cup Holidays)
    BY <1>4, <1>7, <1>9, FS_Injection
  <1>11. n <= Cardinality(A) + Cardinality(Holidays)
    BY <1>5, <1>6, <1>7, <1>8, <1>10
  <1> QED
    BY <1>5, <1>6, <1>11 DEF A

LEMMA OneMoreDay ==
  ASSUME NEW a \in Int, NEW b \in Int, b >= a
  PROVE  /\ Books!IsBusinessDay(b) =>
              Cardinality(WorkingDays(a, b)) = Cardinality(WorkingDays(a, b - 1)) + 1
         /\ ~Books!IsBusinessDay(b) =>
              Cardinality(WorkingDays(a, b)) = Cardinality(WorkingDays(a, b - 1))
  <1>1. CASE Books!IsBusinessDay(b)
    <2>1. WorkingDays(a, b) = WorkingDays(a, b - 1) \cup {b} /\ b \notin WorkingDays(a, b - 1)
      BY <1>1 DEF WorkingDays
    <2>2. IsFiniteSet(WorkingDays(a, b - 1))
      BY DaysFinite
    <2> QED
      BY <1>1, <2>1, <2>2, FS_AddElement
  <1>2. CASE ~Books!IsBusinessDay(b)
    <2>1. WorkingDays(a, b) = WorkingDays(a, b - 1)
      BY <1>2 DEF WorkingDays
    <2> QED
      BY <1>2, <2>1
  <1> QED
    BY <1>1, <1>2

(* Counting on, day by day, one meets every number on the way.             *)
LEMMA DayReached ==
  ASSUME NEW start \in Int, NEW last \in Int, NEW days \in Nat \ {0},
         Cardinality(WorkingDays(start + 1, last)) >= days
  PROVE  \E d \in WorkingDays(start + 1, last) : Cardinality(WorkingDays(start + 1, d)) = days
  <1> DEFINE Far == {d \in (start + 1)..last : Cardinality(WorkingDays(start + 1, d)) >= days}
  <1>1. start < last
    <2>1. ASSUME start >= last PROVE FALSE
      <3>1. WorkingDays(start + 1, last) = {}
        BY <2>1 DEF WorkingDays
      <3> QED
        BY <3>1, FS_EmptySet
    <2> QED
      BY <2>1
  <1>2. last \in Far
    BY <1>1
  <1>3. IsFiniteSet(Far) /\ Far \subseteq Int
    BY FS_Interval, FS_Subset, SMTT(30)
  <1>4. PICK d \in Far : \A e \in Far : d <= e
    <2> HIDE DEF Far
    <2> QED
      BY <1>2, <1>3, Least
  <1>5. d \in Int /\ d >= start + 1 /\ d <= last /\ Cardinality(WorkingDays(start + 1, d)) >= days
    OBVIOUS
  <1>6. Cardinality(WorkingDays(start + 1, d - 1)) \in Nat /\ Cardinality(WorkingDays(start + 1, d - 1)) < days
    <2>1. Cardinality(WorkingDays(start + 1, d - 1)) \in Nat
      <3>1. start + 1 \in Int /\ d - 1 \in Int
        BY <1>5
      <3> QED
        BY ONLY <3>1, DaysFinite
    <2>2. CASE d - 1 >= start + 1
      BY <1>4, <1>5, <2>1, <2>2
    <2>3. CASE d = start + 1
      <3>1. WorkingDays(start + 1, d - 1) = {}
        BY <2>3 DEF WorkingDays
      <3> QED
        BY <3>1, FS_EmptySet
    <2> QED
      BY <1>5, <2>1, <2>2, <2>3
  <1>7. Books!IsBusinessDay(d) /\ Cardinality(WorkingDays(start + 1, d)) = days
    BY <1>5, <1>6, OneMoreDay
  <1> QED
    BY <1>5, <1>7 DEF WorkingDays

LEMMA DayOf == ASSUME NEW hour \in Int PROVE Books!LocalDay(hour) = (hour - 3) \div 24 /\ Books!LocalDay(hour) \in Int
  BY DEF Books!LocalDay, Books!Brasilia

LEMMA AddsDays ==
  ASSUME NEW from \in Int, NEW days \in Nat \ {0}
  PROVE  LET at == Books!AddBusinessDays(from, days)
             last == (at - 3) \div 24
         IN  /\ at \in Int /\ at % 24 = from % 24
             /\ Books!IsBusinessDay(last)
             /\ Cardinality(WorkingDays((from - 3) \div 24 + 1, last)) = days
  <1> DEFINE start == Books!LocalDay(from)
             end == start + 7 * (days + Cardinality(Holidays))
             ahead == {d \in (start + 1)..end : Books!IsBusinessDay(d)}
             Hit(d) == Books!Cardinality({e \in ahead : e <= d}) = days
             reached == CHOOSE d \in ahead : Hit(d)
  <1>1. start \in Int /\ start = (from - 3) \div 24
    BY DayOf
  <1>2. Cardinality(Holidays) \in Nat
    BY BookConstants, FS_CardinalityType
  <1>3. end \in Int /\ ahead = WorkingDays(start + 1, end)
    BY <1>1, <1>2 DEF WorkingDays
  <1>4. ASSUME NEW d \in ahead PROVE {e \in ahead : e <= d} = WorkingDays(start + 1, d) /\ d \in Int
    BY <1>1, <1>3 DEF WorkingDays
  <1>5. Books!AddBusinessDays(from, days) = from + 24 * (reached - start)
    BY BookSizes DEF Books!AddBusinessDays
  <1> HIDE DEF start
  <1>6. Cardinality(WorkingDays(start + 1, end)) >= days
    <2> DEFINE n == days + Cardinality(Holidays)
    <2>1. n \in Nat /\ n >= Cardinality(Holidays) /\ n - Cardinality(Holidays) = days
      BY <1>2
    <2> HIDE DEF n
    <2>2. Cardinality(WorkingDays(start + 1, start + 7 * n)) >= n - Cardinality(Holidays)
      BY <1>1, <2>1, DaysEnough
    <2> QED
      BY <2>1, <2>2 DEF n
  <1> HIDE DEF end
  <1>7. PICK d \in WorkingDays(start + 1, end) : Cardinality(WorkingDays(start + 1, d)) = days
    BY <1>1, <1>3, <1>6, DayReached
  <1>8. d \in ahead /\ Hit(d)
    <2>1. d \in ahead
      BY <1>3, <1>7
    <2> QED
      BY <2>1, <1>4, <1>7, BookSizes
  <1>9. reached \in ahead /\ Hit(reached)
    <2> HIDE DEF ahead, Hit
    <2> QED
      BY <1>8
  <1> HIDE DEF reached
  <1>10. reached \in Int /\ Books!IsBusinessDay(reached) /\ Cardinality(WorkingDays(start + 1, reached)) = days
    BY <1>4, <1>9, BookSizes
  <1> DEFINE at == Books!AddBusinessDays(from, days)
  <1>11. at = from + 24 * (reached - start) /\ at \in Int
    BY <1>1, <1>5, <1>10
  <1>12. at % 24 = from % 24 /\ (at - 3) \div 24 = reached
    BY <1>1, <1>10, <1>11
  <1> QED
    BY <1>1, <1>10, <1>11, <1>12

-----------------------------------------------------------------------------
(* The ledger.  What it has of an order is what its payment accrued, that  *)
(* and one reversal of all of it, or nothing; the first falls due on a     *)
(* banking day that some stated hour of the show leads to.                 *)
SaleEntry(o, face, at) ==
    [id |-> <<o, 1>>, order |-> o, kind |-> "sale", amount |-> face - Books!ReserveOn(face), availableAt |-> at]
ReserveEntry(o, face, at) ==
    [id |-> <<o, 2>>, order |-> o, kind |-> "reserve", amount |-> Books!ReserveOn(face), availableAt |-> at + 720]
BackEntry(o, face, kind, at) ==
    [id |-> <<o, kind, at>>, order |-> o, kind |-> kind, amount |-> 0 - face, availableAt |-> at]
Accrual(o, face, at) == {e \in {SaleEntry(o, face, at), ReserveEntry(o, face, at)} : e.amount > 0}

LEMMA SumTakes ==
  ASSUME NEW T, IsFiniteSet(T), \A e \in T : e.amount \in Int, NEW e
  PROVE  /\ Books!SumOf(T) = (IF e \in T THEN e.amount ELSE 0) + Books!SumOf(T \ {e})
         /\ Books!SumOf(T) \in Int /\ Books!SumOf(T \ {e}) \in Int
  <1> DEFINE w == [x \in T |-> x.amount]
  <1>1. IsFiniteSet(T \ {e}) /\ T \ {e} \subseteq T
    BY FS_Subset
  <1>2. \A x \in T : w[x] \in Int /\ w[x] = x.amount
    OBVIOUS
  <1> HIDE DEF w
  <1>3. Books!SumOf(T) = Total(w, T) /\ Books!SumOf(T \ {e}) = Total(w, T \ {e})
    BY <1>1, SumIsTotal DEF w
  <1>4. Total(w, T) \in Int /\ Total(w, T \ {e}) \in Int
    BY <1>1, <1>2, TotalInt
  <1>5. CASE e \in T
    BY <1>2, <1>3, <1>4, <1>5, TotalWithout
  <1>6. CASE e \notin T
    <2>1. T \ {e} = T
      BY <1>6
    <2>2. PICK m \in Int : m = Total(w, T)
      BY <1>4
    <2>3. m = 0 + m
      OBVIOUS
    <2> QED
      BY <1>3, <1>6, <2>1, <2>2, <2>3
  <1> QED
    BY <1>5, <1>6

LEMMA SumOfNone == Books!SumOf({}) = 0
  <1>1. Books!SumOf({}) = Total([e \in {} |-> e.amount], {})
    BY SumIsTotal, FS_EmptySet
  <1> QED
    BY <1>1, TotalStep, FS_EmptySet

LEMMA ReserveIs ==
  ASSUME NEW face \in Nat
  PROVE  /\ Books!ReserveOn(face) \in Nat /\ Books!ReserveOn(face) <= face
         /\ face - Books!ReserveOn(face) \in Nat /\ (face > 0 => face - Books!ReserveOn(face) > 0)
         /\ Books!ReserveOn(face) = (face * 1000) \div 10000
  BY DEF Books!ReserveOn, Books!StandardTerms, Books!BasisPointsPerUnit

(* Part of a claim is never more than its face, and the whole is the face. *)
LEMMA ClaimAdds ==
  ASSUME NEW o, NEW face \in Nat, NEW at \in Int, NEW T \in SUBSET Accrual(o, face, at)
  PROVE  /\ IsFiniteSet(T) /\ \A e \in T : e.amount \in Int
         /\ Books!SumOf(T) \in 0..face
         /\ T = Accrual(o, face, at) => Books!SumOf(T) = face
  <1> DEFINE a == SaleEntry(o, face, at)
             b == ReserveEntry(o, face, at)
  <1>1. a.amount = face - Books!ReserveOn(face) /\ b.amount = Books!ReserveOn(face) /\ a # b
    <2>1. a.kind = "sale" /\ b.kind = "reserve"
      BY DEF SaleEntry, ReserveEntry
    <2> QED
      BY <2>1 DEF SaleEntry, ReserveEntry
  <1>2. T \subseteq {a, b} /\ (T = Accrual(o, face, at) => (a \in T <=> a.amount > 0) /\ (b \in T <=> b.amount > 0))
    BY DEF Accrual
  <1> HIDE DEF a, b
  <1>3. PICK r \in Nat : r <= face /\ a.amount = face - r /\ b.amount = r
    <2>1. PICK r \in Nat : r = Books!ReserveOn(face) /\ r <= face
      BY ReserveIs
    <2> QED
      BY <1>1, <2>1
  <1>4. IsFiniteSet({a, b})
    <2>1. {a, b} = {a} \cup {b} /\ IsFiniteSet({a})
      BY FS_Singleton
    <2> QED
      BY <2>1, FS_AddElement
  <1>5. IsFiniteSet(T) /\ IsFiniteSet(T \ {a}) /\ (T \ {a}) \ {b} = {}
    BY <1>2, <1>4, FS_Subset
  <1>6. \A e \in T : e.amount \in Int
    BY <1>2, <1>3
  <1>7. Books!SumOf(T) = (IF a \in T THEN a.amount ELSE 0) + Books!SumOf(T \ {a})
    BY <1>5, <1>6, SumTakes
  <1>8. Books!SumOf(T \ {a}) = (IF b \in T \ {a} THEN b.amount ELSE 0) + Books!SumOf({})
    BY <1>5, <1>6, SumTakes
  <1>9. Books!SumOf(T) = (IF a \in T THEN face - r ELSE 0) + (IF b \in T THEN r ELSE 0)
    BY <1>1, <1>3, <1>7, <1>8, SumOfNone
  <1>10. Books!SumOf(T) \in 0..face
    BY <1>3, <1>9
  <1>11. ASSUME T = Accrual(o, face, at) PROVE Books!SumOf(T) = face
    BY <1>2, <1>3, <1>9, <1>11
  <1> QED
    BY <1>5, <1>6, <1>10, <1>11

GoneBack(r, o, face) ==
    face > 0 /\ \E kind \in {"refund", "chargeback"}, back \in Int : r = BackEntry(o, face, kind, back)

LEMMA NothingClaimed == ASSUME NEW o, NEW at PROVE Accrual(o, 0, at) = {}
  <1>1. Books!ReserveOn(0) = 0
    BY DEF Books!ReserveOn, Books!StandardTerms, Books!BasisPointsPerUnit
  <1>2. SaleEntry(o, 0, at).amount = 0 /\ ReserveEntry(o, 0, at).amount = 0
    BY <1>1 DEF SaleEntry, ReserveEntry
  <1> QED
    BY <1>2 DEF Accrual

(* Once the money went back, what is left is nothing, and any part of it   *)
(* that has the reversal is at most that.                                  *)
WithBack(T, es, o, face, at, kind, back) ==
    /\ kind \in {"refund", "chargeback"} /\ es = Accrual(o, face, at) \cup {BackEntry(o, face, kind, back)}
    /\ T \subseteq es /\ BackEntry(o, face, kind, back) \in T
LEMMA BackAdds ==
  ASSUME NEW T, NEW es, NEW o, NEW face \in Nat, NEW at \in Int, NEW kind, NEW back,
         WithBack(T, es, o, face, at, kind, back)
  PROVE  /\ Books!SumOf(T) \in Int /\ Books!SumOf(T) <= 0
         /\ T = es => Books!SumOf(T) = 0
  <1> USE DEF WithBack
  <1> DEFINE b == BackEntry(o, face, kind, back)
             rest == T \ {b}
  <1>1. b.amount = 0 - face /\ b \notin Accrual(o, face, at)
    <2>1. b.kind \notin {"sale", "reserve"} /\ b.amount = 0 - face
      BY DEF BackEntry
    <2>2. \A e \in Accrual(o, face, at) : e.kind \in {"sale", "reserve"}
      BY DEF Accrual, SaleEntry, ReserveEntry
    <2> QED
      BY <2>1, <2>2
  <1> HIDE DEF b
  <1>2. /\ rest \in SUBSET Accrual(o, face, at) /\ b \in T /\ T = rest \cup {b}
        /\ T = es => rest = Accrual(o, face, at)
    BY <1>1 DEF b
  <1> HIDE DEF rest
  <1>3. /\ IsFiniteSet(rest) /\ \A e \in rest : e.amount \in Int
        /\ Books!SumOf(rest) \in 0..face
        /\ rest = Accrual(o, face, at) => Books!SumOf(rest) = face
    BY <1>2, ClaimAdds
  <1>4. IsFiniteSet(T) /\ \A e \in T : e.amount \in Int
    <2>1. IsFiniteSet(rest \cup {b})
      BY <1>3, FS_AddElement
    <2> QED
      BY <1>1, <1>2, <1>3, <2>1
  <1>5. Books!SumOf(T) = (IF b \in T THEN b.amount ELSE 0) + Books!SumOf(T \ {b})
    BY <1>4, SumTakes
  <1>6. Books!SumOf(T) = (0 - face) + Books!SumOf(rest)
    BY <1>1, <1>2, <1>5 DEF rest
  <1> QED
    BY <1>2, <1>3, <1>6

EndOf(hours) == IF hours.ends > hours.starts THEN hours.ends ELSE hours.starts
FallsDue(at) ==
    /\ at \in Int
    /\ \E hours \in ShowTimes :
          /\ Books!IsBusinessDay((at - 3) \div 24) /\ at % 24 = EndOf(hours) % 24
          /\ Cardinality(WorkingDays((EndOf(hours) - 3) \div 24 + 1, (at - 3) \div 24)) = 3
PriceOK(p) ==
    /\ p.face \in Nat /\ p.fee \in Nat /\ p.total = p.face + p.fee
    /\ p.unitFace \in Nat /\ p.unitFee = Books!FeeOn(p.unitFace)
IsSold(s) ==
    /\ s = [price |-> s.price, status |-> s.status, beforeLedger |-> s.beforeLedger]
    /\ s.status \in {"pending", "paid", "expired", "refund_required", "refunded"} /\ s.beforeLedger \in BOOLEAN
    /\ s.beforeLedger => s.status \in {"paid", "refunded"}
    /\ PriceOK(s.price)
(* What the ledger has of an order.                                        *)
Recorded(o, s, es, moment) ==
    /\ s.status = "paid" /\ ~s.beforeLedger =>
          \E at : FallsDue(at) /\ es = Accrual(o, s.price.face, at)
    /\ s.status = "refunded" =>
          \/ es = {}
          \/ \E at, back \in Int, kind \in {"refund", "chargeback"} :
                /\ FallsDue(at) /\ back <= moment /\ s.price.face > 0
                /\ es = Accrual(o, s.price.face, at) \cup {BackEntry(o, s.price.face, kind, back)}
    /\ s.status \notin {"paid", "refunded"} \/ s.beforeLedger => es = {}
BooksInv ==
    /\ clock \in BookMoments /\ happening \in ShowTimes
    /\ sale = [o \in Sales |-> sale[o]] /\ \A o \in Sales : IsSold(sale[o]) /\ Recorded(o, sale[o], Books!On(o), clock)
    /\ \A e \in ledger : e.order \in Sales /\ e.id[1] = e.order

LEMMA EndIs ==
  ASSUME NEW hours \in ShowTimes PROVE EndOf(hours) \in Int
  BY BookConstants DEF EndOf

LEMMA QuoteIs ==
  ASSUME NEW face \in Faces, NEW quantity \in Quantities
  PROVE  PriceOK(Books!Quote(face, quantity))
  <1>1. face \in Nat /\ quantity \in Nat
    BY BookConstants
  <1>2. Books!FeeOn(face) \in Nat
    BY <1>1 DEF Books!FeeOn, Books!PlatformFee, Books!BasisPointsPerUnit
  <1>3. PICK fee \in Nat : fee = Books!FeeOn(face)
    BY <1>2
  <1>4. face * quantity \in Nat /\ fee * quantity \in Nat
    BY <1>1, <1>3
  <1>5. PICK p, q, t : p = face * quantity /\ q = fee * quantity /\ t = p + q /\ p \in Nat /\ q \in Nat
    BY <1>4
  <1>6. Books!Quote(face, quantity) =
          [unitFace |-> face, unitFee |-> fee, quantity |-> quantity, face |-> p, fee |-> q, total |-> t]
    BY <1>3, <1>5 DEF Books!Quote
  <1> QED
    BY <1>1, <1>3, <1>5, <1>6 DEF PriceOK

LEMMA BooksStart == Books!Init => BooksInv
  <1> SUFFICES ASSUME Books!Init PROVE BooksInv
    OBVIOUS
  <1>1. clock \in BookMoments /\ happening \in ShowTimes /\ ledger = {}
    BY BookConstants DEF Books!Init
  <1>2. sale = [o \in Sales |-> sale[o]]
    BY DEF Books!Init
  <1>3. ASSUME NEW o \in Sales PROVE IsSold(sale[o]) /\ Recorded(o, sale[o], Books!On(o), clock)
    <2>1. PICK face \in Faces, quantity \in Quantities, s \in {"pending", "paid"} :
            sale[o] = [price |-> Books!Quote(face, quantity), status |-> s, beforeLedger |-> s = "paid"]
      BY DEF Books!Init
    <2>2. PICK p : p = Books!Quote(face, quantity) /\ PriceOK(p)
      BY QuoteIs
    <2>3. PICK before \in BOOLEAN : before = (s = "paid")
      OBVIOUS
    <2>4. sale[o] = [price |-> p, status |-> s, beforeLedger |-> before]
      BY <2>1, <2>2, <2>3
    <2>5. sale[o].price = p /\ sale[o].status = s /\ sale[o].beforeLedger = before
      BY <2>4
    <2>6. IsSold(sale[o])
      BY <2>2, <2>3, <2>4, <2>5 DEF IsSold
    <2>7. Books!On(o) = {}
      BY <1>1 DEF Books!On
    <2> QED
      BY <2>3, <2>5, <2>6, <2>7 DEF Recorded
  <1> QED
    BY <1>1, <1>2, <1>3 DEF BooksInv

LEMMA LedgerGrows ==
  ASSUME BooksInv, NEW o \in Sales, NEW N, ledger' = ledger \cup N, \A e \in N : e.order = o /\ e.id[1] = o
  PROVE  /\ Books!On(o)' = Books!On(o) \cup N
         /\ \A p \in Sales : p # o => Books!On(p)' = Books!On(p)
         /\ \A e \in ledger' : e.order \in Sales /\ e.id[1] = e.order
  <1>1. \A e \in ledger : e.order \in Sales /\ e.id[1] = e.order
    BY DEF BooksInv
  <1>2. Books!On(o)' = Books!On(o) \cup N
    BY DEF Books!On
  <1>3. ASSUME NEW p \in Sales, p # o PROVE Books!On(p)' = Books!On(p)
    BY <1>3 DEF Books!On
  <1>4. ASSUME NEW e \in ledger' PROVE e.order \in Sales /\ e.id[1] = e.order
    BY <1>1
  <1> QED
    BY <1>2, <1>3, <1>4

LEMMA Becomes ==
  ASSUME BooksInv, NEW o \in Sales, NEW status \in {"paid", "expired", "refund_required", "refunded"},
         Books!Become(o, status), sale[o].beforeLedger => status = "refunded"
  PROVE  /\ sale' = [p \in Sales |-> sale'[p]]
         /\ \A p \in Sales : p # o => sale'[p] = sale[p]
         /\ IsSold(sale'[o]) /\ sale'[o].status = status /\ sale'[o].price = sale[o].price
         /\ sale'[o].beforeLedger = sale[o].beforeLedger
  <1>1. sale = [p \in Sales |-> sale[p]] /\ IsSold(sale[o])
    BY DEF BooksInv
  <1>2. sale' = [sale EXCEPT ![o].status = status]
    BY DEF Books!Become
  <1>3. /\ sale' = [p \in Sales |-> sale'[p]] /\ \A p \in Sales : p # o => sale'[p] = sale[p]
        /\ sale'[o] = [sale[o] EXCEPT !.status = status]
    BY <1>1, <1>2
  <1>4. sale'[o] = [price |-> sale[o].price, status |-> status, beforeLedger |-> sale[o].beforeLedger]
    BY <1>1, <1>3 DEF IsSold
  <1>5. sale'[o].price = sale[o].price /\ sale'[o].status = status /\ sale'[o].beforeLedger = sale[o].beforeLedger
    BY <1>4
  <1> QED
    BY <1>1, <1>3, <1>4, <1>5 DEF IsSold

LEMMA Others ==
  ASSUME BooksInv, NEW o \in Sales, UNCHANGED <<clock, happening>>,
         sale' = [p \in Sales |-> sale'[p]],
         \A p \in Sales : p # o => sale'[p] = sale[p],
         \A p \in Sales : p # o => Books!On(p)' = Books!On(p),
         \A e \in ledger' : e.order \in Sales /\ e.id[1] = e.order,
         IsSold(sale'[o]), Recorded(o, sale'[o], Books!On(o)', clock)
  PROVE  BooksInv'
  BY DEF BooksInv

LEMMA PaidKept == ASSUME BooksInv, NEW o \in Sales, Books!SettlePaid(o) PROVE BooksInv'
  <1> DEFINE face == sale[o].price.face
             at == Books!AddBusinessDays(Books!EventEndsAt, 3)
             N == {e \in Books!Accrued(o) : \A f \in ledger : f.id # e.id}
  <1>1. IsSold(sale[o]) /\ Recorded(o, sale[o], Books!On(o), clock) /\ sale[o].status \in {"pending", "expired"}
    BY DEF BooksInv, Books!SettlePaid
  <1>2. Books!On(o) = {} /\ ~sale[o].beforeLedger /\ face \in Nat
    BY <1>1 DEF IsSold, Recorded, PriceOK
  <1>3. FallsDue(at)
    <2>1. happening \in ShowTimes /\ Books!EventEndsAt = EndOf(happening)
      BY DEF BooksInv, Books!EventEndsAt, EndOf
    <2>2. EndOf(happening) \in Int
      BY <2>1, EndIs
    <2>3. PICK from \in Int : from = EndOf(happening)
      BY <2>2
    <2>4. at = Books!AddBusinessDays(from, 3)
      BY <2>1, <2>3
    <2>5. /\ at \in Int /\ at % 24 = from % 24 /\ Books!IsBusinessDay((at - 3) \div 24)
          /\ Cardinality(WorkingDays((from - 3) \div 24 + 1, (at - 3) \div 24)) = 3
      BY <2>4, AddsDays
    <2> HIDE DEF at
    <2> QED
      BY <2>1, <2>3, <2>5 DEF FallsDue
  <1>4. Books!Accrued(o) = Accrual(o, face, at)
    BY DEF Books!Accrued, Accrual, SaleEntry, ReserveEntry, Books!StandardTerms
  <1> HIDE DEF at
  <1>5. \A e \in Accrual(o, face, at) : e.order = o /\ e.id[1] = o
    BY DEF Accrual, SaleEntry, ReserveEntry
  <1>6. N = Accrual(o, face, at)
    <2>1. ASSUME NEW e \in Accrual(o, face, at), NEW f \in ledger, f.id = e.id PROVE FALSE
      BY <1>2, <1>5, <2>1 DEF BooksInv, Books!On
    <2> QED
      BY <1>4, <2>1
  <1>7. ledger' = ledger \cup Accrual(o, face, at)
    <2>1. CASE face = 0
      <3>1. Accrual(o, face, at) = {}
        BY <2>1, NothingClaimed
      <3> QED
        BY <2>1, <3>1 DEF Books!SettlePaid, Books!Accrue
    <2>2. CASE face # 0
      BY <1>6, <2>2 DEF Books!SettlePaid, Books!Accrue, Books!Append
    <2> QED
      BY <2>1, <2>2
  <1>8. /\ Books!On(o)' = Accrual(o, face, at)
        /\ \A p \in Sales : p # o => Books!On(p)' = Books!On(p)
        /\ \A e \in ledger' : e.order \in Sales /\ e.id[1] = e.order
    <2>1. PICK claims : claims = Accrual(o, face, at)
      OBVIOUS
    <2>2. ledger' = ledger \cup claims /\ \A e \in claims : e.order = o /\ e.id[1] = o
      BY <1>5, <1>7, <2>1
    <2>3. /\ Books!On(o)' = Books!On(o) \cup claims
          /\ \A p \in Sales : p # o => Books!On(p)' = Books!On(p)
          /\ \A e \in ledger' : e.order \in Sales /\ e.id[1] = e.order
      BY <2>2, LedgerGrows
    <2> QED
      BY <1>2, <2>1, <2>3
  <1>9. /\ sale' = [p \in Sales |-> sale'[p]]
        /\ \A p \in Sales : p # o => sale'[p] = sale[p]
        /\ IsSold(sale'[o]) /\ sale'[o].status = "paid" /\ sale'[o].price = sale[o].price
        /\ sale'[o].beforeLedger = sale[o].beforeLedger
    BY <1>2, Becomes DEF Books!SettlePaid
  <1>10. Recorded(o, sale'[o], Books!On(o)', clock)
    BY <1>2, <1>3, <1>8, <1>9 DEF Recorded
  <1> QED
    BY <1>8, <1>9, <1>10, Others DEF Books!SettlePaid

LEMMA RefundedKept ==
  ASSUME BooksInv, NEW o \in Sales, NEW kind \in {"refund", "chargeback"}, Books!SettleRefunded(o, kind)
  PROVE  BooksInv'
  <1> DEFINE face == sale[o].price.face
  <1>1. IsSold(sale[o]) /\ Recorded(o, sale[o], Books!On(o), clock) /\ sale[o].status \in {"paid", "refund_required"}
    BY DEF BooksInv, Books!SettleRefunded
  <1>2. face \in Nat
    BY <1>1 DEF IsSold, PriceOK
  <1>3. /\ sale' = [p \in Sales |-> sale'[p]]
        /\ \A p \in Sales : p # o => sale'[p] = sale[p]
        /\ IsSold(sale'[o]) /\ sale'[o].status = "refunded" /\ sale'[o].price = sale[o].price
        /\ sale'[o].beforeLedger = sale[o].beforeLedger
    BY Becomes DEF Books!SettleRefunded
  <1>4. clock \in Int
    BY BookConstants DEF BooksInv
  <1>5. ASSUME Books!On(o) = {} PROVE BooksInv'
    <2>1. Books!Outstanding(o) = 0
      BY <1>5, SumOfNone DEF Books!Outstanding
    <2>2. ledger' = ledger \cup {}
      BY <2>1 DEF Books!SettleRefunded, Books!Reverse
    <2>3. /\ Books!On(o)' = {}
          /\ \A p \in Sales : p # o => Books!On(p)' = Books!On(p)
          /\ \A e \in ledger' : e.order \in Sales /\ e.id[1] = e.order
      BY <1>5, <2>2, LedgerGrows
    <2>4. Recorded(o, sale'[o], Books!On(o)', clock)
      BY <1>3, <2>3 DEF Recorded, IsSold
    <2> QED
      BY <1>3, <2>3, <2>4, Others DEF Books!SettleRefunded
  <1>6. ASSUME Books!On(o) # {} PROVE BooksInv'
    <2>1. PICK at : FallsDue(at) /\ Books!On(o) = Accrual(o, face, at)
      BY <1>1, <1>6 DEF Recorded, IsSold
    <2>2. at \in Int
      BY <2>1 DEF FallsDue
    <2>3. face > 0
      <3>1. face # 0
        BY <1>6, <2>1, NothingClaimed
      <3> QED
        BY <1>2, <3>1
    <2>4. Books!Outstanding(o) = face
      BY <1>2, <2>1, <2>2, ClaimAdds DEF Books!Outstanding
    <2> DEFINE back == BackEntry(o, face, kind, clock)
               R == {e \in {back} : \A f \in ledger : f.id # e.id}
    <2>5. ledger' = ledger \cup R
      <3>1. back = [id |-> <<o, kind, clock>>, order |-> o, kind |-> kind,
                    amount |-> 0 - Books!Outstanding(o), availableAt |-> Books!ReversedAt]
        BY <2>4 DEF BackEntry, Books!ReversedAt
      <3>2. Books!Reverse(o, kind)
        BY DEF Books!SettleRefunded
      <3> HIDE DEF back
      <3>3. ~(Books!Outstanding(o) <= 0)
        BY <1>2, <2>3, <2>4
      <3>4. Books!Append({back})
        BY ONLY <3>1, <3>2, <3>3, Zenon DEF Books!Reverse
      <3> QED
        BY <3>4 DEF Books!Append
    <2>6. back.order = o /\ back.id = <<o, kind, clock>> /\ back.id[1] = o
      BY DEF BackEntry
    <2>7. R = {back}
      <3>1. ASSUME NEW f \in ledger, f.id = back.id PROVE FALSE
        <4>1. f \in Books!On(o)
          BY <2>6, <3>1 DEF BooksInv, Books!On
        <4>2. f.id = <<o, 1>> \/ f.id = <<o, 2>>
          BY <2>1, <4>1 DEF Accrual, SaleEntry, ReserveEntry
        <4>3. Len(f.id) = 2
          BY <4>2
        <4>4. Len(<<o, kind, clock>>) = 3
          OBVIOUS
        <4> QED
          BY <2>6, <3>1, <4>3, <4>4
      <3> QED
        BY <3>1
    <2> HIDE DEF back, R
    <2>8. /\ Books!On(o)' = Accrual(o, face, at) \cup {back}
          /\ \A p \in Sales : p # o => Books!On(p)' = Books!On(p)
          /\ \A e \in ledger' : e.order \in Sales /\ e.id[1] = e.order
      <3>1. PICK new : new = {back}
        OBVIOUS
      <3>2. ledger' = ledger \cup new /\ \A e \in new : e.order = o /\ e.id[1] = o
        BY <2>5, <2>6, <2>7, <3>1
      <3>3. /\ Books!On(o)' = Books!On(o) \cup new
            /\ \A p \in Sales : p # o => Books!On(p)' = Books!On(p)
            /\ \A e \in ledger' : e.order \in Sales /\ e.id[1] = e.order
        BY <3>2, LedgerGrows
      <3> QED
        BY <2>1, <3>1, <3>3
    <2>9. Recorded(o, sale'[o], Books!On(o)', clock)
      <3>1. clock \in Int /\ clock <= clock
        BY <1>4
      <3>2. ~sale[o].beforeLedger
        BY <1>1, <1>6 DEF Recorded
      <3>3. Books!On(o)' = Accrual(o, sale'[o].price.face, at) \cup {BackEntry(o, sale'[o].price.face, kind, clock)}
        BY <1>3, <2>8 DEF back
      <3> QED
        BY <1>3, <2>1, <2>2, <2>3, <3>1, <3>2, <3>3 DEF Recorded
    <2> QED
      BY <1>3, <2>8, <2>9, Others DEF Books!SettleRefunded
  <1> QED
    BY <1>5, <1>6

LEMMA OtherwiseKept ==
  ASSUME BooksInv, NEW o \in Sales, NEW status \in {"expired", "refund_required"}, Books!SettleOtherwise(o, status)
  PROVE  BooksInv'
  <1>1. IsSold(sale[o]) /\ Recorded(o, sale[o], Books!On(o), clock) /\ sale[o].status \in {"pending", "expired"}
    BY DEF BooksInv, Books!SettleOtherwise
  <1>2. Books!On(o) = {} /\ ~sale[o].beforeLedger
    BY <1>1 DEF IsSold, Recorded
  <1>3. ledger' = ledger \cup {}
    BY DEF Books!SettleOtherwise
  <1>4. /\ Books!On(o)' = {}
        /\ \A p \in Sales : p # o => Books!On(p)' = Books!On(p)
        /\ \A e \in ledger' : e.order \in Sales /\ e.id[1] = e.order
    BY <1>2, <1>3, LedgerGrows
  <1>5. /\ sale' = [p \in Sales |-> sale'[p]]
        /\ \A p \in Sales : p # o => sale'[p] = sale[p]
        /\ IsSold(sale'[o]) /\ sale'[o].status = status
    BY <1>2, Becomes DEF Books!SettleOtherwise
  <1>6. Recorded(o, sale'[o], Books!On(o)', clock)
    BY <1>4, <1>5 DEF Recorded
  <1> QED
    BY <1>4, <1>5, <1>6, Others DEF Books!SettleOtherwise

LEMMA BooksKept == ASSUME BooksInv, [Books!Next]_booksVars PROVE BooksInv'
  <1>1. CASE UNCHANGED booksVars
    BY <1>1 DEF booksVars, BooksInv, Books!On
  <1>2. CASE Books!Pass \/ Books!Reschedule
    <2>1. /\ UNCHANGED <<sale, ledger>> /\ clock' \in BookMoments /\ happening' \in ShowTimes
          /\ clock \in Int /\ clock' \in Int /\ clock' >= clock
      <3>1. clock \in Int /\ BookMoments \subseteq Int
        BY BookConstants DEF BooksInv
      <3> QED
        BY <1>2, <3>1 DEF Books!Pass, Books!Reschedule, BooksInv
    <2>2. ASSUME NEW o \in Sales PROVE Recorded(o, sale'[o], Books!On(o)', clock')
      <3>1. Recorded(o, sale[o], Books!On(o), clock) /\ sale'[o] = sale[o] /\ Books!On(o)' = Books!On(o)
        BY <2>1 DEF BooksInv, Books!On
      <3>2. \A back \in Int : back <= clock => back <= clock'
        BY <2>1
      <3> QED
        BY <3>1, <3>2 DEF Recorded
    <2> QED
      BY <2>1, <2>2 DEF BooksInv
  <1> QED
    BY <1>1, <1>2, PaidKept, RefundedKept, OtherwiseKept DEF Books!Next

LEMMA FeeRounds ==
  ASSUME NEW face \in Nat
  PROVE  LET off == 10 * Books!FeeOn(face) - face IN 0 - 5 < off /\ off <= 5
  BY DEF Books!FeeOn, Books!PlatformFee, Books!BasisPointsPerUnit

LEMMA BooksSafe == BooksInv => Books!TypeOK /\ Books!LedgerSound
  <1> SUFFICES ASSUME BooksInv PROVE Books!TypeOK /\ Books!LedgerSound
    OBVIOUS
  <1>1. ASSUME NEW o \in Sales
        PROVE  \/ Books!On(o) = {}
               \/ \E at, back \in Int, kind \in {"refund", "chargeback"} :
                    /\ FallsDue(at) /\ sale[o].price.face > 0
                    /\ Books!On(o) \subseteq Accrual(o, sale[o].price.face, at)
                                              \cup {BackEntry(o, sale[o].price.face, kind, back)}
               \/ \E at : FallsDue(at) /\ Books!On(o) = Accrual(o, sale[o].price.face, at)
    BY DEF BooksInv, Recorded, IsSold
  <1>2. ASSUME NEW e \in ledger
        PROVE  /\ e.order \in Sales /\ sale[e.order].price.face \in Nat
               /\ \E at : /\ FallsDue(at)
                          /\ e.kind = "sale" => e = SaleEntry(e.order, sale[e.order].price.face, at)
                          /\ e.kind \in {"sale", "reserve"} => e.amount > 0
                          /\ e.kind \in {"refund", "chargeback"} => e.amount < 0
                          /\ \A r \in Books!On(e.order) : r.kind = "reserve" => r.availableAt = at + 720
    <2> DEFINE o == e.order
               face == sale[o].price.face
    <2>1. o \in Sales /\ e \in Books!On(o) /\ face \in Nat
      BY DEF BooksInv, Books!On, IsSold, PriceOK
    <2>2. PICK at : FallsDue(at) /\ \A r \in Books!On(o) : r \in Accrual(o, face, at) \/ GoneBack(r, o, face)
      <3>1. Books!On(o) # {}
        BY <2>1
      <3>2. CASE \E at : FallsDue(at) /\ Books!On(o) = Accrual(o, face, at)
        BY <3>2
      <3>3. ASSUME NEW at, NEW back \in Int, NEW kind \in {"refund", "chargeback"}, FallsDue(at), face > 0,
                   Books!On(o) \subseteq Accrual(o, face, at) \cup {BackEntry(o, face, kind, back)}
            PROVE  \A r \in Books!On(o) : r \in Accrual(o, face, at) \/ GoneBack(r, o, face)
        BY <3>3 DEF GoneBack
      <3> QED
        BY <1>1, <2>1, <3>1, <3>2, <3>3
    <2>3. ASSUME NEW r \in Books!On(o)
          PROVE  \/ r = SaleEntry(o, face, at) /\ r.kind = "sale" /\ r.amount > 0
                 \/ r.kind = "reserve" /\ r.amount > 0 /\ r.availableAt = at + 720
                 \/ r.kind \in {"refund", "chargeback"} /\ r.amount < 0
      <3>1. r \in Accrual(o, face, at) \/ GoneBack(r, o, face)
        BY <2>2
      <3>2. CASE r \in Accrual(o, face, at)
        BY <3>2 DEF Accrual, SaleEntry, ReserveEntry
      <3>3. CASE GoneBack(r, o, face)
        BY <2>1, <3>3 DEF GoneBack, BackEntry
      <3> QED
        BY <3>1, <3>2, <3>3
    <2> HIDE DEF o, face
    <2>4. /\ e.kind = "sale" => e = SaleEntry(o, face, at)
          /\ e.kind \in {"sale", "reserve"} => e.amount > 0
          /\ e.kind \in {"refund", "chargeback"} => e.amount < 0
          /\ \A r \in Books!On(o) : r.kind = "reserve" => r.availableAt = at + 720
      BY <2>1, <2>3
    <2> QED
      BY <2>1, <2>2, <2>4 DEF o, face
  <1>3. Books!TypeOK
    BY <1>2 DEF BooksInv, IsSold, Books!TypeOK
  <1>4. ASSUME NEW o \in Sales
        PROVE  LET s == sale[o] IN
               /\ Books!SumOf(Books!On(o)) = IF s.status = "paid" /\ ~s.beforeLedger THEN s.price.face ELSE 0
               /\ s.status # "paid" => Books!BalanceOf(Books!On(o), clock).available <= 0
               /\ Books!On(o) # {} /\ s.status = "paid" => s.price.total - Books!SumOf(Books!On(o)) = s.price.fee
    <2> DEFINE face == sale[o].price.face
               Due(es) == {e \in es : e.availableAt <= clock}
    <2>1. /\ IsSold(sale[o]) /\ Recorded(o, sale[o], Books!On(o), clock)
          /\ face \in Nat /\ sale[o].price.fee \in Nat /\ sale[o].price.total = face + sale[o].price.fee
      BY DEF BooksInv, IsSold, PriceOK
    <2>2. Books!BalanceOf(Books!On(o), clock).available = Books!SumOf(Due(Books!On(o)))
      BY DEF Books!BalanceOf
    <2>3. CASE Books!On(o) = {}
      <3>1. Due(Books!On(o)) = {} /\ Books!SumOf(Books!On(o)) = 0
        BY <2>3, SumOfNone
      <3>2. ASSUME sale[o].status = "paid", ~sale[o].beforeLedger PROVE face = 0
        <4>1. PICK at : FallsDue(at) /\ Accrual(o, face, at) = {}
          BY <2>1, <2>3, <3>2 DEF Recorded
        <4>2. at \in Int
          BY <4>1 DEF FallsDue
        <4>3. Books!SumOf(Accrual(o, face, at)) = face
          BY <2>1, <4>2, ClaimAdds
        <4> QED
          BY <4>1, <4>3, SumOfNone
      <3> QED
        BY <2>2, <2>3, <3>1, <3>2, SumOfNone
    <2>4. CASE Books!On(o) # {} /\ sale[o].status = "paid"
      <3>1. ~sale[o].beforeLedger
        BY <2>1, <2>4 DEF Recorded
      <3>2. PICK at : FallsDue(at) /\ Books!On(o) = Accrual(o, face, at)
        BY <2>1, <2>4, <3>1 DEF Recorded
      <3>3. at \in Int
        BY <3>2 DEF FallsDue
      <3>4. Books!SumOf(Books!On(o)) = face
        BY <2>1, <3>2, <3>3, ClaimAdds
      <3> QED
        BY <2>1, <2>4, <3>1, <3>4
    <2>5. CASE Books!On(o) # {} /\ sale[o].status # "paid"
      <3>1. sale[o].status = "refunded"
        BY <2>1, <2>5 DEF Recorded, IsSold
      <3>a. PICK es : es = Books!On(o)
        OBVIOUS
      <3>b. PICK price : price = face
        OBVIOUS
      <3>2. PICK at, back \in Int, kind \in {"refund", "chargeback"} :
              /\ FallsDue(at) /\ back <= clock
              /\ es = Accrual(o, price, at) \cup {BackEntry(o, price, kind, back)}
        BY <2>1, <2>5, <3>1, <3>a, <3>b DEF Recorded
      <3>3. at \in Int /\ price \in Nat
        BY <2>1, <3>b, <3>2 DEF FallsDue
      <3>4. ASSUME NEW T, T \subseteq es, BackEntry(o, price, kind, back) \in T
            PROVE  /\ Books!SumOf(T) \in Int /\ Books!SumOf(T) <= 0
                   /\ T = es => Books!SumOf(T) = 0
        <4>1. WithBack(T, es, o, price, at, kind, back)
          BY <3>2, <3>4 DEF WithBack
        <4> QED
          BY <3>3, <4>1, BackAdds
      <3>5. Books!SumOf(Books!On(o)) = 0
        BY <3>a, <3>2, <3>4
      <3>6. Books!SumOf(Due(Books!On(o))) <= 0
        <4>1. BackEntry(o, price, kind, back) \in Due(es) /\ Due(es) \subseteq es
          BY <3>2 DEF BackEntry
        <4> QED
          BY <3>a, <3>4, <4>1
      <3> QED
        BY <2>2, <2>5, <3>5, <3>6
    <2> QED
      BY <2>3, <2>4, <2>5
  <1>5. Books!ClaimFollowsMoney
    BY <1>4 DEF Books!ClaimFollowsMoney
  <1>6. ASSUME NEW e \in {f \in ledger : f.kind = "sale"}
        PROVE  \E hours \in ShowTimes :
          LET ends == IF hours.ends > hours.starts THEN hours.ends ELSE hours.starts
              last == (e.availableAt - 3) \div 24
          IN  /\ Books!IsBusinessDay(last)
              /\ Books!Cardinality({d \in (((ends - 3) \div 24) + 1)..last : Books!IsBusinessDay(d)}) = 3
              /\ e.availableAt % 24 = ends % 24
              /\ \A r \in Books!On(e.order) : r.kind = "reserve" => r.availableAt = e.availableAt + 720
    <2>1. PICK at : /\ FallsDue(at) /\ e = SaleEntry(e.order, sale[e.order].price.face, at)
                    /\ \A r \in Books!On(e.order) : r.kind = "reserve" => r.availableAt = at + 720
      BY <1>2
    <2>2. e.availableAt = at
      BY <2>1 DEF SaleEntry
    <2>3. PICK hours \in ShowTimes :
            /\ Books!IsBusinessDay((at - 3) \div 24) /\ at % 24 = EndOf(hours) % 24
            /\ Cardinality(WorkingDays((EndOf(hours) - 3) \div 24 + 1, (at - 3) \div 24)) = 3
      BY <2>1 DEF FallsDue
    <2>4. PICK ends : ends = IF hours.ends > hours.starts THEN hours.ends ELSE hours.starts
      OBVIOUS
    <2>5. ends = EndOf(hours)
      BY <2>4 DEF EndOf
    <2>6. PICK last : last = (at - 3) \div 24
      OBVIOUS
    <2>7. Books!Cardinality({d \in (((ends - 3) \div 24) + 1)..last : Books!IsBusinessDay(d)}) = 3
      BY <2>3, <2>5, <2>6, BookSizes DEF WorkingDays
    <2>8. /\ Books!IsBusinessDay(last) /\ e.availableAt % 24 = ends % 24
          /\ \A r \in Books!On(e.order) : r.kind = "reserve" => r.availableAt = e.availableAt + 720
      BY <2>1, <2>2, <2>3, <2>5, <2>6
    <2>9. last = (e.availableAt - 3) \div 24
      BY <2>2, <2>6
    <2> QED
      BY <2>4, <2>7, <2>8, <2>9, ZenonT(60)
  <1>7. ASSUME NEW o \in Sales
        PROVE  LET off == 10 * sale[o].price.unitFee - sale[o].price.unitFace IN 0 - 5 < off /\ off <= 5
    <2>1. sale[o].price.unitFace \in Nat /\ sale[o].price.unitFee = Books!FeeOn(sale[o].price.unitFace)
      BY DEF BooksInv, IsSold, PriceOK
    <2> QED
      BY <2>1, FeeRounds
  <1>8. Books!PayableOnBankingDays
    BY <1>6, <1>7 DEF Books!PayableOnBankingDays
  <1> QED
    BY <1>3, <1>5, <1>8 DEF Books!LedgerSound

-----------------------------------------------------------------------------
(* The till.                                                               *)

(* What is proved of the box office's transactions in their own module     *)
(* holds of the office's.                                                  *)
Tills == INSTANCE BasketsProofs WITH Connections <- Callers, Orders <- BasketOrders, Nobody <- idle, row <- table

(* Both are the same transactions: every definition of the one is, letter  *)
(* by letter, that of the other.                                           *)
LEMMA SameTill ==
  /\ Till!TillAssumption => Tills!TillAssumption
  /\ Till!Init => Tills!Init
  /\ Till!Next => Tills!Next
  /\ Tills!TypeOK /\ Tills!BasketsSound => Till!TypeOK /\ Till!BasketsSound
  <1> USE DEF
      Till!Allows, Tills!Allows, Till!Approach, Tills!Approach, Till!Basket, Tills!Basket,
      Till!BasketsSound, Tills!BasketsSound, Till!Begin, Tills!Begin, Till!Begun, Tills!Begun,
      Till!BuyerRow, Tills!BuyerRow, Till!BuyerRows, Tills!BuyerRows, Till!Cancel, Tills!Cancel,
      Till!ChairRow, Tills!ChairRow, Till!ChairRows, Tills!ChairRows, Till!Chairs, Tills!Chairs,
      Till!ChairsInScan, Tills!ChairsInScan, Till!ChairsOf, Tills!ChairsOf,
      Till!Circle, Tills!Circle, Till!ClaimExpired, Tills!ClaimExpired,
      Till!Claims, Tills!Claims, Till!Commit, Tills!Commit, Till!CommitAll, Tills!CommitAll,
      Till!CountersInOneOrder, Tills!CountersInOneOrder, Till!Counting, Tills!Counting,
      Till!Crash, Tills!Crash, Till!Deadlock, Tills!Deadlock, Till!Do, Tills!Do,
      Till!Each, Tills!Each, Till!Ended, Tills!Ended, Till!ExpireHold, Tills!ExpireHold,
      Till!ExpireHolds, Tills!ExpireHolds, Till!Finds, Tills!Finds, Till!Firsts, Tills!Firsts,
      Till!For, Tills!For, Till!Free, Tills!Free, Till!GivenBack, Tills!GivenBack,
      Till!Idle, Tills!Idle, Till!In, Tills!In, Till!Init, Tills!Init, Till!Line, Tills!Line,
      Till!Look, Tills!Look, Till!Looking, Tills!Looking, Till!Matches, Tills!Matches,
      Till!Meant, Tills!Meant, Till!Misses, Tills!Misses, Till!Names, Tills!Names,
      Till!Next, Tills!Next, Till!NormalizeItems, Tills!NormalizeItems,
      Till!OpenOrders, Tills!OpenOrders, Till!Order, Tills!Order, Till!OrderRow, Tills!OrderRow,
      Till!OrderRows, Tills!OrderRows, Till!Places, Tills!Places, Till!Precedes, Tills!Precedes,
      Till!Refused, Tills!Refused, Till!ReleaseAll, Tills!ReleaseAll,
      Till!ReserveAll, Tills!ReserveAll, Till!Resting, Tills!Resting,
      Till!Rollback, Tills!Rollback, Till!Rows, Tills!Rows, Till!Scans, Tills!Scans,
      Till!Seen, Tills!Seen, Till!SeenWhole, Tills!SeenWhole, Till!Settle, Tills!Settle,
      Till!Start, Tills!Start, Till!Statuses, Tills!Statuses, Till!Step, Tills!Step,
      Till!Take, Tills!Take, Till!TierRow, Tills!TierRow, Till!TierRows, Tills!TierRows,
      Till!Tiers, Tills!Tiers, Till!TiersOf, Tills!TiersOf,
      Till!TillAssumption, Tills!TillAssumption, Till!TypeOK, Tills!TypeOK,
      Till!Units, Tills!Units, Till!UnitsOf, Tills!UnitsOf,
      Till!WithinHoldLimits, Tills!WithinHoldLimits, Till!Written, Tills!Written,
      Till!SumFunction, Tills!SumFunction, Till!SumFunctionOnSet, Tills!SumFunctionOnSet,
      Till!FoldFunctionOnSet, Tills!FoldFunctionOnSet,
      Till!MapThenFoldSet, Tills!MapThenFoldSet, Till!Injection, Tills!Injection,
      Till!IsInjective, Tills!IsInjective, Till!Range, Tills!Range,
      Till!Cardinality, Tills!Cardinality, Till!IsFiniteSet, Tills!IsFiniteSet
  <1>1. Till!TillAssumption => Tills!TillAssumption
    BY Zenon
  <1>2. Till!Init => Tills!Init
    BY Zenon
  <1>3. Till!Next => Tills!Next
    BY Zenon
  <1>4. Tills!TypeOK /\ Tills!BasketsSound => Till!TypeOK /\ Till!BasketsSound
    BY Zenon
  <1> QED
    BY ONLY <1>1, <1>2, <1>3, <1>4, ZenonT(60)

LEMMA TillOpens == Till!Init => Tills!TillInv
  BY OfficeAssumption, SameTill, Tills!TillStarts

LEMMA TillKept == Tills!TillInv /\ [Till!Next]_tillVars => Tills!TillInv'
  <1> SUFFICES ASSUME Tills!TillInv, [Till!Next]_tillVars PROVE Tills!TillInv'
    OBVIOUS
  <1>1. Tills!TillAssumption
    BY OfficeAssumption, SameTill
  <1>2. [Tills!Next]_<<table, committed, locks, tx>>
    BY SameTill DEF tillVars
  <1> QED
    BY <1>1, <1>2, Tills!TillStep

LEMMA TillAddsUp == Tills!TillInv => Till!TypeOK /\ Till!BasketsSound
  BY OfficeAssumption, SameTill, Tills!TillSafe

-----------------------------------------------------------------------------
(* The office.                                                             *)

(* Each part keeps its invariant while it moves.                           *)
OfficeInv ==
    /\ part = "replay" => TypeOK
    /\ part = "codes" => code \in {NewCode(d) : d \in Drawn} /\ CodeInv
    /\ part = "desk" => DeskInv
    /\ part = "members" => UsersInv
    /\ part = "login" => LoginInv
    /\ part = "clerks" => ClerksInv
    /\ part = "books" => BooksInv
    /\ part = "till" => Tills!TillInv

LEMMA OfficeStarts == OfficeInit => OfficeInv
  <1> SUFFICES ASSUME OfficeInit PROVE OfficeInv
    OBVIOUS
  <1>1. TypeOK
    BY InitClaim DEF OfficeInit, ClaimInv
  <1>2. UsersInv /\ LoginInv
    BY UsersStart, LoginStarts DEF OfficeInit
  <1>3. part = "desk" => DeskInv
    BY DeskStarts DEF OfficeInit
  <1>4. part = "clerks" => ClerksInv
    BY ClerksStart DEF OfficeInit
  <1>5. part = "codes" => code \in {NewCode(d) : d \in Drawn} /\ CodeInv
    BY CodeStarts DEF OfficeInit, CodeInit
  <1>6. part = "books" => BooksInv
    BY BooksStart DEF OfficeInit
  <1>7. Tills!TillInv
    BY TillOpens DEF OfficeInit
  <1> QED
    BY <1>1, <1>2, <1>3, <1>4, <1>5, <1>6, <1>7 DEF OfficeInv

(* A step is one part's, and the other parts stand still.                  *)
LEMMA OnePartMoves ==
  ASSUME [OfficeNext]_officeVars
  PROVE  /\ part' = part
         /\ [Next]_vars
         /\ part = "codes" => code' = code /\ [CodeNext]_codeVars
         /\ part = "desk" => [Desk!Next]_deskVars
         /\ part = "members" => [Users!Next]_membersVars
         /\ part = "login" => [Login!Next]_loginVars
         /\ part = "clerks" => [Clerks!Next]_clerksVars
         /\ part = "books" => [Books!Next]_booksVars
         /\ part = "till" => [Till!Next]_tillVars
  <1>1. CASE ReplayMoves
    BY <1>1 DEF ReplayMoves, codeVars
  <1>2. CASE CodesMove
    BY <1>2 DEF CodesMove, CodeNext, Separate, MisreadAs, Substitute, Swap
  <1>3. CASE DeskMoves
    BY <1>3 DEF DeskMoves, codeVars
  <1>4. CASE BooksMove
    BY <1>4 DEF BooksMove, codeVars
  <1>5. CASE MembersMove
    BY <1>5 DEF MembersMove, codeVars
  <1>6. CASE LoginMoves
    BY <1>6 DEF LoginMoves, codeVars
  <1>7. CASE TillMoves
    BY <1>7 DEF TillMoves, codeVars
  <1>8. CASE ClerksMove
    BY <1>8 DEF ClerksMove, codeVars
  <1>9. CASE UNCHANGED officeVars
    BY <1>9 DEF officeVars, codeVars
  <1> QED
    BY <1>1, <1>2, <1>3, <1>4, <1>5, <1>6, <1>7, <1>8, <1>9 DEF OfficeNext

LEMMA OfficeStep == OfficeInv /\ [OfficeNext]_officeVars => OfficeInv'
  <1> SUFFICES ASSUME OfficeInv, [OfficeNext]_officeVars PROVE OfficeInv'
    OBVIOUS
  <1>1. (part = "replay" => TypeOK)'
    BY OnePartMoves, TypeStep DEF OfficeInv
  <1>2. (part = "codes" => code \in {NewCode(d) : d \in Drawn} /\ CodeInv)'
    BY OnePartMoves, CodeKept DEF OfficeInv
  <1>3. (part = "desk" => DeskInv)'
    BY OnePartMoves, DeskKept DEF OfficeInv
  <1>4. (part = "members" => UsersInv)'
    BY OnePartMoves, UsersKept DEF OfficeInv
  <1>5. (part = "login" => LoginInv)'
    BY OnePartMoves, LoginKept DEF OfficeInv
  <1>6. (part = "clerks" => ClerksInv)'
    BY OnePartMoves, ClerksKept DEF OfficeInv
  <1>7. (part = "books" => BooksInv)'
    BY OnePartMoves, BooksKept DEF OfficeInv
  <1>8. (part = "till" => Tills!TillInv)'
    BY OnePartMoves, TillKept DEF OfficeInv
  <1> QED
    BY <1>1, <1>2, <1>3, <1>4, <1>5, <1>6, <1>7, <1>8 DEF OfficeInv

(* The idempotency keys are the office's own variables: what is proved of  *)
(* the keys alone holds in it.                                             *)
THEOREM KeysInTheOffice == OfficeSpec => Spec
  <1>1. OfficeInit => Init
    BY DEF OfficeInit
  <1>2. [OfficeNext]_officeVars => [Next]_vars
    BY OnePartMoves
  <1> QED
    BY <1>1, <1>2, PTL DEF OfficeSpec, Spec

(* Every part stays in its type: the rows of keys, requests, accounts,     *)
(* sessions and jobs have the columns their tables allow.                  *)
THEOREM OfficeTyped == OfficeSpec => []OfficeTypes
  <1>1. OfficeInv => OfficeTypes
    <2> SUFFICES ASSUME OfficeInv PROVE OfficeTypes
      OBVIOUS
    <2>1. part = "desk" => Desk!TypeOK
      BY DEF OfficeInv, DeskInv, DeskShape, DeskPurchases, DeskRequests, Desk!TypeOK, Desk!OpenStatuses
    <2>2. part = "members" => Users!TypeOK
      BY NoAccountIsIdle DEF OfficeInv, UsersInv, UsersShape, Challenges, Letters, Texts, Users!Profiles, Users!TypeOK
    <2>3. part = "login" => Login!TypeOK
      BY DEF OfficeInv, LoginInv, LoginShape, LoginRows, CacheBounded, Login!TypeOK
    <2>4. part = "clerks" => Clerks!TypeOK
      BY DEF OfficeInv, ClerksInv, ClerksShape, OncePerTurn, JobShape, Attempts, Clerks!TypeOK
    <2>5. part = "books" => Books!TypeOK
      BY BooksSafe DEF OfficeInv
    <2> QED
      BY <2>1, <2>2, <2>3, <2>4, <2>5 DEF OfficeInv, OfficeTypes
  <1> QED
    BY <1>1, OfficeStarts, OfficeStep, PTL DEF OfficeSpec

(* However a code is grouped and whatever its look-alikes are read as, it  *)
(* is the code on the ticket that the door reads; and one character typed  *)
(* wrong, or two exchanged, is refused whatever else was typed.            *)
THEOREM CodesStay == OfficeSpec => []CodesHold
  <1>1. OfficeInv => CodesHold
    BY CodeSafe DEF OfficeInv, CodesHold
  <1> QED
    BY <1>1, OfficeStarts, OfficeStep, PTL DEF OfficeSpec

(* A code proves what it says and no more; a token that died is let in for *)
(* the lifetime of a cache entry at most, whatever requests cross; and an  *)
(* organiser's claim is the face of what is paid and not given back, due   *)
(* on a banking day, however prices fall, the show moves and money comes   *)
(* and goes.                                                               *)
THEOREM AccountsStaySound == OfficeSpec => []AccountsSound
  <1>1. OfficeInv => AccountsSound
    BY UsersSafe, LoginSafe, BooksSafe DEF OfficeInv, AccountsSound
  <1> QED
    BY <1>1, OfficeStarts, OfficeStep, PTL DEF OfficeSpec

(* Whoever checks out, cancels, pays or sweeps at once, and whatever crashes*)
(* or is ended in a circle of waiting: no buyer holds more than the limits *)
(* allow, what others can see of tiers, chairs and orders adds up, and     *)
(* baskets lock the counters in one order.                                 *)
THEOREM TillStaysSound == OfficeSpec => []TillSound
  <1>1. OfficeInv => TillSound
    BY TillAddsUp DEF OfficeInv, TillSound
  <1> QED
    BY <1>1, OfficeStarts, OfficeStep, PTL DEF OfficeSpec

(* A refund is owed once and on record however many ask and answer at      *)
(* once; however many processes ask for a sweep's turn it gets one job,    *)
(* no two turns in a row are missed unless an insertion failed, and while  *)
(* the sweep for dropped jobs outwaits an attempt, one handler has the job *)
(* and records its own attempt.                                            *)
THEOREM TurnsAreTaken == OfficeSpec => []TurnsTaken
  <1>1. OfficeInv => TurnsTaken
    BY DeskSafe, ClerksSafe DEF OfficeInv, TurnsTaken
  <1> QED
    BY <1>1, OfficeStarts, OfficeStep, PTL DEF OfficeSpec

(* No step, of whomever, rewrites a refund request or reverses a decision. *)
THEOREM DecisionsAreFinal == OfficeSpec => DecisionsStand
  <1>1. OfficeInv /\ [OfficeNext]_officeVars => [part = "desk" => Desk!DecisionKept]_officeVars
    BY OnePartMoves, DeskDecides DEF OfficeInv
  <1> QED
    BY <1>1, OfficeStarts, OfficeStep, PTL DEF OfficeSpec, DecisionsStand
=============================================================================
