---------------------------- MODULE WireProofs ----------------------------
(***************************************************************************)
(* Payloads and frames, for every layout of Codec, fields of any content   *)
(* and any length up to LongField, any number of frames, any damage of the *)
(* kinds modelled, and a stream cut into pieces anywhere.                  *)
(*                                                                         *)
(* First the codec: what reading makes of the bytes that writing produced, *)
(* of their beginnings and of what follows them.  Then the stream: what    *)
(* the receiver has not returned yet is the beginning of what was sent.    *)
(***************************************************************************)
EXTENDS Wire, TLAPS, WellFoundedInduction

-----------------------------------------------------------------------------
(* Induction and recursion over the naturals.                              *)

\* A set of naturals that has 0 and the successor of each member has them all.
LEMMA SetInduction ==
  ASSUME NEW S, 0 \in S, \A n \in Nat : n \in S => n + 1 \in S
  PROVE  Nat \subseteq S
  <1> DEFINE T == Nat \ S
             R == OpToRel(<, Nat)
  <1> SUFFICES ASSUME T # {} PROVE FALSE
    OBVIOUS
  <1>1. \E k \in T : \A l \in T : ~(<<l, k>> \in R)
    BY WFMin, NatLessThanWellFounded
  <1>2. PICK k \in T : \A l \in T : ~(<<l, k>> \in R)
    BY <1>1
  <1>3. k \in T /\ \A l \in T : ~(l < k)
    BY <1>2 DEF OpToRel
  <1> HIDE DEF R
  <1>4. k \in Nat /\ k # 0 /\ k \notin S /\ k - 1 \in Nat /\ k - 1 < k
    BY <1>3
  <1>5. k - 1 \in S /\ k = (k - 1) + 1
    BY <1>3, <1>4
  <1> QED
    BY <1>4, <1>5

\* A recursive definition over 0 .. N starts with a and goes from n - 1 to n by step[n].
Steps(step, N, S) == step \in [1 .. N -> [S -> S]]
Solution(f, a, step, N, S) ==
  /\ f \in [0 .. N -> S]
  /\ f[0] = a
  /\ \A n \in 1 .. N : f[n] = step[n][f[n - 1]]

\* Some function satisfies it.
LEMMA Recursion ==
  ASSUME NEW S, NEW a \in S, NEW N \in Nat, NEW step, Steps(step, N, S)
  PROVE  \E f : Solution(f, a, step, N, S)
  <1>0. step \in [1 .. N -> [S -> S]]
    BY DEF Steps
  <1> DEFINE Solves(f, m) ==
               /\ f \in [0 .. m -> S]
               /\ f[0] = a
               /\ \A n \in 1 .. m : f[n] = step[n][f[n - 1]]
             T == {m \in Nat : m <= N => \E f : Solves(f, m)}
  <1>1. 0 \in T
    <2>1. Solves([n \in 0 .. 0 |-> a], 0)
      OBVIOUS
    <2> QED
      BY <2>1
  <1>2. ASSUME NEW m \in Nat, m \in T PROVE m + 1 \in T
    <2> SUFFICES ASSUME m + 1 <= N PROVE \E f : Solves(f, m + 1)
      OBVIOUS
    <2>1. PICK f : Solves(f, m)
      BY <1>2
    <2>2. f[m] \in S /\ step[m + 1] \in [S -> S]
      BY <1>0, <2>1
    <2> DEFINE g == [n \in 0 .. m + 1 |-> IF n = m + 1 THEN step[m + 1][f[m]] ELSE f[n]]
    <2>3. g \in [0 .. m + 1 -> S] /\ g[0] = a /\ g[m + 1] = step[m + 1][f[m]]
          /\ \A n \in 0 .. m : g[n] = f[n]
      BY <2>1, <2>2
    <2> HIDE DEF g
    <2>4. ASSUME NEW n \in 1 .. m + 1 PROVE g[n] = step[n][g[n - 1]]
      <3>1. CASE n = m + 1
        <4>1. g[m] = f[m] /\ n - 1 = m
          BY <2>3, <3>1
        <4> QED
          BY <2>3, <3>1, <4>1
      <3>2. CASE n # m + 1
        <4>1. n \in 1 .. m /\ n - 1 \in 0 .. m
          BY <3>2
        <4> QED
          BY <2>1, <2>3, <4>1
      <3> QED
        BY <3>1, <3>2
    <2>5. Solves(g, m + 1)
      BY <2>3, <2>4
    <2> QED
      BY <2>5
  <1>3. N \in T
    <2> HIDE DEF T
    <2> QED
      BY <1>1, <1>2, SetInduction
  <1>4. PICK f : Solves(f, N)
    BY <1>3
  <1> QED
    BY <1>4 DEF Solution

-----------------------------------------------------------------------------
(* Sequences.                                                              *)

LEMMA SeqFacts ==
  ASSUME NEW S, NEW s \in Seq(S)
  PROVE  /\ Len(s) \in Nat /\ DOMAIN s = 1 .. Len(s)
         /\ \A i \in 1 .. Len(s) : s[i] \in S
         /\ Len(s) = 0 <=> s = <<>>
  OBVIOUS

LEMMA SeqEqual ==
  ASSUME NEW S, NEW T, NEW s \in Seq(S), NEW t \in Seq(T), Len(s) = Len(t),
         \A i \in 1 .. Len(s) : s[i] = t[i]
  PROVE  s = t
  OBVIOUS

LEMMA SeqMade ==
  ASSUME NEW S, NEW n \in Nat, NEW s \in [1 .. n -> S]
  PROVE  s \in Seq(S) /\ Len(s) = n
  OBVIOUS

LEMMA ConcatFacts ==
  ASSUME NEW S, NEW s \in Seq(S), NEW t \in Seq(S)
  PROVE  /\ s \o t \in Seq(S)
         /\ Len(s) \in Nat /\ Len(t) \in Nat /\ Len(s \o t) = Len(s) + Len(t)
         /\ \A i \in 1 .. Len(s) : (s \o t)[i] = s[i]
         /\ \A i \in 1 .. Len(t) : (s \o t)[Len(s) + i] = t[i]
  OBVIOUS

LEMMA SubSeqFacts ==
  ASSUME NEW S, NEW s \in Seq(S), NEW m \in Nat \ {0}, NEW n \in Nat,
         m <= n + 1, n <= Len(s)
  PROVE  /\ SubSeq(s, m, n) \in Seq(S)
         /\ Len(SubSeq(s, m, n)) = n + 1 - m
         /\ \A i \in 1 .. n + 1 - m : SubSeq(s, m, n)[i] = s[m - 1 + i]
  OBVIOUS

LEMMA DropFacts ==
  ASSUME NEW S, NEW s \in Seq(S), NEW n \in Nat, n <= Len(s)
  PROVE  /\ Drop(s, n) \in Seq(S)
         /\ Len(Drop(s, n)) = Len(s) - n
         /\ \A i \in 1 .. Len(s) - n : Drop(s, n)[i] = s[n + i]
  <1>1. n + 1 \in Nat \ {0} /\ Len(s) \in Nat /\ n + 1 <= Len(s) + 1
    BY SeqFacts
  <1> QED
    BY <1>1, SubSeqFacts DEF Drop

-----------------------------------------------------------------------------
(* Numbers as bytes.                                                       *)

LEMMA U32BytesType ==
  ASSUME NEW n \in Nat
  PROVE  U32Bytes(n) \in Seq(Bytes) /\ Len(U32Bytes(n)) = 4
  <1>1. /\ n % 256 \in Bytes
        /\ (n \div 256) % 256 \in Bytes
        /\ (n \div 65536) % 256 \in Bytes
        /\ (n \div 16777216) % 256 \in Bytes
    BY DEF Bytes
  <1> QED
    BY <1>1 DEF U32Bytes

\* A length below 127 * 2^24 is read as it was written.
LEMMA U32Read ==
  ASSUME NEW n \in Nat, n <= 2130706431
  PROVE  U32(U32Bytes(n)) = n
  <1> DEFINE a == n % 256  b == (n \div 256) % 256  c == (n \div 65536) % 256
             d == (n \div 16777216) % 256
  <1>1. /\ U32Bytes(n)[1] = a /\ U32Bytes(n)[2] = b
        /\ U32Bytes(n)[3] = c /\ U32Bytes(n)[4] = d
    BY DEF U32Bytes
  <1>2. n \div 16777216 < 127 /\ d = n \div 16777216
    OBVIOUS
  <1>3. n = a + 256 * b + 65536 * c + 16777216 * d
    OBVIOUS
  <1>4. d < 127
    BY <1>2
  <1>5. PICK t : t = U32Bytes(n)
    OBVIOUS
  <1> HIDE DEF a, b, c, d
  <1>6. U32(t) = t[1] + 256 * t[2] + 65536 * t[3]
                   + 16777216 * (IF t[4] < 127 THEN t[4] ELSE 127)
    BY DEF U32
  <1>7. t[1] = a /\ t[2] = b /\ t[3] = c /\ t[4] = d
    BY <1>1, <1>5
  <1>8. (IF t[4] < 127 THEN t[4] ELSE 127) = d
    BY <1>4, <1>7
  <1>9. U32(t) = n
    BY <1>3, <1>6, <1>7, <1>8
  <1> QED
    BY <1>5, <1>9

\* Numbers that differ by at most 256 have different bytes.
LEMMA U32Apart ==
  ASSUME NEW n \in Nat, NEW d \in 1 .. 256
  PROVE  U32Bytes(n + d) # U32Bytes(n)
  <1>1. CASE (n + d) % 256 # n % 256
    BY <1>1 DEF U32Bytes
  <1>2. CASE (n + d) % 256 = n % 256
    <2>1. ((n + d) \div 256) % 256 # (n \div 256) % 256
      <3>1. d = 256
        BY <1>2
      <3>2. (n + d) \div 256 = n \div 256 + 1
        BY <3>1
      <3>3. n \div 256 \in Nat
        OBVIOUS
      <3> QED
        BY <3>2, <3>3
    <2> QED
      BY <2>1 DEF U32Bytes
  <1> QED
    BY <1>1, <1>2

-----------------------------------------------------------------------------
(* One field.                                                              *)

FieldKinds == Fixed \cup Optional \cup Counted

\* What a field of each kind may hold.
FixedValues(kind) ==
  {v \in Seq(Bytes) :
     /\ Len(v) = FixedWidth[kind]
     /\ kind = "code" => v[1] <= LastCode
     /\ kind = "state" => v[1] <= LastState
     /\ kind = "flag" => v[1] \in {0, 1}}

ValuesOf(kind) ==
  IF kind \in Counted THEN {v \in Seq(Bytes) : Len(v) <= LongField}
  ELSE IF kind \in Optional THEN {<<>>} \cup FixedValues(OptionalOf[kind])
  ELSE FixedValues(kind)

Fits(kind, v) == kind \in Counted => Len(v) <= ByteLimit[kind]

\* The bytes of the longest field, and of fourteen of them.
FieldMost == 67108900
PayloadMost == 939524600

\* As far as both go, b is s.
Agrees(b, s) == \A i \in 1 .. Len(s) : i <= Len(b) => b[i] = s[i]

LEMMA KindFacts ==
  /\ Fixed = {"u8", "flag", "code", "state", "u32", "gen", "id", "digest"}
  /\ Optional = {"opt_id", "opt_gen", "opt_digest"}
  /\ Counted = {"string", "bytes"}
  /\ FixedWidth["u8"] = 1 /\ FixedWidth["flag"] = 1 /\ FixedWidth["code"] = 1
  /\ FixedWidth["state"] = 1 /\ FixedWidth["u32"] = 4 /\ FixedWidth["gen"] = 8
  /\ FixedWidth["id"] = 16 /\ FixedWidth["digest"] = 32
  /\ OptionalOf["opt_id"] = "id" /\ OptionalOf["opt_gen"] = "gen"
  /\ OptionalOf["opt_digest"] = "digest"
  /\ ByteLimit["string"] = MaxString /\ ByteLimit["bytes"] = MaxVector
  BY DEF Fixed, Optional, Counted, FixedWidth, OptionalOf, ByteLimit

LEMMA KindTypes ==
  /\ \A kind \in Fixed : /\ FixedWidth[kind] \in 1 .. 32
                         /\ kind \notin Optional /\ kind \notin Counted
                         /\ kind \in {"code", "state", "flag"} => FixedWidth[kind] = 1
  /\ \A kind \in Optional : /\ OptionalOf[kind] \in {"id", "gen", "digest"}
                            /\ OptionalOf[kind] \in Fixed /\ kind \notin Counted
  /\ \A kind \in Counted : ByteLimit[kind] \in Nat
  BY KindFacts, CodecAssumption

LEMMA DropDrop ==
  ASSUME NEW S, NEW s \in Seq(S), NEW m \in Nat, NEW n \in Nat, m + n <= Len(s)
  PROVE  Drop(Drop(s, m), n) = Drop(s, m + n)
  <1>1. m <= Len(s) /\ m + n \in Nat /\ Len(s) \in Nat
    BY SeqFacts
  <1>2. PICK t : t = Drop(s, m)
    OBVIOUS
  <1>3. /\ t \in Seq(S) /\ Len(t) = Len(s) - m
        /\ \A i \in 1 .. Len(s) - m : t[i] = s[m + i]
    BY <1>1, <1>2, DropFacts
  <1>4. n <= Len(t) /\ Len(t) - n = Len(s) - (m + n)
    BY <1>1, <1>3
  <1>5. PICK u : u = Drop(t, n)
    OBVIOUS
  <1>6. /\ u \in Seq(S) /\ Len(u) = Len(s) - (m + n)
        /\ \A i \in 1 .. Len(s) - (m + n) : u[i] = t[n + i]
    <2>1. /\ Drop(t, n) \in Seq(S) /\ Len(Drop(t, n)) = Len(t) - n
          /\ \A i \in 1 .. Len(t) - n : Drop(t, n)[i] = t[n + i]
      <3> HIDE DEF Drop
      <3>1. t \in Seq(S) /\ n <= Len(t)
        BY <1>3, <1>4
      <3> QED
        BY ONLY <3>1, n \in Nat, DropFacts
    <2> QED
      BY <1>4, <1>5, <2>1
  <1>7. PICK w : w = Drop(s, m + n)
    OBVIOUS
  <1>8. /\ w \in Seq(S) /\ Len(w) = Len(s) - (m + n)
        /\ \A i \in 1 .. Len(s) - (m + n) : w[i] = s[m + n + i]
    BY <1>1, <1>7, DropFacts
  <1>9. \A i \in 1 .. Len(s) - (m + n) : u[i] = w[i]
    <2> TAKE i \in 1 .. Len(s) - (m + n)
    <2>1. n + i \in 1 .. Len(s) - m /\ m + (n + i) = m + n + i
      BY <1>1
    <2> QED
      BY <1>3, <1>6, <1>8, <2>1
  <1>10. u = w
    BY <1>6, <1>8, <1>9, SeqEqual
  <1> QED
    BY <1>2, <1>5, <1>7, <1>10

\* need(n) and the copy, on bytes that begin with v.
LEMMA BytesRead ==
  ASSUME NEW v \in Seq(Bytes), NEW b \in Seq(Bytes), Agrees(b, v)
  PROVE  GetBytes(Len(v), b) =
           IF Len(v) <= Len(b) THEN Took(v, Drop(b, Len(v))) ELSE Refused
  <1>1. Len(v) \in Nat /\ Len(b) \in Nat
    BY SeqFacts
  <1>2. CASE Len(v) <= Len(b)
    <2>1. PICK n \in Nat : n = Len(v)
      BY <1>1
    <2>2. PICK t : t = SubSeq(b, 1, n)
      OBVIOUS
    <2>3. t \in Seq(Bytes) /\ Len(t) = n /\ \A i \in 1 .. n : t[i] = b[i]
      <3>1. n <= Len(b) /\ 1 \in Nat \ {0} /\ 1 <= n + 1
        BY <1>1, <1>2, <2>1
      <3>2. /\ t \in Seq(Bytes) /\ Len(t) = n + 1 - 1
            /\ \A i \in 1 .. n + 1 - 1 : t[i] = b[1 - 1 + i]
        BY <2>2, <3>1, SubSeqFacts
      <3> QED
        BY <3>2
    <2>4. \A i \in 1 .. n : t[i] = v[i]
      BY <1>1, <1>2, <2>1, <2>3 DEF Agrees
    <2>5. t = v
      BY <2>1, <2>3, <2>4, SeqEqual
    <2>6. ~(n > Len(b))
      BY <1>1, <1>2, <2>1
    <2>7. GetBytes(n, b) = Took(t, Drop(b, n))
      BY <2>2, <2>6 DEF GetBytes
    <2> QED
      BY <1>2, <2>1, <2>5, <2>7
  <1>3. CASE ~(Len(v) <= Len(b))
    BY <1>1, <1>3 DEF GetBytes
  <1> QED
    BY <1>2, <1>3

LEMMA FirstByte ==
  ASSUME NEW kind \in Fixed, NEW v \in Seq(Bytes), Len(v) = FixedWidth[kind]
  PROVE  v[1] \in Bytes /\ v[1] \in Nat
  <1>1. PICK w \in 1 .. 32 : w = FixedWidth[kind]
    BY KindTypes
  <1>2. Len(v) = w
    BY <1>1
  <1>3. v[1] \in Bytes
    BY <1>2
  <1>4. \A x \in Bytes : x \in Nat
    BY DEF Bytes
  <1> QED
    BY <1>3, <1>4

\* The same for a field of fixed width: the checks of the enumerations accept
\* what they may hold, and a flag is 0 or 1.
LEMMA FixedRead ==
  ASSUME NEW kind \in Fixed, NEW v \in FixedValues(kind), NEW b \in Seq(Bytes),
         Agrees(b, v)
  PROVE  GetFixed(kind, b) =
           IF Len(v) <= Len(b) THEN Took(v, Drop(b, Len(v))) ELSE Refused
  <1>1. v \in Seq(Bytes) /\ Len(v) = FixedWidth[kind] /\ Len(b) \in Nat
    BY SeqFacts DEF FixedValues
  <1>2. PICK r : r = GetBytes(FixedWidth[kind], b)
    OBVIOUS
  <1>3. r = IF Len(v) <= Len(b) THEN Took(v, Drop(b, Len(v))) ELSE Refused
    BY <1>1, <1>2, BytesRead
  <1>4. CASE Len(v) <= Len(b)
    <2>1. r.ok = TRUE /\ r.value = v /\ r.rest = Drop(b, Len(v)) /\ r = Took(v, Drop(b, Len(v)))
      BY <1>3, <1>4 DEF Took
    <2>2. kind = "code" => ~(v[1] > LastCode)
      <3>1. PICK x : x = v[1]
        OBVIOUS
      <3>2. kind = "code" => x <= LastCode
        BY <3>1 DEF FixedValues
      <3>3. kind = "code" => x \in Nat
        BY <1>1, <3>1, FirstByte
      <3> QED
        BY <3>1, <3>2, <3>3 DEF LastCode
    <2>3. kind = "state" => ~(v[1] > LastState)
      <3>1. PICK x : x = v[1]
        OBVIOUS
      <3>2. kind = "state" => x <= LastState
        BY <3>1 DEF FixedValues
      <3>3. kind = "state" => x \in Nat
        BY <1>1, <3>1, FirstByte
      <3> QED
        BY <3>1, <3>2, <3>3 DEF LastState
    <2>4. kind = "flag" /\ v[1] # 0 => v = <<1>>
      <3> SUFFICES ASSUME kind = "flag", v[1] # 0 PROVE v = <<1>>
        OBVIOUS
      <3>1. v[1] = 1
        BY DEF FixedValues
      <3>2. Len(v) = 1
        BY <1>1, KindTypes
      <3> QED
        BY <1>1, <3>1, <3>2
    <2>5. GetFixed(kind, b) =
            IF ~r.ok THEN Refused
            ELSE IF kind = "code" /\ r.value[1] > LastCode THEN Refused
            ELSE IF kind = "state" /\ r.value[1] > LastState THEN Refused
            ELSE IF kind = "flag" /\ r.value[1] # 0 THEN Took(<<1>>, r.rest)
            ELSE r
      BY <1>2 DEF GetFixed
    <2>6. GetFixed(kind, b) = r
      BY <2>1, <2>2, <2>3, <2>4, <2>5
    <2> QED
      BY <1>4, <2>1, <2>6
  <1>5. CASE ~(Len(v) <= Len(b))
    <2>1. r = Refused
      BY <1>3, <1>5
    <2>2. ~r.ok
      BY <2>1 DEF Refused
    <2> QED
      BY <1>2, <1>5, <2>2 DEF GetFixed
  <1> QED
    BY <1>4, <1>5

\* Agreement with two sequences one after the other.
LEMMA AgreesConcat ==
  ASSUME NEW s \in Seq(Bytes), NEW t \in Seq(Bytes), NEW b \in Seq(Bytes),
         Agrees(b, s \o t)
  PROVE  Agrees(b, s) /\ (Len(s) <= Len(b) => Agrees(Drop(b, Len(s)), t))
  <1>1. /\ Len(s) \in Nat /\ Len(t) \in Nat /\ Len(b) \in Nat
        /\ Len(s \o t) = Len(s) + Len(t)
        /\ \A i \in 1 .. Len(s) : (s \o t)[i] = s[i]
        /\ \A i \in 1 .. Len(t) : (s \o t)[Len(s) + i] = t[i]
    BY ConcatFacts, SeqFacts
  <1>2. PICK c : c = s \o t
    OBVIOUS
  <1>3. Agrees(b, s)
    BY <1>1 DEF Agrees
  <1>4. ASSUME Len(s) <= Len(b) PROVE Agrees(Drop(b, Len(s)), t)
    <2>1. PICK d : d = Drop(b, Len(s))
      OBVIOUS
    <2>2. Len(d) = Len(b) - Len(s) /\ \A i \in 1 .. Len(b) - Len(s) : d[i] = b[Len(s) + i]
      <3>1. PICK k \in Nat : k = Len(s)
        BY <1>1
      <3>2. k <= Len(b)
        BY <1>4, <3>1
      <3>3. /\ Len(Drop(b, k)) = Len(b) - k
            /\ \A i \in 1 .. Len(b) - k : Drop(b, k)[i] = b[k + i]
        BY <3>2, DropFacts
      <3> QED
        BY <2>1, <3>1, <3>3
    <2>3. ASSUME NEW i \in 1 .. Len(t), i <= Len(d) PROVE d[i] = t[i]
      <3>1. Len(s) + i \in 1 .. Len(c) /\ Len(s) + i <= Len(b) /\ i \in 1 .. Len(b) - Len(s)
        BY <1>1, <1>2, <2>2, <2>3
      <3>2. b[Len(s) + i] = c[Len(s) + i]
        <4>1. \A j \in 1 .. Len(c) : j <= Len(b) => b[j] = c[j]
          BY <1>2 DEF Agrees
        <4> QED
          BY <3>1, <4>1
      <3> QED
        BY <1>1, <1>2, <2>2, <3>1, <3>2
    <2> QED
      BY <2>1, <2>3 DEF Agrees
  <1> QED
    BY <1>3, <1>4

\* The same for a string or a vector: too long and it is refused, otherwise the
\* count says how many bytes are its own.
LEMMA CountedRead ==
  ASSUME NEW kind \in Counted, NEW v \in Seq(Bytes), Len(v) <= LongField,
         NEW b \in Seq(Bytes), Agrees(b, Put(kind, v))
  PROVE  GetCounted(kind, b) =
           IF Len(v) <= ByteLimit[kind] /\ Len(v) + 4 <= Len(b)
           THEN Took(v, Drop(b, Len(v) + 4)) ELSE Refused
  <1>1. Len(v) \in Nat /\ Len(b) \in Nat /\ ByteLimit[kind] \in Nat
    BY SeqFacts, KindTypes
  <1>2. PICK c : c = U32Bytes(Len(v))
    OBVIOUS
  <1>3. c \in Seq(Bytes) /\ Len(c) = 4
    BY <1>1, <1>2, U32BytesType
  <1>4. Put(kind, v) = c \o v
    BY <1>2 DEF Put
  <1>5. Agrees(b, c) /\ (4 <= Len(b) => Agrees(Drop(b, 4), v))
    BY <1>3, <1>4, AgreesConcat, ZenonT(60)
  <1>6. U32(c) = Len(v)
    BY <1>1, <1>2, U32Read DEF LongField
  <1>7. PICK n : n = GetBytes(4, b)
    OBVIOUS
  <1>8. n = IF 4 <= Len(b) THEN Took(c, Drop(b, 4)) ELSE Refused
    BY <1>3, <1>5, <1>7, BytesRead
  <1>9. GetCounted(kind, b) =
          IF ~n.ok \/ U32(n.value) > ByteLimit[kind] THEN Refused
          ELSE GetBytes(U32(n.value), n.rest)
    BY <1>7 DEF GetCounted
  <1>10. CASE ~(4 <= Len(b))
    <2>1. ~n.ok
      BY <1>8, <1>10 DEF Refused
    <2> QED
      BY <1>1, <1>9, <1>10, <2>1
  <1>11. CASE 4 <= Len(b)
    <2>1. PICK d : d = Drop(b, 4)
      OBVIOUS
    <2>2. n.ok /\ n.value = c /\ n.rest = d
      BY <1>8, <1>11, <2>1 DEF Took
    <2>3. GetCounted(kind, b) = IF Len(v) > ByteLimit[kind] THEN Refused ELSE GetBytes(Len(v), d)
      BY <1>6, <1>9, <2>2
    <2>4. d \in Seq(Bytes) /\ Len(d) = Len(b) - 4 /\ Agrees(d, v)
      BY <1>5, <1>11, <2>1, DropFacts
    <2>5. GetBytes(Len(v), d) = IF Len(v) <= Len(d) THEN Took(v, Drop(d, Len(v))) ELSE Refused
      BY <2>4, BytesRead
    <2>6. Len(v) + 4 <= Len(b) => Drop(d, Len(v)) = Drop(b, Len(v) + 4)
      <3>1. Len(v) + 4 <= Len(b) => Drop(d, Len(v)) = Drop(b, 4 + Len(v))
        BY <1>1, <2>1, DropDrop
      <3> QED
        BY <1>1, <3>1
    <2> QED
      BY <1>1, <2>3, <2>4, <2>5, <2>6
  <1> QED
    BY <1>10, <1>11

\* Bytes of a field and their number.
LEMMA PutFacts ==
  ASSUME NEW kind \in FieldKinds, NEW v \in ValuesOf(kind)
  PROVE  /\ v \in Seq(Bytes)
         /\ Put(kind, v) \in Seq(Bytes)
         /\ Len(Put(kind, v)) \in Nat
         /\ Len(Put(kind, v)) <= FieldMost
  <1>1. CASE kind \in Counted
    <2>1. v \in Seq(Bytes) /\ Len(v) \in Nat /\ Len(v) <= LongField
      BY <1>1, SeqFacts DEF ValuesOf
    <2>2. PICK c : c = U32Bytes(Len(v))
      OBVIOUS
    <2>3. c \in Seq(Bytes) /\ Len(c) = 4
      BY <2>1, <2>2, U32BytesType
    <2>4. c \o v \in Seq(Bytes) /\ Len(c \o v) = Len(c) + Len(v)
      <3>1. c \in Seq(Bytes) /\ v \in Seq(Bytes)
        BY <2>1, <2>3
      <3> QED
        BY <3>1, ConcatFacts
    <2>5. Put(kind, v) = c \o v
      BY <1>1, <2>2 DEF Put
    <2>6. Len(c \o v) = 4 + Len(v)
      BY <2>3, <2>4
    <2>7. 4 + Len(v) <= FieldMost
      BY <2>1 DEF FieldMost, LongField
    <2>8. 4 + Len(v) \in Nat
      BY <2>1
    <2> QED
      BY <2>1, <2>4, <2>5, <2>6, <2>7, <2>8
  <1>2. CASE kind \in Optional
    <2>1. kind \notin Counted /\ OptionalOf[kind] \in Fixed
      BY <1>2, KindTypes
    <2>2. <<0>> \in Seq(Bytes) /\ <<1>> \in Seq(Bytes) /\ Len(<<0>>) = 1 /\ Len(<<1>>) = 1
          /\ <<>> \in Seq(Bytes)
      BY DEF Bytes
    <2>3. CASE v = <<>>
      <3>1. PICK c : c = <<0>>
        OBVIOUS
      <3>2. Put(kind, v) = c
        BY <1>2, <2>1, <2>3, <3>1 DEF Put
      <3>3. v \in Seq(Bytes) /\ c \in Seq(Bytes) /\ Len(c) = 1
        BY <2>2, <2>3, <3>1
      <3>4. 1 <= FieldMost
        BY DEF FieldMost
      <3> QED
        BY <3>2, <3>3, <3>4
    <2>4. CASE v # <<>>
      <3>1. PICK w \in 1 .. 32 : w = FixedWidth[OptionalOf[kind]]
        BY <2>1, KindTypes
      <3>2. v \in Seq(Bytes) /\ Len(v) = w
        BY <1>2, <2>1, <2>4, <3>1 DEF ValuesOf, FixedValues
      <3>3. Put(kind, v) = <<1>> \o v
        BY <1>2, <2>1, <2>4 DEF Put
      <3>4. PICK c : c = <<1>>
        OBVIOUS
      <3>5. c \o v \in Seq(Bytes) /\ Len(c \o v) = Len(c) + Len(v)
        BY <2>2, <3>2, <3>4, ConcatFacts
      <3>6. Len(c \o v) = 1 + w
        BY <2>2, <3>2, <3>4, <3>5
      <3>7. 1 + w \in Nat /\ 1 + w <= FieldMost
        BY DEF FieldMost
      <3> QED
        BY <3>2, <3>3, <3>4, <3>5, <3>6, <3>7
    <2> QED
      BY <2>3, <2>4
  <1>3. CASE kind \in Fixed
    <2>1. kind \notin Counted /\ kind \notin Optional
      BY <1>3, KindTypes
    <2>2. PICK w \in 1 .. 32 : w = FixedWidth[kind]
      BY <1>3, KindTypes
    <2>3. v \in Seq(Bytes) /\ Len(v) = w
      BY <2>1, <2>2 DEF ValuesOf, FixedValues
    <2>4. Put(kind, v) = v
      BY <2>1 DEF Put
    <2>5. w \in Nat /\ w <= FieldMost
      BY DEF FieldMost
    <2> QED
      BY <2>3, <2>4, <2>5
  <1> QED
    BY <1>1, <1>2, <1>3 DEF FieldKinds

\* An optional: the flag, then the value if there is one.
LEMMA OptionalRead ==
  ASSUME NEW kind \in Optional, NEW v \in ValuesOf(kind), NEW b \in Seq(Bytes),
         Agrees(b, Put(kind, v))
  PROVE  GetOptional(kind, b) =
           IF Len(Put(kind, v)) <= Len(b) THEN Took(v, Drop(b, Len(Put(kind, v)))) ELSE Refused
  <1>1. kind \notin Counted /\ OptionalOf[kind] \in Fixed /\ "flag" \in Fixed
    BY KindTypes, KindFacts
  <1>2. <<0>> \in FixedValues("flag") /\ <<1>> \in FixedValues("flag")
    <2>1. <<0>> \in Seq(Bytes) /\ <<1>> \in Seq(Bytes) /\ Len(<<0>>) = 1 /\ Len(<<1>>) = 1
      BY DEF Bytes
    <2>2. <<0>>[1] = 0 /\ <<1>>[1] = 1
      OBVIOUS
    <2> QED
      BY <2>1, <2>2, KindFacts DEF FixedValues
  <1>3. PICK has : has = GetFixed("flag", b)
    OBVIOUS
  <1>4. GetOptional(kind, b) =
          IF ~has.ok THEN Refused
          ELSE IF has.value = <<0>> THEN Took(<<>>, has.rest)
          ELSE GetFixed(OptionalOf[kind], has.rest)
    BY <1>3 DEF GetOptional
  <1>5. Len(b) \in Nat
    BY SeqFacts
  <1>6. CASE v = <<>>
    <2>1. PICK c : c = <<0>>
      OBVIOUS
    <2>2. Put(kind, v) = c /\ Len(c) = 1
      BY <1>1, <1>6, <2>1 DEF Put
    <2>3. has = IF 1 <= Len(b) THEN Took(c, Drop(b, 1)) ELSE Refused
      <3>1. Agrees(b, c) /\ c \in FixedValues("flag") /\ "flag" \in Fixed
        BY <1>1, <1>2, <2>1, <2>2
      <3>2. has = IF Len(c) <= Len(b) THEN Took(c, Drop(b, Len(c))) ELSE Refused
        BY <1>3, <3>1, FixedRead
      <3> QED
        BY <2>2, <3>2
    <2>4. CASE 1 <= Len(b)
      <3>1. has.ok /\ has.value = <<0>> /\ has.rest = Drop(b, 1)
        BY <2>1, <2>3, <2>4 DEF Took
      <3> QED
        BY <1>4, <1>6, <2>2, <2>4, <3>1
    <2>5. CASE ~(1 <= Len(b))
      <3>1. ~has.ok
        BY <2>3, <2>5 DEF Refused
      <3> QED
        BY <1>4, <2>2, <2>5, <3>1
    <2> QED
      BY <2>4, <2>5
  <1>7. CASE v # <<>>
    <2>1. PICK c : c = <<1>>
      OBVIOUS
    <2>2. c \in Seq(Bytes) /\ Len(c) = 1 /\ c # <<0>> /\ Put(kind, v) = c \o v
      BY <1>1, <1>7, <2>1 DEF Put, Bytes
    <2>3. v \in FixedValues(OptionalOf[kind]) /\ v \in Seq(Bytes) /\ Len(v) \in Nat
      BY <1>1, <1>7 DEF ValuesOf, FixedValues
    <2>4. Agrees(b, c) /\ (1 <= Len(b) => Agrees(Drop(b, 1), v)) /\ Len(c \o v) = 1 + Len(v)
      <3>1. c \in Seq(Bytes) /\ v \in Seq(Bytes) /\ Agrees(b, c \o v)
        BY <2>2, <2>3
      <3>2. Agrees(b, c) /\ (Len(c) <= Len(b) => Agrees(Drop(b, Len(c)), v))
        BY <3>1, AgreesConcat
      <3>3. Len(c \o v) = Len(c) + Len(v)
        BY <3>1, ConcatFacts
      <3> QED
        BY <2>2, <3>2, <3>3
    <2>5. has = IF 1 <= Len(b) THEN Took(c, Drop(b, 1)) ELSE Refused
      <3>1. c \in FixedValues("flag") /\ "flag" \in Fixed
        BY <1>1, <1>2, <2>1
      <3>2. has = IF Len(c) <= Len(b) THEN Took(c, Drop(b, Len(c))) ELSE Refused
        BY <1>3, <2>4, <3>1, FixedRead
      <3> QED
        BY <2>2, <3>2
    <2>6. CASE 1 <= Len(b)
      <3>1. PICK d : d = Drop(b, 1)
        OBVIOUS
      <3>2. has.ok /\ has.value = c /\ has.rest = d
        BY <2>5, <2>6, <3>1 DEF Took
      <3>3. GetOptional(kind, b) = GetFixed(OptionalOf[kind], d)
        BY <1>4, <2>2, <3>2
      <3>4. d \in Seq(Bytes) /\ Len(d) = Len(b) - 1 /\ Agrees(d, v)
        BY <2>4, <2>6, <3>1, DropFacts
      <3>5. GetFixed(OptionalOf[kind], d) =
              IF Len(v) <= Len(d) THEN Took(v, Drop(d, Len(v))) ELSE Refused
        BY <1>1, <2>3, <3>4, FixedRead
      <3>6. 1 + Len(v) <= Len(b) => Drop(d, Len(v)) = Drop(b, 1 + Len(v))
        BY <2>3, <3>1, DropDrop
      <3>7. Len(v) <= Len(d) <=> 1 + Len(v) <= Len(b)
        BY <1>5, <2>3, <3>4
      <3> QED
        BY <2>2, <2>4, <3>3, <3>5, <3>6, <3>7
    <2>7. CASE ~(1 <= Len(b))
      <3>1. ~has.ok
        BY <2>5, <2>7 DEF Refused
      <3>2. ~(1 + Len(v) <= Len(b))
        BY <1>5, <2>3, <2>7
      <3> QED
        BY <1>4, <2>2, <2>4, <3>1, <3>2
    <2> QED
      BY <2>6, <2>7
  <1> QED
    BY <1>6, <1>7

\* A field is read back as it was written, from bytes that begin with it, and
\* from bytes that end inside it nothing is read.
LEMMA FieldRead ==
  ASSUME NEW kind \in FieldKinds, NEW v \in ValuesOf(kind), NEW b \in Seq(Bytes),
         Agrees(b, Put(kind, v))
  PROVE  Get(kind, b) =
           IF Fits(kind, v) /\ Len(Put(kind, v)) <= Len(b)
           THEN Took(v, Drop(b, Len(Put(kind, v)))) ELSE Refused
  <1>1. CASE kind \in Counted
    <2>1. v \in Seq(Bytes) /\ Len(v) <= LongField
      BY <1>1 DEF ValuesOf
    <2>2. Get(kind, b) = GetCounted(kind, b)
      BY <1>1 DEF Get
    <2>3. Len(Put(kind, v)) = Len(v) + 4
      <3>1. Len(v) \in Nat
        BY <2>1, SeqFacts
      <3>2. PICK c : c = U32Bytes(Len(v))
        OBVIOUS
      <3>3. c \in Seq(Bytes) /\ Len(c) = 4
        BY <3>1, <3>2, U32BytesType
      <3>4. Put(kind, v) = c \o v
        BY <1>1, <3>2 DEF Put
      <3>5. Len(c \o v) = Len(c) + Len(v)
        BY <2>1, <3>3, ConcatFacts
      <3> QED
        BY <3>1, <3>3, <3>4, <3>5
    <2>4. Fits(kind, v) <=> Len(v) <= ByteLimit[kind]
      BY <1>1 DEF Fits
    <2> QED
      BY <1>1, <2>1, <2>2, <2>3, <2>4, CountedRead
  <1>2. CASE kind \in Optional
    <2>1. kind \notin Counted
      BY <1>2, KindTypes
    <2>2. Get(kind, b) = GetOptional(kind, b) /\ Fits(kind, v)
      BY <1>2, <2>1 DEF Get, Fits
    <2> QED
      BY <1>2, <2>2, OptionalRead
  <1>3. CASE kind \in Fixed
    <2>1. kind \notin Counted /\ kind \notin Optional
      BY <1>3, KindTypes
    <2>2. Get(kind, b) = GetFixed(kind, b) /\ Fits(kind, v) /\ Put(kind, v) = v
      BY <2>1 DEF Get, Fits, Put
    <2>3. v \in FixedValues(kind)
      BY <2>1 DEF ValuesOf
    <2> QED
      BY <1>3, <2>2, <2>3, FixedRead
  <1> QED
    BY <1>1, <1>2, <1>3 DEF FieldKinds

-----------------------------------------------------------------------------
(* A whole payload.                                                        *)

LEMMA LayoutFacts ==
  /\ \A form \in Forms : Layout[form] \in Seq(FieldKinds) /\ Len(Layout[form]) <= 14
  /\ Layout["complete_ack"] = <<"code", "string", "opt_digest">>
  /\ Layout["decision"] = <<"code", "string", "opt_id", "opt_gen">>
  <1>1. {"u8", "flag", "code", "state", "u32", "gen", "id", "digest", "opt_id",
         "opt_gen", "opt_digest", "string", "bytes"} \subseteq FieldKinds
    BY KindFacts DEF FieldKinds
  <1> DEFINE T == {s \in Seq(FieldKinds) : Len(s) <= 14}
  <1>2. dispatch_ticket \in Seq(FieldKinds) /\ Len(dispatch_ticket) = 11
    BY <1>1 DEF dispatch_ticket
  <1>3. completion_ticket \in Seq(FieldKinds) /\ Len(completion_ticket) = 13
    BY <1>1 DEF completion_ticket
  <1>4. hello \in T /\ welcome \in T /\ register_ack \in T /\ submit \in T
    BY <1>1 DEF hello, welcome, register_ack, submit
  <1>5. submit_ack \in T /\ dispatch \in T /\ decision \in T /\ complete_ack \in T
    BY <1>1 DEF submit_ack, dispatch, decision, complete_ack
  <1>6. cancel \in T /\ ack_preempt \in T /\ mark_resumable \in T /\ resume \in T
    BY <1>1 DEF cancel, control_request, ack_preempt, mark_resumable, resume
  <1>7. worker_lost \in T /\ query \in T /\ query_response \in T /\ <<>> \in T
    BY <1>1 DEF worker_lost, query, query_response
  <1>8. dispatch_ack \in T
    <2>1. PICK c : c = <<"flag", "code", "string">>
      OBVIOUS
    <2>2. c \in Seq(FieldKinds) /\ Len(c) = 3
      BY <1>1, <2>1
    <2>3. PICK d : d = dispatch_ticket
      OBVIOUS
    <2>4. d \in Seq(FieldKinds) /\ Len(d) = 11
      BY <1>2, <2>3
    <2>5. c \o d \in Seq(FieldKinds) /\ Len(c \o d) = Len(c) + Len(d)
      BY <2>2, <2>4, ConcatFacts
    <2>6. c \o d \in T
      BY <2>2, <2>4, <2>5
    <2> QED
      BY <2>1, <2>3, <2>6 DEF dispatch_ack
  <1>9. worker_dispatch \in T
    <2>1. PICK c : c = <<"u32", "u32">>
      OBVIOUS
    <2>2. c \in Seq(FieldKinds) /\ Len(c) = 2
      BY <1>1, <2>1
    <2>3. PICK d : d = dispatch_ticket
      OBVIOUS
    <2>4. d \in Seq(FieldKinds) /\ Len(d) = 11
      BY <1>2, <2>3
    <2>5. d \o c \in Seq(FieldKinds) /\ Len(d \o c) = Len(d) + Len(c)
      BY <2>2, <2>4, ConcatFacts
    <2>6. d \o c \in T
      BY <2>2, <2>4, <2>5
    <2> QED
      BY <2>1, <2>3, <2>6 DEF worker_dispatch
  <1>10. complete \in T
    <2>1. PICK c : c = <<"bytes">>
      OBVIOUS
    <2>2. c \in Seq(FieldKinds) /\ Len(c) = 1
      BY <1>1, <2>1
    <2>3. PICK d : d = completion_ticket
      OBVIOUS
    <2>4. d \in Seq(FieldKinds) /\ Len(d) = 13
      BY <1>3, <2>3
    <2>5. d \o c \in Seq(FieldKinds) /\ Len(d \o c) = Len(d) + Len(c)
      BY <2>2, <2>4, ConcatFacts
    <2>6. d \o c \in T
      BY <2>2, <2>4, <2>5
    <2> QED
      BY <2>1, <2>3, <2>6 DEF complete
  <1>11. start \in T
    BY <1>1 DEF start, start_ticket
  <1> HIDE DEF T
  <1>12. \A form \in Forms : Layout[form] \in T
    BY <1>4, <1>5, <1>6, <1>7, <1>8, <1>9, <1>10, <1>11 DEF Forms, Layout
  <1>13. /\ Layout["complete_ack"] = <<"code", "string", "opt_digest">>
         /\ Layout["decision"] = <<"code", "string", "opt_id", "opt_gen">>
    BY DEF Layout, complete_ack, decision
  <1> USE DEF T
  <1> QED
    BY <1>12, <1>13

\* Values a payload of this form may carry.
Valid(form, values) ==
  /\ values \in Seq(Seq(Bytes))
  /\ Len(values) = Len(Layout[form])
  /\ \A n \in 1 .. Len(Layout[form]) : values[n] \in ValuesOf(Layout[form][n])

\* pk[n] is what has been written after n fields.
Packing(pk, form, values) ==
  /\ pk \in [0 .. Len(Layout[form]) -> Seq(Bytes)]
  /\ pk[0] = <<>>
  /\ \A n \in 1 .. Len(Layout[form]) :
       pk[n] = pk[n - 1] \o Put(Layout[form][n], values[n])
  /\ Pack(form, values) = pk[Len(Layout[form])]

LEMMA PackingExists ==
  ASSUME NEW form \in Forms, NEW values, Valid(form, values)
  PROVE  \E pk : Packing(pk, form, values)
  <1>1. PICK fields : fields = Layout[form]
    OBVIOUS
  <1>2. PICK N \in Nat : N = Len(fields)
    BY <1>1, LayoutFacts, SeqFacts
  <1>3. \A n \in 1 .. N : fields[n] \in FieldKinds
    BY <1>1, <1>2, LayoutFacts, SeqFacts
  <1>4. \A n \in 1 .. N : Put(fields[n], values[n]) \in Seq(Bytes)
    BY <1>1, <1>2, <1>3, PutFacts DEF Valid
  <1> DEFINE step == [n \in 1 .. N |-> [s \in Seq(Bytes) |-> s \o Put(fields[n], values[n])]]
  <1>5. step \in [1 .. N -> [Seq(Bytes) -> Seq(Bytes)]]
    <2>1. \A n \in 1 .. N, s \in Seq(Bytes) : s \o Put(fields[n], values[n]) \in Seq(Bytes)
      BY <1>4, ConcatFacts
    <2> QED
      BY <2>1
  <1>6. <<>> \in Seq(Bytes)
    OBVIOUS
  <1>7. PICK f \in [0 .. N -> Seq(Bytes)] :
          f[0] = <<>> /\ \A n \in 1 .. N : f[n] = step[n][f[n - 1]]
    <2> HIDE DEF step
    <2>1. PICK st : st = step
      OBVIOUS
    <2>2. PICK S, a : S = Seq(Bytes) /\ a = <<>>
      OBVIOUS
    <2>3. a \in S /\ st \in [1 .. N -> [S -> S]]
      BY <1>5, <1>6, <2>1, <2>2
    <2>4. a \in S /\ Steps(st, N, S)
      BY <2>3 DEF Steps
    <2>5. \E f : Solution(f, a, st, N, S)
      BY <2>4, Recursion
    <2> QED
      BY <2>1, <2>2, <2>5 DEF Solution
  <1>8. \A n \in 1 .. N : f[n] = f[n - 1] \o Put(fields[n], values[n])
    <2> TAKE n \in 1 .. N
    <2>1. n - 1 \in 0 .. N
      OBVIOUS
    <2>2. PICK s \in Seq(Bytes) : s = f[n - 1]
      BY <2>1
    <2>3. step[n][s] = s \o Put(fields[n], values[n])
      OBVIOUS
    <2> HIDE DEF step
    <2> QED
      BY <1>7, <2>2, <2>3
  <1> HIDE DEF step
  <1>9. f = [n \in 0 .. N |-> IF n = 0 THEN <<>> ELSE f[n - 1] \o Put(fields[n], values[n])]
    <2>1. \A n \in 0 .. N : f[n] = IF n = 0 THEN <<>> ELSE f[n - 1] \o Put(fields[n], values[n])
      <3> TAKE n \in 0 .. N
      <3>1. CASE n = 0
        BY <1>7, <3>1
      <3>2. CASE n # 0
        <4>1. n \in 1 .. N
          BY <3>2
        <4> QED
          BY <1>8, <3>2, <4>1
      <3> QED
        BY <3>1, <3>2
    <2>2. f = [n \in 0 .. N |-> f[n]]
      OBVIOUS
    <2> QED
      BY <2>1, <2>2
  <1> HIDE DEF step
  <1> DEFINE packed[n \in 0 .. Len(fields)] ==
               IF n = 0 THEN <<>> ELSE packed[n - 1] \o Put(fields[n], values[n])
  <1>10. packed = [n \in 0 .. N |-> IF n = 0 THEN <<>>
                                    ELSE packed[n - 1] \o Put(fields[n], values[n])]
    BY <1>2, <1>9
  <1>11. Pack(form, values) = packed[N]
    BY <1>1, <1>2 DEF Pack
  <1>12. PICK pk : pk = packed
    OBVIOUS
  <1>13. /\ pk = [n \in 0 .. N |-> pk[n]] /\ pk[0] = <<>>
         /\ \A n \in 1 .. N : pk[n] = pk[n - 1] \o Put(fields[n], values[n])
         /\ Pack(form, values) = pk[N]
    <2> HIDE DEF packed
    <2>1. pk = [n \in 0 .. N |-> IF n = 0 THEN <<>>
                                 ELSE pk[n - 1] \o Put(fields[n], values[n])]
      BY <1>10, <1>12
    <2>2. 0 \in 0 .. N /\ \A n \in 1 .. N : n \in 0 .. N /\ n # 0
      OBVIOUS
    <2> QED
      BY <1>11, <1>12, <2>1, <2>2
  <1> HIDE DEF packed
  <1> DEFINE T == {n \in Nat : n <= N => pk[n] \in Seq(Bytes)}
  <1>14. 0 \in T
    BY <1>6, <1>13
  <1>15. \A n \in Nat : n \in T => n + 1 \in T
    <2> SUFFICES ASSUME NEW n \in Nat, n \in T, n + 1 <= N PROVE pk[n + 1] \in Seq(Bytes)
      OBVIOUS
    <2>1. n + 1 \in 1 .. N /\ (n + 1) - 1 = n /\ pk[n] \in Seq(Bytes)
      OBVIOUS
    <2>2. pk[n + 1] = pk[n] \o Put(fields[n + 1], values[n + 1])
      BY <1>13, <2>1
    <2>3. Put(fields[n + 1], values[n + 1]) \in Seq(Bytes)
      BY <1>4, <2>1
    <2> QED
      BY <2>1, <2>2, <2>3, ConcatFacts
  <1>16. Nat \subseteq T
    <2> HIDE DEF T
    <2> QED
      BY <1>14, <1>15, SetInduction
  <1>17. pk \in [0 .. N -> Seq(Bytes)]
    BY <1>13, <1>16
  <1> QED
    BY <1>1, <1>2, <1>13, <1>17 DEF Packing

LEMMA PackingFacts ==
  ASSUME NEW form \in Forms, NEW values, Valid(form, values), NEW pk,
         Packing(pk, form, values)
  PROVE  /\ \A n \in 1 .. Len(Layout[form]) :
              /\ Layout[form][n] \in FieldKinds
              /\ values[n] \in ValuesOf(Layout[form][n])
              /\ Put(Layout[form][n], values[n]) \in Seq(Bytes)
              /\ pk[n - 1] \in Seq(Bytes) /\ pk[n] \in Seq(Bytes)
              /\ Len(pk[n]) = Len(pk[n - 1]) + Len(Put(Layout[form][n], values[n]))
              /\ Len(pk[n - 1]) <= Len(pk[n])
         /\ \A n \in 0 .. Len(Layout[form]) : Len(pk[n]) <= n * FieldMost
  <1>1. PICK fields : fields = Layout[form]
    OBVIOUS
  <1>2. PICK N \in Nat : N = Len(fields)
    BY <1>1, LayoutFacts, SeqFacts
  <1>3. \A n \in 1 .. N : fields[n] \in FieldKinds /\ values[n] \in ValuesOf(fields[n])
    BY <1>1, <1>2, LayoutFacts, SeqFacts DEF Valid
  <1>4. ASSUME NEW n \in 1 .. N
        PROVE  /\ Put(fields[n], values[n]) \in Seq(Bytes)
               /\ pk[n - 1] \in Seq(Bytes) /\ pk[n] \in Seq(Bytes)
               /\ Len(pk[n]) \in Nat /\ Len(pk[n - 1]) \in Nat
               /\ Len(Put(fields[n], values[n])) \in Nat
               /\ Len(Put(fields[n], values[n])) <= FieldMost
               /\ Len(pk[n]) = Len(pk[n - 1]) + Len(Put(fields[n], values[n]))
    <2>1. PICK q : q = Put(fields[n], values[n])
      OBVIOUS
    <2>2. q \in Seq(Bytes) /\ Len(q) \in Nat /\ Len(q) <= FieldMost
      BY <1>3, <2>1, PutFacts
    <2>3. n - 1 \in 0 .. N /\ n \in 0 .. N
      OBVIOUS
    <2>4. pk[n - 1] \in Seq(Bytes) /\ pk[n] \in Seq(Bytes) /\ pk[n] = pk[n - 1] \o q
      BY <1>1, <1>2, <2>1, <2>3 DEF Packing
    <2>5. PICK before, after : before = pk[n - 1] /\ after = pk[n]
      OBVIOUS
    <2>6. before \in Seq(Bytes) /\ after = before \o q /\ after \in Seq(Bytes)
      BY <2>4, <2>5
    <2>7. Len(before \o q) = Len(before) + Len(q) /\ Len(before) \in Nat /\ Len(after) \in Nat
      BY <2>2, <2>6, ConcatFacts, SeqFacts
    <2> QED
      BY <2>1, <2>2, <2>5, <2>6, <2>7
  <1>5. \A n \in 1 .. N : Len(pk[n - 1]) <= Len(pk[n])
    <2> TAKE n \in 1 .. N
    <2>1. PICK k, l, m : k = Len(pk[n]) /\ l = Len(pk[n - 1]) /\ m = Len(Put(fields[n], values[n]))
      OBVIOUS
    <2>2. l \in Nat /\ m \in Nat /\ k = l + m
      BY <1>4, <2>1
    <2>3. l <= k
      BY <2>2
    <2> QED
      BY <2>1, <2>3
  <1> DEFINE T == {n \in Nat : n <= N => Len(pk[n]) <= n * FieldMost}
  <1>6. 0 \in T
    <2>1. pk[0] = <<>> /\ 0 <= 0 * FieldMost
      BY DEF Packing, FieldMost
    <2> QED
      BY <2>1
  <1>7. \A n \in Nat : n \in T => n + 1 \in T
    <2> SUFFICES ASSUME NEW n \in Nat, n \in T, n + 1 <= N
                 PROVE  Len(pk[n + 1]) <= (n + 1) * FieldMost
      OBVIOUS
    <2>1. n + 1 \in 1 .. N /\ (n + 1) - 1 = n /\ Len(pk[n]) <= n * FieldMost
      OBVIOUS
    <2>2. PICK l : l = Len(Put(fields[n + 1], values[n + 1]))
      OBVIOUS
    <2>3. /\ l \in Nat /\ l <= FieldMost /\ Len(pk[n]) \in Nat
          /\ Len(pk[n + 1]) = Len(pk[n]) + l
      BY <1>4, <2>1, <2>2
    <2>4. PICK k : k = Len(pk[n])
      OBVIOUS
    <2>5. k \in Nat /\ k <= n * FieldMost
      BY <2>1, <2>3, <2>4
    <2>6. k + l <= (n + 1) * FieldMost
      BY <2>3, <2>5 DEF FieldMost
    <2> QED
      BY <2>3, <2>4, <2>6
  <1>8. Nat \subseteq T
    <2> HIDE DEF T
    <2> QED
      BY <1>6, <1>7, SetInduction
  <1>9. \A n \in 0 .. N : Len(pk[n]) <= n * FieldMost
    BY <1>8
  <1> HIDE DEF T
  <1>10. \A n \in 0 .. Len(Layout[form]) : Len(pk[n]) <= n * FieldMost
    BY <1>1, <1>2, <1>9
  <1>11. \A n \in 1 .. Len(Layout[form]) :
                /\ Layout[form][n] \in FieldKinds
                /\ values[n] \in ValuesOf(Layout[form][n])
                /\ Put(Layout[form][n], values[n]) \in Seq(Bytes)
                /\ pk[n - 1] \in Seq(Bytes) /\ pk[n] \in Seq(Bytes)
                /\ Len(pk[n]) = Len(pk[n - 1]) + Len(Put(Layout[form][n], values[n]))
                /\ Len(pk[n - 1]) <= Len(pk[n])
    <2> TAKE n \in 1 .. Len(Layout[form])
    <2>1. n \in 1 .. N
      BY <1>1, <1>2
    <2>2. fields[n] \in FieldKinds /\ values[n] \in ValuesOf(fields[n])
      BY <1>3, <2>1
    <2> QED
      BY <1>1, <1>4, <1>5, <2>1, <2>2
  <1> QED
    BY <1>10, <1>11

LEMMA PackFacts ==
  ASSUME NEW form \in Forms, NEW values, Valid(form, values)
  PROVE  /\ Pack(form, values) \in Seq(Bytes)
         /\ Len(Pack(form, values)) \in Nat
         /\ Len(Pack(form, values)) <= PayloadMost
  <1>1. PICK N \in Nat : N = Len(Layout[form])
    BY LayoutFacts, SeqFacts
  <1>2. N <= 14 /\ N \in 0 .. N
    BY <1>1, LayoutFacts
  <1>3. PICK pk : Packing(pk, form, values)
    BY PackingExists
  <1>4. PICK p : p = pk[N]
    OBVIOUS
  <1>5. p \in Seq(Bytes) /\ p = Pack(form, values) /\ Len(p) <= N * FieldMost
    BY <1>1, <1>2, <1>3, <1>4, PackingFacts DEF Packing
  <1>6. Len(p) \in Nat
    BY <1>5, SeqFacts
  <1>7. Len(p) <= PayloadMost
    BY <1>2, <1>5, <1>6 DEF FieldMost, PayloadMost
  <1> QED
    BY <1>5, <1>6, <1>7

AllFit(form, values) ==
  \A n \in 1 .. Len(Layout[form]) : Fits(Layout[form][n], values[n])

LEMMA PackingAgrees ==
  ASSUME NEW form \in Forms, NEW values, Valid(form, values), NEW pk,
         Packing(pk, form, values), NEW b \in Seq(Bytes), Agrees(b, Pack(form, values)),
         NEW n \in 0 .. Len(Layout[form])
  PROVE  Agrees(b, pk[n])
  <1>1. PICK fields : fields = Layout[form]
    OBVIOUS
  <1>2. PICK N \in Nat : N = Len(fields)
    BY <1>1, LayoutFacts, SeqFacts
  <1>3. /\ Pack(form, values) = pk[N]
        /\ \A k \in 1 .. N : pk[k] = pk[k - 1] \o Put(fields[k], values[k])
    BY <1>1, <1>2 DEF Packing
  <1>4. \A k \in 1 .. N : Put(fields[k], values[k]) \in Seq(Bytes) /\ pk[k - 1] \in Seq(Bytes)
    BY <1>1, <1>2, PackingFacts
  <1> DEFINE T == {k \in Nat : k <= N => Agrees(b, pk[N - k])}
  <1>5. 0 \in T
    BY <1>3
  <1>6. \A k \in Nat : k \in T => k + 1 \in T
    <2> SUFFICES ASSUME NEW k \in Nat, k \in T, k + 1 <= N PROVE Agrees(b, pk[N - (k + 1)])
      OBVIOUS
    <2>1. PICK j \in 1 .. N : j = N - k
      OBVIOUS
    <2>2. N - (k + 1) = j - 1 /\ Agrees(b, pk[j])
      BY <2>1
    <2>3. PICK q, before : q = Put(fields[j], values[j]) /\ before = pk[j - 1]
      OBVIOUS
    <2>4. q \in Seq(Bytes) /\ before \in Seq(Bytes) /\ Agrees(b, before \o q)
      BY <1>3, <1>4, <2>2, <2>3
    <2>5. Agrees(b, before)
      BY <2>4, AgreesConcat
    <2> QED
      BY <2>2, <2>3, <2>5
  <1>7. Nat \subseteq T
    <2> HIDE DEF T
    <2> QED
      BY <1>5, <1>6, SetInduction
  <1>8. N - n \in Nat /\ N - n <= N /\ N - (N - n) = n
    BY <1>1, <1>2
  <1> QED
    BY <1>7, <1>8

LEMMA NextRefused ==
  ASSUME NEW kind
  PROVE  ReadNext(Refused, kind) = Refused
  <1>1. ~Refused.ok
    BY DEF Refused
  <1> QED
    BY <1>1 DEF ReadNext

\* One more field, from where the fields before it end.
LEMMA NextRead ==
  ASSUME NEW form \in Forms, NEW values, Valid(form, values), NEW pk,
         Packing(pk, form, values), NEW b \in Seq(Bytes), Agrees(b, Pack(form, values)),
         NEW n \in 1 .. Len(Layout[form]), Len(pk[n - 1]) <= Len(b), NEW vs
  PROVE  ReadNext(Took(vs, Drop(b, Len(pk[n - 1]))), Layout[form][n]) =
           IF Fits(Layout[form][n], values[n]) /\ Len(pk[n]) <= Len(b)
           THEN Took(Append(vs, values[n]), Drop(b, Len(pk[n]))) ELSE Refused
  <1>1. PICK kind, v : kind = Layout[form][n] /\ v = values[n]
    OBVIOUS
  <1>2. PICK before, q : before = pk[n - 1] /\ q = Put(kind, v)
    OBVIOUS
  <1>3. /\ kind \in FieldKinds /\ v \in ValuesOf(kind)
        /\ q \in Seq(Bytes) /\ before \in Seq(Bytes)
        /\ Len(pk[n]) = Len(before) + Len(q)
    BY <1>1, <1>2, PackingFacts
  <1>4. Len(b) \in Nat
    BY SeqFacts
  <1>5. PICK l \in Nat, lq \in Nat : l = Len(before) /\ lq = Len(q)
    BY <1>3, SeqFacts
  <1>6. Len(pk[n]) = l + lq /\ l <= Len(b) /\ Len(pk[n - 1]) = l
    BY <1>2, <1>3, <1>5
  <1>7. PICK d : d = Drop(b, l)
    OBVIOUS
  <1>8. d \in Seq(Bytes) /\ Len(d) = Len(b) - l
    BY <1>6, <1>7, DropFacts
  <1>9. Agrees(d, q)
    <2>1. Len(Layout[form]) \in Nat
      BY LayoutFacts, SeqFacts
    <2>2. n \in 0 .. Len(Layout[form])
      BY <2>1
    <2>3. Agrees(b, pk[n])
      BY <2>2, PackingAgrees
    <2>4. pk[n] = before \o q
      BY <1>1, <1>2 DEF Packing
    <2>5. Agrees(b, before \o q) /\ Len(before) <= Len(b)
      BY <1>5, <1>6, <2>3, <2>4
    <2>6. Agrees(Drop(b, Len(before)), q)
      BY <1>3, <2>5, AgreesConcat
    <2> QED
      BY <1>5, <1>7, <2>6
  <1>10. PICK done : done = Took(vs, d)
    OBVIOUS
  <1>11. done.ok /\ done.value = vs /\ done.rest = d
    BY <1>10 DEF Took
  <1>12. PICK r : r = Get(kind, done.rest)
    OBVIOUS
  <1>13. ReadNext(done, kind) =
           IF done.ok /\ r.ok THEN Took(Append(done.value, r.value), r.rest) ELSE Refused
    BY <1>12 DEF ReadNext
  <1>14. r = IF Fits(kind, v) /\ lq <= Len(d) THEN Took(v, Drop(d, lq)) ELSE Refused
    <2>1. r = Get(kind, d)
      BY <1>11, <1>12
    <2>2. Get(kind, d) = IF Fits(kind, v) /\ Len(q) <= Len(d) THEN Took(v, Drop(d, Len(q))) ELSE Refused
      BY <1>2, <1>3, <1>8, <1>9, FieldRead
    <2> QED
      BY <1>5, <2>1, <2>2
  <1>15. l + lq <= Len(b) <=> lq <= Len(d)
    BY <1>4, <1>8
  <1>16. CASE Fits(kind, v) /\ lq <= Len(d)
    <2>1. r.ok /\ r.value = v /\ r.rest = Drop(d, lq)
      BY <1>14, <1>16 DEF Took
    <2>2. Drop(d, lq) = Drop(b, l + lq)
      BY <1>7, <1>15, <1>16, DropDrop
    <2>3. ReadNext(done, kind) = Took(Append(vs, v), Drop(b, l + lq))
      BY <1>11, <1>13, <2>1, <2>2
    <2> QED
      BY <1>1, <1>6, <1>7, <1>10, <1>15, <1>16, <2>3
  <1>17. CASE ~(Fits(kind, v) /\ lq <= Len(d))
    <2>1. r = Refused
      BY <1>14, <1>17
    <2>2. ~r.ok
      BY <2>1 DEF Refused
    <2>3. ReadNext(done, kind) = Refused
      BY <1>13, <2>2
    <2> QED
      BY <1>1, <1>6, <1>7, <1>10, <1>15, <1>17, <2>3
  <1> QED
    BY <1>16, <1>17

\* The reader follows the writer field by field, through every beginning and
\* every continuation of what was written.
LEMMA FieldsRead ==
  ASSUME NEW form \in Forms, NEW values, Valid(form, values), NEW b \in Seq(Bytes),
         Agrees(b, Pack(form, values))
  PROVE  ReadFields(form, b) =
           IF AllFit(form, values) /\ Len(Pack(form, values)) <= Len(b)
           THEN Took(values, Drop(b, Len(Pack(form, values)))) ELSE Refused
  <1>1. PICK fields : fields = Layout[form]
    OBVIOUS
  <1>2. PICK N \in Nat : N = Len(fields)
    BY <1>1, LayoutFacts, SeqFacts
  <1>3. PICK pk : Packing(pk, form, values)
    BY PackingExists
  <1>4. /\ pk[0] = <<>> /\ Pack(form, values) = pk[N]
        /\ \A n \in 0 .. N : pk[n] \in Seq(Bytes)
        /\ \A n \in 1 .. N : pk[n] = pk[n - 1] \o Put(fields[n], values[n])
    BY <1>1, <1>2, <1>3 DEF Packing
  <1>5. \A n \in 1 .. N :
          /\ fields[n] \in FieldKinds
          /\ values[n] \in ValuesOf(fields[n])
          /\ Put(fields[n], values[n]) \in Seq(Bytes)
          /\ pk[n - 1] \in Seq(Bytes) /\ pk[n] \in Seq(Bytes)
          /\ Len(pk[n]) = Len(pk[n - 1]) + Len(Put(fields[n], values[n]))
          /\ Len(pk[n - 1]) <= Len(pk[n])
    BY <1>1, <1>2, <1>3, PackingFacts
  <1>6. Len(b) \in Nat /\ Len(values) = N /\ values \in Seq(Seq(Bytes))
    BY <1>1, <1>2, SeqFacts DEF Valid
  <1> DEFINE Fine(n) == (\A k \in 1 .. n : Fits(fields[k], values[k])) /\ Len(pk[n]) <= Len(b)
             f == [n \in 0 .. N |-> IF Fine(n) THEN Took(SubSeq(values, 1, n), Drop(b, Len(pk[n])))
                                               ELSE Refused]
  <1>8. f[0] = Took(<<>>, b)
    <2>1. Fine(0)
      BY <1>4, <1>6
    <2>2. SubSeq(values, 1, 0) = <<>> /\ Drop(b, Len(pk[0])) = b
      BY <1>4, <1>6 DEF Drop
    <2> HIDE DEF Fine
    <2>3. 0 \in 0 .. N
      OBVIOUS
    <2>4. f[0] = Took(SubSeq(values, 1, 0), Drop(b, Len(pk[0])))
      BY <2>1, <2>3
    <2> HIDE DEF f
    <2> QED
      BY <2>2, <2>4
  <1>9. ASSUME NEW n \in 1 .. N PROVE f[n] = ReadNext(f[n - 1], fields[n])
    <2>1. n - 1 \in 0 .. N /\ n \in 0 .. N
      OBVIOUS
    <2>2. Fine(n) <=> Fine(n - 1) /\ Fits(fields[n], values[n]) /\ Len(pk[n]) <= Len(b)
      <3>1. (\A k \in 1 .. n : Fits(fields[k], values[k]))
            <=> (\A k \in 1 .. n - 1 : Fits(fields[k], values[k])) /\ Fits(fields[n], values[n])
        <4>1. \A k \in 1 .. n : k \in 1 .. n - 1 \/ k = n
          OBVIOUS
        <4>2. \A k \in 1 .. n - 1 : k \in 1 .. n
          OBVIOUS
        <4>3. n \in 1 .. n
          OBVIOUS
        <4> QED
          BY <4>1, <4>2, <4>3
      <3>2. Len(pk[n]) <= Len(b) => Len(pk[n - 1]) <= Len(b)
        <4>1. PICK before, after : before = pk[n - 1] /\ after = pk[n]
          OBVIOUS
        <4>2. before \in Seq(Bytes) /\ after \in Seq(Bytes) /\ Len(before) <= Len(after)
          BY <1>5, <4>1
        <4>3. Len(before) \in Nat /\ Len(after) \in Nat
          BY <4>2, SeqFacts
        <4> QED
          BY <1>6, <4>1, <4>2, <4>3
      <3> QED
        BY <3>1, <3>2
    <2>3. PICK done : done = f[n - 1]
      OBVIOUS
    <2>4. CASE ~Fine(n - 1)
      <3>1. f[n] = Refused /\ done = Refused
        <4> HIDE DEF Fine
        <4> QED
          BY <2>1, <2>2, <2>3, <2>4
      <3> HIDE DEF Fine, f
      <3> QED
        BY <2>3, <3>1, NextRefused
    <2>5. CASE Fine(n - 1)
      <3>1. PICK vs : vs = SubSeq(values, 1, n - 1)
        OBVIOUS
      <3>2. done = Took(vs, Drop(b, Len(pk[n - 1])))
        <4> HIDE DEF Fine
        <4> QED
          BY <2>1, <2>3, <2>5, <3>1
      <3>3. Len(pk[n - 1]) <= Len(b)
        BY <2>5
      <3> HIDE DEF f
      <3>4. ReadNext(done, fields[n]) =
              IF Fits(fields[n], values[n]) /\ Len(pk[n]) <= Len(b)
              THEN Took(Append(vs, values[n]), Drop(b, Len(pk[n]))) ELSE Refused
        BY <1>1, <1>2, <1>3, <3>2, <3>3, NextRead
      <3>5. Append(vs, values[n]) = SubSeq(values, 1, n)
        BY <1>6, <3>1
      <3>6. f[n] = IF Fine(n) THEN Took(SubSeq(values, 1, n), Drop(b, Len(pk[n]))) ELSE Refused
        <4> HIDE DEF Fine
        <4> QED
          BY <2>1 DEF f
      <3> HIDE DEF Fine
      <3> QED
        BY <2>2, <2>3, <2>5, <3>4, <3>5, <3>6
    <2> QED
      BY <2>4, <2>5
  <1>10. PICK g : g = f
    OBVIOUS
  <1>11. g = [n \in 0 .. N |-> IF n = 0 THEN Took(<<>>, b) ELSE ReadNext(g[n - 1], fields[n])]
    <2>1. g = [n \in 0 .. N |-> g[n]]
      BY <1>10
    <2> HIDE DEF f
    <2>2. \A n \in 0 .. N : g[n] = IF n = 0 THEN Took(<<>>, b) ELSE ReadNext(g[n - 1], fields[n])
      BY <1>8, <1>9, <1>10
    <2> QED
      BY <2>1, <2>2
  <1> DEFINE read[n \in 0 .. Len(fields)] ==
               IF n = 0 THEN Took(<<>>, b) ELSE ReadNext(read[n - 1], fields[n])
  <1>12. read = [n \in 0 .. N |-> IF n = 0 THEN Took(<<>>, b) ELSE ReadNext(read[n - 1], fields[n])]
    <2> HIDE DEF f
    <2> QED
      BY <1>2, <1>11
  <1>13. ReadFields(form, b) = read[N]
    BY <1>1, <1>2 DEF ReadFields
  <1>14. PICK rd : rd = read
    OBVIOUS
  <1>15. /\ rd[0] = g[0]
         /\ \A n \in 1 .. N : rd[n] = ReadNext(rd[n - 1], fields[n])
         /\ \A n \in 1 .. N : g[n] = ReadNext(g[n - 1], fields[n])
         /\ ReadFields(form, b) = rd[N]
    <2> HIDE DEF read, f
    <2>1. rd = [n \in 0 .. N |-> IF n = 0 THEN Took(<<>>, b) ELSE ReadNext(rd[n - 1], fields[n])]
      BY <1>12, <1>14
    <2>2. 0 \in 0 .. N /\ \A n \in 1 .. N : n \in 0 .. N /\ n # 0
      OBVIOUS
    <2> QED
      BY <1>8, <1>9, <1>10, <1>13, <1>14, <2>1, <2>2
  <1> HIDE DEF read, f
  <1> DEFINE T == {n \in Nat : n <= N => rd[n] = g[n]}
  <1>16. 0 \in T
    BY <1>15
  <1>17. \A n \in Nat : n \in T => n + 1 \in T
    <2> SUFFICES ASSUME NEW n \in Nat, n \in T, n + 1 <= N PROVE rd[n + 1] = g[n + 1]
      OBVIOUS
    <2>1. n + 1 \in 1 .. N /\ (n + 1) - 1 = n /\ rd[n] = g[n]
      OBVIOUS
    <2> QED
      BY <1>15, <2>1
  <1>18. Nat \subseteq T
    <2> HIDE DEF T
    <2> QED
      BY <1>16, <1>17, SetInduction
  <1>19. ReadFields(form, b) = f[N]
    BY <1>10, <1>15, <1>18
  <1>20. N \in 0 .. N /\ SubSeq(values, 1, N) = values
    BY <1>6
  <1>21. Fine(N) <=> AllFit(form, values) /\ Len(Pack(form, values)) <= Len(b)
    BY <1>1, <1>2, <1>4 DEF AllFit
  <1> HIDE DEF Fine
  <1> QED
    BY <1>4, <1>19, <1>20, <1>21 DEF f

\* Of all the byte strings that begin a payload or that it begins, only the
\* payload itself unpacks, and to the values that were packed: for every layout
\* and any values its fields can have (unpack_* on what pack_* wrote).  A string or
\* vector beyond the reader's limit has the payload refused.
THEOREM PayloadReadBack ==
  ASSUME NEW form \in Forms, NEW values, Valid(form, values), NEW b \in Seq(Bytes),
         Agrees(b, Pack(form, values))
  PROVE  Unpack(form, b) =
           IF AllFit(form, values) /\ b = Pack(form, values)
           THEN Took(values, <<>>) ELSE Refused
  <1>1. PICK p : p = Pack(form, values)
    OBVIOUS
  <1>2. p \in Seq(Bytes) /\ Len(p) \in Nat /\ Len(b) \in Nat /\ Agrees(b, p)
    BY <1>1, PackFacts, SeqFacts
  <1>3. PICK r : r = ReadFields(form, b)
    OBVIOUS
  <1>4. r = IF AllFit(form, values) /\ Len(p) <= Len(b)
            THEN Took(values, Drop(b, Len(p))) ELSE Refused
    BY <1>1, <1>3, FieldsRead
  <1>5. Unpack(form, b) = IF r.ok /\ r.rest = <<>> THEN r ELSE Refused
    BY <1>3 DEF Unpack
  <1>6. CASE AllFit(form, values) /\ Len(p) <= Len(b)
    <2>1. PICK d : d = Drop(b, Len(p))
      OBVIOUS
    <2>2. r = Took(values, d) /\ r.ok /\ r.rest = d
      BY <1>4, <1>6, <2>1 DEF Took
    <2>3. d \in Seq(Bytes) /\ Len(d) = Len(b) - Len(p)
      <3>1. PICK k \in Nat : k = Len(p)
        BY <1>2
      <3>2. Drop(b, k) \in Seq(Bytes) /\ Len(Drop(b, k)) = Len(b) - k
        BY <1>6, <3>1, DropFacts
      <3> QED
        BY <2>1, <3>1, <3>2
    <2>4. d = <<>> <=> Len(b) = Len(p)
      <3>1. d = <<>> <=> Len(d) = 0
        BY <2>3, SeqFacts
      <3> QED
        BY <1>2, <2>3, <3>1
    <2>5. Len(b) = Len(p) => b = p
      <3> SUFFICES ASSUME Len(b) = Len(p) PROVE b = p
        OBVIOUS
      <3>1. \A i \in 1 .. Len(b) : b[i] = p[i]
        BY <1>2 DEF Agrees
      <3> QED
        BY <1>2, <3>1, SeqEqual
    <2>6. d = <<>> <=> b = p
      BY <2>4, <2>5
    <2> QED
      BY <1>1, <1>5, <1>6, <2>2, <2>6
  <1>7. CASE ~(AllFit(form, values) /\ Len(p) <= Len(b))
    <2>1. r = Refused
      BY <1>4, <1>7
    <2>2. ~r.ok
      BY <2>1 DEF Refused
    <2>3. b = p => Len(p) <= Len(b)
      BY <1>2
    <2> QED
      BY <1>1, <1>5, <1>7, <2>2, <2>3
  <1> QED
    BY <1>6, <1>7

-----------------------------------------------------------------------------
(* The messages that are sent.                                             *)

LEMMA KindsFacts ==
  \A k \in Kinds : k.unpack = k.pack /\ k.pack \in Forms
  <1>1. Forms = {"hello", "welcome", "register_ack", "submit", "submit_ack", "dispatch",
                 "dispatch_ack", "worker_dispatch", "start", "complete", "complete_ack",
                 "decision", "cancel", "ack_preempt", "mark_resumable", "resume",
                 "worker_lost", "query", "query_response", "empty"}
    BY DEF Forms, Layout
  <1>2. \A k \in Requests : k.unpack = k.pack /\ k.pack \in Forms
    BY <1>1 DEF Requests, Kind
  <1>3. \A k \in Replies : k.unpack = k.pack /\ k.pack \in Forms
    BY <1>1 DEF Replies, Kind
  <1> QED
    BY <1>2, <1>3 DEF Kinds

\* The bytes a message's fields are made of are values of the fields.
LEMMA FilledFacts ==
  ASSUME NEW kind \in FieldKinds, NEW fill \in Fills, NEW has, NEW n \in Lengths
  PROVE  /\ Filled(kind, fill, has, n) \in ValuesOf(kind)
         /\ Filled(kind, fill, has, n) \in Seq(Bytes)
  <1>1. fill \in Bytes /\ fill <= LastState /\ fill <= LastCode
    BY WireAssumption DEF Bytes, LastState, LastCode
  <1>2. n \in Nat /\ n <= LongField
    <2>1. LongField \in Nat
      BY DEF LongField
    <2>2. n \in 0 .. LongField
      BY WireAssumption
    <2> QED
      BY <2>1, <2>2
  <1>3. ASSUME NEW w \in Nat
        PROVE  /\ [i \in 1 .. w |-> fill] \in Seq(Bytes)
               /\ Len([i \in 1 .. w |-> fill]) = w
               /\ w > 0 => [i \in 1 .. w |-> fill][1] = fill
    BY <1>1
  <1>4. CASE kind \in Counted
    <2>1. Filled(kind, fill, has, n) = [i \in 1 .. n |-> fill]
      BY <1>4 DEF Filled
    <2> QED
      BY <1>2, <1>3, <1>4, <2>1 DEF ValuesOf
  <1>5. ASSUME NEW k \in Fixed, k # "flag"
        PROVE  [i \in 1 .. FixedWidth[k] |-> fill] \in FixedValues(k)
    <2>1. PICK w \in Nat : w = FixedWidth[k] /\ w > 0
      BY KindTypes
    <2>2. PICK v : v = [i \in 1 .. w |-> fill]
      OBVIOUS
    <2>3. v \in Seq(Bytes) /\ Len(v) = w /\ v[1] = fill
      BY <1>3, <2>1, <2>2
    <2>4. v \in FixedValues(k)
      BY <1>1, <1>5, <2>1, <2>3 DEF FixedValues
    <2> QED
      BY <2>1, <2>2, <2>4
  <1>6. CASE kind \in Optional
    <2>1. kind \notin Counted /\ OptionalOf[kind] \in Fixed /\ OptionalOf[kind] # "flag"
      BY <1>6, KindTypes
    <2>2. Filled(kind, fill, has, n) =
            IF has THEN [i \in 1 .. FixedWidth[OptionalOf[kind]] |-> fill] ELSE <<>>
      BY <1>6, <2>1 DEF Filled
    <2>3. PICK v : v = Filled(kind, fill, has, n)
      OBVIOUS
    <2>4. v \in {<<>>} \cup FixedValues(OptionalOf[kind])
      BY <1>5, <2>1, <2>2, <2>3
    <2>5. v \in Seq(Bytes)
      <3>1. <<>> \in Seq(Bytes)
        OBVIOUS
      <3>2. \A x \in FixedValues(OptionalOf[kind]) : x \in Seq(Bytes)
        BY DEF FixedValues
      <3> QED
        BY <2>4, <3>1, <3>2
    <2>6. ValuesOf(kind) = {<<>>} \cup FixedValues(OptionalOf[kind])
      BY <1>6, <2>1 DEF ValuesOf
    <2> QED
      BY <2>3, <2>4, <2>5, <2>6
  <1>7. CASE kind \in Fixed
    <2>1. kind \notin Counted /\ kind \notin Optional
      BY <1>7, KindTypes
    <2>2. CASE kind = "flag"
      <3>1. PICK x : x = (IF fill = 0 THEN 0 ELSE 1)
        OBVIOUS
      <3>2. PICK v : v = <<x>>
        OBVIOUS
      <3>3. Filled(kind, fill, has, n) = v
        BY <2>1, <2>2, <3>1, <3>2 DEF Filled
      <3>4. x \in {0, 1} /\ x \in Bytes
        BY <3>1 DEF Bytes
      <3>5. v \in Seq(Bytes) /\ Len(v) = 1 /\ v[1] = x
        BY <3>2, <3>4
      <3>6. FixedWidth["flag"] = 1
        BY KindFacts
      <3>7. v \in FixedValues(kind)
        BY <2>2, <3>4, <3>5, <3>6 DEF FixedValues
      <3> QED
        BY <2>1, <3>3, <3>5, <3>7 DEF ValuesOf
    <2>3. CASE kind # "flag"
      <3>1. PICK v : v = [i \in 1 .. FixedWidth[kind] |-> fill]
        OBVIOUS
      <3>2. Filled(kind, fill, has, n) = v
        BY <2>1, <2>3, <3>1 DEF Filled
      <3>3. v \in FixedValues(kind)
        BY <1>5, <1>7, <2>3, <3>1
      <3>4. v \in Seq(Bytes)
        BY <3>3 DEF FixedValues
      <3> QED
        BY <2>1, <3>2, <3>3, <3>4 DEF ValuesOf
    <2> QED
      BY <2>2, <2>3
  <1> QED
    BY <1>4, <1>6, <1>7 DEF FieldKinds

LEMMA MessageFacts ==
  ASSUME NEW m \in Messages
  PROVE  /\ m.kind \in Kinds /\ m.kind.pack \in Forms /\ m.kind.unpack = m.kind.pack
         /\ Valid(m.kind.pack, m.values)
         /\ AllFit(m.kind.pack, m.values) <=> WithinLimits(m)
         /\ PayloadOf(m) \in Seq(Bytes) /\ Len(PayloadOf(m)) \in Nat
         /\ Len(PayloadOf(m)) <= PayloadMost
         /\ PayloadOf(m) = Pack(m.kind.pack, m.values)
  <1>1. PICK k \in Kinds : \E fill \in Fills, n \in Lengths, has \in SUBSET OptionalsOf(k.pack) :
          m = [kind |-> k,
               values |-> [i \in DOMAIN Layout[k.pack] |->
                             Filled(Layout[k.pack][i], fill, i \in has, n)]]
    BY DEF Messages
  <1>1a. PICK fill \in Fills, n \in Lengths, has \in SUBSET OptionalsOf(k.pack) :
          m = [kind |-> k,
               values |-> [i \in DOMAIN Layout[k.pack] |->
                             Filled(Layout[k.pack][i], fill, i \in has, n)]]
    BY <1>1
  <1>2. k.unpack = k.pack /\ k.pack \in Forms
    BY KindsFacts
  <1>3. PICK fields : fields = Layout[k.pack]
    OBVIOUS
  <1>4. fields \in Seq(FieldKinds) /\ Len(fields) \in Nat /\ DOMAIN fields = 1 .. Len(fields)
        /\ \A i \in 1 .. Len(fields) : fields[i] \in FieldKinds
    BY <1>2, <1>3, LayoutFacts, SeqFacts
  <1>5. PICK N \in Nat : N = Len(fields)
    BY <1>4
  <1>6. PICK vs : vs = [i \in 1 .. N |-> Filled(fields[i], fill, i \in has, n)]
    OBVIOUS
  <1>7. m.kind = k /\ m.values = vs
    BY <1>1a, <1>3, <1>4, <1>5, <1>6
  <1>8. \A i \in 1 .. N : vs[i] \in ValuesOf(fields[i]) /\ vs[i] \in Seq(Bytes)
    BY <1>4, <1>5, <1>6, FilledFacts
  <1>9. vs \in Seq(Seq(Bytes)) /\ Len(vs) = N
    <2>1. PICK S : S = Seq(Bytes)
      OBVIOUS
    <2>2. vs \in [1 .. N -> S]
      BY <1>6, <1>8, <2>1
    <2>3. vs \in Seq(S) /\ Len(vs) = N
      BY <2>2, SeqMade
    <2> QED
      BY <2>1, <2>3
  <1>10. Valid(k.pack, vs)
    BY <1>3, <1>5, <1>8, <1>9 DEF Valid
  <1>11. DOMAIN vs = 1 .. N
    BY <1>6
  <1>12. AllFit(k.pack, vs) <=> WithinLimits(m)
    BY <1>3, <1>5, <1>7, <1>11 DEF AllFit, WithinLimits, Fits
  <1>13. PayloadOf(m) = Pack(k.pack, vs)
    BY <1>7 DEF PayloadOf
  <1> QED
    BY <1>2, <1>7, <1>10, <1>12, <1>13, PackFacts

\* A message unpacks, at the place where its bytes arrive whole, to what it was
\* packed from, unless one of its strings is too long for the reader.
LEMMA MessageRead ==
  ASSUME NEW m \in Messages, NEW b \in Seq(Bytes), Agrees(b, PayloadOf(m))
  PROVE  Unpack(m.kind.unpack, b) =
           IF WithinLimits(m) /\ b = PayloadOf(m) THEN Took(m.values, <<>>) ELSE Refused
  BY MessageFacts, PayloadReadBack

-----------------------------------------------------------------------------
(* The first invariants: what was sent is made of messages.                *)

Sendings ==
  {x \in [msg : Messages, damage : Damages] :
     x.damage = "short" =>
       Len(encode_frame(x.msg.kind.type, PayloadOf(x.msg))) > HeaderLen}

SentTyped == sent \in Seq(Sendings)

\* send_frame is the only place that adds to what was sent.
LEMMA SentTypedAlways == WSpec => []SentTyped
  <1>1. WInit => SentTyped
    BY DEF WInit, SentTyped
  <1>2. SentTyped /\ [WNext]_wvars => SentTyped'
    <2> SUFFICES ASSUME SentTyped, [WNext]_wvars PROVE SentTyped'
      OBVIOUS
    <2>1. ASSUME NEW m \in Messages, NEW damage \in Damages, SendFrame(m, damage)
          PROVE  SentTyped'
      <3>1. PICK x : x = [msg |-> m, damage |-> damage]
        OBVIOUS
      <3>2. x \in Sendings
        BY <2>1, <3>1 DEF Sendings, SendFrame
      <3>3. sent' = Append(sent, x)
        BY <2>1, <3>1 DEF SendFrame
      <3> QED
        BY <3>2, <3>3 DEF SentTyped
    <2>2. ASSUME sent' = sent PROVE SentTyped'
      BY <2>2 DEF SentTyped
    <2>3. ASSUME NEW lost \in Losses, Disconnect(lost) PROVE sent' = sent
      BY <2>3 DEF Disconnect
    <2>4. ASSUME NEW k \in Chunks, Recv(k) PROVE sent' = sent
      BY <2>4 DEF Recv
    <2>5. CASE RecvEnd
      BY <2>2, <2>5 DEF RecvEnd
    <2>6. CASE UNCHANGED wvars
      BY <2>2, <2>6 DEF wvars
    <2> QED
      BY <2>1, <2>2, <2>3, <2>4, <2>5, <2>6 DEF WNext
  <1> QED
    BY <1>1, <1>2, PTL DEF WSpec

LEMMA FirstSent ==
  ASSUME SentTyped, Unread
  PROVE  sent[1].msg \in Messages
  <1>1. PICK n : n = Len(sent)
    OBVIOUS
  <1>2. n \in Nat /\ n # 0 /\ \A i \in 1 .. n : sent[i] \in Sendings
    BY <1>1, SeqFacts DEF SentTyped, Unread
  <1>3. sent[1] \in Sendings
    BY <1>2
  <1> QED
    BY <1>3 DEF Sendings

\* Whatever was sent first, no beginning of its payload and no payload followed by
\* another byte is accepted by the unpack function of the receiver.
THEOREM PayloadsWholeOrNothing == WSpec => []WholeOrNothing
  <1>1. SentTyped => WholeOrNothing
    <2> SUFFICES ASSUME SentTyped, Unread
                 PROVE  LET m == sent[1].msg
                            p == PayloadOf(m)
                        IN  /\ \A n \in 0 .. Len(p) - 1 :
                                 ~Unpack(m.kind.unpack, SubSeq(p, 1, n)).ok
                            /\ \A b \in Fills : ~Unpack(m.kind.unpack, Append(p, b)).ok
      BY DEF WholeOrNothing
    <2>1. PICK m \in Messages : m = sent[1].msg
      BY FirstSent
    <2>2. PICK p : p = PayloadOf(m)
      OBVIOUS
    <2>3. p \in Seq(Bytes) /\ Len(p) \in Nat
      BY <2>2, MessageFacts
    <2>4. ASSUME NEW b \in Seq(Bytes), Agrees(b, p), b # p
          PROVE  ~Unpack(m.kind.unpack, b).ok
      <3>1. Unpack(m.kind.unpack, b) = Refused
        BY <2>2, <2>4, MessageRead
      <3> QED
        BY <3>1 DEF Refused
    <2>5. ASSUME NEW n \in 0 .. Len(p) - 1
          PROVE  ~Unpack(m.kind.unpack, SubSeq(p, 1, n)).ok
      <3>1. PICK b : b = SubSeq(p, 1, n)
        OBVIOUS
      <3>2. n \in Nat /\ n < Len(p) /\ 1 \in Nat \ {0} /\ 1 <= n + 1 /\ n <= Len(p)
        BY <2>3
      <3>3. /\ b \in Seq(Bytes) /\ Len(b) = n + 1 - 1
            /\ \A i \in 1 .. n + 1 - 1 : b[i] = p[1 - 1 + i]
        BY <2>3, <3>1, <3>2, SubSeqFacts
      <3>4. b \in Seq(Bytes) /\ Len(b) = n /\ \A i \in 1 .. n : b[i] = p[i]
        BY <3>2, <3>3
      <3>5. Agrees(b, p)
        BY <2>3, <3>2, <3>4 DEF Agrees
      <3>6. b # p
        BY <3>2, <3>4
      <3> QED
        BY <2>4, <3>1, <3>4, <3>5, <3>6
    <2>6. ASSUME NEW x \in Fills
          PROVE  ~Unpack(m.kind.unpack, Append(p, x)).ok
      <3>1. PICK b : b = Append(p, x)
        OBVIOUS
      <3>2. x \in Bytes
        BY WireAssumption DEF Bytes, LastState
      <3>3. /\ b \in Seq(Bytes) /\ Len(b) = Len(p) + 1
            /\ \A i \in 1 .. Len(p) : b[i] = p[i]
        BY <2>3, <3>1, <3>2
      <3>4. Agrees(b, p)
        BY <3>3 DEF Agrees
      <3>5. b # p
        BY <2>3, <3>3
      <3> QED
        BY <2>4, <3>1, <3>3, <3>4, <3>5
    <2> QED
      BY <2>1, <2>2, <2>5, <2>6
  <1> QED
    BY <1>1, SentTypedAlways, PTL

-----------------------------------------------------------------------------
(* The two payloads sent under COMPLETE_ACK.                               *)

LEMMA AckRead ==
  ASSUME NEW b
  PROVE  ReadFields("complete_ack", b) =
           ReadNext(ReadNext(ReadNext(Took(<<>>, b), "code"), "string"), "opt_digest")
  <1>1. PICK fields : fields = <<"code", "string", "opt_digest">>
    OBVIOUS
  <1>2. Layout["complete_ack"] = fields /\ Len(fields) = 3
        /\ fields[1] = "code" /\ fields[2] = "string" /\ fields[3] = "opt_digest"
    BY <1>1, LayoutFacts
  <1>3. PICK x0, x1, x2, x3 :
          /\ x0 = Took(<<>>, b) /\ x1 = ReadNext(x0, "code")
          /\ x2 = ReadNext(x1, "string") /\ x3 = ReadNext(x2, "opt_digest")
    OBVIOUS
  <1>4. PICK f : f = [n \in 0 .. 3 |-> IF n = 0 THEN x0 ELSE IF n = 1 THEN x1
                                       ELSE IF n = 2 THEN x2 ELSE x3]
    OBVIOUS
  <1>5. f = [n \in 0 .. 3 |-> IF n = 0 THEN x0 ELSE ReadNext(f[n - 1], fields[n])]
    <2>1. f[0] = x0 /\ f[1] = x1 /\ f[2] = x2 /\ f[3] = x3 /\ f = [n \in 0 .. 3 |-> f[n]]
      BY <1>4
    <2>2. \A n \in 0 .. 3 : f[n] = IF n = 0 THEN x0 ELSE ReadNext(f[n - 1], fields[n])
      <3> TAKE n \in 0 .. 3
      <3>1. n = 0 \/ (n = 1 /\ n - 1 = 0) \/ (n = 2 /\ n - 1 = 1) \/ (n = 3 /\ n - 1 = 2)
        OBVIOUS
      <3> QED
        BY <1>2, <1>3, <2>1, <3>1
    <2> QED
      BY <2>1, <2>2
  <1> DEFINE read[n \in 0 .. Len(fields)] ==
               IF n = 0 THEN Took(<<>>, b) ELSE ReadNext(read[n - 1], fields[n])
  <1>6. read = [n \in 0 .. 3 |-> IF n = 0 THEN x0 ELSE ReadNext(read[n - 1], fields[n])]
    BY <1>2, <1>3, <1>5
  <1>7. ReadFields("complete_ack", b) = read[3]
    BY <1>2 DEF ReadFields
  <1> HIDE DEF read
  <1>8. /\ read[0] = x0 /\ read[1] = ReadNext(read[0], fields[1])
        /\ read[2] = ReadNext(read[1], fields[2]) /\ read[3] = ReadNext(read[2], fields[3])
    <2>1. PICK rd : rd = read
      OBVIOUS
    <2>2. rd = [n \in 0 .. 3 |-> IF n = 0 THEN x0 ELSE ReadNext(rd[n - 1], fields[n])]
      BY <1>6, <2>1
    <2>3. 1 - 1 = 0 /\ 2 - 1 = 1 /\ 3 - 1 = 2
      OBVIOUS
    <2> QED
      BY <2>1, <2>2, <2>3
  <1> QED
    BY <1>2, <1>3, <1>7, <1>8

LEMMA DecisionRead ==
  ASSUME NEW b
  PROVE  ReadFields("decision", b) =
           ReadNext(ReadNext(ReadNext(ReadNext(Took(<<>>, b), "code"), "string"), "opt_id"),
                    "opt_gen")
  <1>1. PICK fields : fields = <<"code", "string", "opt_id", "opt_gen">>
    OBVIOUS
  <1>2. Layout["decision"] = fields /\ Len(fields) = 4 /\ fields[1] = "code"
        /\ fields[2] = "string" /\ fields[3] = "opt_id" /\ fields[4] = "opt_gen"
    BY <1>1, LayoutFacts
  <1>3. PICK x0, x1, x2, x3, x4 :
          /\ x0 = Took(<<>>, b) /\ x1 = ReadNext(x0, "code")
          /\ x2 = ReadNext(x1, "string") /\ x3 = ReadNext(x2, "opt_id")
          /\ x4 = ReadNext(x3, "opt_gen")
    OBVIOUS
  <1>4. PICK f : f = [n \in 0 .. 4 |-> IF n = 0 THEN x0 ELSE IF n = 1 THEN x1
                                       ELSE IF n = 2 THEN x2 ELSE IF n = 3 THEN x3 ELSE x4]
    OBVIOUS
  <1>5. f = [n \in 0 .. 4 |-> IF n = 0 THEN x0 ELSE ReadNext(f[n - 1], fields[n])]
    <2>1. f[0] = x0 /\ f[1] = x1 /\ f[2] = x2 /\ f[3] = x3 /\ f[4] = x4
          /\ f = [n \in 0 .. 4 |-> f[n]]
      BY <1>4
    <2>2. \A n \in 0 .. 4 : f[n] = IF n = 0 THEN x0 ELSE ReadNext(f[n - 1], fields[n])
      <3> TAKE n \in 0 .. 4
      <3>1. \/ n = 0 \/ (n = 1 /\ n - 1 = 0) \/ (n = 2 /\ n - 1 = 1)
            \/ (n = 3 /\ n - 1 = 2) \/ (n = 4 /\ n - 1 = 3)
        OBVIOUS
      <3> QED
        BY <1>2, <1>3, <2>1, <3>1
    <2> QED
      BY <2>1, <2>2
  <1> DEFINE read[n \in 0 .. Len(fields)] ==
               IF n = 0 THEN Took(<<>>, b) ELSE ReadNext(read[n - 1], fields[n])
  <1>6. read = [n \in 0 .. 4 |-> IF n = 0 THEN x0 ELSE ReadNext(read[n - 1], fields[n])]
    BY <1>2, <1>3, <1>5
  <1>7. ReadFields("decision", b) = read[4]
    BY <1>2 DEF ReadFields
  <1> HIDE DEF read
  <1>8. /\ read[0] = x0 /\ read[1] = ReadNext(read[0], fields[1])
        /\ read[2] = ReadNext(read[1], fields[2]) /\ read[3] = ReadNext(read[2], fields[3])
        /\ read[4] = ReadNext(read[3], fields[4])
    <2>1. PICK rd : rd = read
      OBVIOUS
    <2>2. rd = [n \in 0 .. 4 |-> IF n = 0 THEN x0 ELSE ReadNext(rd[n - 1], fields[n])]
      BY <1>6, <2>1
    <2>3. 1 - 1 = 0 /\ 2 - 1 = 1 /\ 3 - 1 = 2 /\ 4 - 1 = 3
      OBVIOUS
    <2> QED
      BY <2>1, <2>2, <2>3
  <1> QED
    BY <1>2, <1>3, <1>7, <1>8

\* How many bytes an optional has, and how many the reader takes for one.
LEMMA OptionalLength ==
  ASSUME NEW kind \in Optional, NEW v \in ValuesOf(kind)
  PROVE  Len(Put(kind, v)) = 1 \/ Len(Put(kind, v)) = 1 + FixedWidth[OptionalOf[kind]]
  <1>1. kind \notin Counted /\ OptionalOf[kind] \in Fixed
    BY KindTypes
  <1>2. CASE v = <<>>
    <2>1. PICK c : c = <<0>>
      OBVIOUS
    <2>2. Put(kind, v) = c /\ Len(c) = 1
      BY <1>1, <1>2, <2>1 DEF Put
    <2> QED
      BY <2>2
  <1>3. CASE v # <<>>
    <2>1. PICK c : c = <<1>>
      OBVIOUS
    <2>2. c \in Seq(Bytes) /\ Len(c) = 1 /\ Put(kind, v) = c \o v
      BY <1>1, <1>3, <2>1 DEF Put, Bytes
    <2>3. v \in Seq(Bytes) /\ Len(v) = FixedWidth[OptionalOf[kind]]
      BY <1>1, <1>3 DEF ValuesOf, FixedValues
    <2>4. Len(c \o v) = Len(c) + Len(v)
      BY <2>2, <2>3, ConcatFacts
    <2> QED
      BY <2>2, <2>3, <2>4
  <1> QED
    BY <1>2, <1>3

LEMMA FixedTakes ==
  ASSUME NEW kind \in Fixed, NEW b \in Seq(Bytes)
  PROVE  \/ ~GetFixed(kind, b).ok
         \/ /\ GetFixed(kind, b).rest \in Seq(Bytes)
            /\ Len(GetFixed(kind, b).rest) = Len(b) - FixedWidth[kind]
            /\ FixedWidth[kind] <= Len(b)
  <1>1. PICK w \in 1 .. 32 : w = FixedWidth[kind]
    BY KindTypes
  <1>2. w \in Nat /\ Len(b) \in Nat
    BY SeqFacts
  <1>3. PICK r : r = GetBytes(w, b)
    OBVIOUS
  <1>4. GetFixed(kind, b) =
            IF ~r.ok THEN Refused
            ELSE IF kind = "code" /\ r.value[1] > LastCode THEN Refused
            ELSE IF kind = "state" /\ r.value[1] > LastState THEN Refused
            ELSE IF kind = "flag" /\ r.value[1] # 0 THEN Took(<<1>>, r.rest)
            ELSE r
    BY <1>1, <1>3 DEF GetFixed
  <1>5. ~Refused.ok
    BY DEF Refused
  <1>6. CASE w <= Len(b)
    <2>1. PICK d : d = Drop(b, w)
      OBVIOUS
    <2>2. d \in Seq(Bytes) /\ Len(d) = Len(b) - w
      BY <1>2, <1>6, <2>1, DropFacts
    <2>3. r = Took(SubSeq(b, 1, w), d)
      BY <1>2, <1>3, <1>6, <2>1 DEF GetBytes
    <2>4. r.rest = d /\ Took(<<1>>, r.rest).rest = d
      BY <2>3 DEF Took
    <2>5. ~GetFixed(kind, b).ok \/ GetFixed(kind, b).rest = d
      BY <1>4, <1>5, <2>4
    <2> QED
      BY <1>1, <1>6, <2>2, <2>5
  <1>7. CASE ~(w <= Len(b))
    <2>1. r = Refused
      BY <1>2, <1>3, <1>7 DEF GetBytes
    <2> QED
      BY <1>4, <1>5, <2>1
  <1> QED
    BY <1>6, <1>7

LEMMA OptionalTakes ==
  ASSUME NEW kind \in Optional, NEW vs, NEW b \in Seq(Bytes)
  PROVE  \/ ReadNext(Took(vs, b), kind) = Refused
         \/ \E d \in Seq(Bytes) :
              /\ \E ws : ReadNext(Took(vs, b), kind) = Took(ws, d)
              /\ Len(d) = Len(b) - 1 \/ Len(d) = Len(b) - (1 + FixedWidth[OptionalOf[kind]])
  <1>1. kind \notin Counted /\ OptionalOf[kind] \in Fixed /\ "flag" \in Fixed
        /\ FixedWidth["flag"] = 1
    BY KindTypes, KindFacts
  <1>2. PICK has : has = GetFixed("flag", b)
    OBVIOUS
  <1>3. PICK r : r = Get(kind, b)
    OBVIOUS
  <1>4. r = IF ~has.ok THEN Refused
            ELSE IF has.value = <<0>> THEN Took(<<>>, has.rest)
            ELSE GetFixed(OptionalOf[kind], has.rest)
    BY <1>1, <1>2, <1>3 DEF Get, GetOptional
  <1>5. PICK done : done = Took(vs, b)
    OBVIOUS
  <1>6. done.ok /\ done.value = vs /\ done.rest = b
    BY <1>5 DEF Took
  <1>7. ReadNext(done, kind) = IF r.ok THEN Took(Append(vs, r.value), r.rest) ELSE Refused
    BY <1>3, <1>6 DEF ReadNext
  <1>8. SUFFICES ASSUME r.ok
                 PROVE  /\ r.rest \in Seq(Bytes)
                        /\ \/ Len(r.rest) = Len(b) - 1
                           \/ Len(r.rest) = Len(b) - (1 + FixedWidth[OptionalOf[kind]])
    <2>1. CASE ~r.ok
      BY <1>5, <1>7, <2>1
    <2>2. CASE r.ok
      <3>1. PICK ws, d : ws = Append(vs, r.value) /\ d = r.rest
        OBVIOUS
      <3>2. ReadNext(Took(vs, b), kind) = Took(ws, d)
        BY <1>5, <1>7, <2>2, <3>1
      <3> QED
        BY <2>2, <3>1, <3>2
    <2> QED
      BY <2>1, <2>2
  <1>9. ~Refused.ok
    BY DEF Refused
  <1>10. has.ok
    BY <1>4, <1>8, <1>9
  <1>11. PICK d : d = has.rest
    OBVIOUS
  <1>12. d \in Seq(Bytes) /\ Len(d) = Len(b) - 1
    <2>1. \/ ~GetFixed("flag", b).ok
          \/ /\ GetFixed("flag", b).rest \in Seq(Bytes)
             /\ Len(GetFixed("flag", b).rest) = Len(b) - FixedWidth["flag"]
      BY <1>1, FixedTakes
    <2> QED
      BY <1>1, <1>2, <1>10, <1>11, <2>1
  <1>13. CASE has.value = <<0>>
    <2>1. r = Took(<<>>, d)
      BY <1>4, <1>10, <1>11, <1>13
    <2>2. r.rest = d
      BY <2>1 DEF Took
    <2> QED
      BY <1>12, <2>2
  <1>14. CASE has.value # <<0>>
    <2>1. r = GetFixed(OptionalOf[kind], d)
      BY <1>4, <1>10, <1>11, <1>14
    <2>2. PICK w \in 1 .. 32 : w = FixedWidth[OptionalOf[kind]]
      BY <1>1, KindTypes
    <2>3. r.rest \in Seq(Bytes) /\ Len(r.rest) = Len(d) - w
      BY <1>1, <1>8, <1>12, <2>1, <2>2, FixedTakes
    <2>4. Len(b) \in Nat
      BY SeqFacts
    <2>5. (Len(b) - 1) - w = Len(b) - (1 + w)
      BY <2>4
    <2> QED
      BY <1>12, <2>2, <2>3, <2>5
  <1> QED
    BY <1>13, <1>14

LEMMA OptionalLengths ==
  /\ \A v \in ValuesOf("opt_digest") : Len(Put("opt_digest", v)) \in {1, 33}
  /\ \A v \in ValuesOf("opt_id") : Len(Put("opt_id", v)) \in {1, 17}
  /\ \A v \in ValuesOf("opt_gen") : Len(Put("opt_gen", v)) \in {1, 9}
  <1>2. /\ "opt_digest" \in Optional /\ "opt_id" \in Optional /\ "opt_gen" \in Optional
        /\ FixedWidth[OptionalOf["opt_digest"]] = 32 /\ FixedWidth[OptionalOf["opt_id"]] = 16
        /\ FixedWidth[OptionalOf["opt_gen"]] = 8
    BY KindFacts
  <1>3. \A v \in ValuesOf("opt_digest") : Len(Put("opt_digest", v)) \in {1, 33}
    <2> TAKE v \in ValuesOf("opt_digest")
    <2>1. Len(Put("opt_digest", v)) = 1 \/ Len(Put("opt_digest", v)) = 1 + FixedWidth[OptionalOf["opt_digest"]]
      BY <1>2, OptionalLength
    <2> QED
      BY <1>2, <2>1
  <1>4. \A v \in ValuesOf("opt_id") : Len(Put("opt_id", v)) \in {1, 17}
    <2> TAKE v \in ValuesOf("opt_id")
    <2>1. Len(Put("opt_id", v)) = 1 \/ Len(Put("opt_id", v)) = 1 + FixedWidth[OptionalOf["opt_id"]]
      BY <1>2, OptionalLength
    <2> QED
      BY <1>2, <2>1
  <1>5. \A v \in ValuesOf("opt_gen") : Len(Put("opt_gen", v)) \in {1, 9}
    <2> TAKE v \in ValuesOf("opt_gen")
    <2>1. Len(Put("opt_gen", v)) = 1 \/ Len(Put("opt_gen", v)) = 1 + FixedWidth[OptionalOf["opt_gen"]]
      BY <1>2, OptionalLength
    <2> QED
      BY <1>2, <2>1
  <1> QED
    BY <1>3, <1>4, <1>5

LEMMA OptionalsTake ==
  ASSUME NEW kind \in {"opt_digest", "opt_id", "opt_gen"}, NEW vs, NEW b \in Seq(Bytes),
         ReadNext(Took(vs, b), kind) # Refused
  PROVE  \E d \in Seq(Bytes) :
           /\ \E ws : ReadNext(Took(vs, b), kind) = Took(ws, d)
           /\ \/ Len(d) = Len(b) - 1
              \/ kind = "opt_digest" /\ Len(d) = Len(b) - 33
              \/ kind = "opt_id" /\ Len(d) = Len(b) - 17
              \/ kind = "opt_gen" /\ Len(d) = Len(b) - 9
  <1>1. PICK w : w = FixedWidth[OptionalOf[kind]]
    OBVIOUS
  <1>2. /\ kind \in Optional
        /\ \/ kind = "opt_digest" /\ w = 32
           \/ kind = "opt_id" /\ w = 16
           \/ kind = "opt_gen" /\ w = 8
    BY <1>1, KindFacts
  <1>3. PICK d \in Seq(Bytes) :
          /\ \E ws : ReadNext(Took(vs, b), kind) = Took(ws, d)
          /\ Len(d) = Len(b) - 1 \/ Len(d) = Len(b) - (1 + w)
    BY <1>1, <1>2, OptionalTakes
  <1>4. \/ Len(d) = Len(b) - 1
        \/ kind = "opt_digest" /\ Len(d) = Len(b) - 33
        \/ kind = "opt_id" /\ Len(d) = Len(b) - 17
        \/ kind = "opt_gen" /\ Len(d) = Len(b) - 9
    BY <1>2, <1>3
  <1> QED
    BY <1>3, <1>4

\* unpack_decision refuses what pack_complete_ack wrote and unpack_complete_ack what
\* pack_decision wrote, whatever the fields are: behind the code and the string, 1 or 33
\* bytes are left of the one payload, 2, 10, 18 or 26 of the other.
THEOREM AckOrDecision ==
  ASSUME NEW form \in {"complete_ack", "decision"}, NEW other \in {"complete_ack", "decision"},
         form # other, NEW values, Valid(form, values)
  PROVE  ~Unpack(other, Pack(form, values)).ok
  <1>1. form \in Forms
    BY DEF Forms, Layout
  <1>2. PICK fields : fields = Layout[form]
    OBVIOUS
  <1>3. /\ fields[1] = "code" /\ fields[2] = "string"
        /\ Len(fields) \in Nat /\ 1 \in 1 .. Len(fields) /\ 2 \in 1 .. Len(fields)
        /\ 2 \in 0 .. Len(fields)
        /\ form = "complete_ack" => Len(fields) = 3 /\ fields[3] = "opt_digest"
        /\ form = "decision" => Len(fields) = 4 /\ fields[3] = "opt_id" /\ fields[4] = "opt_gen"
    <2>1. CASE form = "complete_ack"
      <3>1. fields = <<"code", "string", "opt_digest">>
        BY <1>2, <2>1, LayoutFacts
      <3> QED
        BY <2>1, <3>1
    <2>2. CASE form = "decision"
      <3>1. fields = <<"code", "string", "opt_id", "opt_gen">>
        BY <1>2, <2>2, LayoutFacts
      <3> QED
        BY <2>2, <3>1
    <2> QED
      BY <2>1, <2>2
  <1>4. PICK pk : Packing(pk, form, values)
    BY <1>1, PackingExists
  <1>5. PICK p : p = Pack(form, values)
    OBVIOUS
  <1>6. p \in Seq(Bytes) /\ Len(p) \in Nat
    BY <1>1, <1>5, PackFacts
  <1>7. Agrees(p, p)
    BY DEF Agrees
  <1>8. PICK x0, x1, x2 : /\ x0 = Took(<<>>, p) /\ x1 = ReadNext(x0, "code")
                          /\ x2 = ReadNext(x1, "string")
    OBVIOUS
  <1>9. /\ pk[0] = <<>>
        /\ \A n \in 0 .. Len(fields) : pk[n] \in Seq(Bytes)
        /\ p = pk[Len(fields)]
    BY <1>2, <1>4, <1>5 DEF Packing
  <1>10. \A n \in 1 .. Len(fields) :
           /\ values[n] \in ValuesOf(fields[n])
           /\ Len(pk[n]) = Len(pk[n - 1]) + Len(Put(fields[n], values[n]))
    BY <1>1, <1>2, <1>4, PackingFacts
  <1>11. ASSUME NEW n \in 1 .. Len(fields), NEW vs, Len(pk[n - 1]) <= Len(p)
         PROVE  \/ ReadNext(Took(vs, Drop(p, Len(pk[n - 1]))), fields[n]) = Refused
                \/ /\ ReadNext(Took(vs, Drop(p, Len(pk[n - 1]))), fields[n])
                        = Took(Append(vs, values[n]), Drop(p, Len(pk[n])))
                   /\ Len(pk[n]) <= Len(p)
    BY <1>1, <1>2, <1>4, <1>5, <1>6, <1>7, <1>11, NextRead, ZenonT(60)
  <1>12. PICK t : t = Drop(p, Len(pk[2]))
    OBVIOUS
  <1>13. x2 = Refused \/ \E vs : x2 = Took(vs, t) /\ Len(pk[2]) <= Len(p)
    <2>1. Len(pk[0]) = 0 /\ Drop(p, 0) = p /\ 0 <= Len(p)
      BY <1>6, <1>9 DEF Drop
    <2>2. x0 = Took(<<>>, Drop(p, Len(pk[1 - 1]))) /\ Len(pk[1 - 1]) <= Len(p)
      BY <1>8, <2>1
    <2>3. x1 = Refused \/ \E vs : x1 = Took(vs, Drop(p, Len(pk[1]))) /\ Len(pk[1]) <= Len(p)
      BY <1>3, <1>8, <1>11, <2>2
    <2>4. CASE x1 = Refused
      BY <1>8, <2>4, NextRefused
    <2>5. CASE x1 # Refused
      <3>1. PICK vs : x1 = Took(vs, Drop(p, Len(pk[1]))) /\ Len(pk[1]) <= Len(p)
        BY <2>3, <2>5
      <3>2. 2 - 1 = 1
        OBVIOUS
      <3>3. x1 = Took(vs, Drop(p, Len(pk[2 - 1]))) /\ Len(pk[2 - 1]) <= Len(p)
        BY <3>1, <3>2
      <3> QED
        BY <1>3, <1>8, <1>11, <1>12, <3>3
    <2> QED
      BY <2>4, <2>5
  <1>14. PICK x : x = ReadFields(other, p)
    OBVIOUS
  <1>15. SUFFICES ASSUME x.ok, x.rest = <<>> PROVE FALSE
    <2>1. Unpack(other, p) = IF x.ok /\ x.rest = <<>> THEN x ELSE Refused
      BY <1>14 DEF Unpack
    <2>2. ~Refused.ok
      BY DEF Refused
    <2> QED
      BY <1>5, <2>1, <2>2
  <1>16. x # Refused
    <2>1. ~Refused.ok
      BY DEF Refused
    <2> QED
      BY <1>15, <2>1
  <1>17. /\ \A v \in ValuesOf("opt_digest") : Len(Put("opt_digest", v)) \in {1, 33}
         /\ \A v \in ValuesOf("opt_id") : Len(Put("opt_id", v)) \in {1, 17}
         /\ \A v \in ValuesOf("opt_gen") : Len(Put("opt_gen", v)) \in {1, 9}
    BY OptionalLengths
  <1>18. PICK vs : x2 = Took(vs, t) /\ Len(pk[2]) <= Len(p)
    <2>1. CASE x2 = Refused
      <3>1. x = Refused
        BY <1>8, <1>14, <2>1, AckRead, DecisionRead, NextRefused
      <3> QED
        BY <1>16, <3>1
    <2> QED
      BY <1>13, <2>1
  <1>19. t \in Seq(Bytes) /\ Len(t) = Len(p) - Len(pk[2]) /\ Len(t) \in Nat
    <2>1. PICK k : k = Len(pk[2])
      OBVIOUS
    <2>2. k \in Nat /\ k <= Len(p)
      <3>1. pk[2] \in Seq(Bytes)
        BY <1>3, <1>9
      <3> QED
        BY <1>18, <2>1, <3>1, SeqFacts
    <2>3. t \in Seq(Bytes) /\ Len(t) = Len(p) - k
      BY <1>6, <1>12, <2>1, <2>2, DropFacts
    <2>4. Len(t) \in Nat
      BY <2>3, SeqFacts
    <2> QED
      BY <2>1, <2>3, <2>4
  <1>b. t \in Seq(Bytes)
    BY <1>19
  <1>20. Len(pk[2]) \in Nat
    <2>1. pk[2] \in Seq(Bytes)
      BY <1>3, <1>9
    <2> QED
      BY <2>1, SeqFacts
  <1>21. CASE form = "decision" /\ other = "complete_ack"
    <2>1. Len(t) \in {2, 10, 18, 26}
      <3>1. 3 \in 1 .. Len(fields) /\ 4 \in 1 .. Len(fields) /\ 3 - 1 = 2 /\ 4 - 1 = 3
        BY <1>3, <1>21, SMTT(30)
      <3>2. /\ Len(pk[3]) = Len(pk[2]) + Len(Put("opt_id", values[3]))
            /\ Len(pk[4]) = Len(pk[3]) + Len(Put("opt_gen", values[4]))
            /\ values[3] \in ValuesOf("opt_id") /\ values[4] \in ValuesOf("opt_gen")
        BY <1>3, <1>10, <1>21, <3>1
      <3>3. Len(Put("opt_id", values[3])) \in {1, 17}
        BY <1>17, <3>2
      <3>4. Len(Put("opt_gen", values[4])) \in {1, 9}
        BY <1>17, <3>2
      <3>5. Len(p) = Len(pk[4])
        BY <1>3, <1>9, <1>21
      <3>6. PICK a, c : a = Len(Put("opt_id", values[3])) /\ c = Len(Put("opt_gen", values[4]))
        OBVIOUS
      <3>7. a \in {1, 17} /\ c \in {1, 9} /\ Len(p) = (Len(pk[2]) + a) + c
        BY <3>2, <3>3, <3>4, <3>5, <3>6
      <3> QED
        BY <1>19, <1>20, <3>7
    <2>2. x = ReadNext(x2, "opt_digest")
      BY <1>8, <1>14, <1>21, AckRead
    <2>3. PICK d \in Seq(Bytes) : (\E ws : x = Took(ws, d)) /\ (Len(d) = Len(t) - 1 \/ Len(d) = Len(t) - 33)
      <3>1. ReadNext(Took(vs, t), "opt_digest") # Refused /\ x = ReadNext(Took(vs, t), "opt_digest")
        BY <1>16, <1>18, <2>2
      <3>2. PICK kind : kind = "opt_digest"
        OBVIOUS
      <3>3. kind \in {"opt_digest", "opt_id", "opt_gen"} /\ ReadNext(Took(vs, t), kind) # Refused
        BY <3>1, <3>2
      <3>4. \E d \in Seq(Bytes) :
              /\ \E ws : ReadNext(Took(vs, t), kind) = Took(ws, d)
              /\ \/ Len(d) = Len(t) - 1
                 \/ kind = "opt_digest" /\ Len(d) = Len(t) - 33
                 \/ kind = "opt_id" /\ Len(d) = Len(t) - 17
                 \/ kind = "opt_gen" /\ Len(d) = Len(t) - 9
        BY <1>b, <3>3, OptionalsTake
      <3> QED
        BY <3>1, <3>2, <3>4
    <2>4. Len(d) # 0
      <3>1. PICK k, l : k = Len(d) /\ l = Len(t)
        OBVIOUS
      <3>2. l \in {2, 10, 18, 26} /\ (k = l - 1 \/ k = l - 33)
        BY <2>1, <2>3, <3>1
      <3>3. k # 0
        BY <3>2
      <3> QED
        BY <3>1, <3>3
    <2>5. d = <<>>
      BY <1>15, <2>3 DEF Took
    <2> QED
      BY <2>4, <2>5
  <1>22. CASE form = "complete_ack" /\ other = "decision"
    <2>1. Len(t) \in {1, 33}
      <3>1. 3 \in 1 .. Len(fields) /\ 3 - 1 = 2
        BY <1>3, <1>22
      <3>2. /\ Len(pk[3]) = Len(pk[2]) + Len(Put("opt_digest", values[3]))
            /\ values[3] \in ValuesOf("opt_digest")
        BY <1>3, <1>10, <1>22, <3>1
      <3>3. Len(Put("opt_digest", values[3])) \in {1, 33}
        BY <1>17, <3>2
      <3>4. Len(p) = Len(pk[3])
        BY <1>3, <1>9, <1>22
      <3>5. PICK a : a = Len(Put("opt_digest", values[3]))
        OBVIOUS
      <3>6. a \in {1, 33} /\ Len(p) = Len(pk[2]) + a
        BY <3>2, <3>3, <3>4, <3>5
      <3> QED
        BY <1>19, <1>20, <3>6
    <2>2. PICK y : y = ReadNext(x2, "opt_id")
      OBVIOUS
    <2>3. x = ReadNext(y, "opt_gen")
      BY <1>8, <1>14, <1>22, <2>2, DecisionRead
    <2>4. y # Refused
      BY <1>16, <2>3, NextRefused
    <2>5. PICK e \in Seq(Bytes) : (\E us : y = Took(us, e)) /\ (Len(e) = Len(t) - 1 \/ Len(e) = Len(t) - 17)
      <3>1. ReadNext(Took(vs, t), "opt_id") # Refused /\ y = ReadNext(Took(vs, t), "opt_id")
        BY <1>18, <2>2, <2>4
      <3>2. PICK kind : kind = "opt_id"
        OBVIOUS
      <3>3. kind \in {"opt_digest", "opt_id", "opt_gen"} /\ ReadNext(Took(vs, t), kind) # Refused
        BY <3>1, <3>2
      <3>4. \E d \in Seq(Bytes) :
              /\ \E ws : ReadNext(Took(vs, t), kind) = Took(ws, d)
              /\ \/ Len(d) = Len(t) - 1
                 \/ kind = "opt_digest" /\ Len(d) = Len(t) - 33
                 \/ kind = "opt_id" /\ Len(d) = Len(t) - 17
                 \/ kind = "opt_gen" /\ Len(d) = Len(t) - 9
        BY <1>b, <3>3, OptionalsTake
      <3> QED
        BY <3>1, <3>2, <3>4
    <2>6. PICK d \in Seq(Bytes) : (\E ws : x = Took(ws, d)) /\ (Len(d) = Len(e) - 1 \/ Len(d) = Len(e) - 9)
      <3>0. PICK us : y = Took(us, e)
        BY <2>5
      <3>1. ReadNext(Took(us, e), "opt_gen") # Refused /\ x = ReadNext(Took(us, e), "opt_gen")
        BY <1>16, <2>3, <3>0
      <3>2. PICK kind : kind = "opt_gen"
        OBVIOUS
      <3>3. kind \in {"opt_digest", "opt_id", "opt_gen"} /\ ReadNext(Took(us, e), kind) # Refused
        BY <3>1, <3>2
      <3>4. \E d \in Seq(Bytes) :
              /\ \E ws : ReadNext(Took(us, e), kind) = Took(ws, d)
              /\ \/ Len(d) = Len(e) - 1
                 \/ kind = "opt_digest" /\ Len(d) = Len(e) - 33
                 \/ kind = "opt_id" /\ Len(d) = Len(e) - 17
                 \/ kind = "opt_gen" /\ Len(d) = Len(e) - 9
        BY <3>3, OptionalsTake
      <3> QED
        BY <3>1, <3>2, <3>4
    <2>7. Len(d) # 0
      <3>1. PICK k, l, j : k = Len(d) /\ l = Len(t) /\ j = Len(e)
        OBVIOUS
      <3>2. j \in Nat
        BY <2>5, <3>1, SeqFacts
      <3>3. l \in {1, 33} /\ (j = l - 1 \/ j = l - 17) /\ (k = j - 1 \/ k = j - 9)
        BY <2>1, <2>5, <2>6, <3>1
      <3>4. k # 0
        BY <3>2, <3>3
      <3> QED
        BY <3>1, <3>4
    <2>8. d = <<>>
      BY <1>15, <2>6 DEF Took
    <2> QED
      BY <2>7, <2>8
  <1> QED
    BY <1>21, <1>22

\* The unpack function each type is read with, where there is one.
UnpackOf ==
  [HELLO |-> "hello", SUBMIT |-> "submit", DISPATCH |-> "dispatch", START |-> "start",
   COMPLETE |-> "complete", CANCEL |-> "cancel", PREEMPT |-> "cancel",
   ACK_PREEMPT |-> "ack_preempt", MARK_RESUMABLE |-> "mark_resumable",
   RESUME |-> "resume", WORKER_LOST |-> "worker_lost", QUERY |-> "query",
   PING |-> "empty", WELCOME |-> "welcome", REGISTER_ACK |-> "register_ack",
   SUBMIT_ACK |-> "submit_ack", DISPATCH_ACK |-> "dispatch_ack",
   WORKER_DISPATCH |-> "worker_dispatch", CANCEL_ACK |-> "decision",
   PREEMPT_ACK |-> "decision", RESUME_ACK |-> "dispatch_ack",
   QUERY_RESPONSE |-> "query_response"]

LEMMA OneUnpackPerType ==
  \A k \in Kinds :
    IF k.type = "COMPLETE_ACK" THEN k.unpack \in {"complete_ack", "decision"}
                               ELSE k.unpack = UnpackOf[k.type]
  <1>1. \A k \in Requests : k.type # "COMPLETE_ACK" /\ k.unpack = UnpackOf[k.type]
    BY DEF Requests, Kind, UnpackOf
  <1>2. \A k \in Replies :
          IF k.type = "COMPLETE_ACK" THEN k.unpack \in {"complete_ack", "decision"}
                                     ELSE k.unpack = UnpackOf[k.type]
    BY DEF Replies, Kind, UnpackOf
  <1> QED
    BY <1>1, <1>2 DEF Kinds

\* A client that waits for the answer to a completion and gets the frame of a
\* decision, or the other way round, refuses it, whatever the frame carries.
THEOREM OnePayloadPerType == WSpec => []OneReadingPerType
  <1>1. SentTyped => OneReadingPerType
    <2> SUFFICES ASSUME SentTyped, Unread, NEW k \in Kinds,
                        k.type = sent[1].msg.kind.type, k.unpack # sent[1].msg.kind.unpack
                 PROVE  ~Unpack(k.unpack, PayloadOf(sent[1].msg)).ok
      BY DEF OneReadingPerType
    <2>1. PICK m \in Messages : m = sent[1].msg
      BY FirstSent
    <2>2. /\ m.kind \in Kinds /\ m.kind.unpack = m.kind.pack
          /\ Valid(m.kind.pack, m.values)
          /\ PayloadOf(m) = Pack(m.kind.pack, m.values)
      BY MessageFacts
    <2>3. k.type = m.kind.type /\ k.unpack # m.kind.unpack
      BY <2>1
    <2>4. k.unpack \in {"complete_ack", "decision"} /\ m.kind.unpack \in {"complete_ack", "decision"}
      BY <2>2, <2>3, OneUnpackPerType
    <2>5. ~Unpack(k.unpack, Pack(m.kind.pack, m.values)).ok
      BY <2>2, <2>3, <2>4, AckOrDecision
    <2> QED
      BY <2>1, <2>2, <2>5
  <1> QED
    BY <1>1, SentTypedAlways, PTL

-----------------------------------------------------------------------------
(* The eight bytes that stand for CRC-64.                                  *)

\* sum[n] is the sum of the first n bytes of p.
Sums(sum, p) ==
  /\ sum \in [0 .. Len(p) -> Nat]
  /\ sum[0] = 0
  /\ \A n \in 1 .. Len(p) : sum[n] = sum[n - 1] + p[n]

LEMMA CrcSum ==
  ASSUME NEW p \in Seq(Bytes)
  PROVE  \E sum : Sums(sum, p) /\ Crc64(p) = U32Bytes(Len(p)) \o U32Bytes(sum[Len(p)])
  <1>1. PICK N \in Nat : N = Len(p)
    BY SeqFacts
  <1>2. \A n \in 1 .. N : p[n] \in Nat
    <2>1. \A x \in Bytes : x \in Nat
      BY DEF Bytes
    <2>2. \A n \in 1 .. N : p[n] \in Bytes
      BY <1>1, SeqFacts
    <2> QED
      BY <2>1, <2>2
  <1> DEFINE step == [n \in 1 .. N |-> [x \in Nat |-> x + p[n]]]
  <1>3. PICK st : st = step
    OBVIOUS
  <1>4. st \in [1 .. N -> [Nat -> Nat]]
    <2>1. ASSUME NEW n \in 1 .. N PROVE st[n] \in [Nat -> Nat]
      <3>1. PICK y \in Nat : y = p[n]
        BY <1>2
      <3>2. st[n] = [x \in Nat |-> x + y]
        BY <1>3, <3>1
      <3> QED
        BY <3>2
    <2>2. st = [n \in 1 .. N |-> st[n]]
      BY <1>3
    <2> HIDE DEF step
    <2> QED
      BY <2>1, <2>2
  <1>5. \A n \in 1 .. N, x \in Nat : st[n][x] = x + p[n]
    BY <1>3
  <1> HIDE DEF step
  <1>6. PICK f \in [0 .. N -> Nat] : f[0] = 0 /\ \A n \in 1 .. N : f[n] = st[n][f[n - 1]]
    <2>1. PICK S, a : S = Nat /\ a = 0
      OBVIOUS
    <2>2. a \in S /\ st \in [1 .. N -> [S -> S]]
      BY <1>4, <2>1
    <2>3. a \in S /\ Steps(st, N, S)
      BY <2>2 DEF Steps
    <2>4. \E f : Solution(f, a, st, N, S)
      BY <2>3, Recursion
    <2> QED
      BY <2>1, <2>4 DEF Solution
  <1>7. f = [n \in 0 .. N |-> IF n = 0 THEN 0 ELSE f[n - 1] + p[n]]
    <2>1. \A n \in 1 .. N : f[n - 1] \in Nat
      BY <1>6
    <2>2. \A n \in 0 .. N : f[n] = IF n = 0 THEN 0 ELSE f[n - 1] + p[n]
      BY <1>5, <1>6, <2>1, SMTT(30)
    <2>3. f = [n \in 0 .. N |-> f[n]]
      OBVIOUS
    <2> QED
      BY <2>2, <2>3
  <1> DEFINE sum[n \in 0 .. Len(p)] == IF n = 0 THEN 0 ELSE sum[n - 1] + p[n]
  <1>8. sum = [n \in 0 .. N |-> IF n = 0 THEN 0 ELSE sum[n - 1] + p[n]]
    BY <1>1, <1>7
  <1>9. Crc64(p) = U32Bytes(N) \o U32Bytes(sum[N])
    BY <1>1 DEF Crc64
  <1>10. PICK s : s = sum
    OBVIOUS
  <1> HIDE DEF sum
  <1>11. s = [n \in 0 .. N |-> IF n = 0 THEN 0 ELSE s[n - 1] + p[n]]
    BY <1>8, <1>10
  <1>12. s = [n \in 0 .. N |-> s[n]] /\ s[0] = 0 /\ \A n \in 1 .. N : s[n] = s[n - 1] + p[n]
    <2>1. 0 \in 0 .. N /\ \A n \in 1 .. N : n \in 0 .. N /\ n # 0
      OBVIOUS
    <2>2. s = [n \in 0 .. N |-> s[n]]
      BY <1>11
    <2>3. s[0] = 0
      BY <1>11, <2>1
    <2>4. \A n \in 1 .. N : s[n] = s[n - 1] + p[n]
      BY <1>11, <2>1
    <2> QED
      BY <2>2, <2>3, <2>4
  <1> DEFINE T == {n \in Nat : n <= N => s[n] \in Nat}
  <1>13. 0 \in T
    BY <1>12
  <1>14. \A n \in Nat : n \in T => n + 1 \in T
    <2> SUFFICES ASSUME NEW n \in Nat, n \in T, n + 1 <= N PROVE s[n + 1] \in Nat
      OBVIOUS
    <2>1. n + 1 \in 1 .. N /\ (n + 1) - 1 = n /\ s[n] \in Nat
      OBVIOUS
    <2>2. PICK y \in Nat : y = p[n + 1]
      BY <1>2, <2>1
    <2>3. s[n + 1] = s[n] + y
      BY <1>12, <2>1, <2>2
    <2> QED
      BY <2>1, <2>3
  <1>15. Nat \subseteq T
    <2> HIDE DEF T
    <2> QED
      BY <1>13, <1>14, SetInduction
  <1>16. s \in [0 .. N -> Nat]
    BY <1>12, <1>15
  <1>17. Sums(s, p)
    BY <1>1, <1>12, <1>16 DEF Sums
  <1> QED
    BY <1>1, <1>9, <1>10, <1>17

U32Pair(k, m) == U32Bytes(k) \o U32Bytes(m)

LEMMA CrcNumbers ==
  ASSUME NEW p \in Seq(Bytes)
  PROVE  \E k, m : k = Len(p) /\ k \in Nat /\ m \in Nat /\ Crc64(p) = U32Pair(k, m)
  <1>1. PICK sum : Sums(sum, p) /\ Crc64(p) = U32Bytes(Len(p)) \o U32Bytes(sum[Len(p)])
    BY CrcSum
  <1>2. PICK k \in Nat : k = Len(p)
    BY SeqFacts
  <1>3. sum[k] \in Nat
    BY <1>1, <1>2 DEF Sums
  <1> QED
    BY <1>1, <1>2, <1>3 DEF U32Pair

LEMMA CrcType ==
  ASSUME NEW p \in Seq(Bytes)
  PROVE  Crc64(p) \in Seq(Bytes) /\ Len(Crc64(p)) = 8
  <1>1. PICK k \in Nat, m \in Nat : Crc64(p) = U32Pair(k, m)
    BY CrcNumbers
  <1>2. PICK c, d : c = U32Bytes(k) /\ d = U32Bytes(m)
    OBVIOUS
  <1>3. c \in Seq(Bytes) /\ Len(c) = 4
    BY <1>2, U32BytesType
  <1>4. d \in Seq(Bytes) /\ Len(d) = 4
    BY <1>2, U32BytesType
  <1>5. c \o d \in Seq(Bytes) /\ Len(c \o d) = Len(c) + Len(d)
    <2>1. c \in Seq(Bytes) /\ d \in Seq(Bytes)
      BY <1>3, <1>4
    <2> QED
      BY <2>1, ConcatFacts
  <1> QED
    BY <1>1, <1>2, <1>3, <1>4, <1>5 DEF U32Pair

LEMMA ConcatApart ==
  ASSUME NEW S, NEW c \in Seq(S), NEW d \in Seq(S), NEW e \in Seq(S), NEW f \in Seq(S),
         Len(c) = Len(e), Len(d) = Len(f), c \o d = e \o f
  PROVE  c = e /\ d = f
  <1>1. PICK g : g = c \o d /\ g = e \o f
    OBVIOUS
  <1>2. PICK k \in Nat, l \in Nat : k = Len(c) /\ k = Len(e) /\ l = Len(d) /\ l = Len(f)
    BY SeqFacts
  <1>3. (\A i \in 1 .. k : g[i] = c[i]) /\ \A i \in 1 .. l : g[k + i] = d[i]
    <2>1. /\ \A i \in 1 .. Len(c) : (c \o d)[i] = c[i]
          /\ \A i \in 1 .. Len(d) : (c \o d)[Len(c) + i] = d[i]
      BY ONLY c \in Seq(S), d \in Seq(S), ConcatFacts
    <2> QED
      BY <1>1, <1>2, <2>1
  <1>4. (\A i \in 1 .. k : g[i] = e[i]) /\ \A i \in 1 .. l : g[k + i] = f[i]
    <2>1. /\ \A i \in 1 .. Len(e) : (e \o f)[i] = e[i]
          /\ \A i \in 1 .. Len(f) : (e \o f)[Len(e) + i] = f[i]
      BY ONLY e \in Seq(S), f \in Seq(S), ConcatFacts
    <2> QED
      BY <1>1, <1>2, <2>1
  <1>5. \A i \in 1 .. k : c[i] = e[i]
    BY <1>3, <1>4
  <1>6. \A i \in 1 .. l : d[i] = f[i]
    <2> TAKE i \in 1 .. l
    <2>1. g[k + i] = d[i]
      BY <1>3
    <2>2. g[k + i] = f[i]
      BY <1>4
    <2> QED
      BY <2>1, <2>2
  <1>7. c = e
    BY <1>2, <1>5, SeqEqual
  <1>8. d = f
    BY <1>2, <1>6, SeqEqual
  <1> QED
    BY <1>7, <1>8

\* The same bytes: the same length and the same sum, as far as four bytes go.
LEMMA CrcEqual ==
  ASSUME NEW k \in Nat, NEW l \in Nat, NEW m \in Nat, NEW n \in Nat,
         U32Pair(k, m) = U32Pair(l, n)
  PROVE  U32Bytes(k) = U32Bytes(l) /\ U32Bytes(m) = U32Bytes(n)
  <1>1. PICK c, d, e, f : /\ c = U32Bytes(k) /\ d = U32Bytes(m)
                          /\ e = U32Bytes(l) /\ f = U32Bytes(n)
    OBVIOUS
  <1>2. c \in Seq(Bytes) /\ Len(c) = 4
    BY <1>1, U32BytesType
  <1>3. d \in Seq(Bytes) /\ Len(d) = 4
    BY <1>1, U32BytesType
  <1>4. e \in Seq(Bytes) /\ Len(e) = 4
    BY <1>1, U32BytesType
  <1>5. f \in Seq(Bytes) /\ Len(f) = 4
    BY <1>1, U32BytesType
  <1>6. c \o d = e \o f
    BY <1>1 DEF U32Pair
  <1>7. c = e /\ d = f
    BY <1>2, <1>3, <1>4, <1>5, <1>6, ConcatApart, ZenonT(60)
  <1> QED
    BY <1>1, <1>7

\* One byte more or less shows.
LEMMA CrcLength ==
  ASSUME NEW p \in Seq(Bytes), NEW q \in Seq(Bytes),
         Len(q) = Len(p) + 1 \/ Len(p) = Len(q) + 1
  PROVE  Crc64(p) # Crc64(q)
  <1>1. PICK k, m : k = Len(p) /\ k \in Nat /\ m \in Nat /\ Crc64(p) = U32Pair(k, m)
    BY CrcNumbers
  <1>2. PICK l, n : l = Len(q) /\ l \in Nat /\ n \in Nat /\ Crc64(q) = U32Pair(l, n)
    BY CrcNumbers
  <1>3. l = k + 1 \/ k = l + 1
    BY <1>1, <1>2
  <1>4. 1 \in 1 .. 256
    OBVIOUS
  <1>5. U32Bytes(k) # U32Bytes(l)
    BY <1>1, <1>2, <1>3, <1>4, U32Apart, ZenonT(60)
  <1>6. Crc64(p) = Crc64(q) => U32Pair(k, m) = U32Pair(l, n)
    BY <1>1, <1>2
  <1>7. k \in Nat /\ l \in Nat /\ m \in Nat /\ n \in Nat
    BY <1>1, <1>2
  <1> QED
    BY <1>5, <1>6, <1>7, CrcEqual

LEMMA NextByte ==
  ASSUME NEW x \in 0 .. 255
  PROVE  (x < 255 /\ (x + 1) % 256 = x + 1) \/ (x = 255 /\ (x + 1) % 256 = 0)
  OBVIOUS

\* A last byte that is one more shows, also where it wraps.
LEMMA CrcLastByte ==
  ASSUME NEW p \in Seq(Bytes), NEW q \in Seq(Bytes), Len(q) = Len(p), Len(p) # 0,
         \A i \in 1 .. Len(p) - 1 : q[i] = p[i],
         q[Len(p)] = (p[Len(p)] + 1) % 256
  PROVE  Crc64(p) # Crc64(q)
  <1>1. PICK sp : Sums(sp, p) /\ Crc64(p) = U32Bytes(Len(p)) \o U32Bytes(sp[Len(p)])
    BY CrcSum
  <1>2. PICK sq : Sums(sq, q) /\ Crc64(q) = U32Bytes(Len(q)) \o U32Bytes(sq[Len(q)])
    BY CrcSum
  <1>3. PICK N \in Nat : N = Len(p) /\ N # 0
    BY SeqFacts
  <1>4. sp[N] \in Nat
    BY <1>1, <1>3 DEF Sums
  <1>5. sq[N] \in Nat
    BY <1>2, <1>3 DEF Sums
  <1>6. /\ sp \in [0 .. N -> Nat] /\ sp[0] = 0
        /\ \A n \in 1 .. N : sp[n] = sp[n - 1] + p[n]
    BY <1>1, <1>3 DEF Sums
  <1>7. /\ sq \in [0 .. N -> Nat] /\ sq[0] = 0
        /\ \A n \in 1 .. N : sq[n] = sq[n - 1] + q[n]
    BY <1>2, <1>3 DEF Sums
  <1>8. \A i \in 1 .. N - 1 : q[i] = p[i]
    BY <1>3
  <1> DEFINE T == {n \in Nat : n <= N - 1 => sp[n] = sq[n]}
  <1>9. 0 \in T
    BY <1>6, <1>7
  <1>10. \A n \in Nat : n \in T => n + 1 \in T
    <2> SUFFICES ASSUME NEW n \in Nat, n \in T, n + 1 <= N - 1 PROVE sp[n + 1] = sq[n + 1]
      OBVIOUS
    <2>1. n + 1 \in 1 .. N /\ n + 1 \in 1 .. N - 1 /\ (n + 1) - 1 = n /\ sp[n] = sq[n]
      OBVIOUS
    <2> QED
      BY <1>6, <1>7, <1>8, <2>1
  <1>11. Nat \subseteq T
    <2> HIDE DEF T
    <2> QED
      BY <1>9, <1>10, SetInduction
  <1>12. N \in 1 .. N /\ N - 1 \in Nat /\ N - 1 \in 0 .. N
    BY <1>3
  <1>13. PICK c, x, y : c = sp[N - 1] /\ x = p[N] /\ y = q[N]
    OBVIOUS
  <1>14. c \in Nat /\ sp[N] = c + x /\ sq[N] = c + y /\ y = (x + 1) % 256
    <2>1. sp[N - 1] = sq[N - 1]
      BY <1>11, <1>12
    <2>2. c \in Nat
      BY <1>6, <1>12, <1>13
    <2>3. sp[N] = c + x
      BY <1>6, <1>12, <1>13
    <2>4. sq[N] = c + y
      BY <1>7, <1>12, <1>13, <2>1
    <2>5. y = (x + 1) % 256
      BY <1>3, <1>13
    <2> QED
      BY <2>2, <2>3, <2>4, <2>5
  <1>15. x \in 0 .. 255
    BY <1>3, <1>12, <1>13, SeqFacts DEF Bytes
  <1>16. \/ sq[N] = sp[N] + 1
         \/ sp[N] = sq[N] + 255
    <2>1. (x < 255 /\ y = x + 1) \/ (x = 255 /\ y = 0)
      BY <1>14, <1>15, NextByte, ZenonT(60)
    <2> QED
      BY <1>14, <1>15, <2>1
  <1>17. PICK k, l : k = sp[N] /\ l = sq[N]
    OBVIOUS
  <1>18. k \in Nat /\ l \in Nat /\ (l = k + 1 \/ k = l + 255)
    BY <1>4, <1>5, <1>16, <1>17
  <1>19. 1 \in 1 .. 256 /\ 255 \in 1 .. 256
    OBVIOUS
  <1>20. U32Bytes(k) # U32Bytes(l)
    BY <1>18, <1>19, U32Apart, ZenonT(60)
  <1>21. Crc64(p) = U32Pair(N, k) /\ Crc64(q) = U32Pair(N, l)
    BY <1>1, <1>2, <1>3, <1>17 DEF U32Pair
  <1>22. Crc64(p) = Crc64(q) => U32Pair(N, k) = U32Pair(N, l)
    BY <1>21
  <1>23. N \in Nat /\ k \in Nat /\ l \in Nat
    BY <1>18
  <1> QED
    BY <1>20, <1>22, <1>23, CrcEqual

-----------------------------------------------------------------------------
(* A frame and its parts.                                                  *)

\* Behind its first k bytes, s goes on with u.
At(s, k, u) == \A i \in 1 .. Len(u) : s[k + i] = u[i]

LEMMA AtSame ==
  ASSUME NEW S, NEW u \in Seq(S), NEW k \in Nat, NEW s, NEW h, NEW n \in Nat, k + Len(u) <= n,
         At(s, k, u), \A i \in 1 .. n : h[i] = s[i]
  PROVE  At(h, k, u)
  <1>1. Len(u) \in Nat
    BY SeqFacts
  <1>2. ASSUME NEW i \in 1 .. Len(u) PROVE h[k + i] = u[i]
    <2>1. k + i \in 1 .. n
      BY <1>1
    <2>2. s[k + i] = u[i]
      BY DEF At
    <2> QED
      BY <2>1, <2>2
  <1> QED
    BY <1>2 DEF At

LEMMA AtJoined ==
  ASSUME NEW S, NEW s \in Seq(S), NEW t \in Seq(S), NEW u \in Seq(S), NEW k \in Nat,
         k + Len(u) <= Len(s), At(s, k, u)
  PROVE  At(s \o t, k, u)
  <1>1. PICK n \in Nat : n = Len(s)
    BY SeqFacts
  <1>2. PICK c : c = s \o t
    OBVIOUS
  <1>3. \A i \in 1 .. Len(s) : (s \o t)[i] = s[i]
    BY ONLY s \in Seq(S), t \in Seq(S), ConcatFacts
  <1>4. \A i \in 1 .. n : c[i] = s[i]
    BY <1>1, <1>2, <1>3
  <1>5. k + Len(u) <= n
    BY <1>1
  <1>6. At(c, k, u)
    BY <1>4, <1>5, AtSame
  <1> QED
    BY <1>2, <1>6

LEMMA JoinedFacts ==
  ASSUME NEW S, NEW s \in Seq(S), NEW t \in Seq(S)
  PROVE  s \o t \in Seq(S) /\ Len(s \o t) = Len(s) + Len(t) /\ At(s \o t, Len(s), t) /\ At(s, 0, s)
  <1>1. At(s, 0, s)
    <2>1. ASSUME NEW i \in 1 .. Len(s) PROVE s[0 + i] = s[i]
      <3>1. 0 + i = i
        BY SeqFacts
      <3> QED
        BY <3>1
    <2> QED
      BY <2>1 DEF At
  <1>2. At(s \o t, Len(s), t)
    BY ConcatFacts DEF At
  <1>3. s \o t \in Seq(S) /\ Len(s \o t) = Len(s) + Len(t)
    BY ConcatFacts
  <1> QED
    BY <1>1, <1>2, <1>3

LEMMA AtSub ==
  ASSUME NEW S, NEW h \in Seq(S), NEW u \in Seq(S), NEW k \in Nat, NEW l \in Nat,
         k + Len(u) = l, l <= Len(h), At(h, k, u)
  PROVE  SubSeq(h, k + 1, l) = u
  <1>1. PICK n \in Nat : n = Len(u)
    BY SeqFacts
  <1>2. k + 1 \in Nat \ {0} /\ k + 1 <= l + 1 /\ l + 1 - (k + 1) = n /\ (k + 1) - 1 = k
    BY <1>1
  <1>3. PICK v, m : v = SubSeq(h, m, l) /\ m = k + 1
    OBVIOUS
  <1>4. m \in Nat \ {0} /\ m <= l + 1
    BY <1>2, <1>3
  <1>5. /\ v \in Seq(S) /\ Len(v) = l + 1 - m
        /\ \A i \in 1 .. l + 1 - m : v[i] = h[m - 1 + i]
    BY <1>3, <1>4, SubSeqFacts
  <1>6. Len(v) = n /\ \A i \in 1 .. n : v[i] = h[k + i]
    BY <1>2, <1>3, <1>5
  <1>7. \A i \in 1 .. n : h[k + i] = u[i]
    BY <1>1 DEF At
  <1>8. \A i \in 1 .. n : v[i] = u[i]
    BY <1>6, <1>7
  <1>9. v = u
    BY <1>1, <1>5, <1>6, <1>8, SeqEqual
  <1> QED
    BY <1>3, <1>9

\* What encode_frame writes, part by part.
Framed(f, tb, p) ==
  /\ f \in Seq(Bytes)
  /\ Len(f) = 18 + Len(p)
  /\ At(f, 0, Magic)
  /\ f[5] = Version
  /\ f[6] = tb
  /\ At(f, 6, U32Bytes(Len(p)))
  /\ At(f, 10, Crc64(p))
  /\ At(f, 18, p)

LEMMA FrameFacts ==
  ASSUME NEW type, TypeByte(type) \in Bytes, NEW p \in Seq(Bytes)
  PROVE  Framed(encode_frame(type, p), TypeByte(type), p)
  <1>1. PICK m, v, u, c : /\ m = Magic /\ v = <<Version, TypeByte(type)>>
                          /\ u = U32Bytes(Len(p)) /\ c = Crc64(p)
    OBVIOUS
  <1>2. Len(p) \in Nat
    BY SeqFacts
  <1>3. m \in Seq(Bytes) /\ Len(m) = 4
    BY <1>1 DEF Magic, Bytes
  <1>4. v \in Seq(Bytes) /\ Len(v) = 2 /\ v[1] = Version /\ v[2] = TypeByte(type)
    <2>1. Version \in Bytes
      BY DEF Version, Bytes
    <2> QED
      BY <1>1, <2>1
  <1>5. u \in Seq(Bytes) /\ Len(u) = 4
    BY <1>1, <1>2, U32BytesType
  <1>6. c \in Seq(Bytes) /\ Len(c) = 8
    BY <1>1, CrcType
  <1>7. PICK a1 : a1 = m \o v
    OBVIOUS
  <1>8. a1 \in Seq(Bytes) /\ Len(a1) = 6 /\ At(a1, 0, m) /\ At(a1, 4, v)
    <2>1. m \in Seq(Bytes) /\ v \in Seq(Bytes)
      BY <1>3, <1>4
    <2>2. a1 \in Seq(Bytes) /\ Len(a1) = Len(m) + Len(v) /\ At(a1, Len(m), v) /\ At(m, 0, m)
      BY <1>7, <2>1, JoinedFacts
    <2>3. 0 + Len(m) <= Len(m)
      BY <1>3
    <2>4. At(a1, 0, m)
      BY <1>7, <2>1, <2>2, <2>3, AtJoined
    <2> QED
      BY <1>3, <1>4, <2>2, <2>4
  <1>9. PICK a2 : a2 = a1 \o u
    OBVIOUS
  <1>10. a2 \in Seq(Bytes) /\ Len(a2) = 10 /\ At(a2, 0, m) /\ At(a2, 4, v) /\ At(a2, 6, u)
    <2>1. a1 \in Seq(Bytes) /\ u \in Seq(Bytes) /\ m \in Seq(Bytes) /\ v \in Seq(Bytes)
      BY <1>3, <1>4, <1>5, <1>8
    <2>2. a2 \in Seq(Bytes) /\ Len(a2) = Len(a1) + Len(u) /\ At(a2, Len(a1), u)
      BY <1>9, <2>1, JoinedFacts
    <2>3. 0 + Len(m) <= Len(a1) /\ 4 + Len(v) <= Len(a1)
      BY <1>3, <1>4, <1>8
    <2>4. At(a2, 0, m)
      BY <1>8, <1>9, <2>1, <2>3, AtJoined
    <2>5. At(a2, 4, v)
      BY <1>8, <1>9, <2>1, <2>3, AtJoined
    <2> QED
      BY <1>5, <1>8, <2>2, <2>4, <2>5
  <1>11. PICK a3 : a3 = a2 \o c
    OBVIOUS
  <1>12. /\ a3 \in Seq(Bytes) /\ Len(a3) = 18
         /\ At(a3, 0, m) /\ At(a3, 4, v) /\ At(a3, 6, u) /\ At(a3, 10, c)
    <2>1. /\ a2 \in Seq(Bytes) /\ u \in Seq(Bytes) /\ m \in Seq(Bytes) /\ v \in Seq(Bytes)
          /\ c \in Seq(Bytes)
      BY <1>3, <1>4, <1>5, <1>6, <1>10
    <2>2. a3 \in Seq(Bytes) /\ Len(a3) = Len(a2) + Len(c) /\ At(a3, Len(a2), c)
      BY <1>11, <2>1, JoinedFacts
    <2>3. 0 + Len(m) <= Len(a2) /\ 4 + Len(v) <= Len(a2) /\ 6 + Len(u) <= Len(a2)
      BY <1>3, <1>4, <1>5, <1>10
    <2>4. At(a3, 0, m)
      BY <1>10, <1>11, <2>1, <2>3, AtJoined
    <2>5. At(a3, 4, v)
      BY <1>10, <1>11, <2>1, <2>3, AtJoined
    <2>6. At(a3, 6, u)
      BY <1>10, <1>11, <2>1, <2>3, AtJoined
    <2> QED
      BY <1>6, <1>10, <2>2, <2>4, <2>5, <2>6
  <1>13. PICK f : f = a3 \o p
    OBVIOUS
  <1>14. /\ f \in Seq(Bytes) /\ Len(f) = 18 + Len(p)
         /\ At(f, 0, m) /\ At(f, 4, v) /\ At(f, 6, u) /\ At(f, 10, c) /\ At(f, 18, p)
    <2>1. /\ a3 \in Seq(Bytes) /\ u \in Seq(Bytes) /\ m \in Seq(Bytes) /\ v \in Seq(Bytes)
          /\ c \in Seq(Bytes)
      BY <1>3, <1>4, <1>5, <1>6, <1>12
    <2>2. f \in Seq(Bytes) /\ Len(f) = Len(a3) + Len(p) /\ At(f, Len(a3), p)
      BY <1>13, <2>1, JoinedFacts
    <2>3. /\ 0 + Len(m) <= Len(a3) /\ 4 + Len(v) <= Len(a3) /\ 6 + Len(u) <= Len(a3)
          /\ 10 + Len(c) <= Len(a3)
      BY <1>3, <1>4, <1>5, <1>6, <1>12
    <2>4. At(f, 0, m)
      BY <1>12, <1>13, <2>1, <2>3, AtJoined
    <2>5. At(f, 4, v)
      BY <1>12, <1>13, <2>1, <2>3, AtJoined
    <2>6. At(f, 6, u)
      BY <1>12, <1>13, <2>1, <2>3, AtJoined
    <2>7. At(f, 10, c)
      BY <1>12, <1>13, <2>1, <2>3, AtJoined
    <2> QED
      BY <1>12, <2>2, <2>4, <2>5, <2>6, <2>7
  <1>15. f[5] = Version /\ f[6] = TypeByte(type)
    <2>1. 1 \in 1 .. Len(v) /\ 2 \in 1 .. Len(v) /\ 4 + 1 = 5 /\ 4 + 2 = 6
      BY <1>4
    <2>2. f[4 + 1] = v[1] /\ f[4 + 2] = v[2]
      BY <1>14, <2>1 DEF At
    <2> QED
      BY <1>4, <2>1, <2>2
  <1>16. encode_frame(type, p) = f
    BY <1>1, <1>7, <1>9, <1>11, <1>13 DEF encode_frame
  <1> QED
    BY <1>1, <1>14, <1>15, <1>16 DEF Framed

\* The types of the messages have names, and the byte of a type names it.
LEMMA TypeFacts ==
  ASSUME NEW k \in Kinds
  PROVE  TypeByte(k.type) \in 0 .. 26 /\ TypeNames[TypeByte(k.type) + 1] = k.type
  <1>1. DOMAIN TypeNames = 1 .. 27
    BY DEF TypeNames
  <1>2. /\ TypeNames[1] = "HELLO" /\ TypeNames[2] = "WELCOME" /\ TypeNames[4] = "REGISTER_ACK"
        /\ TypeNames[5] = "SUBMIT" /\ TypeNames[6] = "SUBMIT_ACK" /\ TypeNames[7] = "DISPATCH"
        /\ TypeNames[8] = "DISPATCH_ACK" /\ TypeNames[9] = "WORKER_DISPATCH"
        /\ TypeNames[11] = "START" /\ TypeNames[12] = "COMPLETE"
        /\ TypeNames[13] = "COMPLETE_ACK" /\ TypeNames[14] = "CANCEL"
        /\ TypeNames[15] = "CANCEL_ACK" /\ TypeNames[16] = "PREEMPT"
        /\ TypeNames[17] = "PREEMPT_ACK" /\ TypeNames[18] = "ACK_PREEMPT"
        /\ TypeNames[19] = "MARK_RESUMABLE" /\ TypeNames[20] = "RESUME"
        /\ TypeNames[21] = "RESUME_ACK" /\ TypeNames[22] = "WORKER_LOST"
        /\ TypeNames[23] = "QUERY" /\ TypeNames[24] = "QUERY_RESPONSE" /\ TypeNames[25] = "PING"
    BY DEF TypeNames
  <1>3. k \in Requests => \E i \in 1 .. 27 : TypeNames[i] = k.type
    <2>1. k \in Requests =>
            k.type \in {"HELLO", "SUBMIT", "DISPATCH", "START", "COMPLETE", "CANCEL", "PREEMPT",
                        "ACK_PREEMPT", "MARK_RESUMABLE", "RESUME", "WORKER_LOST", "QUERY", "PING"}
      BY DEF Requests, Kind
    <2> QED
      BY <1>2, <2>1
  <1>4. k \in Replies => \E i \in 1 .. 27 : TypeNames[i] = k.type
    <2>1. k \in Replies =>
            k.type \in {"WELCOME", "REGISTER_ACK", "SUBMIT_ACK", "DISPATCH_ACK", "WORKER_DISPATCH",
                        "COMPLETE_ACK", "CANCEL_ACK", "PREEMPT_ACK", "RESUME_ACK",
                        "QUERY_RESPONSE"}
      BY DEF Replies, Kind
    <2> QED
      BY <1>2, <2>1
  <1>5. \E i \in DOMAIN TypeNames : TypeNames[i] = k.type
    BY <1>1, <1>3, <1>4 DEF Kinds
  <1>6. PICK i : i = CHOOSE j \in DOMAIN TypeNames : TypeNames[j] = k.type
    OBVIOUS
  <1>7. i \in DOMAIN TypeNames /\ TypeNames[i] = k.type
    BY <1>5, <1>6
  <1>8. TypeByte(k.type) = i - 1
    BY <1>6 DEF TypeByte
  <1>9. i \in 1 .. 27 /\ (i - 1) + 1 = i /\ i - 1 \in 0 .. 26
    BY <1>1, <1>7
  <1> QED
    BY <1>7, <1>8, <1>9

LEMMA Altered ==
  ASSUME NEW S, NEW s \in Seq(S), NEW i \in 1 .. Len(s), NEW e \in S
  PROVE  /\ [s EXCEPT ![i] = e] \in Seq(S)
         /\ Len([s EXCEPT ![i] = e]) = Len(s)
         /\ [s EXCEPT ![i] = e][i] = e
         /\ \A j \in 1 .. Len(s) : j # i => [s EXCEPT ![i] = e][j] = s[j]
  OBVIOUS

\* Another length in the header; the checksum stays.
LEMMA LengthAltered ==
  ASSUME NEW f \in Seq(Bytes), NEW L \in Nat, Len(f) = 18 + L, NEW n \in Nat,
         NEW c \in Seq(Bytes), Len(c) = 8, At(f, 10, c)
  PROVE  /\ WithLength(f, n) \in Seq(Bytes)
         /\ Len(WithLength(f, n)) = 18 + L
         /\ At(WithLength(f, n), 6, U32Bytes(n))
         /\ At(WithLength(f, n), 10, c)
  <1>1. PICK a, u, z : /\ a = SubSeq(f, 1, 6) /\ u = U32Bytes(n) /\ z = SubSeq(f, 11, Len(f))
    OBVIOUS
  <1>2. a \in Seq(Bytes) /\ Len(a) = 6
    <2>1. 1 \in Nat \ {0} /\ 6 \in Nat /\ 1 <= 6 + 1 /\ 6 <= Len(f) /\ 6 + 1 - 1 = 6
      OBVIOUS
    <2>2. a \in Seq(Bytes) /\ Len(a) = 6 + 1 - 1
      BY <1>1, <2>1, SubSeqFacts
    <2> QED
      BY <2>1, <2>2
  <1>3. u \in Seq(Bytes) /\ Len(u) = 4
    BY <1>1, U32BytesType
  <1>4. z \in Seq(Bytes) /\ Len(z) = 8 + L /\ \A i \in 1 .. 8 + L : z[i] = f[10 + i]
    <2>1. PICK l \in Nat : l = Len(f)
      BY SeqFacts
    <2>2. /\ 11 \in Nat \ {0} /\ 11 <= l + 1 /\ l <= Len(f) /\ l + 1 - 11 = 8 + L
          /\ 11 - 1 = 10
      BY <2>1
    <2>3. z \in Seq(Bytes) /\ Len(z) = l + 1 - 11 /\ \A i \in 1 .. l + 1 - 11 : z[i] = f[11 - 1 + i]
      BY <1>1, <2>1, <2>2, SubSeqFacts
    <2> QED
      BY <2>2, <2>3
  <1>5. PICK b : b = a \o u
    OBVIOUS
  <1>6. b \in Seq(Bytes) /\ Len(b) = 10 /\ At(b, 6, u)
    <2>1. a \in Seq(Bytes) /\ u \in Seq(Bytes)
      BY <1>2, <1>3
    <2>2. b \in Seq(Bytes) /\ Len(b) = Len(a) + Len(u) /\ At(b, Len(a), u)
      BY <1>5, <2>1, JoinedFacts
    <2> QED
      BY <1>2, <1>3, <2>2
  <1>7. PICK w : w = b \o z
    OBVIOUS
  <1>8. w \in Seq(Bytes) /\ Len(w) = 18 + L /\ At(w, 6, u) /\ At(w, 10, z)
    <2>1. b \in Seq(Bytes) /\ z \in Seq(Bytes) /\ u \in Seq(Bytes)
      BY <1>3, <1>4, <1>6
    <2>2. w \in Seq(Bytes) /\ Len(w) = Len(b) + Len(z) /\ At(w, Len(b), z)
      BY <1>7, <2>1, JoinedFacts
    <2>3. 6 + Len(u) <= Len(b)
      BY <1>3, <1>6
    <2>4. At(w, 6, u)
      BY <1>6, <1>7, <2>1, <2>3, AtJoined
    <2>5. Len(w) = 18 + L
      BY <1>4, <1>6, <2>2
    <2> QED
      BY <1>6, <2>2, <2>4, <2>5
  <1>9. At(w, 10, c)
    <2>1. ASSUME NEW i \in 1 .. 8 PROVE w[10 + i] = c[i]
      <3>1. i \in 1 .. 8 + L
        OBVIOUS
      <3>2. w[10 + i] = z[i]
        BY <1>4, <1>8, <3>1 DEF At
      <3>3. z[i] = f[10 + i]
        BY <1>4, <3>1
      <3>4. f[10 + i] = c[i]
        BY DEF At
      <3> QED
        BY <3>2, <3>3, <3>4
    <2> QED
      BY <2>1 DEF At
  <1>10. WithLength(f, n) = w
    BY <1>1, <1>5, <1>7 DEF WithLength
  <1> QED
    BY <1>1, <1>8, <1>9, <1>10

\* The last of 18 + n bytes is one off.
LastByteOff(w, f, n) ==
  /\ \A i \in 1 .. 17 + n : w[i] = f[i]
  /\ w[18 + n] = (f[18 + n] + 1) % 256

\* The frames a peer may put on the wire, one kind of damage after the other.
LEMMA DamageFacts ==
  ASSUME NEW tb \in 0 .. 26, NEW p \in Seq(Bytes), NEW f, Framed(f, tb, p),
         NEW d \in Damages, d = "short" => Len(p) > 0, NEW w, w = Damaged(f, d)
  PROVE  /\ w \in Seq(Bytes) /\ Len(w) = 18 + Len(p)
         /\ d = "none" => w = f
         /\ d = "magic" => w[1] = 0
         /\ d = "version" => w[5] = 2
         /\ d = "type" => w[6] = 27
         /\ d = "limit" => At(w, 6, U32Bytes(MaxPayload + 1))
         /\ d = "short" => At(w, 6, U32Bytes(Len(p) - 1)) /\ At(w, 10, Crc64(p))
         /\ d = "long" => At(w, 6, U32Bytes(Len(p) + 1)) /\ At(w, 10, Crc64(p))
         /\ d = "checksum" => LastByteOff(w, f, Len(p))
  <1>1. PICK L \in Nat : L = Len(p)
    BY SeqFacts
  <1>2. f \in Seq(Bytes) /\ Len(f) = 18 + L /\ At(f, 10, Crc64(p))
    BY <1>1 DEF Framed
  <1>3. Crc64(p) \in Seq(Bytes) /\ Len(Crc64(p)) = 8
    BY CrcType
  <1>4. /\ 1 \in 1 .. Len(f) /\ 5 \in 1 .. Len(f) /\ 6 \in 1 .. Len(f) /\ Len(f) \in 1 .. Len(f)
        /\ Len(f) - HeaderLen = L
    BY <1>2 DEF HeaderLen
  <1>5. 0 \in Bytes /\ 2 \in Bytes /\ 27 \in Bytes /\ Version + 1 = 2 /\ Len(TypeNames) = 27
    <2>1. Len(TypeNames) = 27
      BY DEF TypeNames
    <2> QED
      BY <2>1 DEF Bytes, Version
  <1>6. MaxPayload + 1 \in Nat
    <2>1. LongField \in Nat
      BY DEF LongField
    <2>2. MaxPayload \in 0 .. LongField
      BY WireAssumption
    <2> QED
      BY <2>1, <2>2
  <1>7. ASSUME NEW n \in Nat
        PROVE  /\ WithLength(f, n) \in Seq(Bytes) /\ Len(WithLength(f, n)) = 18 + L
               /\ At(WithLength(f, n), 6, U32Bytes(n)) /\ At(WithLength(f, n), 10, Crc64(p))
    BY <1>2, <1>3, LengthAltered
  <1>8. CASE d = "none"
    <2>1. w = f
      BY <1>8 DEF Damaged
    <2> QED
      BY <1>1, <1>2, <1>8, <2>1
  <1>9. CASE d = "magic"
    <2>1. w = [f EXCEPT ![1] = 0]
      BY <1>9 DEF Damaged
    <2>2. w \in Seq(Bytes) /\ Len(w) = Len(f) /\ w[1] = 0
      BY <1>2, <1>4, <1>5, <2>1, Altered
    <2> QED
      BY <1>1, <1>2, <1>9, <2>2
  <1>10. CASE d = "version"
    <2>1. w = [f EXCEPT ![5] = 2]
      BY <1>5, <1>10 DEF Damaged
    <2>2. w \in Seq(Bytes) /\ Len(w) = Len(f) /\ w[5] = 2
      BY <1>2, <1>4, <1>5, <2>1, Altered
    <2> QED
      BY <1>1, <1>2, <1>10, <2>2
  <1>11. CASE d = "type"
    <2>1. w = [f EXCEPT ![6] = 27]
      BY <1>5, <1>11 DEF Damaged
    <2>2. w \in Seq(Bytes) /\ Len(w) = Len(f) /\ w[6] = 27
      BY <1>2, <1>4, <1>5, <2>1, Altered
    <2> QED
      BY <1>1, <1>2, <1>11, <2>2
  <1>12. CASE d = "limit"
    <2>1. w = WithLength(f, MaxPayload + 1)
      BY <1>12 DEF Damaged
    <2> QED
      BY <1>1, <1>6, <1>7, <1>12, <2>1
  <1>13. CASE d = "short"
    <2>1. L - 1 \in Nat
      BY <1>1, <1>13
    <2>2. w = WithLength(f, L - 1)
      BY <1>4, <1>13 DEF Damaged
    <2> QED
      BY <1>1, <1>7, <1>13, <2>1, <2>2
  <1>14. CASE d = "long"
    <2>1. w = WithLength(f, L + 1)
      BY <1>4, <1>14 DEF Damaged
    <2>2. L + 1 \in Nat
      OBVIOUS
    <2> QED
      BY <1>1, <1>7, <1>14, <2>1, <2>2
  <1>15. CASE d = "checksum"
    <2>1. PICK l, e : l = Len(f) /\ e = (f[l] + 1) % 256
      OBVIOUS
    <2>2. w = [f EXCEPT ![l] = e]
      BY <1>15, <2>1 DEF Damaged
    <2>3. f[l] \in 0 .. 255
      <3>1. l \in 1 .. Len(f)
        BY <1>4, <2>1
      <3>2. f[l] \in Bytes
        BY <1>2, <3>1, SeqFacts
      <3> QED
        BY <3>2 DEF Bytes
    <2>4. e \in Bytes
      <3>1. PICK b : b = f[l]
        OBVIOUS
      <3>2. b \in 0 .. 255 /\ e = (b + 1) % 256
        BY <2>1, <2>3, <3>1
      <3>3. (b < 255 /\ e = b + 1) \/ (b = 255 /\ e = 0)
        BY <3>2, NextByte
      <3>4. e \in 0 .. 255
        BY <3>2, <3>3
      <3> QED
        BY <3>4 DEF Bytes
    <2>5. l \in 1 .. Len(f) /\ l = 18 + L
      BY <1>2, <1>4, <2>1
    <2>6. /\ w \in Seq(Bytes) /\ Len(w) = Len(f) /\ w[l] = e
          /\ \A j \in 1 .. Len(f) : j # l => w[j] = f[j]
      BY <1>2, <2>2, <2>4, <2>5, Altered
    <2>7. \A i \in 1 .. 17 + L : w[i] = f[i]
      <3> TAKE i \in 1 .. 17 + L
      <3>1. i \in 1 .. Len(f) /\ i # l
        BY <1>2, <2>5
      <3> QED
        BY <2>6, <3>1
    <2>8. w[18 + L] = (f[18 + L] + 1) % 256
      BY <2>1, <2>5, <2>6
    <2>9. LastByteOff(w, f, L)
      BY <2>7, <2>8 DEF LastByteOff
    <2> QED
      BY <1>1, <1>2, <1>15, <2>6, <2>9
  <1> QED
    BY <1>8, <1>9, <1>10, <1>11, <1>12, <1>13, <1>14, <1>15 DEF Damages

OnWire(x) == Damaged(encode_frame(x.msg.kind.type, PayloadOf(x.msg)), x.damage)

LEMMA SendingFacts ==
  ASSUME NEW x \in Sendings
  PROVE  /\ x.msg \in Messages /\ x.damage \in Damages
         /\ x.damage = "short" => Len(PayloadOf(x.msg)) > 0
         /\ TypeByte(x.msg.kind.type) \in 0 .. 26
         /\ TypeNames[TypeByte(x.msg.kind.type) + 1] = x.msg.kind.type
         /\ Framed(encode_frame(x.msg.kind.type, PayloadOf(x.msg)),
                   TypeByte(x.msg.kind.type), PayloadOf(x.msg))
  <1>1. PICK m : m = x.msg
    OBVIOUS
  <1>2. m \in Messages /\ x.damage \in Damages
    BY <1>1 DEF Sendings
  <1>3. m.kind \in Kinds /\ PayloadOf(m) \in Seq(Bytes) /\ Len(PayloadOf(m)) \in Nat
    BY <1>2, MessageFacts
  <1>4. TypeByte(m.kind.type) \in 0 .. 26 /\ TypeNames[TypeByte(m.kind.type) + 1] = m.kind.type
    BY <1>3, TypeFacts
  <1>5. TypeByte(m.kind.type) \in Bytes
    BY <1>4 DEF Bytes
  <1>6. Framed(encode_frame(m.kind.type, PayloadOf(m)), TypeByte(m.kind.type), PayloadOf(m))
    BY <1>3, <1>5, FrameFacts
  <1>7. x.damage = "short" => Len(PayloadOf(m)) > 0
    <2>1. x.damage = "short" => Len(encode_frame(m.kind.type, PayloadOf(m))) > 18
      BY <1>1 DEF Sendings, HeaderLen
    <2>2. Len(encode_frame(m.kind.type, PayloadOf(m))) = 18 + Len(PayloadOf(m))
      BY <1>6 DEF Framed
    <2> QED
      BY <1>3, <2>1, <2>2
  <1> QED
    BY <1>1, <1>2, <1>4, <1>6, <1>7

LEMMA OnWireType ==
  ASSUME NEW x \in Sendings
  PROVE  /\ OnWire(x) \in Seq(Bytes)
         /\ Len(OnWire(x)) = 18 + Len(PayloadOf(x.msg))
         /\ Len(OnWire(x)) \in Nat /\ Len(OnWire(x)) >= 18
  <1>1. PICK w, p : w = OnWire(x) /\ p = PayloadOf(x.msg)
    OBVIOUS
  <1>2. p \in Seq(Bytes) /\ Len(p) \in Nat
    BY <1>1, SendingFacts, MessageFacts
  <1>3. PICK f, tb, d : /\ f = encode_frame(x.msg.kind.type, PayloadOf(x.msg))
                        /\ tb = TypeByte(x.msg.kind.type) /\ d = x.damage
    OBVIOUS
  <1>4. tb \in 0 .. 26 /\ Framed(f, tb, p) /\ d \in Damages /\ (d = "short" => Len(p) > 0)
    BY <1>1, <1>3, SendingFacts
  <1>5. w = Damaged(f, d)
    BY <1>1, <1>3 DEF OnWire
  <1>6. w \in Seq(Bytes) /\ Len(w) = 18 + Len(p)
    BY <1>2, <1>4, <1>5, DamageFacts
  <1>7. 18 + Len(p) \in Nat /\ 18 + Len(p) >= 18
    BY <1>2
  <1> QED
    BY <1>1, <1>6, <1>7

-----------------------------------------------------------------------------
(* What recv_frame makes of the bytes of a frame.                          *)

\* recv_frame has read the header h and as many bytes q as it announces; as far
\* as they go, they are the bytes of w.
Received(h, q, w) ==
  /\ h \in Seq(Bytes)
  /\ Len(h) = 18
  /\ \A i \in 1 .. 18 : h[i] = w[i]
  /\ q \in Seq(Bytes)
  /\ Len(q) = LengthIn(h)
  /\ \A i \in 1 .. Len(q) : 18 + i <= Len(w) => q[i] = w[18 + i]

LEMMA LengthRead ==
  ASSUME NEW h \in Seq(Bytes), Len(h) = 18, NEW n \in Nat, n <= PayloadMost + 1,
         At(h, 6, U32Bytes(n))
  PROVE  LengthIn(h) = n
  <1>1. n <= 2130706431
    BY DEF PayloadMost
  <1>2. PICK u : u = U32Bytes(n)
    OBVIOUS
  <1>3. u \in Seq(Bytes) /\ Len(u) = 4
    BY <1>2, U32BytesType
  <1>4. 6 + Len(u) = 10 /\ 10 <= Len(h) /\ 6 \in Nat /\ 10 \in Nat /\ 6 + 1 = 7
    BY <1>3
  <1>5. At(h, 6, u)
    BY <1>2
  <1>6. SubSeq(h, 6 + 1, 10) = u
    BY <1>3, <1>4, <1>5, AtSub
  <1>7. SubSeq(h, 7, 10) = u
    BY <1>4, <1>6
  <1>8. U32(u) = n
    BY <1>1, <1>2, U32Read
  <1> QED
    BY <1>7, <1>8 DEF LengthIn

LEMMA CrcRead ==
  ASSUME NEW h \in Seq(Bytes), Len(h) = 18, NEW c \in Seq(Bytes), Len(c) = 8, At(h, 10, c)
  PROVE  CrcIn(h) = c
  <1>1. 10 + Len(c) = 18 /\ 18 <= Len(h) /\ 10 \in Nat /\ 18 \in Nat /\ 10 + 1 = 11
    OBVIOUS
  <1>2. SubSeq(h, 10 + 1, 18) = c
    BY <1>1, AtSub
  <1> QED
    BY <1>1, <1>2 DEF CrcIn

\* A frame that is in order.
LEMMA SoundRead ==
  ASSUME NEW tb, NEW p \in Seq(Bytes), Len(p) <= PayloadMost, NEW f, Framed(f, tb, p),
         NEW h, NEW q, Received(h, q, f)
  PROVE  q = p /\ h[6] = tb /\ LengthIn(h) = Len(p)
  <1>1. PICK L \in Nat : L = Len(p)
    BY SeqFacts
  <1>2. PICK u : u = U32Bytes(L)
    OBVIOUS
  <1>3. u \in Seq(Bytes) /\ Len(u) = 4
    BY <1>2, U32BytesType
  <1>4. At(f, 6, u) /\ f[6] = tb /\ At(f, 18, p) /\ Len(f) = 18 + L
    BY <1>1, <1>2 DEF Framed
  <1>5. h \in Seq(Bytes) /\ Len(h) = 18 /\ \A i \in 1 .. 18 : h[i] = f[i]
    BY DEF Received
  <1>6. At(h, 6, u)
    <2>1. 6 + Len(u) <= 18 /\ 6 \in Nat /\ 18 \in Nat
      BY <1>3
    <2> QED
      BY <1>3, <1>4, <1>5, <2>1, AtSame
  <1>7. LengthIn(h) = L
    <2>1. L <= PayloadMost + 1
      <3>1. PayloadMost \in Nat
        BY DEF PayloadMost
      <3> QED
        BY <1>1, <3>1
    <2>2. At(h, 6, U32Bytes(L))
      BY <1>2, <1>6
    <2> QED
      BY <1>5, <2>1, <2>2, LengthRead
  <1>8. q \in Seq(Bytes) /\ Len(q) = L
    BY <1>7 DEF Received
  <1>9. ASSUME NEW i \in 1 .. L PROVE q[i] = p[i]
    <2>1. i \in 1 .. Len(q) /\ 18 + i <= Len(f)
      BY <1>4, <1>8
    <2>2. q[i] = f[18 + i]
      BY <2>1 DEF Received
    <2>3. f[18 + i] = p[i]
      BY <1>1, <1>4 DEF At
    <2> QED
      BY <2>2, <2>3
  <1>10. q = p
    <2>1. \A i \in 1 .. Len(q) : q[i] = p[i]
      BY <1>8, <1>9
    <2> QED
      BY <1>1, <1>8, <2>1, SeqEqual
  <1>11. 6 \in 1 .. 18
    OBVIOUS
  <1> QED
    BY <1>1, <1>4, <1>5, <1>7, <1>10, <1>11

\* A length that is one off.
LEMMA OtherLength ==
  ASSUME NEW p \in Seq(Bytes), Len(p) <= PayloadMost, NEW n \in Nat,
         n = Len(p) + 1 \/ Len(p) = n + 1,
         NEW w, At(w, 6, U32Bytes(n)), At(w, 10, Crc64(p)), NEW h, NEW q, Received(h, q, w)
  PROVE  CrcIn(h) # Crc64(q)
  <1>1. PICK u, c : u = U32Bytes(n) /\ c = Crc64(p)
    OBVIOUS
  <1>2. u \in Seq(Bytes) /\ Len(u) = 4 /\ c \in Seq(Bytes) /\ Len(c) = 8
    BY <1>1, U32BytesType, CrcType
  <1>3. h \in Seq(Bytes) /\ Len(h) = 18 /\ \A i \in 1 .. 18 : h[i] = w[i]
    BY DEF Received
  <1>4. At(h, 6, u)
    <2>1. 6 + Len(u) <= 18 /\ 6 \in Nat /\ 18 \in Nat /\ At(w, 6, u)
      BY <1>1, <1>2
    <2> QED
      BY <1>2, <1>3, <2>1, AtSame
  <1>5. At(h, 10, c)
    <2>1. 10 + Len(c) <= 18 /\ 10 \in Nat /\ 18 \in Nat /\ At(w, 10, c)
      BY <1>1, <1>2
    <2> QED
      BY <1>2, <1>3, <2>1, AtSame, ZenonT(60)
  <1>6. LengthIn(h) = n
    <2>1. n <= PayloadMost + 1
      <3>1. PayloadMost \in Nat
        BY DEF PayloadMost
      <3>2. Len(p) \in Nat
        BY SeqFacts
      <3> QED
        BY <3>1, <3>2
    <2>2. At(h, 6, U32Bytes(n))
      BY <1>1, <1>4
    <2> QED
      BY <1>3, <2>1, <2>2, LengthRead
  <1>7. CrcIn(h) = c
    BY <1>2, <1>3, <1>5, CrcRead
  <1>8. q \in Seq(Bytes) /\ Len(q) = n
    BY <1>6 DEF Received
  <1>9. Crc64(p) # Crc64(q)
    <2>1. Len(q) = Len(p) + 1 \/ Len(p) = Len(q) + 1
      BY <1>8
    <2> QED
      BY <1>8, <2>1, CrcLength
  <1> QED
    BY <1>1, <1>7, <1>9

\* A last byte that is one off: of the payload, or of the checksum.
LEMMA OtherLastByte ==
  ASSUME NEW tb, NEW p \in Seq(Bytes), Len(p) <= PayloadMost, NEW f, Framed(f, tb, p),
         NEW w, Len(w) = 18 + Len(p), LastByteOff(w, f, Len(p)),
         NEW h, NEW q, Received(h, q, w)
  PROVE  CrcIn(h) # Crc64(q)
  <1>1. PICK L \in Nat : L = Len(p)
    BY SeqFacts
  <1>2. PICK u, c : u = U32Bytes(L) /\ c = Crc64(p)
    OBVIOUS
  <1>3. u \in Seq(Bytes) /\ Len(u) = 4 /\ c \in Seq(Bytes) /\ Len(c) = 8
    BY <1>2, U32BytesType, CrcType
  <1>4. At(f, 6, u) /\ At(f, 10, c) /\ At(f, 18, p) /\ Len(f) = 18 + L
    BY <1>1, <1>2 DEF Framed
  <1>5. h \in Seq(Bytes) /\ Len(h) = 18 /\ \A i \in 1 .. 18 : h[i] = w[i]
    BY DEF Received
  <1>6. \A i \in 1 .. 17 : h[i] = f[i]
    <2> TAKE i \in 1 .. 17
    <2>1. i \in 1 .. 18 /\ i \in 1 .. 17 + Len(p)
      BY <1>1
    <2> QED
      BY <1>5, <2>1 DEF LastByteOff
  <1>7. LengthIn(h) = L
    <2>1. 6 + Len(u) <= 17 /\ 6 \in Nat /\ 17 \in Nat
      BY <1>3
    <2>2. At(h, 6, u)
      BY ONLY <1>3, <1>4, <1>6, <2>1, AtSame
    <2>3. L <= PayloadMost + 1
      <3>1. PayloadMost \in Nat
        BY DEF PayloadMost
      <3> QED
        BY <1>1, <3>1
    <2>4. At(h, 6, U32Bytes(L))
      BY <1>2, <2>2
    <2> QED
      BY <1>5, <2>3, <2>4, LengthRead
  <1>8. q \in Seq(Bytes) /\ Len(q) = L
    BY <1>7 DEF Received
  <1>9. CASE L = 0
    <2>1. q = p
      <3>1. q = <<>>
        BY <1>8, <1>9, SeqFacts
      <3>2. p = <<>>
        BY <1>1, <1>9, SeqFacts
      <3> QED
        BY <3>1, <3>2
    <2>2. PICK x : x = f[18]
      OBVIOUS
    <2>3. x = c[8]
      <3>1. 8 \in 1 .. Len(c) /\ 10 + 8 = 18
        BY <1>3
      <3>2. f[10 + 8] = c[8]
        BY <1>4, <3>1 DEF At
      <3> QED
        BY <2>2, <3>1, <3>2
    <2>4. x \in 0 .. 255
      <3>1. 8 \in 1 .. Len(c)
        BY <1>3
      <3>2. c[8] \in Bytes
        BY <1>3, <3>1, SeqFacts
      <3> QED
        BY <2>3, <3>2 DEF Bytes
    <2>5. h[18] = (x + 1) % 256
      <3>1. 18 \in 1 .. 18 /\ 18 + Len(p) = 18
        BY <1>1, <1>9
      <3>2. h[18] = w[18]
        BY <1>5, <3>1
      <3>3. w[18] = (f[18] + 1) % 256
        BY <3>1 DEF LastByteOff
      <3> QED
        BY <2>2, <3>2, <3>3
    <2>6. h[18] # x
      BY <2>4, <2>5, NextByte
    <2>7. CrcIn(h)[8] = h[18]
      <3>1. /\ 11 \in Nat \ {0} /\ 18 \in Nat /\ 11 <= 18 + 1 /\ 18 <= Len(h)
            /\ 8 \in 1 .. 18 + 1 - 11 /\ 11 - 1 + 8 = 18
        BY <1>5
      <3>2. SubSeq(h, 11, 18)[8] = h[11 - 1 + 8]
        BY <1>5, <3>1, SubSeqFacts
      <3> QED
        BY <3>1, <3>2 DEF CrcIn
    <2>8. CrcIn(h) # c
      BY <2>3, <2>6, <2>7
    <2> QED
      BY <1>2, <2>1, <2>8
  <1>10. CASE L # 0
    <2>1. \A i \in 1 .. 18 : h[i] = f[i]
      <3> TAKE i \in 1 .. 18
      <3>1. i \in 1 .. 17 + Len(p)
        BY <1>1, <1>10
      <3> QED
        BY <1>5, <3>1 DEF LastByteOff
    <2>2. CrcIn(h) = c
      <3>1. 10 + Len(c) <= 18 /\ 10 \in Nat /\ 18 \in Nat
        BY <1>3
      <3>2. At(h, 10, c)
        BY ONLY <1>3, <1>4, <2>1, <3>1, AtSame
      <3> QED
        BY <1>3, <1>5, <3>2, CrcRead
    <2>3. ASSUME NEW i \in 1 .. L PROVE q[i] = w[18 + i] /\ f[18 + i] = p[i]
      <3>1. i \in 1 .. Len(q) /\ 18 + i <= Len(w) /\ i \in 1 .. Len(p)
        BY <1>1, <1>8
      <3>2. q[i] = w[18 + i]
        BY <3>1 DEF Received
      <3>3. f[18 + i] = p[i]
        BY <1>4, <3>1 DEF At
      <3> QED
        BY <3>2, <3>3
    <2>4. \A i \in 1 .. Len(p) - 1 : q[i] = p[i]
      <3> TAKE i \in 1 .. Len(p) - 1
      <3>1. i \in 1 .. L /\ 18 + i \in 1 .. 17 + Len(p)
        BY <1>1
      <3>2. w[18 + i] = f[18 + i]
        BY <3>1 DEF LastByteOff
      <3> QED
        BY <2>3, <3>1, <3>2
    <2>5. q[Len(p)] = (p[Len(p)] + 1) % 256
      <3>1. L \in 1 .. L
        BY <1>10
      <3>2. q[L] = w[18 + L] /\ f[18 + L] = p[L]
        BY <2>3, <3>1
      <3>3. w[18 + L] = (f[18 + L] + 1) % 256
        BY <1>1 DEF LastByteOff
      <3>4. q[L] = (p[L] + 1) % 256
        BY <3>2, <3>3
      <3> QED
        BY <1>1, <3>4
    <2>6. Crc64(p) # Crc64(q)
      <3>1. Len(q) = Len(p) /\ Len(p) # 0
        BY <1>1, <1>8, <1>10
      <3>2. q \in Seq(Bytes)
        BY <1>8
      <3> QED
        BY ONLY <2>4, <2>5, <3>1, <3>2, p \in Seq(Bytes), CrcLastByte
    <2> QED
      BY <1>2, <2>2, <2>6
  <1> QED
    BY <1>9, <1>10

\* No damaged frame is taken.
LEMMA DamagedRefused ==
  ASSUME NEW tb \in 0 .. 26, NEW p \in Seq(Bytes), Len(p) <= PayloadMost,
         NEW f, Framed(f, tb, p), NEW d \in Damages, d = "short" => Len(p) > 0, d # "none",
         NEW w, w = Damaged(f, d), NEW h, NEW q, Received(h, q, w)
  PROVE  ~(HeaderAccepted(h) /\ DecodeAccepts(h, q))
  <1> USE DEF Received
  <1>1. PICK L \in Nat : L = Len(p)
    BY SeqFacts
  <1>2. h \in Seq(Bytes) /\ Len(h) = 18 /\ \A i \in 1 .. 18 : h[i] = w[i]
    OBVIOUS
  <1> HIDE DEF Received
  <1>3. CASE d = "magic"
    <2>1. h[1] = 0
      <3>1. 1 \in 1 .. 18 /\ w[1] = 0
        BY <1>3, DamageFacts
      <3> QED
        BY <1>2, <3>1
    <2>2. SubSeq(h, 1, 4)[1] = h[1]
      <3>1. /\ 1 \in Nat \ {0} /\ 4 \in Nat /\ 1 <= 4 + 1 /\ 4 <= Len(h)
            /\ 1 \in 1 .. 4 + 1 - 1 /\ 1 - 1 + 1 = 1
        BY <1>2
      <3>2. SubSeq(h, 1, 4)[1] = h[1 - 1 + 1]
        BY <1>2, <3>1, SubSeqFacts
      <3> QED
        BY <3>1, <3>2
    <2>3. Magic[1] = 69
      BY DEF Magic
    <2> QED
      BY <2>1, <2>2, <2>3 DEF HeaderAccepted
  <1>4. CASE d = "version"
    <2>1. 5 \in 1 .. 18 /\ w[5] = 2
      BY <1>4, DamageFacts
    <2>2. h[5] = 2
      BY <1>2, <2>1
    <2> QED
      BY <2>2 DEF HeaderAccepted, Version
  <1>5. CASE d = "type"
    <2>1. 6 \in 1 .. 18 /\ w[6] = 27
      BY <1>5, DamageFacts
    <2>2. h[6] = 27
      BY <1>2, <2>1
    <2>3. Len(TypeNames) = 27
      BY DEF TypeNames
    <2> QED
      BY <2>2, <2>3 DEF DecodeAccepts
  <1>6. CASE d = "limit"
    <2>1. PICK n : n = MaxPayload + 1
      OBVIOUS
    <2>2. MaxPayload \in Nat /\ n \in Nat /\ n <= PayloadMost + 1
      <3>1. LongField \in Nat /\ PayloadMost \in Nat /\ LongField <= PayloadMost
        BY DEF LongField, PayloadMost
      <3>2. MaxPayload \in 0 .. LongField
        BY WireAssumption
      <3> QED
        BY <2>1, <3>1, <3>2
    <2>3. PICK u : u = U32Bytes(n)
      OBVIOUS
    <2>4. u \in Seq(Bytes) /\ Len(u) = 4
      BY <2>2, <2>3, U32BytesType
    <2>5. At(w, 6, u)
      BY <1>6, <2>1, <2>3, DamageFacts
    <2>6. 6 + Len(u) <= 18 /\ 6 \in Nat /\ 18 \in Nat
      BY <2>4
    <2>7. At(h, 6, u)
      BY ONLY <1>2, <2>4, <2>5, <2>6, AtSame
    <2>8. At(h, 6, U32Bytes(n))
      BY <2>3, <2>7
    <2>9. LengthIn(h) = n
      BY <1>2, <2>2, <2>8, LengthRead
    <2> QED
      BY <2>1, <2>2, <2>9 DEF HeaderAccepted
  <1>7. CASE d = "short"
    <2>1. PICK n : n = Len(p) - 1
      OBVIOUS
    <2>2. n \in Nat /\ Len(p) = n + 1
      BY <1>1, <1>7, <2>1
    <2>3. At(w, 6, U32Bytes(n)) /\ At(w, 10, Crc64(p))
      BY <1>7, <2>1, DamageFacts
    <2>4. CrcIn(h) # Crc64(q)
      BY <2>2, <2>3, OtherLength
    <2> QED
      BY <2>4 DEF DecodeAccepts
  <1>8. CASE d = "long"
    <2>1. PICK n : n = Len(p) + 1
      OBVIOUS
    <2>2. n \in Nat
      BY <1>1, <2>1
    <2>3. At(w, 6, U32Bytes(n)) /\ At(w, 10, Crc64(p))
      BY <1>8, <2>1, DamageFacts
    <2>4. CrcIn(h) # Crc64(q)
      BY <2>1, <2>2, <2>3, OtherLength
    <2> QED
      BY <2>4 DEF DecodeAccepts
  <1>9. CASE d = "checksum"
    <2>1. Len(w) = 18 + Len(p) /\ LastByteOff(w, f, Len(p))
      BY <1>9, DamageFacts
    <2>2. CrcIn(h) # Crc64(q)
      BY <2>1, OtherLastByte
    <2> QED
      BY <2>2 DEF DecodeAccepts
  <1> QED
    BY <1>3, <1>4, <1>5, <1>6, <1>7, <1>8, <1>9 DEF Damages

\* What recv_frame takes is a frame that was sent, and none that ends the
\* connection.
LEMMA Verdict ==
  ASSUME NEW x \in Sendings, NEW h, NEW q, Received(h, q, OnWire(x)),
         HeaderAccepted(h), DecodeAccepts(h, q)
  PROVE  /\ ~Ends(x)
         /\ q = PayloadOf(x.msg)
         /\ TypeNames[h[6] + 1] = x.msg.kind.type
         /\ Len(OnWire(x)) = 18 + Len(q)
  <1>1. PICK f, tb, d, p : /\ f = encode_frame(x.msg.kind.type, PayloadOf(x.msg))
                           /\ tb = TypeByte(x.msg.kind.type) /\ d = x.damage
                           /\ p = PayloadOf(x.msg)
    OBVIOUS
  <1>2. PICK w : w = Damaged(f, d)
    OBVIOUS
  <1>3. w = OnWire(x) /\ Received(h, q, w)
    BY <1>1, <1>2 DEF OnWire
  <1>4. /\ tb \in 0 .. 26 /\ Framed(f, tb, p) /\ d \in Damages /\ (d = "short" => Len(p) > 0)
        /\ TypeNames[tb + 1] = x.msg.kind.type
    BY <1>1, SendingFacts
  <1>5. p \in Seq(Bytes) /\ Len(p) \in Nat /\ Len(p) <= PayloadMost
    BY <1>1, SendingFacts, MessageFacts
  <1>6. d = "none"
    BY <1>2, <1>3, <1>4, <1>5, DamagedRefused
  <1>7. w = f
    BY <1>2, <1>6 DEF Damaged
  <1>8. Received(h, q, f)
    BY <1>3, <1>7
  <1>9. q = p /\ h[6] = tb /\ LengthIn(h) = Len(p)
    BY <1>4, <1>5, <1>8, SoundRead
  <1>10. ~Ends(x)
    <2>1. Len(p) <= MaxPayload
      BY <1>9 DEF HeaderAccepted
    <2>2. MaxPayload \in Nat
      <3>1. LongField \in Nat
        BY DEF LongField
      <3>2. MaxPayload \in 0 .. LongField
        BY WireAssumption
      <3> QED
        BY <3>1, <3>2
    <2>3. ~(Len(p) > MaxPayload)
      BY <1>5, <2>1, <2>2
    <2> QED
      BY <1>1, <1>6, <2>3 DEF Ends
  <1>11. Len(w) = 18 + Len(p)
    BY <1>4, <1>7 DEF Framed
  <1> QED
    BY <1>1, <1>3, <1>4, <1>9, <1>10, <1>11

-----------------------------------------------------------------------------
(* The stream.  T stands for all the bytes given to send_frame so far, and *)
(* cut[i] for the number of them up to the end of the frame i.             *)

Sequenced(T, cut, s) ==
  /\ T \in Seq(Bytes)
  /\ cut \in [0 .. Len(s) -> Nat]
  /\ cut[Len(s)] = Len(T)
  /\ \A i \in 1 .. Len(s) :
       /\ cut[i] = cut[i - 1] + Len(OnWire(s[i]))
       /\ cut[i] <= Len(T)
       /\ At(T, cut[i - 1], OnWire(s[i]))

\* Behind the first b bytes, T goes on with a header h, or as much of one as has
\* been read; with the bytes g read of what is waited for; and with the bytes r
\* that are under way.
Flows(T, b, h, g, r) ==
  /\ At(T, b, h)
  /\ At(T, b + Len(h), g)
  /\ At(T, b + Len(h) + Len(g), r)

LEMMA SmallestOfThree ==
  ASSUME NEW a \in Nat, NEW b \in Nat, NEW c \in Nat, NEW n, n = Min({a, b, c})
  PROVE  n \in {a, b, c} /\ n <= a /\ n <= b /\ n <= c
  <1>1. \E m \in {a, b, c} : \A l \in {a, b, c} : m =< l
    OBVIOUS
  <1>2. n \in {a, b, c} /\ \A l \in {a, b, c} : n =< l
    BY <1>1 DEF Min
  <1> QED
    BY <1>2

LEMMA AtEmpty ==
  ASSUME NEW T, NEW k
  PROVE  At(T, k, <<>>)
  BY DEF At

\* A beginning of what follows.
LEMMA AtBeginning ==
  ASSUME NEW S, NEW T, NEW k \in Nat, NEW s \in Seq(S), NEW n \in Nat, n <= Len(s), At(T, k, s)
  PROVE  /\ SubSeq(s, 1, n) \in Seq(S) /\ Len(SubSeq(s, 1, n)) = n
         /\ At(T, k, SubSeq(s, 1, n))
  <1>1. PICK u : u = SubSeq(s, 1, n)
    OBVIOUS
  <1>2. Len(s) \in Nat
    BY SeqFacts
  <1>3. 1 \in Nat \ {0} /\ 1 <= n + 1 /\ n + 1 - 1 = n /\ \A i \in 1 .. n : 1 - 1 + i = i
    OBVIOUS
  <1>4. u \in Seq(S) /\ Len(u) = n + 1 - 1 /\ \A i \in 1 .. n + 1 - 1 : u[i] = s[1 - 1 + i]
    BY <1>1, <1>3, SubSeqFacts
  <1>5. Len(u) = n /\ \A i \in 1 .. n : u[i] = s[i]
    BY <1>3, <1>4
  <1>6. ASSUME NEW i \in 1 .. Len(u) PROVE T[k + i] = u[i]
    <2>1. i \in 1 .. n /\ i \in 1 .. Len(s)
      BY <1>2, <1>5
    <2>2. T[k + i] = s[i]
      BY <2>1 DEF At
    <2> QED
      BY <1>5, <2>1, <2>2
  <1>7. At(T, k, u)
    BY <1>6 DEF At
  <1> QED
    BY <1>1, <1>4, <1>5, <1>7

\* The rest of it.
LEMMA AtRest ==
  ASSUME NEW S, NEW T, NEW k \in Nat, NEW s \in Seq(S), NEW n \in Nat, n <= Len(s), At(T, k, s)
  PROVE  /\ Drop(s, n) \in Seq(S) /\ Len(Drop(s, n)) = Len(s) - n
         /\ At(T, k + n, Drop(s, n))
  <1>1. PICK u, l : u = Drop(s, n) /\ l = Len(s)
    OBVIOUS
  <1>2. l \in Nat
    BY <1>1, SeqFacts
  <1>3. u \in Seq(S) /\ Len(u) = l - n /\ \A i \in 1 .. l - n : u[i] = s[n + i]
    BY <1>1, DropFacts
  <1>4. ASSUME NEW i \in 1 .. Len(u) PROVE T[(k + n) + i] = u[i]
    <2>1. i \in 1 .. l - n /\ n + i \in 1 .. Len(s) /\ (k + n) + i = k + (n + i)
      BY <1>1, <1>2, <1>3
    <2>2. T[k + (n + i)] = s[n + i]
      BY <2>1 DEF At
    <2> QED
      BY <1>3, <2>1, <2>2
  <1>5. At(T, k + n, u)
    BY <1>4 DEF At
  <1> QED
    BY <1>1, <1>3, <1>5

\* Two parts that follow each other.
LEMMA AtBoth ==
  ASSUME NEW S, NEW T, NEW k \in Nat, NEW s \in Seq(S), NEW t \in Seq(S),
         At(T, k, s), At(T, k + Len(s), t)
  PROVE  /\ s \o t \in Seq(S) /\ Len(s \o t) = Len(s) + Len(t)
         /\ At(T, k, s \o t)
  <1>1. PICK u, m, n : u = s \o t /\ m = Len(s) /\ n = Len(t)
    OBVIOUS
  <1>2. m \in Nat /\ n \in Nat
    BY <1>1, SeqFacts
  <1>3. /\ u \in Seq(S) /\ Len(u) = m + n
        /\ \A i \in 1 .. m : u[i] = s[i]
        /\ \A i \in 1 .. n : u[m + i] = t[i]
    BY ONLY <1>1, s \in Seq(S), t \in Seq(S), ConcatFacts
  <1>4. ASSUME NEW i \in 1 .. Len(u) PROVE T[k + i] = u[i]
    <2>1. CASE i <= m
      <3>1. i \in 1 .. m
        BY <1>2, <1>3, <2>1
      <3>2. T[k + i] = s[i]
        BY <1>1, <3>1 DEF At
      <3> QED
        BY <1>3, <3>1, <3>2
    <2>2. CASE ~(i <= m)
      <3>1. PICK j \in 1 .. n : i = m + j
        <4>1. i - m \in 1 .. n /\ i = m + (i - m)
          BY <1>2, <1>3, <2>2
        <4> QED
          BY <4>1
      <3>2. T[(k + m) + j] = t[j]
        BY <1>1 DEF At
      <3>3. (k + m) + j = k + i
        BY <1>2, <3>1
      <3> QED
        BY <1>3, <3>1, <3>2, <3>3
    <2> QED
      BY <2>1, <2>2
  <1>5. At(T, k, u)
    BY <1>4 DEF At
  <1> QED
    BY <1>1, <1>3, <1>5

\* One more frame is sent.
LEMMA SequencedMore ==
  ASSUME NEW s \in Seq(Sendings), NEW x \in Sendings, NEW T, NEW cut, Sequenced(T, cut, s)
  PROVE  \E c : /\ Sequenced(T \o OnWire(x), c, Append(s, x))
                /\ \A i \in 0 .. Len(s) : c[i] = cut[i]
  <1>1. PICK n, w, U, t : /\ n = Len(s) /\ w = OnWire(x) /\ U = T \o w /\ t = Append(s, x)
    OBVIOUS
  <1>2. n \in Nat /\ Len(t) = n + 1 /\ t[n + 1] = x /\ \A i \in 1 .. n : t[i] = s[i]
    BY ONLY <1>1, s \in Seq(Sendings), x \in Sendings
  <1>3. w \in Seq(Bytes) /\ T \in Seq(Bytes)
    BY <1>1, OnWireType DEF Sequenced
  <1>4. Len(w) \in Nat /\ Len(T) \in Nat
    BY <1>3, SeqFacts
  <1>5. U \in Seq(Bytes) /\ Len(U) = Len(T) + Len(w) /\ At(U, Len(T), w)
    BY ONLY <1>1, <1>3, JoinedFacts
  <1>6. PICK c : c = [i \in 0 .. n + 1 |-> IF i = n + 1 THEN Len(U) ELSE cut[i]]
    OBVIOUS
  <1>7. cut \in [0 .. n -> Nat] /\ cut[n] = Len(T)
    BY <1>1 DEF Sequenced
  <1>8. c \in [0 .. n + 1 -> Nat] /\ c[n + 1] = Len(U) /\ \A i \in 0 .. n : c[i] = cut[i]
    <2>1. Len(U) \in Nat
      BY <1>4, <1>5
    <2>2. ASSUME NEW i \in 0 .. n + 1 PROVE (IF i = n + 1 THEN Len(U) ELSE cut[i]) \in Nat
      BY <1>2, <1>7, <2>1
    <2>3. c \in [0 .. n + 1 -> Nat]
      BY <1>6, <2>2
    <2>4. n + 1 \in 0 .. n + 1 /\ \A i \in 0 .. n : i \in 0 .. n + 1 /\ i # n + 1
      BY <1>2
    <2> QED
      BY <1>6, <2>3, <2>4
  <1>9. ASSUME NEW i \in 1 .. n + 1
        PROVE  /\ c[i] = c[i - 1] + Len(OnWire(t[i]))
               /\ c[i] <= Len(U)
               /\ At(U, c[i - 1], OnWire(t[i]))
    <2>1. CASE i = n + 1
      <3>1. i - 1 = n /\ n \in 0 .. n
        BY <1>2, <2>1
      <3>2. c[i - 1] = Len(T) /\ c[i] = Len(U) /\ OnWire(t[i]) = w
        BY <1>1, <1>2, <1>7, <1>8, <2>1, <3>1
      <3> QED
        BY <1>4, <1>5, <3>2
    <2>2. CASE i # n + 1
      <3>1. i \in 1 .. n /\ i \in 0 .. n /\ i - 1 \in 0 .. n
        BY <1>2, <2>2
      <3>2. PICK v, a : v = OnWire(s[i]) /\ a = cut[i - 1]
        OBVIOUS
      <3>3. OnWire(t[i]) = v /\ c[i - 1] = a /\ c[i] = cut[i]
        BY <1>2, <1>8, <3>1, <3>2
      <3>4. cut[i] = a + Len(v) /\ cut[i] <= Len(T) /\ At(T, a, v)
        BY <1>1, <3>1, <3>2 DEF Sequenced
      <3>5. v \in Seq(Bytes) /\ a \in Nat
        <4>1. s[i] \in Sendings
          BY <1>1, <3>1, SeqFacts
        <4> QED
          BY <1>7, <3>1, <3>2, <4>1, OnWireType
      <3>6. Len(v) \in Nat
        BY <3>5, SeqFacts
      <3>7. a + Len(v) <= Len(T)
        BY <3>4
      <3>8. At(U, a, v)
        BY ONLY <1>1, <1>3, <3>4, <3>5, <3>7, AtJoined
      <3>9. cut[i] <= Len(U)
        BY <1>4, <1>5, <3>4, <3>5, <3>6
      <3> QED
        BY <3>3, <3>4, <3>8, <3>9
    <2> QED
      BY <2>1, <2>2
  <1>10. Sequenced(U, c, t)
    BY <1>2, <1>5, <1>8, <1>9 DEF Sequenced
  <1> QED
    BY <1>1, <1>8, <1>10

LEMMA FlowsMore ==
  ASSUME NEW T \in Seq(Bytes), NEW b \in Nat, NEW h \in Seq(Bytes), NEW g \in Seq(Bytes),
         NEW r \in Seq(Bytes), NEW w \in Seq(Bytes), Flows(T, b, h, g, r),
         b + Len(h) + Len(g) + Len(r) = Len(T)
  PROVE  /\ Flows(T \o w, b, h, g, r \o w)
         /\ r \o w \in Seq(Bytes)
         /\ b + Len(h) + Len(g) + Len(r \o w) = Len(T \o w)
  <1>1. PICK U, c, d : U = T \o w /\ c = b + Len(h) /\ d = b + Len(h) + Len(g)
    OBVIOUS
  <1>2. Len(h) \in Nat /\ Len(g) \in Nat /\ Len(r) \in Nat /\ Len(w) \in Nat /\ Len(T) \in Nat
    BY SeqFacts
  <1>3. /\ c \in Nat /\ d \in Nat /\ b + Len(h) <= Len(T) /\ c + Len(g) <= Len(T)
        /\ d + Len(r) <= Len(T) /\ d + Len(r) = Len(T)
    BY <1>1, <1>2
  <1>4. At(T, b, h) /\ At(T, c, g) /\ At(T, d, r)
    BY <1>1 DEF Flows
  <1>5. At(U, b, h)
    BY ONLY <1>1, <1>3, <1>4, T \in Seq(Bytes), w \in Seq(Bytes), h \in Seq(Bytes), b \in Nat,
            AtJoined
  <1>6. At(U, c, g)
    BY ONLY <1>1, <1>3, <1>4, T \in Seq(Bytes), w \in Seq(Bytes), g \in Seq(Bytes), AtJoined
  <1>7. At(U, d, r)
    BY ONLY <1>1, <1>3, <1>4, T \in Seq(Bytes), w \in Seq(Bytes), r \in Seq(Bytes), AtJoined
  <1>8. At(U, Len(T), w) /\ Len(U) = Len(T) + Len(w)
    BY ONLY <1>1, T \in Seq(Bytes), w \in Seq(Bytes), JoinedFacts
  <1>9. At(U, d + Len(r), w)
    BY <1>3, <1>8
  <1>10. At(U, d, r \o w) /\ r \o w \in Seq(Bytes) /\ Len(r \o w) = Len(r) + Len(w)
    BY ONLY <1>3, <1>7, <1>9, r \in Seq(Bytes), w \in Seq(Bytes), AtBoth
  <1>11. b + Len(h) + Len(g) + Len(r \o w) = Len(U)
    <2>1. Len(r \o w) = Len(r) + Len(w) /\ Len(U) = Len(T) + Len(w)
      BY <1>8, <1>10
    <2> QED
      BY ONLY <1>2, <2>1, b \in Nat, b + Len(h) + Len(g) + Len(r) = Len(T)
  <1> QED
    BY <1>1, <1>5, <1>6, <1>10, <1>11 DEF Flows

LEMMA FlowsLess ==
  ASSUME NEW T, NEW b \in Nat, NEW h \in Seq(Bytes), NEW g \in Seq(Bytes),
         NEW r \in Seq(Bytes), NEW n \in Nat, n <= Len(r), Flows(T, b, h, g, r)
  PROVE  /\ Flows(T, b, h, g, SubSeq(r, 1, n))
         /\ SubSeq(r, 1, n) \in Seq(Bytes) /\ Len(SubSeq(r, 1, n)) = n
  <1>1. PICK d : d = b + Len(h) + Len(g)
    OBVIOUS
  <1>2. d \in Nat
    BY <1>1, SeqFacts
  <1>3. At(T, d, r)
    BY <1>1 DEF Flows
  <1>4. /\ SubSeq(r, 1, n) \in Seq(Bytes) /\ Len(SubSeq(r, 1, n)) = n
        /\ At(T, d, SubSeq(r, 1, n))
    BY <1>2, <1>3, AtBeginning
  <1> QED
    BY <1>1, <1>4 DEF Flows

\* The next n bytes are read.
LEMMA FlowsOn ==
  ASSUME NEW T, NEW b \in Nat, NEW h \in Seq(Bytes), NEW g \in Seq(Bytes),
         NEW r \in Seq(Bytes), NEW n \in Nat, n <= Len(r), Flows(T, b, h, g, r)
  PROVE  /\ Flows(T, b, h, g \o SubSeq(r, 1, n), Drop(r, n))
         /\ g \o SubSeq(r, 1, n) \in Seq(Bytes) /\ Len(g \o SubSeq(r, 1, n)) = Len(g) + n
         /\ Drop(r, n) \in Seq(Bytes) /\ Len(Drop(r, n)) = Len(r) - n
  <1>1. PICK c, d, u, v : /\ c = b + Len(h) /\ d = b + Len(h) + Len(g)
                          /\ u = SubSeq(r, 1, n) /\ v = Drop(r, n)
    OBVIOUS
  <1>2. Len(h) \in Nat /\ Len(g) \in Nat /\ Len(r) \in Nat
    BY SeqFacts
  <1>3. c \in Nat /\ d \in Nat /\ c + Len(g) = d
    BY <1>1, <1>2
  <1>4. At(T, b, h) /\ At(T, c, g) /\ At(T, d, r)
    BY <1>1 DEF Flows
  <1>5. u \in Seq(Bytes) /\ Len(u) = n /\ At(T, d, u)
    BY <1>1, <1>3, <1>4, AtBeginning
  <1>6. v \in Seq(Bytes) /\ Len(v) = Len(r) - n /\ At(T, d + n, v)
    <2>1. d \in Nat /\ At(T, d, r)
      BY <1>3, <1>4
    <2>2. Drop(r, n) \in Seq(Bytes) /\ Len(Drop(r, n)) = Len(r) - n
      BY ONLY r \in Seq(Bytes), n \in Nat, n <= Len(r), DropFacts
    <2>3. At(T, d + n, Drop(r, n))
      BY ONLY <2>1, r \in Seq(Bytes), n \in Nat, n <= Len(r), AtRest
    <2> QED
      BY <1>1, <2>2, <2>3
  <1>7. PICK a : a = g \o u
    OBVIOUS
  <1>8. a \in Seq(Bytes) /\ Len(a) = Len(g) + Len(u) /\ At(T, c, a)
    <2>1. At(T, c + Len(g), u) /\ u \in Seq(Bytes)
      BY <1>3, <1>5
    <2> QED
      BY ONLY <1>3, <1>4, <1>7, <2>1, g \in Seq(Bytes), AtBoth
  <1>9. b + Len(h) + Len(a) = d + n
    BY <1>1, <1>2, <1>5, <1>8
  <1>10. Flows(T, b, h, a, v)
    BY <1>1, <1>4, <1>6, <1>8, <1>9 DEF Flows
  <1> QED
    BY <1>1, <1>5, <1>6, <1>7, <1>8, <1>10

\* A header is complete.
LEMMA FlowsHeader ==
  ASSUME NEW T, NEW b \in Nat, NEW g \in Seq(Bytes), NEW r, Flows(T, b, <<>>, g, r)
  PROVE  Flows(T, b, g, <<>>, r)
  <1>1. PICK n \in Nat : n = Len(g)
    BY SeqFacts
  <1>2. Len(<<>>) = 0 /\ b + 0 = b /\ b + 0 + n = b + n /\ b + n + 0 = b + n
    OBVIOUS
  <1>3. At(T, b + 0, g) /\ At(T, b + 0 + n, r)
    BY <1>1, <1>2 DEF Flows
  <1>4. At(T, b, g) /\ At(T, b + n + 0, r)
    BY <1>2, <1>3
  <1> QED
    BY <1>1, <1>2, <1>4, AtEmpty DEF Flows

\* recv_frame takes the frame of header h and payload q that starts behind the first
\* b bytes.
Taken(T, b, h, q, r) ==
  /\ h \in Seq(Bytes) /\ Len(h) = 18 /\ HeaderAccepted(h)
  /\ q \in Seq(Bytes) /\ Len(q) = LengthIn(h) /\ DecodeAccepts(h, q)
  /\ Flows(T, b, h, q, r)
  /\ b + 18 + Len(q) <= Len(T)

\* They are what send_frame made of the message i, and r follows them.
IsFrame(T, cut, s, i, b, h, q, r) ==
  /\ i \in 1 .. Len(s)
  /\ ~Ends(s[i])
  /\ q = PayloadOf(s[i].msg)
  /\ TypeNames[h[6] + 1] = s[i].msg.kind.type
  /\ cut[i] = b + 18 + Len(q)
  /\ Flows(T, cut[i], <<>>, <<>>, r)

\* The next frame that recv_frame takes is the next one that was sent.
LEMMA NextArrives ==
  ASSUME NEW s \in Seq(Sendings), NEW T, NEW cut, Sequenced(T, cut, s),
         NEW k \in 0 .. Len(s), NEW b, b = cut[k], NEW h, NEW q, NEW r, Taken(T, b, h, q, r)
  PROVE  IsFrame(T, cut, s, k + 1, b, h, q, r)
  <1>0. /\ h \in Seq(Bytes) /\ Len(h) = 18 /\ HeaderAccepted(h)
        /\ q \in Seq(Bytes) /\ Len(q) = LengthIn(h) /\ DecodeAccepts(h, q)
        /\ Flows(T, b, h, q, r)
        /\ b + 18 + Len(q) <= Len(T)
    BY DEF Taken
  <1>1. PICK n, t, l : n = Len(s) /\ t = Len(T) /\ l = Len(q)
    OBVIOUS
  <1>2. n \in Nat /\ t \in Nat /\ l \in Nat /\ k \in 0 .. n
    <2>1. T \in Seq(Bytes)
      BY DEF Sequenced
    <2> QED
      BY <1>0, <1>1, <2>1, SeqFacts
  <1>3. b \in Nat /\ cut[n] = t
    BY <1>1 DEF Sequenced
  <1>4. k # n
    BY <1>0, <1>1, <1>2, <1>3
  <1>5. PICK i : i = k + 1
    OBVIOUS
  <1>6. i \in 1 .. Len(s) /\ i - 1 = k
    BY <1>1, <1>2, <1>4, <1>5
  <1>7. PICK x, w : x = s[i] /\ w = OnWire(x)
    OBVIOUS
  <1>8. x \in Sendings
    BY <1>6, <1>7, SeqFacts
  <1>9. w \in Seq(Bytes) /\ Len(w) \in Nat /\ Len(w) >= 18
    BY <1>7, <1>8, OnWireType
  <1>10. cut[i] = b + Len(w) /\ At(T, b, w)
    BY <1>6, <1>7 DEF Sequenced
  <1>11. At(T, b, h) /\ At(T, b + 18, q) /\ At(T, b + 18 + l, r)
    BY <1>0, <1>1 DEF Flows
  <1>12. \A j \in 1 .. 18 : h[j] = w[j]
    <2> TAKE j \in 1 .. 18
    <2>1. j \in 1 .. Len(h) /\ j \in 1 .. Len(w)
      BY <1>0, <1>9
    <2>2. T[b + j] = h[j]
      BY <1>11, <2>1 DEF At
    <2>3. T[b + j] = w[j]
      BY <1>10, <2>1 DEF At
    <2> QED
      BY <2>2, <2>3
  <1>13. \A j \in 1 .. Len(q) : 18 + j <= Len(w) => q[j] = w[18 + j]
    <2> TAKE j \in 1 .. Len(q)
    <2> HAVE 18 + j <= Len(w)
    <2>0. j \in 1 .. l
      BY <1>1
    <2>1. 18 + j \in 1 .. Len(w) /\ (b + 18) + j = b + (18 + j)
      BY ONLY <1>2, <1>3, <1>9, <2>0, 18 + j <= Len(w)
    <2>2. T[(b + 18) + j] = q[j]
      BY <1>11 DEF At
    <2>3. T[b + (18 + j)] = w[18 + j]
      BY <1>10, <2>1 DEF At
    <2> QED
      BY <2>1, <2>2, <2>3
  <1>14. Received(h, q, w)
    BY <1>0, <1>12, <1>13 DEF Received
  <1>15. /\ ~Ends(x) /\ q = PayloadOf(x.msg) /\ TypeNames[h[6] + 1] = x.msg.kind.type
         /\ Len(w) = 18 + Len(q)
    BY <1>0, <1>7, <1>8, <1>14, Verdict
  <1>16. cut[i] = b + 18 + l
    <2>1. cut[i] = b + (18 + l)
      BY <1>1, <1>10, <1>15
    <2>2. b + (18 + l) = b + 18 + l
      BY ONLY <1>2, <1>3
    <2> QED
      BY <2>1, <2>2
  <1>17. Flows(T, cut[i], <<>>, <<>>, r)
    <2>1. PICK c : c = cut[i]
      OBVIOUS
    <2>2. c \in Nat /\ At(T, c, r)
      BY <1>2, <1>3, <1>11, <1>16, <2>1
    <2>3. Len(<<>>) = 0 /\ c + 0 = c /\ c + 0 + 0 = c
      BY <2>2
    <2>4. At(T, c + 0 + 0, r)
      BY <2>2, <2>3
    <2>5. Flows(T, c, <<>>, <<>>, r)
      BY <2>3, <2>4, AtEmpty DEF Flows
    <2> QED
      BY <2>1, <2>5
  <1> QED
    BY <1>1, <1>5, <1>6, <1>7, <1>15, <1>16, <1>17 DEF IsFrame

-----------------------------------------------------------------------------
(* The invariant of the stream.                                            *)

FrameOf(x) == [type |-> x.msg.kind.type, payload |-> PayloadOf(x.msg)]

\* The frames returned are the first ones sent, and none that ends the connection.
ReturnedAsSent ==
  /\ Len(frames) <= Len(sent)
  /\ \A i \in 1 .. Len(frames) : frames[i] = FrameOf(sent[i]) /\ ~Ends(sent[i])

\* recv_exact has got less than it waits for.
Waiting ==
  /\ part = "header" => hdr = <<>> /\ Len(buf) < 18
  /\ part = "payload" => Len(hdr) = 18 /\ HeaderAccepted(hdr) /\ Len(buf) < LengthIn(hdr)

\* Behind the frames returned, all the bytes sent go on with what has been read and
\* what is under way; while the sender is there, none of them is missing.
Aligned(T, cut) ==
  /\ Sequenced(T, cut, sent)
  /\ Flows(T, cut[Len(frames)], hdr, buf, stream)
  /\ cut[Len(frames)] + Len(hdr) + Len(buf) + Len(stream) <= Len(T)
  /\ alive => cut[Len(frames)] + Len(hdr) + Len(buf) + Len(stream) = Len(T)

WTypes ==
  /\ sent \in Seq(Sendings)
  /\ stream \in Seq(Bytes)
  /\ part \in {"header", "payload", "closed"}
  /\ buf \in Seq(Bytes)
  /\ hdr \in Seq(Bytes)
  /\ frames \in Seq({FrameOf(x) : x \in Sendings})

WInv ==
  /\ WTypes
  /\ ReturnedAsSent
  /\ Waiting
  /\ part # "closed" => \E T, cut : Aligned(T, cut)

LEMMA WInvInit == WInit => WInv
  <1> SUFFICES ASSUME WInit PROVE WInv
    OBVIOUS
  <1>1. /\ sent = <<>> /\ stream = <<>> /\ part = "header" /\ buf = <<>> /\ hdr = <<>>
        /\ frames = <<>>
    BY DEF WInit
  <1>2. WTypes
    BY <1>1 DEF WTypes
  <1>3. ReturnedAsSent
    BY <1>1 DEF ReturnedAsSent
  <1>4. Waiting
    BY <1>1 DEF Waiting
  <1>5. \E T, cut : Aligned(T, cut)
    <2>1. PICK T, cut : T = <<>> /\ cut = [i \in 0 .. 0 |-> 0]
      OBVIOUS
    <2>2. T \in Seq(Bytes) /\ Len(T) = 0 /\ cut \in [0 .. 0 -> Nat] /\ cut[0] = 0
      BY <2>1
    <2>3. Sequenced(T, cut, sent)
      BY <1>1, <2>2 DEF Sequenced
    <2>4. Flows(T, cut[0], hdr, buf, stream)
      BY <1>1, AtEmpty DEF Flows
    <2> QED
      BY <1>1, <2>2, <2>3, <2>4 DEF Aligned
  <1> QED
    BY <1>2, <1>3, <1>4, <1>5 DEF WInv

\* send_frame.
LEMMA SendKeepsWInv ==
  ASSUME WInv, NEW m \in Messages, NEW damage \in Damages, SendFrame(m, damage)
  PROVE  WInv'
  <1>1. PICK x : x = [msg |-> m, damage |-> damage]
    OBVIOUS
  <1>2. x \in Sendings
    BY <1>1 DEF Sendings, SendFrame
  <1>3. sent' = Append(sent, x) /\ stream' = stream \o OnWire(x) /\ alive
    BY <1>1 DEF SendFrame, OnWire
  <1>4. alive' = alive /\ part' = part /\ buf' = buf /\ hdr' = hdr /\ frames' = frames
    BY DEF SendFrame
  <1>5. WTypes
    BY DEF WInv
  <1>6. OnWire(x) \in Seq(Bytes)
    BY <1>2, OnWireType
  <1>7. sent \in Seq(Sendings) /\ stream \in Seq(Bytes)
    BY <1>5 DEF WTypes
  <1>8. /\ sent' \in Seq(Sendings) /\ Len(sent) \in Nat /\ Len(sent') = Len(sent) + 1
        /\ \A i \in 1 .. Len(sent) : sent'[i] = sent[i]
    BY ONLY <1>2, <1>3, <1>7
  <1>9. WTypes'
    <2>1. stream' \in Seq(Bytes)
      BY ONLY <1>3, <1>6, <1>7, ConcatFacts
    <2> QED
      BY <1>4, <1>5, <1>8, <2>1 DEF WTypes
  <1>10. ReturnedAsSent'
    <2>1. Len(frames) \in Nat /\ Len(frames) <= Len(sent)
      BY <1>5, SeqFacts DEF WInv, ReturnedAsSent, WTypes
    <2>2. Len(frames') <= Len(sent')
      BY <1>4, <1>8, <2>1
    <2>3. ASSUME NEW i \in 1 .. Len(frames') PROVE frames'[i] = FrameOf(sent'[i]) /\ ~Ends(sent'[i])
      <3>1. i \in 1 .. Len(frames) /\ i \in 1 .. Len(sent)
        BY <1>4, <1>8, <2>1
      <3> QED
        BY <1>4, <1>8, <3>1 DEF WInv, ReturnedAsSent
    <2> QED
      BY <2>2, <2>3 DEF ReturnedAsSent
  <1>11. Waiting'
    BY <1>4 DEF WInv, Waiting
  <1>12. ASSUME part' # "closed" PROVE (\E T, cut : Aligned(T, cut))'
    <2>1. PICK T, cut : Aligned(T, cut)
      BY <1>4, <1>12 DEF WInv
    <2>2. PICK w, b, U : w = OnWire(x) /\ b = cut[Len(frames)] /\ U = T \o OnWire(x)
      OBVIOUS
    <2>3. PICK c : Sequenced(U, c, sent') /\ \A i \in 0 .. Len(sent) : c[i] = cut[i]
      BY <1>2, <1>3, <1>7, <2>1, <2>2, SequencedMore DEF Aligned
    <2>4. Len(frames) \in 0 .. Len(sent)
      BY <1>5, <1>8, SeqFacts DEF WInv, ReturnedAsSent, WTypes
    <2>5. b \in Nat /\ T \in Seq(Bytes)
      BY <2>1, <2>2, <2>4 DEF Aligned, Sequenced
    <2>6. Flows(T, b, hdr, buf, stream) /\ b + Len(hdr) + Len(buf) + Len(stream) = Len(T)
      BY <1>3, <2>1, <2>2 DEF Aligned
    <2>7. hdr \in Seq(Bytes) /\ buf \in Seq(Bytes) /\ stream \in Seq(Bytes) /\ w \in Seq(Bytes)
      BY <1>5, <1>6, <2>2 DEF WTypes
    <2>8. /\ Flows(T \o w, b, hdr, buf, stream \o w)
          /\ b + Len(hdr) + Len(buf) + Len(stream \o w) = Len(T \o w)
      BY ONLY <2>5, <2>6, <2>7, FlowsMore
    <2>9. /\ Flows(U, b, hdr', buf', stream')
          /\ b + Len(hdr') + Len(buf') + Len(stream') = Len(U)
      BY <1>3, <1>4, <2>2, <2>8
    <2>10. c[Len(frames')] = b
      BY <1>4, <2>2, <2>3, <2>4
    <2>11. /\ hdr' \in Seq(Bytes) /\ buf' \in Seq(Bytes) /\ stream' \in Seq(Bytes)
      BY <1>9 DEF WTypes
    <2>12. b + Len(hdr') + Len(buf') + Len(stream') <= Len(U)
      <3>1. Len(hdr') \in Nat /\ Len(buf') \in Nat /\ Len(stream') \in Nat
        BY <2>11, SeqFacts
      <3> QED
        BY <2>5, <2>9, <3>1
    <2>13. Aligned(U, c)'
      BY <2>3, <2>9, <2>10, <2>12 DEF Aligned
    <2> QED
      BY <2>13
  <1> QED
    BY <1>9, <1>10, <1>11, <1>12 DEF WInv

\* An end of the connection, whoever brings it about.
LEMMA CloseKeepsWInv ==
  ASSUME WInv, Close, sent' = sent, stream' \in Seq(Bytes)
  PROVE  WInv'
  <1>1. part' = "closed" /\ buf' = <<>> /\ hdr' = <<>> /\ frames' = frames
    BY DEF Close
  <1>2. WTypes'
    BY <1>1 DEF WInv, WTypes
  <1>3. ReturnedAsSent'
    BY <1>1 DEF WInv, ReturnedAsSent
  <1>4. Waiting'
    BY <1>1 DEF Waiting
  <1> QED
    BY <1>1, <1>2, <1>3, <1>4 DEF WInv

\* Where the next frame starts.
LEMMA AlignedFacts ==
  ASSUME WInv, NEW T, NEW cut, Sequenced(T, cut, sent)
  PROVE  /\ T \in Seq(Bytes) /\ Len(T) \in Nat
         /\ Len(frames) \in 0 .. Len(sent) /\ cut[Len(frames)] \in Nat
  <1>1. T \in Seq(Bytes) /\ cut \in [0 .. Len(sent) -> Nat]
    BY DEF Sequenced
  <1>2. Len(frames) \in Nat /\ Len(sent) \in Nat /\ Len(frames) <= Len(sent)
    BY SeqFacts DEF WInv, ReturnedAsSent, WTypes
  <1>3. Len(frames) \in 0 .. Len(sent)
    BY <1>2
  <1> QED
    BY <1>1, <1>3, SeqFacts

\* The sender goes away.
LEMMA DisconnectKeepsWInv ==
  ASSUME WInv, NEW lost \in Losses, Disconnect(lost)
  PROVE  WInv'
  <1>1. /\ lost <= Len(stream) /\ alive' = FALSE
        /\ stream' = SubSeq(stream, 1, Len(stream) - lost)
        /\ sent' = sent /\ part' = part /\ buf' = buf /\ hdr' = hdr /\ frames' = frames
    BY DEF Disconnect
  <1>2. /\ sent \in Seq(Sendings) /\ stream \in Seq(Bytes) /\ hdr \in Seq(Bytes)
        /\ buf \in Seq(Bytes)
    BY DEF WInv, WTypes
  <1>3. Len(stream) \in Nat /\ Len(hdr) \in Nat /\ Len(buf) \in Nat
    BY <1>2, SeqFacts
  <1>4. PICK n : n = Len(stream) - lost
    OBVIOUS
  <1>5. n \in Nat /\ n <= Len(stream) /\ stream' = SubSeq(stream, 1, n)
    <2>1. lost \in Nat
      BY WireAssumption
    <2> QED
      BY <1>1, <1>3, <1>4, <2>1
  <1>6. stream' \in Seq(Bytes)
    <2>1. 1 \in Nat \ {0} /\ 1 <= n + 1
      BY <1>5
    <2> QED
      BY ONLY <1>2, <1>5, <2>1, SubSeqFacts
  <1>7. WTypes'
    BY <1>1, <1>6 DEF WInv, WTypes
  <1>8. ReturnedAsSent' /\ Waiting'
    BY <1>1 DEF WInv, ReturnedAsSent, Waiting
  <1>9. ASSUME part' # "closed" PROVE (\E T, cut : Aligned(T, cut))'
    <2>1. PICK T, cut : Aligned(T, cut)
      BY <1>1, <1>9 DEF WInv
    <2>2. PICK b : b = cut[Len(frames)]
      OBVIOUS
    <2>3. Sequenced(T, cut, sent) /\ Flows(T, b, hdr, buf, stream)
          /\ b + Len(hdr) + Len(buf) + Len(stream) <= Len(T)
      BY <2>1, <2>2 DEF Aligned
    <2>4. b \in Nat /\ Len(T) \in Nat
      BY <2>2, <2>3, AlignedFacts
    <2>5. /\ Flows(T, b, hdr, buf, SubSeq(stream, 1, n))
          /\ Len(SubSeq(stream, 1, n)) = n
      BY ONLY <1>2, <1>5, <2>3, <2>4, FlowsLess
    <2>6. Len(stream') = n /\ Flows(T, b, hdr', buf', stream')
      BY <1>1, <1>5, <2>5
    <2>7. b + Len(hdr) + Len(buf) + n <= Len(T)
      BY ONLY <1>3, <1>5, <2>3, <2>4
    <2>8. cut[Len(frames')] = b
      BY <1>1, <2>2
    <2>9. Aligned(T, cut)'
      BY <1>1, <2>3, <2>6, <2>7, <2>8 DEF Aligned
    <2> QED
      BY <2>9
  <1> QED
    BY <1>7, <1>8, <1>9 DEF WInv

\* What has been read of a frame, behind the first b bytes, and what is under way.
Ready(T, b, h, q, r, live) ==
  /\ h \in Seq(Bytes) /\ q \in Seq(Bytes) /\ r \in Seq(Bytes)
  /\ Flows(T, b, h, q, r)
  /\ b + Len(h) + Len(q) + Len(r) <= Len(T)
  /\ live => b + Len(h) + Len(q) + Len(r) = Len(T)

\* decode_frame has the whole frame.
LEMMA FrameKeepsWInv ==
  ASSUME WInv, NEW T, NEW cut, Sequenced(T, cut, sent), NEW h, NEW q, NEW r,
         Ready(T, cut[Len(frames)], h, q, r, alive),
         Len(h) = 18, Len(q) = LengthIn(h), HeaderAccepted(h),
         FrameDone(h, q), sent' = sent, alive' = alive, stream' = r
  PROVE  WInv'
  <1>0. PICK b : b = cut[Len(frames)]
    OBVIOUS
  <1>R. /\ h \in Seq(Bytes) /\ q \in Seq(Bytes) /\ r \in Seq(Bytes)
        /\ Flows(T, b, h, q, r)
        /\ b + 18 + Len(q) + Len(r) <= Len(T)
        /\ alive => b + 18 + Len(q) + Len(r) = Len(T)
    BY <1>0 DEF Ready
  <1>1. CASE ~DecodeAccepts(h, q)
    <2>1. Close
      BY <1>1 DEF FrameDone
    <2> QED
      BY <1>R, <2>1, CloseKeepsWInv
  <1>2. CASE DecodeAccepts(h, q)
    <2>1. Return(h, q)
      BY <1>2 DEF FrameDone
    <2>2. PICK k, l, x : k = Len(frames) /\ l = k + 1 /\ x = sent[l]
      OBVIOUS
    <2>3. /\ sent \in Seq(Sendings) /\ frames \in Seq({FrameOf(y) : y \in Sendings})
      BY DEF WInv, WTypes
    <2>4. k \in 0 .. Len(sent) /\ b \in Nat /\ Len(T) \in Nat /\ Len(sent) \in Nat
      BY <1>0, <2>2, <2>3, AlignedFacts, SeqFacts
    <2>5. Len(q) \in Nat /\ Len(r) \in Nat
      BY <1>R, SeqFacts
    <2>6. b + 18 + Len(q) <= Len(T)
      BY ONLY <1>R, <2>4, <2>5
    <2>7. b = cut[k]
      BY <1>0, <2>2
    <2>8. /\ l \in 1 .. Len(sent) /\ ~Ends(x) /\ q = PayloadOf(x.msg)
          /\ TypeNames[h[6] + 1] = x.msg.kind.type
          /\ cut[l] = b + 18 + Len(q)
          /\ Flows(T, cut[l], <<>>, <<>>, r)
      <3>0. Taken(T, b, h, q, r)
        BY <1>R, <1>2, <2>6 DEF Taken
      <3>1. k \in 0 .. Len(sent) /\ sent \in Seq(Sendings)
        BY <2>3, <2>4
      <3>2. IsFrame(T, cut, sent, k + 1, b, h, q, r)
        BY <2>7, <3>0, <3>1, NextArrives
      <3> QED
        BY <2>2, <3>2 DEF IsFrame
    <2>9. frames' = Append(frames, FrameOf(x))
      BY <2>1, <2>8 DEF Return, FrameOf
    <2>10. part' = "header" /\ buf' = <<>> /\ hdr' = <<>>
      BY <2>1 DEF Return
    <2>11. x \in Sendings
      BY <2>2, <2>3, <2>8, SeqFacts
    <2>12. /\ frames' \in Seq({FrameOf(y) : y \in Sendings})
           /\ Len(frames') = l /\ frames'[l] = FrameOf(x)
           /\ \A i \in 1 .. k : frames'[i] = frames[i]
      <3>1. PICK S : S = {FrameOf(y) : y \in Sendings}
        OBVIOUS
      <3>2. FrameOf(x) \in S /\ frames \in Seq(S)
        BY <2>3, <2>11, <3>1
      <3>3. PICK e : e = FrameOf(x)
        OBVIOUS
      <3>4. /\ Append(frames, e) \in Seq(S) /\ Len(Append(frames, e)) = Len(frames) + 1
            /\ Append(frames, e)[Len(frames) + 1] = e
            /\ \A i \in 1 .. Len(frames) : Append(frames, e)[i] = frames[i]
        BY ONLY <3>2, <3>3
      <3> QED
        BY <2>2, <2>9, <3>1, <3>3, <3>4
    <2>13. WTypes'
      BY <1>R, <2>3, <2>10, <2>12 DEF WTypes
    <2>14. ReturnedAsSent'
      <3>1. Len(frames') <= Len(sent')
        BY <2>4, <2>8, <2>12
      <3>2. ASSUME NEW i \in 1 .. l PROVE frames'[i] = FrameOf(sent[i]) /\ ~Ends(sent[i])
        <4>1. CASE i = l
          BY <2>2, <2>8, <2>12, <4>1
        <4>2. CASE i # l
          <5>1. i \in 1 .. k
            BY <2>2, <2>4, <4>2
          <5> QED
            BY <2>2, <2>12, <5>1 DEF WInv, ReturnedAsSent
        <4> QED
          BY <4>1, <4>2
      <3> QED
        BY <2>12, <3>1, <3>2 DEF ReturnedAsSent
    <2>15. Waiting'
      BY <2>10 DEF Waiting
    <2>16. Aligned(T, cut)'
      <3>1. Len(<<>>) = 0 /\ cut[l] + 0 + 0 = b + 18 + Len(q)
        BY <2>4, <2>5, <2>8
      <3>2. /\ cut[l] + Len(hdr') + Len(buf') + Len(stream') <= Len(T)
            /\ alive' => cut[l] + Len(hdr') + Len(buf') + Len(stream') = Len(T)
        BY <1>R, <2>10, <3>1
      <3> QED
        BY <2>8, <2>10, <2>12, <3>2 DEF Aligned
    <2> QED
      BY <2>13, <2>14, <2>15, <2>16 DEF WInv
  <1> QED
    BY <1>1, <1>2

LEMMA LengthInNat ==
  ASSUME NEW h \in Seq(Bytes), Len(h) = 18
  PROVE  LengthIn(h) \in Nat
  <1>1. PICK u : u = SubSeq(h, 7, 10)
    OBVIOUS
  <1>2. u \in Seq(Bytes) /\ Len(u) = 4
    <2>1. 7 \in Nat \ {0} /\ 10 \in Nat /\ 7 <= 10 + 1 /\ 10 <= Len(h) /\ 10 + 1 - 7 = 4
      OBVIOUS
    <2>2. u \in Seq(Bytes) /\ Len(u) = 10 + 1 - 7
      BY <1>1, <2>1, SubSeqFacts, ZenonT(60)
    <2> QED
      BY <2>1, <2>2
  <1>3. u[1] \in Nat /\ u[2] \in Nat /\ u[3] \in Nat /\ u[4] \in Nat
    <2>1. 1 \in 1 .. Len(u) /\ 2 \in 1 .. Len(u) /\ 3 \in 1 .. Len(u) /\ 4 \in 1 .. Len(u)
      BY <1>2
    <2>2. u[1] \in Bytes /\ u[2] \in Bytes /\ u[3] \in Bytes /\ u[4] \in Bytes
      BY <1>2, <2>1, SeqFacts
    <2>3. \A x \in Bytes : x \in Nat
      BY ONLY DEF Bytes
    <2> QED
      BY <2>2, <2>3
  <1>4. U32(u) \in Nat
    <2>1. PICK a, b, c, d : /\ a = u[1] /\ b = u[2] /\ c = u[3]
                            /\ d = (IF u[4] < 127 THEN u[4] ELSE 127)
      OBVIOUS
    <2>2. a \in Nat /\ b \in Nat /\ c \in Nat /\ d \in Nat
      BY <1>3, <2>1
    <2>3. a + 256 * b + 65536 * c + 16777216 * d \in Nat
      BY <2>2
    <2> QED
      BY <2>1, <2>3 DEF U32
  <1> QED
    BY <1>1, <1>4 DEF LengthIn

\* recv_frame has a header.
LEMMA HeaderKeepsWInv ==
  ASSUME WInv, NEW T, NEW cut, Sequenced(T, cut, sent), NEW h, NEW r,
         Ready(T, cut[Len(frames)], <<>>, h, r, alive), Len(h) = 18,
         HeaderDone(h), sent' = sent, alive' = alive, stream' = r
  PROVE  WInv'
  <1>1. PICK b : b = cut[Len(frames)]
    OBVIOUS
  <1>2. h \in Seq(Bytes) /\ r \in Seq(Bytes) /\ <<>> \in Seq(Bytes) /\ Len(<<>>) = 0
    BY DEF Ready
  <1>3. b \in Nat /\ Len(T) \in Nat
    BY <1>1, AlignedFacts
  <1>4. Len(r) \in Nat /\ b + 0 + 18 + Len(r) = b + 18 + 0 + Len(r)
    BY <1>2, <1>3, SeqFacts
  <1>5. Ready(T, b, h, <<>>, r, alive)
    <2>1. Flows(T, b, <<>>, h, r)
      BY <1>1 DEF Ready
    <2>2. Flows(T, b, h, <<>>, r)
      BY <1>2, <1>3, <2>1, FlowsHeader
    <2>3. /\ b + 0 + 18 + Len(r) <= Len(T)
          /\ alive => b + 0 + 18 + Len(r) = Len(T)
      BY <1>1, <1>2 DEF Ready
    <2>4. /\ b + 18 + 0 + Len(r) <= Len(T)
          /\ alive => b + 18 + 0 + Len(r) = Len(T)
      BY <1>4, <2>3
    <2> QED
      BY <1>2, <2>2, <2>4 DEF Ready
  <1>6. CASE ~HeaderAccepted(h)
    <2>1. Close
      BY <1>6 DEF HeaderDone
    <2> QED
      BY <1>2, <2>1, CloseKeepsWInv
  <1>7. CASE HeaderAccepted(h) /\ LengthIn(h) = 0
    <2>1. FrameDone(h, <<>>)
      BY <1>7 DEF HeaderDone
    <2>2. Len(<<>>) = LengthIn(h)
      BY <1>2, <1>7
    <2>3. Ready(T, cut[Len(frames)], h, <<>>, r, alive)
      BY <1>1, <1>5
    <2> QED
      BY <1>7, <2>1, <2>2, <2>3, FrameKeepsWInv
  <1>8. CASE HeaderAccepted(h) /\ LengthIn(h) # 0
    <2>1. part' = "payload" /\ hdr' = h /\ buf' = <<>> /\ frames' = frames
      BY <1>8 DEF HeaderDone
    <2>2. WTypes'
      BY <1>2, <2>1 DEF WInv, WTypes
    <2>3. ReturnedAsSent'
      BY <2>1 DEF WInv, ReturnedAsSent
    <2>4. Waiting'
      <3>1. 0 < LengthIn(h)
        BY <1>2, <1>8, LengthInNat
      <3> QED
        BY <1>2, <1>8, <2>1, <3>1 DEF Waiting
    <2>5. Aligned(T, cut)'
      BY <1>1, <1>5, <2>1 DEF Aligned, Ready
    <2> QED
      BY <2>2, <2>3, <2>4, <2>5 DEF WInv
  <1> QED
    BY <1>6, <1>7, <1>8

\* One turn of recv_exact.
LEMMA RecvKeepsWInv ==
  ASSUME WInv, NEW k \in Chunks, Recv(k)
  PROVE  WInv'
  <1>1. PICK n : n = Min({k, Wanted - Len(buf), Len(stream)})
    OBVIOUS
  <1>2. PICK got, r : got = buf \o SubSeq(stream, 1, n) /\ r = Drop(stream, n)
    OBVIOUS
  <1>3. /\ part # "closed" /\ stream' = r /\ sent' = sent /\ alive' = alive
        /\ IF Len(got) < Wanted
           THEN buf' = got /\ part' = part /\ hdr' = hdr /\ frames' = frames
           ELSE IF part = "header" THEN HeaderDone(got) ELSE FrameDone(hdr, got)
    BY <1>1, <1>2 DEF Recv
  <1>4. WTypes /\ Waiting
    BY DEF WInv
  <1>5. /\ sent \in Seq(Sendings) /\ stream \in Seq(Bytes) /\ buf \in Seq(Bytes)
        /\ hdr \in Seq(Bytes) /\ (part = "header" \/ part = "payload")
    BY <1>3, <1>4 DEF WTypes
  <1>6. Len(stream) \in Nat /\ Len(buf) \in Nat /\ Len(hdr) \in Nat
    BY <1>5, SeqFacts
  <1>7. Wanted \in Nat /\ Len(buf) < Wanted
    <2>1. CASE part = "header"
      BY <1>4, <1>6, <2>1 DEF Waiting, Wanted, HeaderLen
    <2>2. CASE part = "payload"
      <3>1. Len(hdr) = 18 /\ Len(buf) < LengthIn(hdr)
        BY <1>4, <2>2 DEF Waiting
      <3>2. LengthIn(hdr) \in Nat
        BY <1>5, <3>1, LengthInNat
      <3> QED
        BY <2>2, <3>1, <3>2 DEF Wanted
    <2> QED
      BY <1>5, <2>1, <2>2
  <1>8. n \in Nat /\ n <= Len(stream) /\ Len(buf) + n <= Wanted
    <2>1. PICK d : d = Wanted - Len(buf)
      OBVIOUS
    <2>2. d \in Nat /\ k \in Nat
      BY <1>6, <1>7, <2>1, WireAssumption
    <2>3. n = Min({k, d, Len(stream)})
      BY <1>1, <2>1
    <2>4. n \in {k, d, Len(stream)} /\ n <= d /\ n <= Len(stream)
      BY ONLY <1>6, <2>2, <2>3, SmallestOfThree
    <2>5. n \in Nat
      BY <1>6, <2>2, <2>4
    <2> QED
      BY <1>6, <1>7, <2>1, <2>4, <2>5
  <1>9. PICK T, cut : Aligned(T, cut)
    BY <1>3 DEF WInv
  <1>10. PICK b : b = cut[Len(frames)]
    OBVIOUS
  <1>11. Sequenced(T, cut, sent) /\ Flows(T, b, hdr, buf, stream)
    BY <1>9, <1>10 DEF Aligned
  <1>12. b \in Nat /\ Len(T) \in Nat
    BY <1>10, <1>11, AlignedFacts
  <1>13. /\ Flows(T, b, hdr, got, r)
         /\ got \in Seq(Bytes) /\ Len(got) = Len(buf) + n
         /\ r \in Seq(Bytes) /\ Len(r) = Len(stream) - n
    <2>1. hdr \in Seq(Bytes) /\ buf \in Seq(Bytes) /\ stream \in Seq(Bytes)
      BY <1>5
    <2>2. n \in Nat /\ n <= Len(stream) /\ b \in Nat /\ Flows(T, b, hdr, buf, stream)
      BY <1>8, <1>11, <1>12
    <2>3. Flows(T, b, hdr, buf \o SubSeq(stream, 1, n), Drop(stream, n))
      BY ONLY <2>1, <2>2, FlowsOn
    <2>4. /\ buf \o SubSeq(stream, 1, n) \in Seq(Bytes)
          /\ Len(buf \o SubSeq(stream, 1, n)) = Len(buf) + n
      BY ONLY <2>1, <2>2, FlowsOn
    <2>5. Drop(stream, n) \in Seq(Bytes) /\ Len(Drop(stream, n)) = Len(stream) - n
      BY ONLY <2>1, <2>2, DropFacts
    <2> QED
      BY <1>2, <2>3, <2>4, <2>5
  <1>14. Ready(T, b, hdr, got, r, alive)
    <2>1. b + Len(hdr) + Len(got) + Len(r) = b + Len(hdr) + Len(buf) + Len(stream)
      BY ONLY <1>6, <1>8, <1>12, <1>13
    <2>2. /\ b + Len(hdr) + Len(buf) + Len(stream) <= Len(T)
          /\ alive => b + Len(hdr) + Len(buf) + Len(stream) = Len(T)
      BY <1>9, <1>10 DEF Aligned
    <2> QED
      BY <1>5, <1>13, <2>1, <2>2 DEF Ready
  <1>15. CASE Len(got) < Wanted
    <2>1. buf' = got /\ part' = part /\ hdr' = hdr /\ frames' = frames
      BY <1>3, <1>15
    <2>2. WTypes'
      BY <1>3, <1>4, <1>13, <2>1 DEF WTypes
    <2>3. ReturnedAsSent'
      BY <1>3, <2>1 DEF WInv, ReturnedAsSent
    <2>4. Waiting'
      <3>1. part = "header" => Len(got) < 18
        BY <1>15 DEF Wanted, HeaderLen
      <3>2. part = "payload" => Len(got) < LengthIn(hdr)
        BY <1>15 DEF Wanted
      <3> QED
        BY <1>4, <2>1, <3>1, <3>2 DEF Waiting
    <2>5. Aligned(T, cut)'
      BY <1>3, <1>10, <1>11, <1>14, <2>1 DEF Aligned, Ready
    <2> QED
      BY <2>2, <2>3, <2>4, <2>5 DEF WInv
  <1>16. CASE ~(Len(got) < Wanted)
    <2>1. Len(got) = Wanted
      BY <1>6, <1>7, <1>8, <1>13, <1>16
    <2>2. CASE part = "header"
      <3>1. HeaderDone(got) /\ hdr = <<>> /\ Len(got) = 18
        BY <1>3, <1>4, <1>16, <2>1, <2>2 DEF Waiting, Wanted, HeaderLen
      <3>2. Ready(T, cut[Len(frames)], <<>>, got, r, alive)
        BY <1>10, <1>14, <3>1
      <3> QED
        BY <1>3, <1>11, <3>1, <3>2, HeaderKeepsWInv
    <2>3. CASE part = "payload"
      <3>1. /\ FrameDone(hdr, got) /\ Len(hdr) = 18 /\ HeaderAccepted(hdr)
            /\ Len(got) = LengthIn(hdr)
        BY <1>3, <1>4, <1>16, <2>1, <2>3 DEF Waiting, Wanted
      <3>2. Ready(T, cut[Len(frames)], hdr, got, r, alive)
        BY <1>10, <1>14
      <3> QED
        BY <1>3, <1>11, <3>1, <3>2, FrameKeepsWInv
    <2> QED
      BY <1>5, <2>2, <2>3
  <1> QED
    BY <1>15, <1>16

\* The inductive invariant of a connection (send_frame, recv_exact, recv_frame): behind
\* the frames that recv_frame has returned, the bytes it holds and the bytes under way are
\* the next ones that were sent.
THEOREM StreamInvariance == WSpec => []WInv
  <1>1. WInv /\ [WNext]_wvars => WInv'
    <2> SUFFICES ASSUME WInv, [WNext]_wvars PROVE WInv'
      OBVIOUS
    <2>1. CASE RecvEnd
      <3>1. Close /\ sent' = sent /\ stream' = stream
        BY <2>1 DEF RecvEnd
      <3>2. stream' \in Seq(Bytes)
        BY <3>1 DEF WInv, WTypes
      <3> QED
        BY <3>1, <3>2, CloseKeepsWInv
    <2>2. CASE UNCHANGED wvars
      BY <2>2 DEF wvars, WInv, WTypes, ReturnedAsSent, Waiting, Aligned
    <2> QED
      BY <2>1, <2>2, SendKeepsWInv, DisconnectKeepsWInv, RecvKeepsWInv DEF WNext
  <1> QED
    BY <1>1, WInvInit, PTL DEF WSpec

\* However the bytes of a connection are cut into pieces, whatever damage of the kinds
\* modelled a frame has, and wherever the stream ends: recv_frame returns the frames sent,
\* in order, up to the first that is damaged or too large, and unpacking gives the fields
\* that were packed.
THEOREM FramesHandledAsSent == WSpec => []HandledAsSent
  <1>1. WInv => HandledAsSent
    <2> SUFFICES ASSUME WInv PROVE HandledAsSent
      OBVIOUS
    <2>1. sent \in Seq(Sendings) /\ frames \in Seq({FrameOf(x) : x \in Sendings})
      BY DEF WInv, WTypes
    <2>2. PICK k, fs : k = Len(frames) /\ fs = SubSeq(sent, 1, k)
      OBVIOUS
    <2>3. k \in Nat /\ DOMAIN frames = 1 .. k
      BY ONLY <2>1, <2>2, SeqFacts
    <2>4. Len(sent) \in Nat
      BY <2>1, SeqFacts
    <2>5. k <= Len(sent) /\ \A i \in 1 .. k : frames[i] = FrameOf(sent[i]) /\ ~Ends(sent[i])
      BY <2>2 DEF WInv, ReturnedAsSent
    <2>6. DOMAIN fs = 1 .. k /\ \A i \in 1 .. k : fs[i] = sent[i]
      <3>1. 1 \in Nat \ {0} /\ 1 <= k + 1 /\ k + 1 - 1 = k /\ \A i \in 1 .. k : 1 - 1 + i = i
        BY <2>3
      <3>2. /\ fs \in Seq(Sendings) /\ Len(fs) = k + 1 - 1
            /\ \A i \in 1 .. k + 1 - 1 : fs[i] = sent[1 - 1 + i]
        BY <2>1, <2>2, <2>3, <2>5, <3>1, SubSeqFacts
      <3>3. Len(fs) = k /\ \A i \in 1 .. k : fs[i] = sent[i]
        BY <3>1, <3>2
      <3>4. DOMAIN fs = 1 .. Len(fs)
        BY <3>2, SeqFacts
      <3> QED
        BY <3>3, <3>4
    <2>7. ASSUME NEW i \in 1 .. k
          PROVE  /\ frames[i].type = fs[i].msg.kind.type
                 /\ Unpack(sent[i].msg.kind.unpack, frames[i].payload) =
                      IF WithinLimits(fs[i].msg) THEN Took(fs[i].msg.values, <<>>) ELSE Refused
      <3>1. PICK m, p : m = sent[i].msg /\ p = PayloadOf(m)
        OBVIOUS
      <3>2. i \in 1 .. Len(sent)
        BY <2>3, <2>4, <2>5
      <3>3. sent[i] \in Sendings
        BY <2>1, <3>2, SeqFacts
      <3>4. m \in Messages
        BY <3>1, <3>3, SendingFacts
      <3>5. p \in Seq(Bytes)
        BY <3>1, <3>4, MessageFacts
      <3>6. frames[i].type = m.kind.type /\ frames[i].payload = p
        <4>1. frames[i] = FrameOf(sent[i])
          BY <2>5
        <4>2. FrameOf(sent[i]).type = m.kind.type /\ FrameOf(sent[i]).payload = p
          BY ONLY <3>1 DEF FrameOf
        <4> QED
          BY <4>1, <4>2
      <3>7. Agrees(p, PayloadOf(m))
        BY <3>1 DEF Agrees
      <3>8. Unpack(m.kind.unpack, p) = IF WithinLimits(m) THEN Took(m.values, <<>>) ELSE Refused
        BY <3>1, <3>4, <3>5, <3>7, MessageRead
      <3>9. fs[i].msg = m
        BY <2>6, <3>1
      <3> QED
        BY <3>1, <3>6, <3>8, <3>9
    <2>8. Handled = Meaning(fs)
      BY <2>3, <2>6, <2>7 DEF Handled, Meaning
    <2>9. \A i \in DOMAIN frames : ~Ends(sent[i])
      BY <2>3, <2>5
    <2> QED
      BY <2>2, <2>5, <2>8, <2>9 DEF HandledAsSent
  <1> QED
    BY <1>1, StreamInvariance, PTL
=============================================================================
