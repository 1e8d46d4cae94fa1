---------------------------- MODULE TokenFlow_proofs ----------------------------
(***************************************************************************)
(* Proofs about TokenFlow: for any issuers, verifiers, keys and requests,  *)
(* and fields of any width.                                                *)
(*                                                                         *)
(* The codec is recursive functions over the claims and the cells; what    *)
(* they compute is proved by the least number for which it would fail      *)
(* (LeastNumber, UpTo, Recursion). On top of that come three invariants of *)
(* the steps: how tokens are made (MadeInv), what the guards accepted      *)
(* (GuardInv), and how large counters get (SizeInv).                       *)
(***************************************************************************)
EXTENDS TokenFlow, SequenceTheorems, FiniteSetTheorems, WellFoundedInduction, TLAPS

-------------------------------------------------------------------------------
(***************************************************************************)
(* Induction and recursion over 0..N.                                      *)
(***************************************************************************)

\* A set of natural numbers that is not empty has a least one.
LEMMA LeastNumber ==
  ASSUME NEW T, T \subseteq Nat, T # {}
  PROVE  \E n \in T : \A m \in T : n <= m
<1> DEFINE R == OpToRel(<, Nat)
<1>1. \A x, y \in Nat : y < x => <<y, x>> \in R
  BY DEF OpToRel
<1> HIDE DEF R
<1>2. IsWellFoundedOn(R, Nat)
  BY NatLessThanWellFounded DEF R
<1>3. PICK x \in T : \A y \in T : ~ (<<y, x>> \in R)
  BY <1>2, WFMin
<1>4. ASSUME NEW y \in T PROVE x <= y
  <2>1. x \in Nat /\ y \in Nat /\ ~ (y < x)
    BY <1>1, <1>3
  <2> QED BY <2>1
<1> QED BY <1>4

\* A set that holds 0, and n with n - 1, holds all numbers up to N: the induction over data.
LEMMA UpTo ==
  ASSUME NEW N \in Nat, NEW T, 0 \in T, \A n \in 1..N : n - 1 \in T => n \in T
  PROVE  0..N \subseteq T
<1> DEFINE F == {n \in 0..N : n \notin T}
<1> SUFFICES ASSUME F # {} PROVE FALSE
  OBVIOUS
<1>0. F \subseteq Nat
  OBVIOUS
<1>1. PICK n \in F : \A m \in F : n <= m
  <2> HIDE DEF F
  <2> QED BY <1>0, LeastNumber
<1>2. n \in 1..N /\ n - 1 \in 0..N /\ n - 1 \notin F
  BY <1>1
<1> QED BY <1>2

\* f is defined by recursion on 0..N, by G from b.
StepsWith(f, b, G, N) == f[0] = b /\ \A n \in 1..N : f[n] = G[<<f[n - 1], n>>]

\* A function may be defined by recursion on 0..N: its value at n is G of the one before.
LEMMA Recursion ==
  ASSUME NEW N \in Nat, NEW S, NEW b \in S, NEW G \in [S \X (1..N) -> S]
  PROVE  \E f \in [0..N -> S] : StepsWith(f, b, G, N)
<1> USE DEF StepsWith
<1> DEFINE Is(f, m) == f[0] = b /\ \A n \in 1..m : f[n] = G[<<f[n - 1], n>>]
           T == {m \in 0..N : \E f \in [0..m -> S] : Is(f, m)}
<1>1. 0 \in T
  <2> DEFINE h == [n \in 0..0 |-> b]
  <2>1. h \in [0..0 -> S] /\ h[0] = b
    OBVIOUS
  <2> HIDE DEF h
  <2>2. Is(h, 0)
    BY <2>1
  <2> QED BY <2>1, <2>2
<1>2. ASSUME NEW m \in 1..N, m - 1 \in T PROVE m \in T
  <2>1. PICK f \in [0..(m - 1) -> S] : Is(f, m - 1)
    BY <1>2
  <2> DEFINE v == G[<<f[m - 1], m>>]
             h == [n \in 0..m |-> IF n = m THEN v ELSE f[n]]
  <2>2. f[m - 1] \in S /\ v \in S
    BY <2>1
  <2> HIDE DEF v
  <2>3. h \in [0..m -> S] /\ h[0] = b /\ h[m] = v
    BY <2>1, <2>2
  <2>4. \A n \in 0..(m - 1) : h[n] = f[n]
    OBVIOUS
  <2> HIDE DEF h
  <2>5. h[m - 1] = f[m - 1]
    BY <2>4
  <2>6. ASSUME NEW n \in 1..m PROVE h[n] = G[<<h[n - 1], n>>]
    <3>1. CASE n = m
      BY <3>1, <2>3, <2>5 DEF v
    <3>2. CASE n # m
      BY <3>2, <2>1, <2>4
    <3> QED BY <3>1, <3>2
  <2>7. Is(h, m)
    BY <2>3, <2>6
  <2> QED BY <2>3, <2>7
<1> HIDE DEF T
<1>3. N \in T
  BY <1>1, <1>2, UpTo
<1> QED BY <1>3 DEF T

-------------------------------------------------------------------------------
(***************************************************************************)
(* The claims: what EncodeClaims writes, DecodeMap reads.                  *)
(***************************************************************************)

\* The claims of a request.
Claims8 == Seq([key : Texts8, type : STRING, text : Texts8])

\* A text is a string of cells.
LEMMA TextIsBytes ==
  ASSUME NEW s \in Texts8
  PROVE  s \in Seq(Int) /\ Len(s) \in Nat
<1>1. s \in Seq(0..255) /\ 0..255 \subseteq Int
  BY DEF Texts8
<1>2. s \in Seq(Int)
  BY <1>1, SeqMonotonic
<1> QED BY <1>2, LenProperties

\* The keys and the texts of claims are texts.
LEMMA ClaimTexts ==
  ASSUME NEW claims \in Claims8
  PROVE  /\ Len(claims) \in Nat /\ DOMAIN claims = 1..Len(claims)
         /\ \A n \in 1..Len(claims) : claims[n].key \in Texts8 /\ claims[n].text \in Texts8
<1> DEFINE R == [key : Texts8, type : STRING, text : Texts8]
<1>1. \A c \in R : c.key \in Texts8 /\ c.text \in Texts8
  OBVIOUS
<1> HIDE DEF R
<1>2. claims \in Seq(R)
  BY DEF Claims8, R
<1>3. \A n \in 1..Len(claims) : claims[n] \in R
  BY <1>2, ElementOfSeq
<1> QED BY <1>1, <1>2, <1>3, LenProperties

\* An encoded string is a string of cells.
LEMMA EncodeStrIsBytes ==
  ASSUME NEW s \in Texts8 PROVE EncodeStr(s) \in Seq(Int)
<1>1. s \in Seq(Int) /\ Len(s) \in Nat
  BY TextIsBytes
<1>2. <<FixStr + Len(s)>> \in Seq(Int) /\ <<Str8, Len(s)>> \in Seq(Int)
  BY <1>1 DEF FixStr, Str8
<1> QED BY <1>1, <1>2 DEF EncodeStr

\* The recursive function in EncodeClaims exists, and its values are strings of bytes.
LEMMA EncodeOut ==
  ASSUME NEW claims \in Claims8
  PROVE  \E out \in [0..Len(claims) -> Seq(Int)] :
           /\ out[0] = <<FixMap + Len(claims)>>
           /\ \A n \in 1..Len(claims) :
                out[n] = out[n - 1] \o EncodeStr(claims[n].key) \o EncodeStr(claims[n].text)
           /\ EncodeClaims(claims) = out[Len(claims)]
<1> DEFINE N == Len(claims)
           S == Seq(Int)
           b == <<FixMap + N>>
           step(s, n) == s \o EncodeStr(claims[n].key) \o EncodeStr(claims[n].text)
           out[n \in 0..N] == IF n = 0 THEN b ELSE step(out[n - 1], n)
           G == [p \in S \X (1..N) |-> step(p[1], p[2])]
<1>1. N \in Nat /\ b \in S
  BY ClaimTexts DEF FixMap
<1>2. ASSUME NEW s \in S, NEW n \in 1..N PROVE step(s, n) \in S
  <2>1. EncodeStr(claims[n].key) \in Seq(Int) /\ EncodeStr(claims[n].text) \in Seq(Int)
    BY ClaimTexts, EncodeStrIsBytes
  <2> QED BY <2>1
<1>3. EncodeClaims(claims) = out[N]
  BY DEF EncodeClaims
<1> HIDE DEF N, S, b, step
<1>4. G \in [S \X (1..N) -> S]
  BY <1>2
<1>5. \A n \in 1..N, s \in S : G[<<s, n>>] = step(s, n)
  OBVIOUS
<1> HIDE DEF G
<1>6. PICK f \in [0..N -> S] : StepsWith(f, b, G, N)
  BY <1>1, <1>4, Recursion
<1>7. ASSUME NEW n \in 1..N PROVE f[n] = step(f[n - 1], n)
  <2>1. f[n] = G[<<f[n - 1], n>>] /\ f[n - 1] \in S
    BY <1>1, <1>6 DEF StepsWith
  <2> QED BY <2>1, <1>5
<1>8. \A n \in 0..N : f[n] = IF n = 0 THEN b ELSE step(f[n - 1], n)
  BY <1>1, <1>6, <1>7 DEF StepsWith
<1>9. f = [n \in 0..N |-> IF n = 0 THEN b ELSE step(f[n - 1], n)]
  BY <1>8
<1>10. out = [n \in 0..N |-> IF n = 0 THEN b ELSE step(out[n - 1], n)]
  BY <1>9
<1> HIDE DEF out
<1>11. out[0] = b /\ \A n \in 1..N : out[n] = step(out[n - 1], n)
  BY <1>1, <1>10
<1> DEFINE T == {n \in 0..N : out[n] \in S}
<1>12. 0 \in T /\ \A n \in 1..N : n - 1 \in T => n \in T
  BY <1>1, <1>2, <1>11
<1>13. 0..N \subseteq T
  <2> HIDE DEF T
  <2> QED BY <1>1, <1>12, UpTo
<1>14. out \in [0..N -> S]
  BY <1>10, <1>13
<1> QED BY <1>3, <1>11, <1>14 DEF N, S, b, step

\* t begins with s.
Starts(s, t) == Len(s) <= Len(t) /\ \A k \in 1..Len(s) : t[k] = s[k]

\* What was once encoded stays where it is.
LEMMA EncodedStays ==
  ASSUME NEW N \in Nat, NEW out \in [0..N -> Seq(Int)],
         \A n \in 1..N : Starts(out[n - 1], out[n])
  PROVE  \A n \in 0..N : Len(out[n]) \in Nat /\ Starts(out[n], out[N])
<1> DEFINE T == {m \in 0..N : \A n \in 0..m : Starts(out[n], out[m])}
<1>1. \A n \in 0..N : out[n] \in Seq(Int) /\ Len(out[n]) \in Nat
  BY LenProperties
<1>2. 0 \in T
  BY <1>1 DEF Starts
<1>3. ASSUME NEW m \in 1..N, m - 1 \in T PROVE m \in T
  <2>1. ASSUME NEW n \in 0..m PROVE Starts(out[n], out[m])
    <3>1. CASE n = m
      BY <3>1, <1>1 DEF Starts
    <3>2. CASE n # m
      <4>1. /\ Starts(out[n], out[m - 1]) /\ Starts(out[m - 1], out[m])
            /\ Len(out[n]) \in Nat /\ Len(out[m]) \in Nat /\ Len(out[m - 1]) \in Nat
        BY <3>2, <1>1, <1>3
      <4>2. Len(out[n]) <= Len(out[m])
        BY <4>1 DEF Starts
      <4>3. ASSUME NEW k \in 1..Len(out[n]) PROVE out[m][k] = out[n][k]
        <5>1. out[m - 1][k] = out[n][k] /\ k \in 1..Len(out[m - 1])
          BY <4>1 DEF Starts
        <5> QED BY <4>1, <5>1 DEF Starts
      <4> QED BY <4>2, <4>3 DEF Starts
    <3> QED BY <3>1, <3>2
  <2> QED BY <2>1
<1>4. N \in T
  <2> HIDE DEF T
  <2>1. 0..N \subseteq T
    BY <1>2, <1>3, UpTo
  <2> QED BY <2>1
<1> QED BY <1>1, <1>4

\* The bytes of s start behind position pos of data.
Holds8(data, pos, s) == /\ pos + Len(s) <= Len(data)
                        /\ \A i \in 1..Len(s) : data[pos + i] = s[i]

\* A concatenation begins with its first part, and holds the second behind it.
LEMMA ConcatStarts ==
  ASSUME NEW s \in Seq(Int), NEW t \in Seq(Int)
  PROVE  /\ s \o t \in Seq(Int) /\ Len(s \o t) = Len(s) + Len(t)
         /\ Len(s) \in Nat /\ Len(t) \in Nat
         /\ Starts(s, s \o t) /\ Holds8(s \o t, Len(s), t)
<1> DEFINE c == s \o t
<1>1. /\ c \in Seq(Int) /\ Len(c) = Len(s) + Len(t) /\ Len(s) \in Nat /\ Len(t) \in Nat
      /\ \A i \in 1..(Len(s) + Len(t)) : c[i] = IF i <= Len(s) THEN s[i] ELSE t[i - Len(s)]
  BY ConcatProperties, LenProperties
<1> HIDE DEF c
<1>2. Starts(s, c)
  BY <1>1 DEF Starts
<1>3. ASSUME NEW i \in 1..Len(t) PROVE c[Len(s) + i] = t[i]
  <2>1. Len(s) + i \in 1..(Len(s) + Len(t)) /\ ~(Len(s) + i <= Len(s)) /\ Len(s) + i - Len(s) = i
    BY <1>1
  <2> QED BY <1>1, <2>1
<1>4. Holds8(c, Len(s), t)
  BY <1>1, <1>3 DEF Holds8
<1> QED BY <1>1, <1>2, <1>4 DEF c

\* What the beginning of data holds, data holds.
LEMMA StartsHolds ==
  ASSUME NEW s \in Seq(Int), NEW data \in Seq(Int), Starts(s, data),
         NEW pos \in Nat, NEW t \in Seq(Int), Holds8(s, pos, t)
  PROVE  Holds8(data, pos, t)
<1>1. Len(s) \in Nat /\ Len(data) \in Nat /\ Len(t) \in Nat
  BY LenProperties
<1>2. pos + Len(t) <= Len(data)
  BY <1>1 DEF Starts, Holds8
<1>3. ASSUME NEW i \in 1..Len(t) PROVE data[pos + i] = t[i]
  <2>1. pos + i \in 1..Len(s) /\ s[pos + i] = t[i]
    BY <1>1 DEF Holds8
  <2> QED BY <2>1 DEF Starts
<1> QED BY <1>2, <1>3 DEF Holds8

\* The beginning of a beginning is a beginning.
LEMMA StartsTransitive ==
  ASSUME NEW s \in Seq(Int), NEW t \in Seq(Int), NEW u \in Seq(Int), Starts(s, t), Starts(t, u)
  PROVE  Starts(s, u)
<1>1. Len(s) \in Nat /\ Len(t) \in Nat /\ Len(u) \in Nat
  BY LenProperties
<1>2. Len(s) <= Len(u)
  BY <1>1 DEF Starts
<1>3. ASSUME NEW k \in 1..Len(s) PROVE u[k] = s[k]
  <2>1. t[k] = s[k] /\ k \in 1..Len(t)
    BY <1>1 DEF Starts
  <2> QED BY <2>1 DEF Starts
<1> QED BY <1>2, <1>3 DEF Starts

\* An encoded string, cell by cell.
LEMMA EncodeStrFacts ==
  ASSUME NEW s \in Texts8
  PROVE  LET head == IF Len(s) <= FixMax THEN 1 ELSE 2
         IN /\ EncodeStr(s) \in Seq(Int) /\ Len(EncodeStr(s)) = Len(s) + head
            /\ EncodeStr(s)[1] = IF Len(s) <= FixMax THEN FixStr + Len(s) ELSE Str8
            /\ Len(s) > FixMax => EncodeStr(s)[2] = Len(s)
            /\ \A i \in 1..Len(s) : EncodeStr(s)[head + i] = s[i]
<1>1. s \in Seq(Int) /\ Len(s) \in Nat
  BY TextIsBytes
<1>2. CASE Len(s) <= FixMax
  <2> DEFINE h == <<FixStr + Len(s)>>
  <2>1. h \in Seq(Int) /\ Len(h) = 1 /\ h[1] = FixStr + Len(s)
    BY <1>1 DEF FixStr
  <2>2. EncodeStr(s) = h \o s
    BY <1>2 DEF EncodeStr
  <2> HIDE DEF h
  <2>3. /\ h \o s \in Seq(Int) /\ Len(h \o s) = 1 + Len(s)
        /\ \A i \in 1..(1 + Len(s)) : (h \o s)[i] = IF i <= 1 THEN h[i] ELSE s[i - 1]
    <3>1. /\ h \o s \in Seq(Int) /\ Len(h \o s) = Len(h) + Len(s)
          /\ \A i \in 1..(Len(h) + Len(s)) :
               (h \o s)[i] = IF i <= Len(h) THEN h[i] ELSE s[i - Len(h)]
      BY <1>1, <2>1, ConcatProperties
    <3> QED BY <2>1, <3>1
  <2>4. \A i \in 1..Len(s) : (h \o s)[1 + i] = s[i]
    <3> TAKE i \in 1..Len(s)
    <3>1. 1 + i \in 1..(1 + Len(s)) /\ ~(1 + i <= 1) /\ (1 + i) - 1 = i
      BY <1>1
    <3> QED BY <2>3, <3>1
  <2>5. (h \o s)[1] = FixStr + Len(s)
    BY <1>1, <2>1, <2>3
  <2>6. ~(Len(s) > FixMax)
    BY <1>1, <1>2, CodecAssumption
  <2> QED BY <1>1, <1>2, <2>2, <2>3, <2>4, <2>5, <2>6
<1>3. CASE ~(Len(s) <= FixMax)
  <2> DEFINE h == <<Str8, Len(s)>>
  <2>1. h \in Seq(Int) /\ Len(h) = 2 /\ h[1] = Str8 /\ h[2] = Len(s)
    BY <1>1 DEF Str8
  <2>2. EncodeStr(s) = h \o s
    BY <1>3 DEF EncodeStr
  <2> HIDE DEF h
  <2>3. /\ h \o s \in Seq(Int) /\ Len(h \o s) = 2 + Len(s)
        /\ \A i \in 1..(2 + Len(s)) : (h \o s)[i] = IF i <= 2 THEN h[i] ELSE s[i - 2]
    <3>1. /\ h \o s \in Seq(Int) /\ Len(h \o s) = Len(h) + Len(s)
          /\ \A i \in 1..(Len(h) + Len(s)) :
               (h \o s)[i] = IF i <= Len(h) THEN h[i] ELSE s[i - Len(h)]
      BY <1>1, <2>1, ConcatProperties
    <3> QED BY <2>1, <3>1
  <2>4. Len(s) > FixMax
    BY <1>1, <1>3, CodecAssumption
  <2>5. \A i \in 1..Len(s) : (h \o s)[2 + i] = s[i]
    <3> TAKE i \in 1..Len(s)
    <3>1. 2 + i \in 1..(2 + Len(s)) /\ ~(2 + i <= 2) /\ (2 + i) - 2 = i
      BY <1>1
    <3> QED BY <2>3, <3>1
  <2>6. (h \o s)[1] = Str8 /\ (h \o s)[2] = Len(s)
    BY <1>1, <2>1, <2>3
  <2> QED BY <1>1, <1>3, <2>2, <2>3, <2>4, <2>5, <2>6
<1> QED BY <1>2, <1>3

\* Wherever an encoded string is, DecodeStr reads it, and stops behind it.
LEMMA StrRoundTrip ==
  ASSUME NEW s \in Texts8, Len(s) <= Str8Max, NEW data \in Seq(Int), NEW pos \in Nat,
         NEW strict \in BOOLEAN, Holds8(data, pos, EncodeStr(s))
  PROVE  DecodeStr(data, pos, strict) = Ok([text |-> s, next |-> pos + Len(EncodeStr(s))])
<1> DEFINE b0     == At(data, pos)
           header == IF b0 = Str8 THEN 2 ELSE 1
           len    == IF b0 = Str8 THEN At(data, pos + 1) ELSE b0 - FixStr
           end    == pos + header + len
           head   == IF Len(s) <= FixMax THEN 1 ELSE 2
<1>1. s \in Seq(Int) /\ Len(s) \in Nat /\ Len(data) \in Nat
  BY TextIsBytes, LenProperties
<1>2. FixMax \in 0..31 /\ Str8Max \in Nat
  BY CodecAssumption
<1>3. /\ Len(EncodeStr(s)) = Len(s) + head /\ pos + Len(s) + head <= Len(data)
      /\ data[pos + 1] = IF Len(s) <= FixMax THEN FixStr + Len(s) ELSE Str8
      /\ Len(s) > FixMax => data[pos + 2] = Len(s)
      /\ \A i \in 1..Len(s) : data[pos + head + i] = s[i]
  <2>1. \A i \in 1..(Len(s) + head) : data[pos + i] = EncodeStr(s)[i]
    BY <1>1, EncodeStrFacts DEF Holds8
  <2>2. Len(EncodeStr(s)) = Len(s) + head /\ pos + Len(s) + head <= Len(data)
    BY <1>1, EncodeStrFacts DEF Holds8
  <2>3. ASSUME NEW i \in 1..Len(s) PROVE data[pos + head + i] = s[i]
    <3>1. head + i \in 1..(Len(s) + head) /\ pos + (head + i) = pos + head + i
      BY <1>1
    <3>2. data[pos + (head + i)] = EncodeStr(s)[head + i] /\ EncodeStr(s)[head + i] = s[i]
      BY <3>1, <2>1, EncodeStrFacts
    <3> QED BY <3>1, <3>2
  <2>4. data[pos + 1] = IF Len(s) <= FixMax THEN FixStr + Len(s) ELSE Str8
    <3>1. data[pos + 1] = EncodeStr(s)[1]
      BY <1>1, <2>1
    <3> QED BY <3>1, EncodeStrFacts
  <2>5. ASSUME Len(s) > FixMax PROVE data[pos + 2] = Len(s)
    <3>1. data[pos + 2] = EncodeStr(s)[2]
      BY <1>1, <1>2, <2>1, <2>5
    <3> QED BY <3>1, <2>5, EncodeStrFacts
  <2> QED BY <2>2, <2>3, <2>4, <2>5
<1>4. /\ b0 = IF Len(s) <= FixMax THEN FixStr + Len(s) ELSE Str8
      /\ Len(s) > FixMax => At(data, pos + 1) = Len(s)
  BY <1>1, <1>2, <1>3 DEF At
<1> HIDE DEF b0
<1>5. header = head /\ len = Len(s) /\ b0 \in {Str8} \cup FixStr..(FixStr + FixMax)
  BY <1>1, <1>2, <1>4 DEF Str8, FixStr
<1> HIDE DEF header, len, head
<1>6. end = pos + head + Len(s) /\ end <= Len(data) /\ end = pos + Len(EncodeStr(s)) /\ head \in 1..2
  BY <1>1, <1>3, <1>5 DEF head
<1>7. Slice(data, pos + header, end) = s
  <2> DEFINE from == pos + head
             part == SubSeq(data, from + 1, end)
  <2>1. Slice(data, pos + header, end) = part
    <3>1. (IF end < Len(data) THEN end ELSE Len(data)) = end /\ pos + header + 1 = from + 1
      <4>1. pos + header + 1 = from + 1
        BY <1>5
      <4> HIDE DEF end
      <4> QED BY <1>1, <1>6, <4>1
    <3> HIDE DEF end
    <3> QED BY <3>1 DEF Slice
  <2>2. \A i \in (from + 1)..end : data[i] \in Int
    BY <1>1, <1>6, ElementOfSeq
  <2>3. from \in Int /\ end \in Int /\ end - (from + 1) + 1 = Len(s)
    BY <1>1, <1>6
  <2>4. /\ part \in Seq(Int) /\ Len(part) = IF from + 1 <= end THEN end - (from + 1) + 1 ELSE 0
        /\ \A i \in 1..(end - (from + 1) + 1) : part[i] = data[from + 1 + i - 1]
    BY <2>2, <2>3, SubSeqProperties
  <2>5. Len(part) = Len(s)
    BY <1>1, <1>6, <2>3, <2>4
  <2>6. \A i \in 1..Len(s) : part[i] = s[i]
    <3> TAKE i \in 1..Len(s)
    <3>1. from + 1 + i - 1 = pos + head + i /\ part[i] = data[from + 1 + i - 1]
      BY <1>1, <1>6, <2>3, <2>4
    <3>2. data[pos + head + i] = s[i]
      BY <1>3 DEF head
    <3> QED BY <3>1, <3>2
  <2> HIDE DEF part
  <2> QED BY <1>1, <2>1, <2>4, <2>5, <2>6, SeqEqual
<1>8. /\ b0 \in {Str8} \cup FixStr..(FixStr + FixMax) /\ ~(len < 0) /\ ~(end > Len(data))
  BY <1>1, <1>5, <1>6
<1> QED BY <1>6, <1>7, <1>8 DEF DecodeStr, b0, header, len

\* A result that is there is not a failure.
LEMMA OkFacts == (\A v : Ok(v).ok /\ Ok(v).value = v) /\ ~Fail.ok
BY DEF Ok, Fail

\* Two functions are the same on 0..N.
Agree(f, g, N) == \A n \in 0..N : f[n] = g[n]

\* A function that is defined by recursion on 0..N is what its equation says, if some
\* function is: f is that one.
LEMMA OneFunction ==
  ASSUME NEW N \in Nat, NEW f, NEW g, f[0] = g[0],
         \A n \in 1..N : f[n - 1] = g[n - 1] => f[n] = g[n]
  PROVE  Agree(f, g, N)
<1> USE DEF Agree
<1> DEFINE T == {n \in 0..N : f[n] = g[n]}
<1>1. 0 \in T /\ \A n \in 1..N : n - 1 \in T => n \in T
  OBVIOUS
<1>2. 0..N \subseteq T
  <2> HIDE DEF T
  <2> QED BY <1>1, UpTo
<1> QED BY <1>2

\* Wherever the two strings of a claim are, DecodeEntry reads them.
LEMMA EntryRoundTrip ==
  ASSUME NEW key \in Texts8, NEW text \in Texts8, Len(key) <= Str8Max, Len(text) <= Str8Max,
         NEW data \in Seq(Int), NEW pos \in Nat, NEW strict \in BOOLEAN,
         Holds8(data, pos, EncodeStr(key)),
         Holds8(data, pos + Len(EncodeStr(key)), EncodeStr(text))
  PROVE  DecodeEntry(data, pos, strict)
           = Ok([claim |-> <<key, text>>,
                 next  |-> pos + Len(EncodeStr(key)) + Len(EncodeStr(text))])
<1> DEFINE mid == pos + Len(EncodeStr(key))
<1>1. mid \in Nat
  BY EncodeStrFacts, TextIsBytes
<1>2. DecodeStr(data, pos, strict) = Ok([text |-> key, next |-> mid])
  BY StrRoundTrip
<1>3. DecodeStr(data, mid, strict) = Ok([text |-> text, next |-> mid + Len(EncodeStr(text))])
  <2> HIDE DEF mid
  <2>1. Holds8(data, mid, EncodeStr(text))
    BY DEF mid
  <2> QED BY <1>1, <2>1, StrRoundTrip
<1> HIDE DEF mid
<1> DEFINE k == DecodeStr(data, pos, strict)
           t == DecodeStr(data, mid, strict)
<1>4. k.ok /\ k.value.next = mid /\ k.value.text = key
  BY <1>2, OkFacts
<1>5. t.ok /\ t.value.text = text /\ t.value.next = mid + Len(EncodeStr(text))
  BY <1>3, OkFacts
<1>6. DecodeEntry(data, pos, strict)
        = IF ~k.ok THEN Fail ELSE EntryOf(k.value, DecodeStr(data, k.value.next, strict))
  BY DEF DecodeEntry
<1>7. DecodeEntry(data, pos, strict) = EntryOf(k.value, t)
  <2> HIDE DEF k
  <2> QED BY <1>4, <1>6
<1> HIDE DEF k, t
<1> QED BY <1>4, <1>5, <1>7 DEF mid, EntryOf

\* The first n claims, as they are read.
Texts0(claims, n) == [i \in 1..n |-> <<claims[i].key, claims[i].text>>]

\* Claims that can be encoded are read back, by the SDK and by the core, as the pairs of texts
\* that they were, in their order: encodeClaims against decodeClaims and claims.rs.
THEOREM MapRoundTrip ==
  ASSUME NEW claims \in Claims8, Encodable(claims), NEW strict \in BOOLEAN
  PROVE  DecodeMap(EncodeClaims(claims), strict) = Ok(Texts(claims))
<1> DEFINE N == Len(claims)
           data == EncodeClaims(claims)
           n == At(data, 0) - FixMap
           step(was) ==
             IF ~was.ok THEN Fail
             ELSE Extend(was.value, DecodeEntry(data, was.value.next, strict))
           read[i \in 0..n] == IF i = 0 THEN Ok([claims |-> <<>>, next |-> 1])
                               ELSE step(read[i - 1])
<1>1. /\ N \in Nat /\ DOMAIN claims = 1..N /\ N <= MapMax /\ MapMax \in 0..15
      /\ \A i \in 1..N : /\ claims[i].key \in Texts8 /\ claims[i].text \in Texts8
                         /\ Len(claims[i].key) <= Str8Max /\ Len(claims[i].text) <= Str8Max
  BY ClaimTexts, CodecAssumption DEF Encodable, Range
<1>2. PICK out \in [0..N -> Seq(Int)] :
        /\ out[0] = <<FixMap + N>>
        /\ \A i \in 1..N :
             out[i] = out[i - 1] \o EncodeStr(claims[i].key) \o EncodeStr(claims[i].text)
        /\ data = out[N]
  BY EncodeOut
<1> DEFINE k(i) == EncodeStr(claims[i].key)
           t(i) == EncodeStr(claims[i].text)
<1>3. ASSUME NEW i \in 1..N
      PROVE  /\ k(i) \in Seq(Int) /\ t(i) \in Seq(Int) /\ Len(k(i)) \in Nat /\ Len(t(i)) \in Nat
             /\ out[i - 1] \in Seq(Int) /\ out[i - 1] \o k(i) \in Seq(Int) /\ out[i] \in Seq(Int)
             /\ out[i] = (out[i - 1] \o k(i)) \o t(i)
             /\ Len(out[i]) = Len(out[i - 1]) + Len(k(i)) + Len(t(i))
             /\ Holds8(out[i], Len(out[i - 1]), k(i))
             /\ Holds8(out[i], Len(out[i - 1]) + Len(k(i)), t(i))
             /\ Starts(out[i - 1], out[i])
  <2>1. k(i) \in Seq(Int) /\ t(i) \in Seq(Int)
    BY <1>1, EncodeStrIsBytes
  <2>2. out[i - 1] \in Seq(Int) /\ out[i] \in Seq(Int) /\ out[i] = (out[i - 1] \o k(i)) \o t(i)
    <3>1. i \in 0..N /\ i - 1 \in 0..N
      BY <1>1
    <3> HIDE DEF N
    <3> QED BY <1>2, <3>1
  <2> HIDE DEF k, t
  <2> DEFINE s == out[i - 1] \o k(i)
  <2>3. /\ s \in Seq(Int) /\ Len(s) = Len(out[i - 1]) + Len(k(i)) /\ Len(k(i)) \in Nat
        /\ Len(out[i - 1]) \in Nat /\ Starts(out[i - 1], s) /\ Holds8(s, Len(out[i - 1]), k(i))
    BY <2>1, <2>2, ConcatStarts
  <2> HIDE DEF s
  <2>4. /\ Len(s \o t(i)) = Len(s) + Len(t(i)) /\ Len(t(i)) \in Nat
        /\ Starts(s, s \o t(i)) /\ Holds8(s \o t(i), Len(s), t(i))
    BY <2>1, <2>3, ConcatStarts
  <2>5. out[i] = s \o t(i)
    BY <2>2 DEF s
  <2>6. Starts(out[i - 1], out[i])
    BY <2>2, <2>3, <2>4, <2>5, StartsTransitive
  <2>7. Holds8(out[i], Len(out[i - 1]), k(i))
    BY <2>1, <2>2, <2>3, <2>4, <2>5, StartsHolds
  <2>8. Holds8(out[i], Len(out[i - 1]) + Len(k(i)), t(i))
    BY <2>3, <2>4, <2>5
  <2> QED BY <2>1, <2>2, <2>3, <2>4, <2>5, <2>6, <2>7, <2>8 DEF s
<1>5. \A i \in 0..N : Len(out[i]) \in Nat /\ Starts(out[i], data)
  BY <1>1, <1>2, <1>3, EncodedStays
<1>6. data \in Seq(Int) /\ Len(data) \in Nat /\ Len(data) >= 1 /\ data[1] = FixMap + N
  <2>1. Len(out[0]) = 1 /\ out[0][1] = FixMap + N /\ data \in Seq(Int)
    BY <1>1, <1>2
  <2> QED BY <1>1, <1>5, <2>1, LenProperties DEF Starts
<1>7. n = N
  BY <1>1, <1>6 DEF At, FixMap
<1> DEFINE want == [i \in 0..N |-> Ok([claims |-> Texts0(claims, i), next |-> Len(out[i])])]
<1>8. ASSUME NEW i \in 1..N PROVE want[i] = step(want[i - 1])
  <2>1. i - 1 \in 0..N /\ Len(out[i - 1]) \in Nat /\ Starts(out[i], data) /\ Len(k(i)) \in Nat
    BY <1>1, <1>3, <1>5
  <2>4. Holds8(data, Len(out[i - 1]), k(i))
    BY <1>3, <1>6, <2>1, StartsHolds
  <2>5. Holds8(data, Len(out[i - 1]) + Len(k(i)), t(i))
    <3>1. Len(out[i - 1]) + Len(k(i)) \in Nat
      BY <2>1
    <3> HIDE DEF k, t, data
    <3> QED BY <1>3, <1>6, <2>1, <3>1, StartsHolds
  <2>6. DecodeEntry(data, Len(out[i - 1]), strict)
          = Ok([claim |-> <<claims[i].key, claims[i].text>>, next |-> Len(out[i])])
    <3>1. Len(out[i - 1]) + Len(k(i)) + Len(t(i)) = Len(out[i])
      BY <1>3
    <3> HIDE DEF data, N
    <3>2. DecodeEntry(data, Len(out[i - 1]), strict)
            = Ok([claim |-> <<claims[i].key, claims[i].text>>,
                  next |-> Len(out[i - 1]) + Len(k(i)) + Len(t(i))])
      BY <1>1, <1>6, <2>1, <2>4, <2>5, EntryRoundTrip
    <3> QED BY <3>1, <3>2
  <2>7. Append(Texts0(claims, i - 1), <<claims[i].key, claims[i].text>>) = Texts0(claims, i)
    BY <1>1 DEF Texts0
  <2>8. want[i - 1] = Ok([claims |-> Texts0(claims, i - 1), next |-> Len(out[i - 1])])
    BY <1>1
  <2>9. want[i] = Ok([claims |-> Texts0(claims, i), next |-> Len(out[i])])
    BY <1>1
  <2> HIDE DEF want, data
  <2>10. step(want[i - 1]) = Ok([claims |-> Append(Texts0(claims, i - 1), <<claims[i].key, claims[i].text>>),
                                 next |-> Len(out[i])])
    <3> DEFINE was == want[i - 1]
    <3>1. was.ok /\ was.value.claims = Texts0(claims, i - 1) /\ was.value.next = Len(out[i - 1])
      BY <2>8, OkFacts
    <3> HIDE DEF was
    <3>2. DecodeEntry(data, was.value.next, strict)
            = Ok([claim |-> <<claims[i].key, claims[i].text>>, next |-> Len(out[i])])
      BY <3>1, <2>6
    <3>3. step(was) = Ok([claims |-> Append(Texts0(claims, i - 1), <<claims[i].key, claims[i].text>>),
                         next |-> Len(out[i])])
      <4> DEFINE entry == DecodeEntry(data, was.value.next, strict)
      <4>1. /\ entry.ok /\ entry.value.claim = <<claims[i].key, claims[i].text>>
            /\ entry.value.next = Len(out[i])
        BY <3>2, OkFacts
      <4>2. step(was) = IF ~was.ok THEN Fail
                        ELSE IF ~entry.ok THEN Fail
                        ELSE Ok([claims |-> Append(was.value.claims, entry.value.claim),
                                 next   |-> entry.value.next])
        BY DEF Extend
      <4> HIDE DEF entry, step
      <4> QED BY <3>1, <4>1, <4>2
    <3> QED BY <3>3 DEF was
  <2> QED BY <2>7, <2>9, <2>10
<1>9. want[0] = Ok([claims |-> <<>>, next |-> 1])
  BY <1>1, <1>2 DEF Texts0
<1> HIDE DEF want, step, data, n, N
<1>10. want = [i \in 0..n |-> IF i = 0 THEN Ok([claims |-> <<>>, next |-> 1]) ELSE step(want[i - 1])]
  <2>1. want = [i \in 0..N |-> want[i]]
    BY DEF want
  <2>2. \A i \in 0..N : want[i] = IF i = 0 THEN Ok([claims |-> <<>>, next |-> 1]) ELSE step(want[i - 1])
    BY <1>1, <1>8, <1>9
  <2> QED BY <1>7, <2>1, <2>2
<1>11. read = [i \in 0..n |-> IF i = 0 THEN Ok([claims |-> <<>>, next |-> 1]) ELSE step(read[i - 1])]
  BY <1>10
<1> HIDE DEF read
<1>12. read[N] = want[N]
  <2>1. read[0] = want[0] /\ \A i \in 1..N : read[i] = step(read[i - 1])
    BY <1>1, <1>7, <1>9, <1>11
  <2>2. \A i \in 1..N : read[i - 1] = want[i - 1] => read[i] = want[i]
    BY <1>8, <2>1
  <2>3. Agree(read, want, N)
    <3> HIDE DEF step
    <3> QED BY <1>1, <2>1, <2>2, OneFunction
  <2> QED BY <1>1, <2>3 DEF Agree
<1>13. read[n].ok /\ read[n].value.claims = Texts(claims)
  <2>1. Texts0(claims, N) = Texts(claims)
    BY <1>1 DEF Texts0, Texts
  <2> QED BY <1>1, <1>7, <1>12, <2>1 DEF want, Ok
<1>14. DecodeMap(data, strict) =
         IF n \notin 0..MapMax THEN Fail ELSE IF ~read[n].ok THEN Fail ELSE Ok(read[n].value.claims)
  BY DEF DecodeMap, n, read, step
<1> QED BY <1>1, <1>7, <1>13, <1>14 DEF data

\* What a slice cuts out is what is there.
LEMMA SliceHolds ==
  ASSUME NEW data \in Seq(Int), NEW pos \in Nat, NEW s \in Seq(Int), Holds8(data, pos, s)
  PROVE  Slice(data, pos, pos + Len(s)) = s
<1> DEFINE part == SubSeq(data, pos + 1, pos + Len(s))
<1>1. Len(s) \in Nat /\ Len(data) \in Nat /\ pos + Len(s) <= Len(data)
  BY LenProperties DEF Holds8
<1>2. \A i \in (pos + 1)..(pos + Len(s)) : data[i] \in Int
  BY <1>1, ElementOfSeq
<1>3. pos + 1 \in Int /\ pos + Len(s) \in Int /\ pos + Len(s) - (pos + 1) + 1 = Len(s)
  BY <1>1
<1>4. /\ part \in Seq(Int)
      /\ Len(part) = IF pos + 1 <= pos + Len(s) THEN pos + Len(s) - (pos + 1) + 1 ELSE 0
      /\ \A i \in 1..(pos + Len(s) - (pos + 1) + 1) : part[i] = data[pos + 1 + i - 1]
  BY <1>2, <1>3, SubSeqProperties
<1>5. Len(part) = Len(s)
  BY <1>1, <1>3, <1>4
<1>6. \A i \in 1..Len(s) : part[i] = s[i]
  <2> TAKE i \in 1..Len(s)
  <2>1. pos + 1 + i - 1 = pos + i /\ part[i] = data[pos + 1 + i - 1] /\ data[pos + i] = s[i]
    BY <1>1, <1>3, <1>4 DEF Holds8
  <2> QED BY <2>1
<1>7. Slice(data, pos, pos + Len(s)) = part
  <2>1. (IF pos + Len(s) < Len(data) THEN pos + Len(s) ELSE Len(data)) = pos + Len(s)
    BY <1>1
  <2> QED BY <2>1 DEF Slice
<1> HIDE DEF part
<1> QED BY <1>1, <1>4, <1>5, <1>6, <1>7, SeqEqual

-------------------------------------------------------------------------------
(***************************************************************************)
(* The token: what SerializeToken and To_bytes write, DeserializeToken reads.*)
(***************************************************************************)

\* The halves of a 64-bit field.
Hi(v) == (v \div Half) % Half
Lo(v) == v % Half

\* A number that fits a 64-bit field is put together again from its halves.
LEMMA Halves ==
  ASSUME NEW v \in Int
  PROVE  /\ Hi(v) \in 0..(Half - 1) /\ Lo(v) \in 0..(Half - 1)
         /\ v \in Nat /\ v < Half * Half => Hi(v) * Half + Lo(v) = v
<1>1. Half \in Nat /\ Half > 1
  BY CodecAssumption
<1> DEFINE q == v \div Half
<1>2. q \in Int /\ Lo(v) \in 0..(Half - 1) /\ v = Half * q + Lo(v)
  BY <1>1 DEF Lo
<1>3. Hi(v) \in 0..(Half - 1)
  BY <1>1, <1>2 DEF Hi
<1>4. ASSUME v \in Nat, v < Half * Half PROVE q < Half /\ q \in Nat
  <2>1. q \in Nat
    BY <1>1, <1>4
  <2> HIDE DEF q
  <2>2. ASSUME q >= Half PROVE FALSE
    <3>1. Half * q >= Half * Half
      BY <1>1, <1>2, <2>2
    <3> QED BY <1>1, <1>2, <1>4, <3>1
  <2> QED BY <1>1, <1>2, <2>1, <2>2
<1>5. ASSUME v \in Nat, v < Half * Half PROVE Hi(v) * Half + Lo(v) = v
  <2>1. q < Half /\ q \in Nat
    BY <1>4, <1>5
  <2>2. Hi(v) = q
    <3>1. Hi(v) = q % Half
      BY DEF Hi
    <3> HIDE DEF q
    <3> QED BY <1>1, <1>2, <2>1, <3>1
  <2> HIDE DEF q
  <2>3. Half * q = q * Half
    BY <1>1, <1>2
  <2> QED BY <1>2, <2>2, <2>3
<1> QED BY <1>2, <1>3, <1>5

\* The sequence of bytes that both SerializeToken and To_bytes make, cell by cell.
Wire(h, ttl, payload, signature) ==
  <<Magic, Version, h.suite, h.tokenType>> \o WriteUint64(h.issuedAt)
    \o <<ttl, h.nonce, h.deviceFp, Len(payload)>> \o payload
    \o WriteUint64(h.mutationCtr) \o signature

\* Headers, whose fields are whatever cells hold.
Headers == [suite : Int, tokenType : Int, issuedAt : Int, ttl : Int,
            nonce : Int, deviceFp : Int, mutationCtr : Int]

\* The ten cells in front of the payload.
FrontOf(data, h, ttl, len) ==
  /\ data[1] = Magic /\ data[2] = Version /\ data[3] = h.suite /\ data[4] = h.tokenType
  /\ data[5] = Hi(h.issuedAt) /\ data[6] = Lo(h.issuedAt)
  /\ data[7] = ttl /\ data[8] = h.nonce /\ data[9] = h.deviceFp /\ data[10] = len

\* The cells of a token.
IsWire(data, h, ttl, payload, signature) ==
  LET len == Len(payload) IN
  /\ data \in Seq(Int) /\ Len(data) = 12 + len + Len(signature)
  /\ FrontOf(data, h, ttl, len)
  /\ Holds8(data, 10, payload)
  /\ data[len + 11] = Hi(h.mutationCtr) /\ data[len + 12] = Lo(h.mutationCtr)
  /\ Holds8(data, 12 + len, signature)

\* The concatenations of Wire put every field in its cell.
LEMMA WireCells ==
  ASSUME NEW h \in Headers, NEW ttl \in Int, NEW payload \in Seq(Int), NEW signature \in Seq(Int)
  PROVE  IsWire(Wire(h, ttl, payload, signature), h, ttl, payload, signature)
<1> DEFINE a == <<Magic, Version, h.suite, h.tokenType>>
           b == WriteUint64(h.issuedAt)
           c == <<ttl, h.nonce, h.deviceFp, Len(payload)>>
           d == WriteUint64(h.mutationCtr)
           len == Len(payload)
<1>1. /\ h.suite \in Int /\ h.tokenType \in Int /\ h.issuedAt \in Int /\ h.nonce \in Int
      /\ h.deviceFp \in Int /\ h.mutationCtr \in Int /\ len \in Nat /\ Len(signature) \in Nat
  BY LenProperties DEF Headers
<1>2. a \in Seq(Int) /\ Len(a) = 4 /\ a[1] = Magic /\ a[2] = Version /\ a[3] = h.suite /\ a[4] = h.tokenType
  BY <1>1 DEF Magic, Version
<1>3. \A v \in Int : /\ WriteUint64(v) \in Seq(Int) /\ Len(WriteUint64(v)) = 2
                     /\ WriteUint64(v)[1] = Hi(v) /\ WriteUint64(v)[2] = Lo(v)
  <2> TAKE v \in Int
  <2>1. WriteUint64(v) = <<Hi(v), Lo(v)>>
    BY DEF WriteUint64, Hi, Lo
  <2>2. Hi(v) \in Nat /\ Lo(v) \in Nat
    <3>1. Half \in Nat /\ 0..(Half - 1) \subseteq Nat
      BY CodecAssumption
    <3> QED BY <3>1, Halves
  <2> QED BY <2>1, <2>2
<1>4. c \in Seq(Int) /\ Len(c) = 4 /\ c[1] = ttl /\ c[2] = h.nonce /\ c[3] = h.deviceFp /\ c[4] = len
  BY <1>1
<1>5. /\ b \in Seq(Int) /\ Len(b) = 2 /\ b[1] = Hi(h.issuedAt) /\ b[2] = Lo(h.issuedAt)
      /\ d \in Seq(Int) /\ Len(d) = 2 /\ d[1] = Hi(h.mutationCtr) /\ d[2] = Lo(h.mutationCtr)
  BY <1>1, <1>3
<1>6. Wire(h, ttl, payload, signature) = ((((a \o b) \o c) \o payload) \o d) \o signature
  BY DEF Wire
<1> HIDE DEF a, b, c, d
<1> DEFINE s1 == a \o b
           s2 == s1 \o c
           s3 == s2 \o payload
           s4 == s3 \o d
           s5 == s4 \o signature
<1>7. s1 \in Seq(Int) /\ Len(s1) = 6 /\ Starts(a, s1) /\ Holds8(s1, 4, b)
  <2>1. s1 \in Seq(Int) /\ Len(s1) = Len(a) + Len(b) /\ Starts(a, s1) /\ Holds8(s1, Len(a), b)
    BY <1>2, <1>5, ConcatStarts
  <2> HIDE DEF s1
  <2> QED BY <1>2, <1>5, <2>1
<1> HIDE DEF s1
<1>8. s2 \in Seq(Int) /\ Len(s2) = 10 /\ Starts(s1, s2) /\ Holds8(s2, 6, c)
  <2>1. s2 \in Seq(Int) /\ Len(s2) = Len(s1) + Len(c) /\ Starts(s1, s2) /\ Holds8(s2, Len(s1), c)
    BY <1>4, <1>7, ConcatStarts
  <2> HIDE DEF s2
  <2> QED BY <1>4, <1>7, <2>1
<1> HIDE DEF s2
<1>9. s3 \in Seq(Int) /\ Len(s3) = 10 + len /\ Starts(s2, s3) /\ Holds8(s3, 10, payload)
  BY <1>8, ConcatStarts
<1> HIDE DEF s3
<1>10. s4 \in Seq(Int) /\ Len(s4) = 12 + len /\ Starts(s3, s4) /\ Holds8(s4, 10 + len, d)
  <2>1. s4 \in Seq(Int) /\ Len(s4) = Len(s3) + Len(d) /\ Starts(s3, s4) /\ Holds8(s4, Len(s3), d)
    BY <1>5, <1>9, ConcatStarts
  <2>2. Len(s3) + 2 = 12 + len
    BY <1>1, <1>9
  <2> HIDE DEF s4
  <2> QED BY <1>5, <1>9, <2>1, <2>2
<1> HIDE DEF s4
<1>11. s5 \in Seq(Int) /\ Len(s5) = 12 + len + Len(signature) /\ Starts(s4, s5) /\ Holds8(s5, 12 + len, signature)
  BY <1>10, ConcatStarts
<1> HIDE DEF s5
<1>12. Starts(s3, s5) /\ Starts(s2, s5) /\ Starts(s1, s5) /\ Starts(a, s5)
  <2>1. Starts(s3, s5)
    BY <1>9, <1>10, <1>11, StartsTransitive
  <2>2. Starts(s2, s5)
    BY <1>8, <1>9, <1>11, <2>1, StartsTransitive
  <2>3. Starts(s1, s5)
    BY <1>7, <1>8, <1>11, <2>2, StartsTransitive
  <2>4. Starts(a, s5)
    BY <1>2, <1>7, <1>11, <2>3, StartsTransitive
  <2> QED BY <2>1, <2>2, <2>3, <2>4
<1>13. Holds8(s5, 4, b) /\ Holds8(s5, 6, c) /\ Holds8(s5, 10, payload)
  <2>1. Holds8(s5, 4, b)
    BY <1>5, <1>7, <1>11, <1>12, StartsHolds
  <2>2. Holds8(s5, 6, c)
    BY <1>4, <1>8, <1>11, <1>12, StartsHolds
  <2>3. Holds8(s5, 10, payload)
    BY <1>9, <1>11, <1>12, StartsHolds
  <2> QED BY <2>1, <2>2, <2>3
<1>14. Holds8(s5, 10 + len, d)
  BY <1>1, <1>5, <1>10, <1>11, StartsHolds
<1>15. FrontOf(s5, h, ttl, len)
  <2>1. s5[1] = Magic /\ s5[2] = Version /\ s5[3] = h.suite /\ s5[4] = h.tokenType
    BY <1>2, <1>12 DEF Starts
  <2>2. s5[4 + 1] = Hi(h.issuedAt) /\ s5[4 + 2] = Lo(h.issuedAt)
    BY <1>5, <1>13 DEF Holds8
  <2>3. s5[6 + 1] = ttl /\ s5[6 + 2] = h.nonce /\ s5[6 + 3] = h.deviceFp /\ s5[6 + 4] = len
    BY <1>4, <1>13 DEF Holds8
  <2> QED BY <2>1, <2>2, <2>3 DEF FrontOf
<1>16. s5[len + 11] = Hi(h.mutationCtr) /\ s5[len + 12] = Lo(h.mutationCtr)
  <2>1. s5[10 + len + 1] = d[1] /\ s5[10 + len + 2] = d[2]
    BY <1>5, <1>14 DEF Holds8
  <2>2. 10 + len + 1 = len + 11 /\ 10 + len + 2 = len + 12
    BY <1>1
  <2> QED BY <1>5, <2>1, <2>2
<1>17. Wire(h, ttl, payload, signature) = s5
  BY <1>6 DEF s1, s2, s3, s4, s5
<1> QED BY <1>11, <1>13, <1>15, <1>16, <1>17 DEF IsWire

\* What is read back: the fields as the wire keeps them.
Kept(h, ttl) ==
  [suite |-> h.suite, tokenType |-> h.tokenType,
   issuedAt |-> Hi(h.issuedAt) * Half + Lo(h.issuedAt), ttl |-> ttl,
   nonce |-> h.nonce, deviceFp |-> h.deviceFp,
   mutationCtr |-> Hi(h.mutationCtr) * Half + Lo(h.mutationCtr)]

\* A token is read back as its header (as the wire keeps it), payload and signature.
LEMMA Parsed ==
  ASSUME NEW data, NEW h \in Headers, NEW ttl \in Int, NEW payload \in Seq(Int),
         NEW signature \in Seq(Int), IsWire(data, h, ttl, payload, signature)
  PROVE  DeserializeToken(data)
           = Ok([header |-> Kept(h, ttl), payload |-> payload, signature |-> signature])
<1> DEFINE len == Len(payload)
           plLen == At(data, 9)
           ctrAt == HeaderLen + plLen
<1>1. len \in Nat /\ Len(signature) \in Nat /\ data \in Seq(Int) /\ Len(data) = 12 + len + Len(signature)
  BY LenProperties DEF IsWire
<1>2. \A i \in 1..(len + 12) : At(data, i - 1) = data[i]
  BY <1>1 DEF At
<1>3. /\ At(data, 0) = Magic /\ At(data, 1) = Version /\ At(data, 2) = h.suite
      /\ At(data, 3) = h.tokenType /\ At(data, 4) = Hi(h.issuedAt) /\ At(data, 5) = Lo(h.issuedAt)
      /\ At(data, 6) = ttl /\ At(data, 7) = h.nonce /\ At(data, 8) = h.deviceFp /\ plLen = len
  <2>1. FrontOf(data, h, ttl, len)
    BY DEF IsWire
  <2>2. \A i \in 0..9 : At(data, i) = data[i + 1]
    BY <1>1 DEF At
  <2>3. /\ At(data, 0) = data[1] /\ At(data, 1) = data[2] /\ At(data, 2) = data[3]
        /\ At(data, 3) = data[4] /\ At(data, 4) = data[5]
    BY <2>2
  <2>4. /\ At(data, 5) = data[6] /\ At(data, 6) = data[7] /\ At(data, 7) = data[8]
        /\ At(data, 8) = data[9] /\ At(data, 9) = data[10]
    BY <2>2
  <2> HIDE DEF len
  <2> QED BY <2>1, <2>3, <2>4, Zenon DEF FrontOf
<1>4. At(data, len + 10) = Hi(h.mutationCtr) /\ At(data, len + 11) = Lo(h.mutationCtr)
  BY <1>1 DEF At, IsWire
<1>5. Slice(data, 10, 10 + len) = payload /\ Slice(data, 12 + len, Len(data)) = signature
  <2>1. Slice(data, 10, 10 + len) = payload
    BY <1>1, SliceHolds DEF IsWire
  <2>2. 12 + len \in Nat /\ Holds8(data, 12 + len, signature)
    BY <1>1 DEF IsWire
  <2>3. Slice(data, 12 + len, 12 + len + Len(signature)) = signature
    BY <1>1, <2>2, SliceHolds
  <2> QED BY <1>1, <2>1, <2>3
<1> HIDE DEF plLen
<1>6. ctrAt = 10 + len /\ ctrAt = len + 10 /\ ctrAt + 1 = len + 11 /\ ctrAt + CtrLen = 12 + len /\ HeaderLen = 10
  BY <1>1, <1>3 DEF HeaderLen, CtrLen
<1>7. ~ \/ Len(data) < HeaderLen \/ At(data, 0) # Magic \/ At(data, 1) # Version
        \/ Len(data) < ctrAt + CtrLen
  <2>1. ~(Len(data) < HeaderLen) /\ ~(Len(data) < ctrAt + CtrLen)
    BY <1>1, <1>6
  <2> QED BY <1>3, <2>1
<1>8. /\ ReadUint64(data, 4) = Hi(h.issuedAt) * Half + Lo(h.issuedAt)
      /\ ReadUint64(data, ctrAt) = Hi(h.mutationCtr) * Half + Lo(h.mutationCtr)
  <2>1. At(data, 4 + 1) = Lo(h.issuedAt)
    BY <1>3
  <2> QED BY <1>3, <1>4, <1>6, <2>1 DEF ReadUint64
<1>9. Slice(data, HeaderLen, ctrAt) = payload /\ Slice(data, ctrAt + CtrLen, Len(data)) = signature
  BY <1>5, <1>6
<1> HIDE DEF ctrAt
<1>10. DeserializeToken(data) =
         IF \/ Len(data) < HeaderLen \/ At(data, 0) # Magic \/ At(data, 1) # Version
            \/ Len(data) < ctrAt + CtrLen
         THEN Fail
         ELSE Ok([header |-> [suite |-> At(data, 2), tokenType |-> At(data, 3),
                              issuedAt |-> ReadUint64(data, 4), ttl |-> At(data, 6),
                              nonce |-> At(data, 7), deviceFp |-> At(data, 8),
                              mutationCtr |-> ReadUint64(data, ctrAt)],
                  payload   |-> Slice(data, HeaderLen, ctrAt),
                  signature |-> Slice(data, ctrAt + CtrLen, Len(data))])
  BY DEF DeserializeToken, ctrAt, plLen
<1> QED BY <1>3, <1>7, <1>8, <1>9, <1>10 DEF Kept

-------------------------------------------------------------------------------
(***************************************************************************)
(* The verifiers: what a verdict says of what is read.                     *)
(***************************************************************************)

\* A blob opens only as what it is: with its kind, its key and its nonce.
LEMMA OpenOwn ==
  ASSUME DOMAIN blobs \subseteq Nat, NEW b \in DOMAIN blobs, blobs[b].len \in Nat \ {0},
         NEW kind, NEW key, NEW nonce
  PROVE  OpenBlob(CellsOf(b, blobs[b].len), kind, key, nonce)
           = IF blobs[b].kind = kind /\ blobs[b].key = key /\ blobs[b].nonce = nonce
             THEN Ok(blobs[b].text) ELSE Fail
<1> DEFINE cells == CellsOf(b, blobs[b].len)
           is(c) == /\ blobs[c].kind = kind /\ blobs[c].key = key /\ blobs[c].nonce = nonce
                    /\ cells = CellsOf(c, blobs[c].len)
           found == {c \in DOMAIN blobs : is(c)}
           own == blobs[b].kind = kind /\ blobs[b].key = key /\ blobs[b].nonce = nonce
<1>1. OpenBlob(cells, kind, key, nonce) =
        IF found = {} THEN Fail ELSE Ok(blobs[CHOOSE c \in found : TRUE].text)
  BY DEF OpenBlob
<1>2. ASSUME NEW c \in DOMAIN blobs, cells = CellsOf(c, blobs[c].len) PROVE c = b
  <2>1. 1 \in DOMAIN cells /\ cells[1] = Opaque + b
    BY DEF CellsOf
  <2>2. 1 \in DOMAIN CellsOf(c, blobs[c].len)
    BY <1>2, <2>1
  <2>3. CellsOf(c, blobs[c].len)[1] = Opaque + c
    BY <2>2 DEF CellsOf
  <2>4. Opaque + b = Opaque + c
    BY <1>2, <2>1, <2>3
  <2> QED BY <2>4 DEF Opaque
<1>3. found = IF own THEN {b} ELSE {}
  BY <1>2
<1> HIDE DEF found, cells
<1>4. CASE own
  <2>1. (CHOOSE c \in found : TRUE) = b
    BY <1>3, <1>4
  <2> QED BY <1>1, <1>3, <1>4, <2>1 DEF cells
<1>5. CASE ~own
  BY <1>1, <1>3, <1>5 DEF cells
<1> QED BY <1>4, <1>5

\* The first layer that fails decides, and if none does the verdict is OK.
LEMMA Decided ==
  ASSUME NEW h, NEW layers, NEW claims, Len(layers) \in Nat
  PROVE  \E first \in 0..Len(layers) :
           /\ first = 0 => \A i \in 1..Len(layers) : ~layers[i][1]
           /\ first # 0 => layers[first][1] /\ \A i \in 1..(first - 1) : ~layers[i][1]
           /\ Decide(h, layers, claims).verdict = (IF first = 0 THEN "OK" ELSE layers[first][2])
           /\ Decide(h, layers, claims).ctr = h.mutationCtr
           /\ first = 0 => Decide(h, layers, claims).claims = claims.value
<1> DEFINE I == {i \in 1..Len(layers) : layers[i][1]}
           first == IF I # {} THEN Min(I) ELSE 0
<1>1. Decide(h, layers, claims) =
        [verdict |-> IF first = 0 THEN "OK" ELSE layers[first][2],
         ctr |-> h.mutationCtr, claims |-> IF first = 0 THEN claims.value ELSE <<>>]
  BY DEF Decide, SelectInSeq
<1>2. CASE I = {}
  <2>1. first = 0 /\ \A i \in 1..Len(layers) : ~layers[i][1]
    BY <1>2
  <2> HIDE DEF first
  <2> QED BY <1>1, <2>1
<1>3. CASE I # {}
  <2>1. I \subseteq Nat
    OBVIOUS
  <2>2. \E n \in I : \A m \in I : n <= m
    <3> HIDE DEF I
    <3> QED BY <1>3, <2>1, LeastNumber
  <2>3. first \in I /\ \A m \in I : first <= m
    <3>1. first = CHOOSE x \in I : \A y \in I : x <= y
      BY <1>3 DEF Min
    <3> HIDE DEF I, first
    <3> QED BY <2>2, <3>1
  <2> HIDE DEF first
  <2>4. first \in 1..Len(layers) /\ layers[first][1]
    BY <2>3
  <2>5. \A i \in 1..(first - 1) : ~layers[i][1]
    <3> SUFFICES ASSUME NEW i \in 1..(first - 1), layers[i][1] PROVE FALSE
      OBVIOUS
    <3>1. i \in I
      BY <2>4
    <3> HIDE DEF I
    <3> QED BY <2>3, <2>4, <3>1
  <2> QED BY <1>1, <2>4, <2>5
<1> QED BY <1>2, <1>3

\* The layers of the SDK's pipeline.
LEMMA ThreeAndFive ==
  ASSUME NEW a, NEW b, NEW c, NEW d, NEW e, NEW f, NEW g, NEW i
  PROVE  LET s == <<a, b, c>> \o <<d, e, f, g, i>>
         IN /\ Len(s) = 8 /\ s[1] = a /\ s[2] = b /\ s[3] = c /\ s[4] = d
            /\ s[5] = e /\ s[6] = f /\ s[7] = g /\ s[8] = i
OBVIOUS

LEMMA OneAndThree ==
  ASSUME NEW a, NEW b, NEW c, NEW d, NEW e, NEW f, NEW g
  PROVE  LET s == <<a, b, c>> \o <<d>> \o <<e, f, g>>
         IN /\ Len(s) = 7 /\ s[1] = a /\ s[2] = b /\ s[3] = c /\ s[4] = d
            /\ s[5] = e /\ s[6] = f /\ s[7] = g
OBVIOUS

LEMMA OneAndOneAndThree ==
  ASSUME NEW a, NEW b, NEW c, NEW d, NEW e, NEW f, NEW g, NEW i
  PROVE  LET s == <<a>> \o <<b>> \o <<c, d, e>> \o <<f, g, i>>
         IN /\ Len(s) = 8 /\ s[1] = a /\ s[2] = b /\ s[3] = c /\ s[4] = d
            /\ s[5] = e /\ s[6] = f /\ s[7] = g /\ s[8] = i
OBVIOUS

\* The checks of the header alone.
InTime(h, clock) == /\ h.nonce # 0 /\ ~(h.issuedAt > clock + Skew)
                    /\ ~(clock > h.issuedAt + h.ttl)

\* What the SDK's verifier makes of what it reads: the plaintext, the encoded claims, the claims.
JsPlain(p, key) == OpenBlob(p.payload, "js", key, p.header.nonce)
JsBody(inflates, p, key) ==
  IF JsPlain(p, key).ok THEN Body(inflates, JsPlain(p, key).value) ELSE Fail
JsClaims(inflates, p, key) ==
  IF JsBody(inflates, p, key).ok THEN DecodeClaims(JsBody(inflates, p, key).value) ELSE Fail
JsSigned(p, key) == OpenBlob(p.signature, "ml-dsa", key, 0) = Ok(SignedBytes(p.header, p.payload))

\* What the SDK wants of a token.
JsAccepts(inflates, p, key, chain, clock) ==
  /\ InTime(p.header, clock) /\ JsSigned(p, key) /\ JsPlain(p, key).ok
  /\ ~(p.header.mutationCtr <= chain)
  /\ JsBody(inflates, p, key).ok /\ JsClaims(inflates, p, key).ok

\* A verdict of the SDK is what the checks say of what is read of the token.
JsJudges(r, inflates, p, key, chain, clock) ==
  /\ r.ctr = p.header.mutationCtr
  /\ r.verdict = "OK" <=> JsAccepts(inflates, p, key, chain, clock)
  /\ r.verdict = "OK" => r.claims = JsClaims(inflates, p, key).value
  /\ r.verdict \in Advances => ~(p.header.mutationCtr <= chain)

\* The layers of VerifyToken are these checks.
LEMMA JsVerdict ==
  ASSUME NEW inflates, NEW data, NEW key, NEW chain, NEW clock, NEW p,
         DeserializeToken(data) = Ok(p)
  PROVE  JsJudges(VerifyToken(inflates, data, key, chain, clock), inflates, p, key, chain, clock)
<1> DEFINE h == p.header
           claims == JsClaims(inflates, p, key)
           layers == Timing(h, clock) \o
             << Layer(OpenBlob(p.signature, "ml-dsa", key, 0) # Ok(SignedBytes(h, p.payload)),
                      "SIGNATURE_INVALID"),
                Layer(~JsPlain(p, key).ok, "DECRYPT"), Layer(h.mutationCtr <= chain, "REPLAY"),
                Layer(~JsBody(inflates, p, key).ok, "DECOMPRESS"), Layer(~claims.ok, "CLAIMS") >>
           r == VerifyToken(inflates, data, key, chain, clock)
<1>1. r = Decide(h, layers, claims)
  <2>1. Ok(p).ok /\ Ok(p).value = p
    BY OkFacts
  <2> QED BY <2>1 DEF VerifyToken, JsClaims, JsBody, JsPlain
<1> HIDE DEF claims
<1>2. /\ Len(layers) = 8
      /\ layers[1] = Layer(h.nonce = 0, "KOLMOGOROV")
      /\ layers[2] = Layer(h.issuedAt > clock + Skew, "NOT_YET_VALID")
      /\ layers[3] = Layer(clock > h.issuedAt + h.ttl, "EXPIRED")
      /\ layers[4] = Layer(OpenBlob(p.signature, "ml-dsa", key, 0) # Ok(SignedBytes(h, p.payload)),
                           "SIGNATURE_INVALID")
      /\ layers[5] = Layer(~JsPlain(p, key).ok, "DECRYPT")
      /\ layers[6] = Layer(h.mutationCtr <= chain, "REPLAY")
      /\ layers[7] = Layer(~JsBody(inflates, p, key).ok, "DECOMPRESS")
      /\ layers[8] = Layer(~claims.ok, "CLAIMS")
  BY ThreeAndFive DEF Timing
<1> HIDE DEF layers, r
<1>3. PICK first \in 0..8 :
           /\ first = 0 => \A i \in 1..8 : ~layers[i][1]
           /\ first # 0 => layers[first][1] /\ \A i \in 1..(first - 1) : ~layers[i][1]
           /\ r.verdict = (IF first = 0 THEN "OK" ELSE layers[first][2])
           /\ r.ctr = h.mutationCtr
           /\ first = 0 => r.claims = claims.value
  <2>1. \E first \in 0..Len(layers) :
           /\ first = 0 => \A i \in 1..Len(layers) : ~layers[i][1]
           /\ first # 0 => layers[first][1] /\ \A i \in 1..(first - 1) : ~layers[i][1]
           /\ r.verdict = (IF first = 0 THEN "OK" ELSE layers[first][2])
           /\ r.ctr = h.mutationCtr
           /\ first = 0 => r.claims = claims.value
    <3>1. Len(layers) \in Nat
      BY <1>2
    <3> QED BY <1>1, <3>1, Decided
  <2> QED BY <1>2, <2>1
<1>4. /\ layers[1][2] = "KOLMOGOROV" /\ layers[2][2] = "NOT_YET_VALID" /\ layers[3][2] = "EXPIRED"
      /\ layers[4][2] = "SIGNATURE_INVALID" /\ layers[5][2] = "DECRYPT" /\ layers[6][2] = "REPLAY"
      /\ layers[7][2] = "DECOMPRESS" /\ layers[8][2] = "CLAIMS"
  BY <1>2 DEF Layer
<1>5. /\ layers[1][1] <=> h.nonce = 0
      /\ layers[2][1] <=> h.issuedAt > clock + Skew
      /\ layers[3][1] <=> clock > h.issuedAt + h.ttl
      /\ layers[4][1] <=> ~JsSigned(p, key)
      /\ layers[5][1] <=> ~JsPlain(p, key).ok
      /\ layers[6][1] <=> h.mutationCtr <= chain
      /\ layers[7][1] <=> ~JsBody(inflates, p, key).ok
      /\ layers[8][1] <=> ~claims.ok
  <2>1. \A t : /\ Layer(TRUE, t)[1] = TRUE /\ Layer(FALSE, t)[1] = FALSE
    BY DEF Layer
  <2>2. layers[1][1] <=> h.nonce = 0
    BY <1>2, <2>1
  <2>3. layers[2][1] <=> h.issuedAt > clock + Skew
    <3> DEFINE late == h.issuedAt > clock + Skew
    <3>1. layers[2] = Layer(late, layers[2][2])
      BY <1>2, <1>4
    <3>2. late \in BOOLEAN
      OBVIOUS
    <3> HIDE DEF late
    <3>3. layers[2][1] <=> late
      BY <2>1, <3>1, <3>2
    <3> QED BY <3>3 DEF late
  <2>4. layers[3][1] <=> clock > h.issuedAt + h.ttl
    <3> DEFINE late == clock > h.issuedAt + h.ttl
    <3>1. layers[3] = Layer(late, layers[3][2])
      BY <1>2, <1>4
    <3>2. late \in BOOLEAN
      OBVIOUS
    <3> HIDE DEF late
    <3>3. layers[3][1] <=> late
      BY <2>1, <3>1, <3>2
    <3> QED BY <3>3 DEF late
  <2>5. layers[4][1] <=> ~JsSigned(p, key)
    BY <1>2, <2>1 DEF JsSigned
  <2>6. layers[5][1] <=> ~JsPlain(p, key).ok
    BY <1>2, <2>1
  <2>7. layers[6][1] <=> h.mutationCtr <= chain
    <3> DEFINE late == h.mutationCtr <= chain
    <3>1. layers[6] = Layer(late, layers[6][2])
      BY <1>2, <1>4
    <3>2. late \in BOOLEAN
      OBVIOUS
    <3> HIDE DEF late
    <3>3. layers[6][1] <=> late
      BY <2>1, <3>1, <3>2
    <3> QED BY <3>3 DEF late
  <2>8. layers[7][1] <=> ~JsBody(inflates, p, key).ok
    BY <1>2, <2>1
  <2>9. layers[8][1] <=> ~claims.ok
    BY <1>2, <2>1
  <2> QED BY <2>2, <2>3, <2>4, <2>5, <2>6, <2>7, <2>8, <2>9
<1>6. r.verdict = "OK" <=> first = 0
  BY <1>3, <1>4
<1>7. first = 0 <=> \A i \in 1..8 : ~layers[i][1]
  BY <1>3
<1>8. (\A i \in 1..8 : ~layers[i][1]) <=> JsAccepts(inflates, p, key, chain, clock)
  <2>1. (\A i \in 1..8 : ~layers[i][1])
          <=> /\ ~layers[1][1] /\ ~layers[2][1] /\ ~layers[3][1] /\ ~layers[4][1]
              /\ ~layers[5][1] /\ ~layers[6][1] /\ ~layers[7][1] /\ ~layers[8][1]
    OBVIOUS
  <2> QED BY <2>1, <1>5 DEF JsAccepts, InTime, claims
<1>9. r.verdict \in Advances => ~(h.mutationCtr <= chain)
  <2>1. r.verdict \in Advances => first \in {0, 7, 8}
    BY <1>3, <1>4 DEF Advances
  <2>2. first \in {0, 7, 8} => ~layers[6][1]
    BY <1>3
  <2> QED BY <2>1, <2>2, <1>5
<1>10. r.ctr = p.header.mutationCtr /\ (first = 0 => r.claims = claims.value)
  BY <1>3
<1> QED BY <1>6, <1>7, <1>8, <1>9, <1>10 DEF r, claims, JsJudges

-------------------------------------------------------------------------------
(***************************************************************************)
(* The issuers: how a token is made.                                       *)
(***************************************************************************)

\* A sequence, of whatever.
IsSeq(s) == s \in Seq(Range(s))

\* s is what all begins with.
Grown(s, all) == \A n \in DOMAIN s : n \in DOMAIN all /\ all[n] = s[n]

\* Append adds an element at the end and changes nothing before it.
LEMMA SeqAppend ==
  ASSUME NEW s, IsSeq(s), NEW e
  PROVE  /\ DOMAIN s = 1..Len(s) /\ Len(s) \in Nat
         /\ IsSeq(Append(s, e)) /\ DOMAIN Append(s, e) = 1..(Len(s) + 1)
         /\ Len(Append(s, e)) = Len(s) + 1
         /\ Append(s, e)[Len(s) + 1] = e /\ Grown(s, Append(s, e))
<1> DEFINE S == Range(s) \cup {e}
           u == Append(s, e)
<1>1. s \in Seq(S) /\ e \in S
  BY SeqMonotonic DEF IsSeq
<1>2. /\ u \in Seq(S) /\ Len(u) = Len(s) + 1
      /\ \A n \in 1..Len(s) : u[n] = s[n]
      /\ u[Len(s) + 1] = e
  BY <1>1, AppendProperties
<1> HIDE DEF u
<1>3. /\ Len(s) \in Nat /\ DOMAIN s = 1..Len(s)
      /\ DOMAIN u = 1..(Len(s) + 1) /\ u \in [1..(Len(s) + 1) -> S]
  BY <1>1, <1>2, LenProperties
<1>4. \A n \in 1..(Len(s) + 1) : u[n] \in Range(u)
  BY <1>3 DEF Range
<1>5. u \in [1..(Len(s) + 1) -> Range(u)]
  BY <1>3, <1>4
<1>6. Len(s) + 1 \in Nat
  BY <1>3
<1>7. \A T, m : m \in Nat => [1..m -> T] \subseteq Seq(T)
  BY SeqDef
<1>8. IsSeq(u)
  BY <1>5, <1>6, <1>7 DEF IsSeq
<1>9. Grown(s, u)
  BY <1>2, <1>3 DEF Grown
<1> QED BY <1>2, <1>3, <1>8, <1>9 DEF u

\* The header of the n-th token, as its issuer wrote it.
HeaderOf(t, n) ==
  [suite |-> t.ask.suite, tokenType |-> 1, issuedAt |-> t.at, ttl |-> t.ask.ttl,
   nonce |-> n, deviceFp |-> n, mutationCtr |-> t.ctr]

\* The text an issuer enciphers, when s is the number of the signature's blob.
Carries(all, text, r, s) ==
  LET raw == EncodeClaims(r.claims)
  IN \/ text = raw
     \/ r.impl = "js" /\ text = <<Raw>> \o raw
     \/ /\ r.impl = "js" /\ s - 2 \in DOMAIN all /\ all[s - 2].len \in Nat \ {0}
        /\ all[s - 2] = Blob("deflate", 0, 0, raw, all[s - 2].len)
        /\ text = <<Deflate>> \o CellsOf(s - 2, all[s - 2].len)

\* t is the n-th token, and s the number of its signature's blob.
MadeAt(all, t, n, s) ==
  LET text    == all[s - 1].text
      payload == CellsOf(s - 1, Len(text) + 1)
      ttl     == Uint32(t.ask.ttl)
  IN /\ s - 1 \in DOMAIN all /\ s \in DOMAIN all
     /\ text \in Seq(Int) /\ Carries(all, text, t.ask, s)
     /\ all[s - 1] = Blob(t.ask.impl, t.ask.key, n, text, Len(text) + 1)
     /\ all[s] = Blob(SignatureOf(t.ask.suite, t.ask.impl), t.ask.key, 0,
                      Wire(HeaderOf(t, n), ttl, payload, <<>>), 1)
     /\ t.bytes = Wire(HeaderOf(t, n), ttl, payload, CellsOf(s, 1))

\* What the type of a request says.
LEMMA RequestFacts ==
  ASSUME NEW r \in Requests
  PROVE  /\ r.impl \in {"js", "rust"} /\ r.claims \in Claims8 /\ r.ttl \in Nat /\ r.suite \in Nat
         /\ r.compress \in {"legacy", "off", "on", "auto"} /\ r.key \in Keys
         /\ r.impl = "rust" => r.suite \in Suites /\ Uint32(r.ttl) = r.ttl
         /\ Uint32(r.ttl) \in Nat
<1>1. /\ r.impl \in {"js", "rust"} /\ r.claims \in Claims8 /\ r.ttl \in Nat /\ r.suite \in 0..255
      /\ r.compress \in {"legacy", "off", "on", "auto"} /\ r.key \in Keys
      /\ r.impl = "rust" => r.suite \in Suites /\ r.ttl < TtlRange
  BY DEF Requests, Claims8
<1>2. TtlRange \in Nat \ {0}
  BY CodecAssumption
<1> QED BY <1>1, <1>2 DEF Uint32

\* The SDK and the core write the same cells: the core's ttl fits its field.
LEMMA SerializeIsWire ==
  ASSUME NEW r \in Requests, NEW h, h.ttl = r.ttl, NEW payload, NEW signature
  PROVE  /\ SerializeToken(h, payload, signature) = Wire(h, Uint32(r.ttl), payload, signature)
         /\ SignedBytes(h, payload) = Wire(h, Uint32(r.ttl), payload, <<>>)
         /\ r.impl = "rust" =>
              /\ To_bytes(h, payload, signature) = Wire(h, Uint32(r.ttl), payload, signature)
              /\ Signed_bytes(h, payload) = Wire(h, Uint32(r.ttl), payload, <<>>)
<1>1. r.impl = "rust" => Uint32(r.ttl) = r.ttl
  BY RequestFacts
<1> QED BY <1>1 DEF SerializeToken, SignedBytes, To_bytes, Signed_bytes, Wire, U64, WriteUint64

\* Every signature is one cell.
SignatureKinds == {"ml-dsa", "falcon512"}
ShortSigned(all) == \A b \in DOMAIN all : all[b].kind \in SignatureKinds => all[b].len = 1

\* A further signature is one cell too.
LEMMA ShortAppend ==
  ASSUME NEW s, IsSeq(s), NEW e, e.kind \in SignatureKinds => e.len = 1
  PROVE  ShortSigned(s) => ShortSigned(Append(s, e))
<1> DEFINE u == Append(s, e)
<1>1. /\ DOMAIN s = 1..Len(s) /\ Len(s) \in Nat /\ DOMAIN u = 1..(Len(s) + 1)
      /\ u[Len(s) + 1] = e /\ \A n \in DOMAIN s : u[n] = s[n]
  BY SeqAppend DEF Grown
<1> HIDE DEF u
<1>2. ASSUME ShortSigned(s), NEW b \in DOMAIN u, u[b].kind \in SignatureKinds PROVE u[b].len = 1
  <2>1. CASE b = Len(s) + 1
    BY <1>1, <1>2, <2>1
  <2>2. CASE b # Len(s) + 1
    <3>1. b \in DOMAIN s
      BY <1>1, <2>2
    <3> QED BY <1>1, <1>2, <3>1 DEF ShortSigned
  <2> QED BY <2>1, <2>2
<1> QED BY <1>2 DEF ShortSigned, u

\* Emit adds a token that is made as it should be.
LEMMA EmitMakes ==
  ASSUME NEW known, IsSeq(known), NEW r \in Requests, NEW ctr, NEW text \in Seq(Int),
         Carries(known, text, r, Len(known) + 2), Emit(r, Header(r, ctr), known, text)
  PROVE  /\ IsSeq(blobs') /\ Len(blobs') = Len(known) + 2 /\ Grown(known, blobs')
         /\ ShortSigned(known) => ShortSigned(blobs')
         /\ \E e : /\ issued' = Append(issued, e) /\ e.ask = r /\ e.at = now /\ e.ctr = ctr
                   /\ MadeAt(blobs', e, Len(issued) + 1, Len(blobs'))
<1> DEFINE h       == Header(r, ctr)
           n       == Len(issued) + 1
           js      == r.impl = "js"
           seal    == Blob(r.impl, r.key, h.nonce, text, Len(text) + 1)
           sealed  == Append(known, seal)
           payload == CellsOf(Len(sealed), Len(text) + 1)
           covered == IF js THEN SignedBytes(h, payload) ELSE Signed_bytes(h, payload)
           sign    == Blob(SignatureOf(r.suite, r.impl), r.key, 0, covered, 1)
           signed  == Append(sealed, sign)
           sig     == CellsOf(Len(signed), 1)
           bytes   == IF js THEN SerializeToken(h, payload, sig) ELSE To_bytes(h, payload, sig)
           e       == [bytes |-> bytes, ask |-> r, at |-> now, ctr |-> h.mutationCtr]
           ttl     == Uint32(r.ttl)
<1>1. blobs' = signed /\ issued' = Append(issued, e)
  BY DEF Emit
<1>2. h.ttl = r.ttl /\ h.mutationCtr = ctr /\ h.nonce = n /\ h = HeaderOf(e, n)
  BY DEF Header, HeaderOf
<1>3. e.ask = r /\ e.at = now /\ e.ctr = ctr /\ e.bytes = bytes
  BY <1>2
<1>4. covered = Wire(h, ttl, payload, <<>>) /\ bytes = Wire(h, ttl, payload, sig)
  <2> HIDE DEF h, payload, sig
  <2> QED BY <1>2, RequestFacts, SerializeIsWire
<1> DEFINE s == Len(known) + 2
<1>5. /\ IsSeq(sealed) /\ Len(sealed) = Len(known) + 1 /\ Grown(known, sealed) /\ Len(known) \in Nat
      /\ DOMAIN sealed = 1..(Len(known) + 1) /\ sealed[Len(known) + 1] = seal
      /\ DOMAIN known = 1..Len(known)
  <2> HIDE DEF seal
  <2> QED BY SeqAppend
<1>6. /\ IsSeq(signed) /\ Len(signed) = s /\ Grown(sealed, signed)
      /\ DOMAIN signed = 1..s /\ signed[s] = sign
  <2> HIDE DEF sealed, sign
  <2>1. Len(sealed) + 1 = s
    BY <1>5
  <2> QED BY <1>5, <2>1, SeqAppend
<1>7. signed[s - 1] = seal /\ s - 1 \in DOMAIN signed /\ s \in DOMAIN signed /\ s - 1 = Len(sealed)
  <2> HIDE DEF sealed, seal, signed
  <2> QED BY <1>5, <1>6 DEF Grown
<1>8. Grown(known, signed)
  BY <1>5, <1>6 DEF Grown
<1>9. Carries(signed, text, r, s)
  <2> HIDE DEF signed
  <2> QED BY <1>8 DEF Carries, Grown
<1>10. signed[s - 1].text = text
  BY <1>7 DEF Blob
<1>11. MadeAt(signed, e, n, s)
  <2>1. seal = Blob(r.impl, r.key, n, text, Len(text) + 1)
    BY <1>2
  <2>2. sign = Blob(SignatureOf(r.suite, r.impl), r.key, 0, Wire(HeaderOf(e, n), ttl, payload, <<>>), 1)
    BY <1>2, <1>4
  <2>3. e.bytes = Wire(HeaderOf(e, n), ttl, payload, CellsOf(s, 1))
    BY <1>2, <1>3, <1>4, <1>6
  <2>4. payload = CellsOf(s - 1, Len(text) + 1)
    BY <1>7
  <2> HIDE DEF e, n, payload, sign, seal, signed, s
  <2> QED BY <1>3, <1>6, <1>7, <1>9, <1>10, <2>1, <2>2, <2>3, <2>4 DEF MadeAt
<1>13. ShortSigned(known) => ShortSigned(signed)
  <2>1. seal.kind \notin SignatureKinds /\ sign.len = 1
    BY RequestFacts DEF Blob, SignatureKinds
  <2> HIDE DEF seal, sign
  <2>2. ShortSigned(known) => ShortSigned(sealed)
    BY <2>1, ShortAppend
  <2> HIDE DEF sealed
  <2>3. ShortSigned(sealed) => ShortSigned(signed)
    BY <1>5, <2>1, ShortAppend
  <2> QED BY <2>2, <2>3
<1> HIDE DEF e, signed, sealed
<1>12. IsSeq(blobs') /\ Len(blobs') = s /\ Grown(known, blobs')
  BY <1>1, <1>6, <1>8
<1> QED BY <1>1, <1>3, <1>11, <1>12, <1>13

\* The encoded claims begin with their number, so with no marker.
LEMMA EncodedIsBytes ==
  ASSUME NEW claims \in Claims8
  PROVE  /\ EncodeClaims(claims) \in Seq(Int) /\ Len(EncodeClaims(claims)) \in Nat \ {0}
         /\ EncodeClaims(claims)[1] = FixMap + Len(claims)
<1> DEFINE N == Len(claims)
<1>1. PICK out \in [0..N -> Seq(Int)] :
        /\ out[0] = <<FixMap + N>>
        /\ \A i \in 1..N :
             out[i] = out[i - 1] \o EncodeStr(claims[i].key) \o EncodeStr(claims[i].text)
        /\ EncodeClaims(claims) = out[N]
  BY EncodeOut
<1>2. N \in Nat /\ \A i \in 1..N : claims[i].key \in Texts8 /\ claims[i].text \in Texts8
  BY ClaimTexts
<1> HIDE DEF N
<1>3. ASSUME NEW i \in 1..N PROVE Starts(out[i - 1], out[i])
  <2> DEFINE k == EncodeStr(claims[i].key)
             t == EncodeStr(claims[i].text)
  <2>1. k \in Seq(Int) /\ t \in Seq(Int) /\ out[i - 1] \in Seq(Int) /\ out[i] = (out[i - 1] \o k) \o t
    <3>1. i - 1 \in 0..N
      BY <1>2
    <3> QED BY <1>1, <1>2, <3>1, EncodeStrIsBytes
  <2> HIDE DEF k, t
  <2> DEFINE u == out[i - 1] \o k
  <2>2. u \in Seq(Int) /\ Starts(out[i - 1], u)
    BY <2>1, ConcatStarts
  <2> HIDE DEF u
  <2>3. u \o t \in Seq(Int) /\ Starts(u, u \o t) /\ out[i] = u \o t
    <3>1. out[i] = u \o t
      BY <2>1 DEF u
    <3> QED BY <2>1, <2>2, <3>1, ConcatStarts
  <2> QED BY <2>1, <2>2, <2>3, StartsTransitive
<1>4. Len(out[N]) \in Nat /\ Starts(out[0], out[N])
  <2>1. \A n \in 0..N : Len(out[n]) \in Nat /\ Starts(out[n], out[N])
    BY <1>2, <1>3, EncodedStays
  <2>2. 0 \in 0..N /\ N \in 0..N
    BY <1>2
  <2> QED BY <2>1, <2>2
<1>5. out[N] \in Seq(Int) /\ Len(out[0]) = 1 /\ out[0][1] = FixMap + N
  BY <1>1, <1>2
<1> QED BY <1>1, <1>4, <1>5 DEF Starts, N

\* The cells of a blob are a string of cells.
LEMMA CellsAreBytes ==
  ASSUME NEW b \in Nat, NEW len \in Nat
  PROVE  CellsOf(b, len) \in Seq(Int) /\ Len(CellsOf(b, len)) = len
BY DEF CellsOf, Opaque

\* What the SDK enciphers carries the claims.
LEMMA PlaintextCarries ==
  ASSUME IsSeq(blobs), NEW r \in Requests, r.impl = "js",
         NEW p \in Plaintexts(r.compress, EncodeClaims(r.claims))
  PROVE  LET known == blobs \o p.deflated
         IN /\ IsSeq(known) /\ Grown(blobs, known) /\ p.text \in Seq(Int)
            /\ Carries(known, p.text, r, Len(known) + 2)
            /\ ShortSigned(blobs) => ShortSigned(known)
<1> DEFINE raw == EncodeClaims(r.claims)
           plain(text) == [text |-> text, deflated |-> <<>>]
           deflated(len) == [text |-> <<Deflate>> \o CellsOf(Len(blobs) + 1, len),
                             deflated |-> <<Blob("deflate", 0, 0, raw, len)>>]
<1>1. raw \in Seq(Int) /\ Len(raw) \in Nat \ {0} /\ r.compress \in {"legacy", "off", "on", "auto"}
  BY RequestFacts, EncodedIsBytes
<1>2. DOMAIN blobs = 1..Len(blobs) /\ Len(blobs) \in Nat
  BY SeqAppend
<1>3. p = plain(raw) \/ p = plain(<<Raw>> \o raw) \/ \E len \in {1, Len(raw)} : p = deflated(len)
  <2> HIDE DEF raw
  <2>1. CASE r.compress = "legacy"
    BY <2>1 DEF Plaintexts, raw
  <2>2. CASE r.compress = "off"
    BY <2>2 DEF Plaintexts, raw
  <2>3. CASE r.compress = "on"
    BY <2>3 DEF Plaintexts, raw
  <2>4. CASE r.compress = "auto"
    BY <2>4 DEF Plaintexts, raw
  <2> QED BY <1>1, <2>1, <2>2, <2>3, <2>4
<1> HIDE DEF raw
<1>4. ASSUME NEW text, p = plain(text), text \in {raw, <<Raw>> \o raw}
      PROVE  LET known == blobs \o p.deflated
             IN /\ IsSeq(known) /\ Grown(blobs, known) /\ p.text \in Seq(Int)
                /\ Carries(known, p.text, r, Len(known) + 2)
                /\ ShortSigned(blobs) => ShortSigned(known)
  <2>1. blobs \o p.deflated = blobs /\ p.text = text
    BY <1>4, ConcatEmptySeq DEF IsSeq
  <2>2. <<Raw>> \o raw \in Seq(Int)
    BY <1>1 DEF Raw
  <2>3. Carries(blobs, text, r, Len(blobs) + 2)
    BY <1>4 DEF Carries, raw
  <2> QED BY <1>1, <1>4, <2>1, <2>2, <2>3 DEF Grown
<1>5. ASSUME NEW len \in {1, Len(raw)}, p = deflated(len)
      PROVE  LET known == blobs \o p.deflated
             IN /\ IsSeq(known) /\ Grown(blobs, known) /\ p.text \in Seq(Int)
                /\ Carries(known, p.text, r, Len(known) + 2)
                /\ ShortSigned(blobs) => ShortSigned(known)
  <2> DEFINE b == Blob("deflate", 0, 0, raw, len)
             known == Append(blobs, b)
             s == Len(known) + 2
             cells == CellsOf(Len(blobs) + 1, len)
  <2>1. b.len = len /\ len \in Nat \ {0} /\ b.kind \notin SignatureKinds
    BY <1>1 DEF Blob, SignatureKinds
  <2>2. p.text = <<Deflate>> \o cells /\ p.deflated = <<b>>
    BY <1>5
  <2> HIDE DEF b
  <2>3. blobs \o p.deflated = known
    <3>1. blobs \in Seq(Range(blobs) \cup {b})
      BY SeqMonotonic DEF IsSeq
    <3> QED BY <2>2, <3>1, AppendIsConcat
  <2>4. /\ IsSeq(known) /\ Grown(blobs, known) /\ Len(known) = Len(blobs) + 1
        /\ known[Len(blobs) + 1] = b /\ DOMAIN known = 1..(Len(blobs) + 1)
    BY SeqAppend
  <2>10. ShortSigned(blobs) => ShortSigned(known)
    BY <2>1, ShortAppend
  <2> HIDE DEF known
  <2>5. s - 2 = Len(blobs) + 1 /\ s - 2 \in DOMAIN known
    BY <1>2, <2>4
  <2>6. cells \in Seq(Int)
    BY <1>2, <2>1, CellsAreBytes
  <2>7. p.text \in Seq(Int)
    <3> HIDE DEF cells
    <3>1. <<Deflate>> \in Seq(Int)
      BY DEF Deflate
    <3> QED BY <2>2, <2>6, <3>1, ConcatProperties
  <2>8. /\ r.impl = "js" /\ s - 2 \in DOMAIN known /\ known[s - 2].len \in Nat \ {0}
        /\ known[s - 2] = Blob("deflate", 0, 0, raw, known[s - 2].len)
        /\ p.text = <<Deflate>> \o CellsOf(s - 2, known[s - 2].len)
    <3>1. known[s - 2] = b
      BY <2>4, <2>5
    <3> HIDE DEF s
    <3> QED BY <2>1, <2>2, <2>5, <3>1 DEF b
  <2>9. Carries(known, p.text, r, s)
    BY <2>8 DEF Carries, raw
  <2> QED BY <2>3, <2>4, <2>7, <2>9, <2>10
<1> QED BY <1>3, <1>4, <1>5

\* A step of an issuer issues nothing, or one token that is made as it should.
Issues(r, ctr) ==
  \/ issued' = issued /\ blobs' = blobs
  \/ /\ Encodable(r.claims) /\ IsSeq(blobs') /\ Grown(blobs, blobs')
     /\ ShortSigned(blobs) => ShortSigned(blobs')
     /\ \E e : /\ issued' = Append(issued, e) /\ e.ask = r /\ e.at = now /\ e.ctr = ctr
               /\ MadeAt(blobs', e, Len(issued) + 1, Len(blobs'))

\* issueToken adds one token, or none.
LEMMA SdkIssues ==
  ASSUME IsSeq(blobs), NEW r \in Requests, r.impl = "js", NEW ctr, IssueToken(r, ctr)
  PROVE  Issues(r, ctr)
<1>1. CASE ~Encodable(r.claims)
  BY <1>1 DEF IssueToken, Issues
<1>2. CASE Encodable(r.claims)
  <2>1. PICK p \in Plaintexts(r.compress, EncodeClaims(r.claims)) :
               Emit(r, Header(r, ctr), blobs \o p.deflated, p.text)
    BY <1>2 DEF IssueToken
  <2> DEFINE known == blobs \o p.deflated
  <2>2. /\ IsSeq(known) /\ Grown(blobs, known) /\ p.text \in Seq(Int)
        /\ Carries(known, p.text, r, Len(known) + 2)
        /\ ShortSigned(blobs) => ShortSigned(known)
    BY PlaintextCarries
  <2>3. Emit(r, Header(r, ctr), known, p.text)
    BY <2>1
  <2> HIDE DEF known
  <2>4. /\ IsSeq(blobs') /\ Grown(known, blobs')
        /\ ShortSigned(known) => ShortSigned(blobs')
        /\ \E e : /\ issued' = Append(issued, e) /\ e.ask = r /\ e.at = now /\ e.ctr = ctr
                  /\ MadeAt(blobs', e, Len(issued) + 1, Len(blobs'))
    BY <2>2, <2>3, EmitMakes
  <2>5. Grown(blobs, blobs')
    BY <2>2, <2>4 DEF Grown
  <2> QED BY <1>2, <2>2, <2>4, <2>5 DEF Issues
<1> QED BY <1>1, <1>2

\* issue_token adds one token, or none.
LEMMA CoreIssues ==
  ASSUME IsSeq(blobs), NEW r \in Requests, NEW ctr, Issue_token(r, ctr)
  PROVE  Issues(r, ctr)
<1>1. CASE ~Encodable(r.claims)
  BY <1>1 DEF Issue_token, Issues
<1>2. CASE Encodable(r.claims)
  <2>1. Emit(r, Header(r, ctr), blobs, EncodeClaims(r.claims))
    BY <1>2 DEF Issue_token
  <2>2. EncodeClaims(r.claims) \in Seq(Int) /\ Carries(blobs, EncodeClaims(r.claims), r, Len(blobs) + 2)
    BY RequestFacts, EncodedIsBytes DEF Carries
  <2>3. /\ IsSeq(blobs') /\ Grown(blobs, blobs')
        /\ ShortSigned(blobs) => ShortSigned(blobs')
        /\ \E e : /\ issued' = Append(issued, e) /\ e.ask = r /\ e.at = now /\ e.ctr = ctr
                  /\ MadeAt(blobs', e, Len(issued) + 1, Len(blobs'))
    BY <2>1, <2>2, EmitMakes
  <2> QED BY <1>2, <2>3 DEF Issues
<1> QED BY <1>1, <1>2

-------------------------------------------------------------------------------
(***************************************************************************)
(* The issuing side. A counter is owned from its reservation on: by the    *)
(* issuer that holds it, and then by the token it was written into.        *)
(***************************************************************************)

\* Types, as far as the proofs need them.
Typed ==
  /\ reserved \in [Keys -> Nat]
  /\ issuing \in [Issuers -> [ask : Nat, ctr : Nat]]
  /\ IsSeq(issued) /\ IsSeq(blobs)

\* An issuer that holds a counter, the key it is for, and the tokens issued through the store.
Holds(i) == issuing[i] # Idle
KeyOf(i) == Asked[issuing[i].ask].key
ByStore  == {n \in DOMAIN issued : issued[n].ask.impl = "js"}

\* What an issuer holds was reserved for its request, and by nobody else.
HeldIsReserved ==
  \A i \in Issuers : Holds(i) =>
    /\ issuing[i].ask \in DOMAIN Asked /\ Asked[issuing[i].ask].impl = "js"
    /\ issuing[i].ctr \in 1..reserved[KeyOf(i)]

\* No two issuers hold one counter of a key.
HeldOnce ==
  \A i, j \in Issuers :
    Holds(i) /\ Holds(j) /\ KeyOf(i) = KeyOf(j) /\ issuing[i].ctr = issuing[j].ctr => i = j

\* No token carries a counter that an issuer still holds.
HeldIsUnspent ==
  \A n \in ByStore : /\ issued[n].ask.key \in Keys
                     /\ \A i \in Issuers : Holds(i) /\ KeyOf(i) = issued[n].ask.key
                                             => issuing[i].ctr # issued[n].ctr

\* The inductive invariant of the issuing side.
IInv == Typed /\ HeldIsReserved /\ HeldOnce /\ HeldIsUnspent /\ CountersUnique


\* What the type of the requests says.
LEMMA AskedKey ==
  /\ Len(Asked) \in Nat /\ DOMAIN Asked = 1..Len(Asked)
  /\ \A n \in DOMAIN Asked : n \in Nat \ {0} /\ Asked[n] \in Requests /\ Asked[n].key \in Keys
<1>1. Len(Asked) \in Nat /\ DOMAIN Asked = 1..Len(Asked)
  BY AskedAssumption, LenProperties
<1>2. \A n \in 1..Len(Asked) : Asked[n] \in Requests
  BY AskedAssumption, ElementOfSeq
<1> QED BY <1>1, <1>2, RequestFacts


\* It holds at first.
LEMMA InitIInv == Init => IInv
<1> SUFFICES ASSUME Init PROVE IInv
  OBVIOUS
<1>1. Typed
  BY DEF Init, Typed, Idle, IsSeq
<1>2. \A i \in Issuers : ~Holds(i)
  BY DEF Init, Holds
<1>3. ByStore = {} /\ DOMAIN issued = {}
  BY DEF Init, ByStore
<1>4. CountersUnique
  BY <1>3 DEF CountersUnique
<1> QED BY <1>1, <1>2, <1>3, <1>4 DEF IInv, HeldIsReserved, HeldOnce, HeldIsUnspent

\* The new counter is above everything held and everything issued for its key.
LEMMA ReserveStep == ASSUME IInv, NEW i \in Issuers, Reserve(i) PROVE IInv'
<1> DEFINE k == Asked[next].key
<1>1. /\ next \in DOMAIN Asked /\ next \in Nat \ {0} /\ k \in Keys /\ Asked[next].impl = "js"
      /\ reserved' = [reserved EXCEPT ![k] = @ + 1]
      /\ issuing' = [issuing EXCEPT ![i] = [ask |-> next, ctr |-> reserved[k] + 1]]
      /\ issued' = issued /\ blobs' = blobs
  BY AskedKey DEF Reserve
<1> HIDE DEF k
<1>2. Typed'
  BY <1>1 DEF Typed, IInv
<1>3. /\ issuing'[i].ask = next /\ issuing'[i].ctr = reserved[k] + 1
      /\ \A j \in Issuers \ {i} : issuing'[j] = issuing[j]
      /\ reserved'[k] = reserved[k] + 1 /\ reserved[k] \in Nat
      /\ \A l \in Keys : reserved[l] \in Nat /\ reserved'[l] \in Nat /\ reserved[l] <= reserved'[l]
  BY <1>1 DEF Typed, IInv
<1>4. KeyOf(i)' = k
  BY <1>3 DEF KeyOf, k
<1>5. \A j \in Issuers \ {i} : Holds(j)' =>
        /\ KeyOf(j)' = KeyOf(j) /\ KeyOf(j) \in Keys
        /\ issuing[j].ask \in DOMAIN Asked /\ Asked[issuing[j].ask].impl = "js"
        /\ issuing[j].ctr \in 1..reserved[KeyOf(j)]
  BY <1>3, AskedKey DEF Holds, KeyOf, IInv, HeldIsReserved
<1>6. HeldIsReserved'
  <2>1. SUFFICES ASSUME NEW j \in Issuers, Holds(j)'
                 PROVE  /\ issuing'[j].ask \in DOMAIN Asked /\ Asked[issuing'[j].ask].impl = "js"
                        /\ issuing'[j].ctr \in 1..reserved'[KeyOf(j)']
    BY DEF HeldIsReserved
  <2>2. CASE j = i
    BY <2>2, <1>1, <1>3, <1>4
  <2>3. CASE j # i
    BY <2>1, <2>3, <1>3, <1>5
  <2> QED BY <2>2, <2>3
<1>7. HeldOnce'
  <2>1. ASSUME NEW j \in Issuers \ {i}, Holds(j)', KeyOf(j)' = k
        PROVE  issuing'[j].ctr # issuing'[i].ctr
    BY <2>1, <1>3, <1>5
  <2> QED BY <2>1, <1>3, <1>4, <1>5 DEF HeldOnce, IInv, Holds
<1>8. HeldIsUnspent'
  <2>1. SUFFICES ASSUME NEW n \in ByStore
                 PROVE  /\ issued[n].ask.key \in Keys
                        /\ \A j \in Issuers : Holds(j)' /\ KeyOf(j)' = issued[n].ask.key
                                                => issuing'[j].ctr # issued[n].ctr
    BY <1>1 DEF HeldIsUnspent, ByStore
  <2>2. issued[n].ask.key \in Keys /\ issued[n].ctr \in 1..reserved[issued[n].ask.key]
    BY DEF IInv, HeldIsUnspent, CountersUnique, ByStore
  <2>3. KeyOf(i)' = issued[n].ask.key => issuing'[i].ctr # issued[n].ctr
    BY <2>2, <1>3, <1>4
  <2>4. ASSUME NEW j \in Issuers \ {i}, Holds(j)', KeyOf(j)' = issued[n].ask.key
        PROVE  issuing'[j].ctr # issued[n].ctr
    BY <2>4, <1>3, <1>5 DEF IInv, HeldIsUnspent, Holds
  <2> QED BY <2>2, <2>3, <2>4
<1>9. CountersUnique'
  <2>1. \A n \in ByStore : issued[n].ctr \in 1..reserved'[issued[n].ask.key]
    BY <1>3 DEF IInv, CountersUnique, HeldIsUnspent, ByStore
  <2> QED BY <2>1, <1>1 DEF IInv, CountersUnique, ByStore
<1> QED BY <1>2, <1>6, <1>7, <1>8, <1>9 DEF IInv

\* What the issuer held goes into a token, or is lost.
LEMMA SignStep == ASSUME IInv, NEW i \in Issuers, Sign(i) PROVE IInv'
<1> DEFINE r == Asked[issuing[i].ask]
<1>1. /\ Holds(i) /\ reserved' = reserved
      /\ issuing' = [issuing EXCEPT ![i] = Idle]
      /\ r \in Requests /\ Issues(r, issuing[i].ctr)
  <2>1. Holds(i) /\ IssueToken(r, issuing[i].ctr)
    BY DEF Sign, Holds
  <2>2. issuing[i].ask \in DOMAIN Asked
    BY <2>1 DEF IInv, HeldIsReserved
  <2>3. r \in Requests /\ r.impl = "js"
    BY <2>1, <2>2, AskedKey DEF IInv, HeldIsReserved
  <2>4. Issues(r, issuing[i].ctr)
    BY <2>1, <2>3, SdkIssues DEF IInv, Typed
  <2> QED BY <2>1, <2>3, <2>4 DEF Sign
<1>2. /\ issuing[i].ctr \in 1..reserved[r.key] /\ r.key \in Keys
      /\ ~Holds(i)'
      /\ \A j \in Issuers \ {i} : /\ issuing'[j] = issuing[j]
                                  /\ Holds(j)' = Holds(j) /\ KeyOf(j)' = KeyOf(j)
  BY <1>1, AskedKey DEF IInv, Typed, HeldIsReserved, Holds, KeyOf
<1>3. issuing' \in [Issuers -> [ask : Nat, ctr : Nat]]
  BY <1>1 DEF IInv, Typed, Idle
<1>4. HeldIsReserved' /\ HeldOnce'
  BY <1>1, <1>2 DEF IInv, HeldIsReserved, HeldOnce
<1>5. CASE issued' = issued /\ blobs' = blobs
  <2>1. HeldIsUnspent'
    BY <1>2, <1>5 DEF IInv, HeldIsUnspent, ByStore
  <2>2. CountersUnique'
    BY <1>1, <1>5 DEF IInv, CountersUnique
  <2> QED BY <1>1, <1>3, <1>4, <1>5, <2>1, <2>2 DEF IInv, Typed
<1>6. ASSUME NEW e, issued' = Append(issued, e), e.ask = r, e.ctr = issuing[i].ctr, IsSeq(blobs')
      PROVE  IInv'
  <2> DEFINE new == Len(issued) + 1
  <2>1. /\ IsSeq(issued') /\ new \notin DOMAIN issued
        /\ DOMAIN issued' = DOMAIN issued \cup {new} /\ issued'[new] = e
        /\ \A n \in DOMAIN issued : issued'[n] = issued[n]
    BY <1>6, SeqAppend DEF IInv, Typed, Grown
  <2> HIDE DEF new
  <2>2. \A n \in ByStore' : (n \in ByStore /\ issued'[n] = issued[n]) \/ n = new
    BY <2>1 DEF ByStore
  <2>3. \A n \in ByStore : issued[n].ask.key = r.key => issued[n].ctr # issuing[i].ctr
    BY <1>1 DEF IInv, HeldIsUnspent, KeyOf
  <2>4. HeldIsUnspent'
    <3>1. ASSUME NEW j \in Issuers \ {i}, Holds(j), KeyOf(j) = r.key
          PROVE  issuing[j].ctr # issuing[i].ctr
      BY <3>1, <1>1 DEF IInv, HeldOnce, KeyOf
    <3> SUFFICES ASSUME NEW n \in ByStore'
                 PROVE  /\ issued'[n].ask.key \in Keys
                        /\ \A j \in Issuers : Holds(j)' /\ KeyOf(j)' = issued'[n].ask.key
                                                => issuing'[j].ctr # issued'[n].ctr
      BY DEF HeldIsUnspent
    <3>2. CASE n = new
      BY <1>2, <1>6, <2>1, <3>1, <3>2
    <3>3. CASE n \in ByStore /\ issued'[n] = issued[n]
      BY <1>2, <3>3 DEF IInv, HeldIsUnspent
    <3> QED BY <2>2, <3>2, <3>3
  <2>5. \A n \in ByStore' : issued'[n].ctr \in 1..reserved'[issued'[n].ask.key]
    BY <1>1, <1>2, <1>6, <2>1, <2>2 DEF IInv, CountersUnique, ByStore
  <2>6. \A n, m \in ByStore' :
          n # m /\ issued'[n].ask.key = issued'[m].ask.key => issued'[n].ctr # issued'[m].ctr
    BY <1>6, <2>1, <2>2, <2>3 DEF IInv, CountersUnique, ByStore
  <2>7. CountersUnique'
    BY <2>5, <2>6 DEF CountersUnique, ByStore
  <2> QED BY <1>1, <1>3, <1>4, <1>6, <2>1, <2>4, <2>7 DEF IInv, Typed, IsSeq
<1> QED BY <1>1, <1>5, <1>6 DEF Issues

\* The command line's tokens are not the store's.
LEMMA CliStep == ASSUME IInv, CliIssue PROVE IInv'
<1>1. /\ reserved' = reserved /\ issuing' = issuing
      /\ next \in DOMAIN Asked /\ Asked[next].impl = "rust"
      /\ Issues(Asked[next], 1)
  <2>1. next \in DOMAIN Asked /\ Issue_token(Asked[next], 1)
    BY DEF CliIssue, Advance
  <2>2. Issues(Asked[next], 1)
    BY <2>1, AskedKey, CoreIssues DEF IInv, Typed
  <2> QED BY <2>2 DEF CliIssue
<1>2. HeldIsReserved' /\ HeldOnce'
  BY <1>1 DEF IInv, HeldIsReserved, HeldOnce, Holds, KeyOf
<1>3. CASE issued' = issued /\ blobs' = blobs
  BY <1>1, <1>2, <1>3
    DEF IInv, Typed, HeldIsUnspent, CountersUnique, ByStore, Holds, KeyOf
<1>4. ASSUME NEW e, issued' = Append(issued, e), e.ask = Asked[next], IsSeq(blobs')
      PROVE  IInv'
  <2>1. /\ IsSeq(issued')
        /\ DOMAIN issued' = DOMAIN issued \cup {Len(issued) + 1} /\ issued'[Len(issued) + 1] = e
        /\ \A n \in DOMAIN issued : issued'[n] = issued[n]
    BY <1>4, SeqAppend DEF IInv, Typed, Grown
  <2>2. ByStore' = ByStore /\ \A n \in ByStore : issued'[n] = issued[n]
    BY <1>1, <1>4, <2>1 DEF ByStore
  <2>3. HeldIsUnspent'
    BY <1>1, <2>2 DEF IInv, HeldIsUnspent, Holds, KeyOf
  <2>4. CountersUnique'
    BY <1>1, <2>2 DEF IInv, CountersUnique, ByStore
  <2> QED BY <1>1, <1>2, <1>4, <2>1, <2>3, <2>4 DEF IInv, Typed, IsSeq
<1> QED BY <1>1, <1>3, <1>4 DEF Issues

\* Verifiers and the clock do not touch the issuing side.
LEMMA OtherStep ==
  ASSUME IInv, UNCHANGED <<reserved, issuing, issued, blobs>> PROVE IInv'
BY DEF IInv, Typed, HeldIsReserved, HeldOnce, HeldIsUnspent, CountersUnique, ByStore, Holds, KeyOf

\* Every step keeps it.
LEMMA NextIInv == IInv /\ [Next]_vars => IInv'
<1> SUFFICES ASSUME IInv, [Next]_vars PROVE IInv'
  OBVIOUS
<1>1. ASSUME NEW i \in Issuers, Reserve(i) \/ Sign(i) PROVE IInv'
  BY <1>1, ReserveStep, SignStep
<1>2. CASE CliIssue
  BY <1>2, CliStep
<1>3. ASSUME NEW t \in Range(issued), NEW drift \in Drifts,
             VerifyChain(t, drift) \/ \E v \in Verifiers : VerifyStore(v, t, drift)
      PROVE  IInv'
  BY <1>3, OtherStep DEF VerifyChain, VerifyStore
<1>4. ASSUME NEW v \in Verifiers, Observe(v) \/ ObserveFails(v) PROVE IInv'
  BY <1>4, OtherStep DEF Observe, ObserveFails
<1>5. CASE Tick \/ UNCHANGED vars
  BY <1>5, OtherStep DEF Tick, vars
<1> QED BY <1>1, <1>2, <1>3, <1>4, <1>5 DEF Next

-------------------------------------------------------------------------------
(***************************************************************************)
(* Every token stays as it was made.                                       *)
(***************************************************************************)

\* The n-th token, made of an answered request not later than time, with a counter below
\* bound.
Made(all, t, n, time, bound) ==
  /\ t.ask \in Requests /\ Encodable(t.ask.claims)
  /\ t.at \in 0..time /\ t.ctr \in 1..(bound - 1)
  /\ \E s \in Nat : MadeAt(all, t, n, s)

\* Every token is made as it should be, and the last one with the last blob.
MadeInv ==
  /\ now \in 0..MaxTime /\ next \in 1..(Len(Asked) + 1)
  /\ \A k \in Keys : reserved[k] < next
  /\ \A n \in DOMAIN issued : Made(blobs, issued[n], n, now, next)
  /\ issued # <<>> => MadeAt(blobs, issued[Len(issued)], Len(issued), Len(blobs))

\* More blobs do not change how a token was made.
LEMMA MadeStays ==
  ASSUME NEW all, NEW more, Grown(all, more), NEW t, NEW n, NEW s, MadeAt(all, t, n, s)
  PROVE  MadeAt(more, t, n, s)
<1>1. /\ s - 1 \in DOMAIN more /\ more[s - 1] = all[s - 1]
      /\ s \in DOMAIN more /\ more[s] = all[s]
  BY DEF MadeAt, Grown
<1>2. Carries(more, more[s - 1].text, t.ask, s)
  BY <1>1 DEF MadeAt, Carries, Grown
<1> QED BY <1>1, <1>2 DEF MadeAt

\* A step that leaves the tokens and the blobs alone keeps how they were made.
LEMMA MadeQuiet ==
  ASSUME NEW all, NEW more, Grown(all, more), NEW t, NEW n, NEW time \in Int, NEW later \in Int,
         time <= later, NEW bound \in Int, NEW wider \in Int, bound <= wider,
         Made(all, t, n, time, bound)
  PROVE  Made(more, t, n, later, wider)
<1>1. PICK s \in Nat : MadeAt(all, t, n, s)
  BY DEF Made
<1>2. MadeAt(more, t, n, s)
  BY <1>1, MadeStays
<1> QED BY <1>2 DEF Made

\* What an issuer's step does to the tokens.
LEMMA IssuesMakes ==
  ASSUME IsSeq(issued), IsSeq(blobs), MadeInv, NEW r \in Requests, NEW ctr, Issues(r, ctr),
         now' = now, next' \in Int, next <= next', ctr \in 1..(next' - 1)
  PROVE  /\ \A n \in DOMAIN issued' : Made(blobs', issued'[n], n, now', next')
         /\ issued' # <<>> => MadeAt(blobs', issued'[Len(issued')], Len(issued'), Len(blobs'))
<1>1. now \in Int /\ next \in Int
  BY AskedKey, TimeAssumption DEF MadeInv
<1>2. CASE issued' = issued /\ blobs' = blobs
  <2>1. Grown(blobs, blobs')
    BY <1>2 DEF Grown
  <2>2. ASSUME NEW n \in DOMAIN issued PROVE Made(blobs', issued'[n], n, now', next')
    BY <1>1, <1>2, <2>1, MadeQuiet DEF MadeInv
  <2> QED BY <1>2, <2>2 DEF MadeInv
<1>3. CASE ~(issued' = issued /\ blobs' = blobs)
  <2>1. PICK e : /\ issued' = Append(issued, e) /\ e.ask = r /\ e.at = now /\ e.ctr = ctr
                 /\ MadeAt(blobs', e, Len(issued) + 1, Len(blobs'))
    BY <1>3 DEF Issues
  <2>2. Encodable(r.claims) /\ IsSeq(blobs') /\ Grown(blobs, blobs')
    BY <1>3 DEF Issues
  <2>3. /\ DOMAIN issued' = 1..(Len(issued) + 1) /\ Len(issued') = Len(issued) + 1
        /\ issued'[Len(issued) + 1] = e /\ Len(issued) \in Nat
        /\ \A n \in DOMAIN issued : issued'[n] = issued[n]
        /\ DOMAIN issued = 1..Len(issued)
    BY <2>1, SeqAppend DEF Grown
  <2>4. Made(blobs', e, Len(issued) + 1, now', next')
    <3>1. Len(blobs') \in Nat
      BY <2>2, SeqAppend
    <3>2. e.at \in 0..now' /\ e.ctr \in 1..(next' - 1) /\ e.ask \in Requests /\ Encodable(e.ask.claims)
      BY <2>1, <2>2 DEF MadeInv
    <3> QED BY <2>1, <3>1, <3>2 DEF Made
  <2>5. ASSUME NEW n \in DOMAIN issued PROVE Made(blobs', issued'[n], n, now', next')
    BY <1>1, <2>2, <2>3, MadeQuiet DEF MadeInv
  <2> QED BY <2>1, <2>3, <2>4, <2>5
<1> QED BY <1>2, <1>3

\* A step that leaves the tokens alone.
LEMMA MadeElse ==
  ASSUME MadeInv, UNCHANGED <<issued, blobs, reserved, next>>, now' \in 0..MaxTime, now <= now'
  PROVE  MadeInv'
<1>1. now \in Int /\ now' \in Int /\ next \in Int
  BY AskedKey, TimeAssumption DEF MadeInv
<1>2. Grown(blobs, blobs)
  BY DEF Grown
<1>3. \A n \in DOMAIN issued : Made(blobs, issued[n], n, now', next)
  BY <1>1, <1>2, MadeQuiet DEF MadeInv
<1> QED BY <1>3 DEF MadeInv, Made, MadeAt, Carries

\* It holds at first.
LEMMA MadeInit == Init => MadeInv
<1> SUFFICES ASSUME Init PROVE MadeInv
  OBVIOUS
<1>1. now = 0 /\ next = 1 /\ DOMAIN issued = {} /\ issued = <<>> /\ \A k \in Keys : reserved[k] = 0
  BY DEF Init
<1> QED BY <1>1, AskedKey, TimeAssumption DEF MadeInv

\* Every step keeps it.
LEMMA MadeNext == IInv /\ MadeInv /\ [Next]_vars => MadeInv'
<1> SUFFICES ASSUME IInv, MadeInv, [Next]_vars PROVE MadeInv'
  OBVIOUS
<1>0. IsSeq(issued) /\ IsSeq(blobs) /\ next \in Nat /\ now \in Int
  BY AskedKey, TimeAssumption DEF IInv, Typed, MadeInv
<1>1. ASSUME NEW i \in Issuers, Reserve(i) PROVE MadeInv'
  <2>1. /\ next \in DOMAIN Asked /\ next' = next + 1 /\ Asked[next].key \in Keys
        /\ reserved' = [reserved EXCEPT ![Asked[next].key] = @ + 1]
        /\ UNCHANGED <<now, issued, blobs>>
    BY <1>1, AskedKey DEF Reserve
  <2>2. \A k \in Keys : reserved'[k] < next'
    BY <1>0, <2>1 DEF MadeInv, IInv, Typed
  <2>3. next' \in 1..(Len(Asked) + 1)
    BY <1>0, <2>1, AskedKey
  <2>4. \A n \in DOMAIN issued : Made(blobs, issued[n], n, now, next')
    <3>1. Grown(blobs, blobs)
      BY DEF Grown
    <3> QED BY <1>0, <2>1, <3>1, MadeQuiet DEF MadeInv
  <2>5. now \in 0..MaxTime /\ (issued # <<>> => MadeAt(blobs, issued[Len(issued)], Len(issued), Len(blobs)))
    BY DEF MadeInv
  <2>6. now' = now /\ issued' = issued /\ blobs' = blobs
    BY <2>1
  <2>7. \A n \in DOMAIN issued' : Made(blobs', issued'[n], n, now', next')
    BY <2>4, <2>6
  <2>8. issued' # <<>> => MadeAt(blobs', issued'[Len(issued')], Len(issued'), Len(blobs'))
    BY <2>5, <2>6
  <2> QED BY <2>2, <2>3, <2>5, <2>6, <2>7, <2>8 DEF MadeInv
<1>2. ASSUME NEW i \in Issuers, Sign(i) PROVE MadeInv'
  <2> DEFINE r == Asked[issuing[i].ask]
             ctr == issuing[i].ctr
  <2>1. /\ Holds(i) /\ IssueToken(r, ctr) /\ UNCHANGED <<now, reserved, next>>
    BY <1>2 DEF Sign, Holds
  <2>2. r \in Requests /\ r.impl = "js" /\ ctr \in 1..reserved[r.key] /\ r.key \in Keys
    BY <2>1, AskedKey DEF IInv, HeldIsReserved, KeyOf
  <2>3. ctr \in 1..(next' - 1) /\ next' \in Int /\ next <= next'
    BY <1>0, <2>1, <2>2 DEF MadeInv, IInv, Typed
  <2>4. Issues(r, ctr)
    BY <1>0, <2>1, <2>2, SdkIssues
  <2>5. /\ \A n \in DOMAIN issued' : Made(blobs', issued'[n], n, now', next')
        /\ issued' # <<>> => MadeAt(blobs', issued'[Len(issued')], Len(issued'), Len(blobs'))
    BY <1>0, <2>1, <2>2, <2>3, <2>4, IssuesMakes
  <2> QED BY <2>1, <2>5 DEF MadeInv, Made, MadeAt, Carries
<1>3. CASE CliIssue
  <2>1. /\ next \in DOMAIN Asked /\ Issue_token(Asked[next], 1) /\ next' = next + 1
        /\ UNCHANGED <<now, reserved>>
    BY <1>3 DEF CliIssue, Advance
  <2>2. Issues(Asked[next], 1) /\ Asked[next] \in Requests
    BY <1>0, <2>1, AskedKey, CoreIssues
  <2>3. 1 \in 1..(next' - 1) /\ next' \in Int /\ next <= next' /\ next' \in 1..(Len(Asked) + 1)
    BY <1>0, <2>1, AskedKey
  <2>4. /\ \A n \in DOMAIN issued' : Made(blobs', issued'[n], n, now', next')
        /\ issued' # <<>> => MadeAt(blobs', issued'[Len(issued')], Len(issued'), Len(blobs'))
    BY <1>0, <2>1, <2>2, <2>3, IssuesMakes
  <2>5. \A k \in Keys : reserved'[k] < next'
    BY <1>0, <2>1 DEF MadeInv, IInv, Typed
  <2> QED BY <2>1, <2>3, <2>4, <2>5 DEF MadeInv, Made, MadeAt, Carries
<1>4. ASSUME NEW t \in Range(issued), NEW drift \in Drifts,
             VerifyChain(t, drift) \/ \E v \in Verifiers : VerifyStore(v, t, drift)
      PROVE  MadeInv'
  <2>1. UNCHANGED <<issued, blobs, reserved, next, now>>
    BY <1>4 DEF VerifyChain, VerifyStore
  <2> QED BY <1>0, <2>1, MadeElse DEF MadeInv
<1>5. ASSUME NEW v \in Verifiers, Observe(v) \/ ObserveFails(v) PROVE MadeInv'
  <2>1. UNCHANGED <<issued, blobs, reserved, next, now>>
    BY <1>5 DEF Observe, ObserveFails
  <2> QED BY <1>0, <2>1, MadeElse DEF MadeInv
<1>6. CASE Tick
  <2>1. UNCHANGED <<issued, blobs, reserved, next>> /\ now < MaxTime /\ now' = now + 1
    BY <1>6 DEF Tick
  <2>2. now' \in 0..MaxTime /\ now <= now'
    BY <2>1, TimeAssumption DEF MadeInv
  <2> QED BY <2>1, <2>2, MadeElse
<1>7. CASE UNCHANGED vars
  <2>1. UNCHANGED <<issued, blobs, reserved, next, now>>
    BY <1>7 DEF vars
  <2> QED BY <1>0, <2>1, MadeElse DEF MadeInv
<1> QED BY <1>1, <1>2, <1>3, <1>4, <1>5, <1>6, <1>7 DEF Next

\* The payload of the token whose signature is blob s, and what is read of the token.
PayloadOf(s)  == CellsOf(s - 1, Len(blobs[s - 1].text) + 1)
ReadOf(t, n, s) == [header |-> Kept(HeaderOf(t, n), Uint32(t.ask.ttl)),
                    payload |-> PayloadOf(s), signature |-> CellsOf(s, 1)]

\* A token on the wire, cell by cell, and what is read of it.
LEMMA TokenCells ==
  ASSUME IsSeq(blobs), NEW t, NEW n \in Nat, NEW s \in Nat, MadeAt(blobs, t, n, s),
         t.ask \in Requests, t.at \in Nat, t.ctr \in Nat
  PROVE  /\ s \in DOMAIN blobs /\ s - 1 \in DOMAIN blobs /\ s - 1 \in Nat
         /\ HeaderOf(t, n) \in Headers /\ Uint32(t.ask.ttl) \in Nat
         /\ PayloadOf(s) \in Seq(Int) /\ Len(PayloadOf(s)) = Len(blobs[s - 1].text) + 1
         /\ Len(blobs[s - 1].text) \in Nat
         /\ CellsOf(s, 1) \in Seq(Int) /\ Len(CellsOf(s, 1)) = 1
         /\ IsWire(t.bytes, HeaderOf(t, n), Uint32(t.ask.ttl), PayloadOf(s), CellsOf(s, 1))
         /\ DeserializeToken(t.bytes) = Ok(ReadOf(t, n, s))
         /\ ReadOf(t, n, s).header.mutationCtr \in Nat
<1> DEFINE h       == HeaderOf(t, n)
           ttl     == Uint32(t.ask.ttl)
           payload == PayloadOf(s)
           sig     == CellsOf(s, 1)
<1>1. s \in DOMAIN blobs /\ s - 1 \in DOMAIN blobs /\ s - 1 \in Nat
  BY SeqAppend DEF MadeAt
<1>2. blobs[s - 1].text \in Seq(Int) /\ t.bytes = Wire(h, ttl, payload, sig)
  BY DEF MadeAt, PayloadOf
<1>3. h \in Headers /\ ttl \in Nat
  BY RequestFacts DEF HeaderOf, Headers
<1>4. Len(blobs[s - 1].text) \in Nat /\ payload \in Seq(Int) /\ Len(payload) = Len(blobs[s - 1].text) + 1
  <2>1. Len(blobs[s - 1].text) \in Nat
    BY <1>2, LenProperties
  <2>2. Len(blobs[s - 1].text) + 1 \in Nat
    BY <2>1
  <2> QED BY <1>1, <2>1, <2>2, CellsAreBytes DEF PayloadOf
<1>5. sig \in Seq(Int) /\ Len(sig) = 1
  BY CellsAreBytes
<1>6. Kept(h, ttl).mutationCtr \in Nat
  <2>1. Hi(h.mutationCtr) \in Nat /\ Lo(h.mutationCtr) \in Nat /\ Half \in Nat
    <3>1. h.mutationCtr \in Int /\ 0..(Half - 1) \subseteq Nat /\ Half \in Nat
      BY <1>3, CodecAssumption DEF Headers
    <3> QED BY <3>1, Halves
  <2>2. Kept(h, ttl).mutationCtr = Hi(h.mutationCtr) * Half + Lo(h.mutationCtr)
    BY DEF Kept
  <2> QED BY <2>1, <2>2
<1> HIDE DEF h, ttl, payload, sig
<1>7. IsWire(t.bytes, h, ttl, payload, sig)
  BY <1>2, <1>3, <1>4, <1>5, WireCells
<1>8. DeserializeToken(t.bytes) = Ok([header |-> Kept(h, ttl), payload |-> payload, signature |-> sig])
  BY <1>3, <1>4, <1>5, <1>7, Parsed
<1> QED BY <1>1, <1>3, <1>4, <1>5, <1>6, <1>7, <1>8 DEF h, ttl, payload, sig, ReadOf

\* Whatever was issued can be read, and the counter on the wire is a number.
LEMMA IssuedReads ==
  ASSUME IInv, MadeInv, NEW t \in Range(issued)
  PROVE  \E p : DeserializeToken(t.bytes) = Ok(p) /\ p.header.mutationCtr \in Nat
<1>1. IsSeq(blobs) /\ IsSeq(issued)
  BY DEF IInv, Typed
<1>2. PICK n \in DOMAIN issued : t = issued[n]
  BY DEF Range
<1>3. n \in Nat
  BY <1>1, <1>2, SeqAppend
<1>4. PICK s \in Nat : MadeAt(blobs, t, n, s)
  BY <1>2 DEF MadeInv, Made
<1>5. t.ask \in Requests /\ t.at \in Nat /\ t.ctr \in Nat
  BY <1>2, AskedKey, TimeAssumption DEF MadeInv, Made
<1> QED BY <1>1, <1>3, <1>4, <1>5, TokenCells

-------------------------------------------------------------------------------
(***************************************************************************)
(* The guards against replay.                                              *)
(***************************************************************************)

\* Each is above the ones before it.
Increasing(s) == \A i, j \in DOMAIN s : i < j => s[i] < s[j]

\* What a guard accepted of a key is below the mark it keeps, and in order.
Below(s, top) == IsSeq(s) /\ Increasing(s) /\ \A i \in DOMAIN s : s[i] \in Nat /\ s[i] <= top

\* Every counter a guard accepted of a key is below the mark of that key, and the marks only
\* rise: so the next one is above all of them.
GuardInv ==
  /\ mark \in [Keys -> Nat] /\ observed \in [Keys -> Nat]
  /\ DOMAIN accepted = Guards \X Keys
  /\ \A k \in Keys : Below(accepted[<<"chain", k>>], mark[k]) /\ Below(accepted[<<"store", k>>], observed[k])
  /\ DOMAIN pending = Verifiers
  /\ \A v \in Verifiers : \A p \in pending[v] : p.key \in Keys /\ p.ctr \in Nat

\* The mark may rise.
LEMMA BelowMore ==
  ASSUME NEW s, NEW top \in Nat, NEW more \in Nat, top <= more, Below(s, top)
  PROVE  Below(s, more)
BY DEF Below

\* A counter above the mark may be accepted, and the mark moves to it.
LEMMA BelowAppend ==
  ASSUME NEW s, NEW top \in Nat, Below(s, top), NEW ctr \in Nat, top < ctr
  PROVE  Below(Append(s, ctr), ctr)
<1> DEFINE u == Append(s, ctr)
<1>1. /\ DOMAIN s = 1..Len(s) /\ Len(s) \in Nat /\ IsSeq(u) /\ DOMAIN u = 1..(Len(s) + 1)
      /\ u[Len(s) + 1] = ctr /\ \A n \in DOMAIN s : u[n] = s[n]
  BY SeqAppend DEF Below, Grown
<1> HIDE DEF u
<1>2. \A i \in DOMAIN s : u[i] \in Nat /\ u[i] < ctr
  BY <1>1 DEF Below
<1>3. Increasing(u)
  <2>1. SUFFICES ASSUME NEW i \in DOMAIN u, NEW j \in DOMAIN u, i < j PROVE u[i] < u[j]
    BY DEF Increasing
  <2>2. i \in DOMAIN s
    BY <1>1, <2>1
  <2>3. CASE j = Len(s) + 1
    BY <1>1, <1>2, <2>2, <2>3
  <2>4. CASE j # Len(s) + 1
    <3>1. j \in DOMAIN s
      BY <1>1, <2>1, <2>4
    <3> QED BY <1>1, <2>1, <2>2, <3>1 DEF Below, Increasing
  <2> QED BY <2>3, <2>4
<1>4. \A i \in DOMAIN u : u[i] \in Nat /\ u[i] <= ctr
  BY <1>1, <1>2
<1> QED BY <1>1, <1>3, <1>4 DEF Below, u

\* It holds at first.
LEMMA GuardInit == Init => GuardInv
<1> SUFFICES ASSUME Init PROVE GuardInv
  OBVIOUS
<1>1. Below(<<>>, 0)
  BY DEF Below, Increasing, IsSeq
<1>2. \A k \in Keys : accepted[<<"chain", k>>] = <<>> /\ accepted[<<"store", k>>] = <<>> /\ mark[k] = 0 /\ observed[k] = 0
  BY DEF Init, Guards
<1>3. DOMAIN accepted = Guards \X Keys
  BY DEF Init
<1> QED BY <1>1, <1>2, <1>3 DEF Init, GuardInv

\* What GuardInv says of the guards and the history, after a step.
MovesTo ==
  /\ mark' \in [Keys -> Nat] /\ observed' \in [Keys -> Nat]
  /\ DOMAIN accepted' = Guards \X Keys
  /\ \A k \in Keys : /\ Below(accepted'[<<"chain", k>>], mark'[k])
                     /\ Below(accepted'[<<"store", k>>], observed'[k])

\* One guard accepts a counter above its mark, and the mark moves to it.
LEMMA Accepts ==
  ASSUME GuardInv, NEW g \in Guards, NEW key \in Keys, NEW ctr \in Nat,
         IF g = "chain" THEN mark[key] < ctr ELSE observed[key] < ctr,
         g = "chain" => mark' = [mark EXCEPT ![key] = ctr] /\ observed' = observed,
         g = "store" => observed' = [observed EXCEPT ![key] = ctr] /\ mark' = mark,
         accepted' = [accepted EXCEPT ![<<g, key>>] = Append(@, ctr)] \/ accepted' = accepted
  PROVE  MovesTo
<1>1. mark \in [Keys -> Nat] /\ observed \in [Keys -> Nat] /\ DOMAIN accepted = Guards \X Keys
  BY DEF GuardInv
<1>2. mark' \in [Keys -> Nat] /\ observed' \in [Keys -> Nat] /\ DOMAIN accepted' = Guards \X Keys
  BY <1>1 DEF Guards
<1>3. \A k \in Keys : <<"chain", k>> \in Guards \X Keys /\ <<"store", k>> \in Guards \X Keys
  BY DEF Guards
<1> DEFINE top(h, k)  == IF h = "chain" THEN mark[k] ELSE observed[k]
           more(h, k) == IF h = "chain" THEN mark'[k] ELSE observed'[k]
<1>4. \A h \in Guards, k \in Keys :
        /\ top(h, k) \in Nat /\ more(h, k) \in Nat /\ Below(accepted[<<h, k>>], top(h, k))
        /\ more(h, k) = IF h = g /\ k = key THEN ctr ELSE top(h, k)
  BY <1>1, <1>2 DEF GuardInv, Guards
<1>5. top(g, key) < ctr
  BY DEF Guards
<1> HIDE DEF top, more
<1>6. ASSUME NEW h \in Guards, NEW k \in Keys PROVE Below(accepted'[<<h, k>>], more(h, k))
  <2>1. CASE accepted'[<<h, k>>] = accepted[<<h, k>>]
    <3>1. top(h, k) <= more(h, k) /\ top(h, k) \in Nat /\ more(h, k) \in Nat
      <4>1. CASE h = g /\ k = key
        BY <1>4, <1>5, <4>1
      <4>2. CASE ~(h = g /\ k = key)
        <5>1. more(h, k) = top(h, k)
          BY <1>4, <4>2
        <5>2. top(h, k) \in Nat
          BY <1>4
        <5> QED BY <5>1, <5>2
      <4> QED BY <4>1, <4>2
    <3> QED BY <1>4, <2>1, <3>1, BelowMore
  <2>2. CASE accepted'[<<h, k>>] # accepted[<<h, k>>]
    <3>1. h = g /\ k = key /\ accepted'[<<h, k>>] = Append(accepted[<<h, k>>], ctr)
      <4>1. <<h, k>> \in DOMAIN accepted
        BY <1>1
      <4>2. accepted' = [accepted EXCEPT ![<<g, key>>] = Append(@, ctr)]
        BY <2>2
      <4>3. <<h, k>> = <<g, key>>
        BY <2>2, <4>1, <4>2
      <4> QED BY <4>1, <4>2, <4>3
    <3> QED BY <1>4, <1>5, <3>1, BelowAppend
  <2> QED BY <2>1, <2>2
<1> QED BY <1>2, <1>6 DEF Guards, more, MovesTo

\* A step that leaves the guards alone keeps it.
LEMMA GuardQuiet == ASSUME GuardInv, UNCHANGED <<mark, observed, pending, accepted>> PROVE GuardInv'
BY DEF GuardInv

\* Every step keeps it.
LEMMA GuardNext == IInv /\ MadeInv /\ GuardInv /\ [Next]_vars => GuardInv'
<1> SUFFICES ASSUME IInv, MadeInv, GuardInv, [Next]_vars PROVE GuardInv'
  OBVIOUS
<1>1. ASSUME NEW t \in Range(issued) PROVE t.ask.key \in Keys
  <2>1. t.ask \in Requests
    BY DEF Range, MadeInv, Made
  <2> QED BY <2>1, RequestFacts
<1>2. ASSUME NEW t \in Range(issued), NEW drift \in Drifts, VerifyChain(t, drift) PROVE GuardInv'
  <2> DEFINE key == t.ask.key
             r == VerifyToken(Inflates, t.bytes, key, mark[key], now + drift)
  <2>1. PICK p : DeserializeToken(t.bytes) = Ok(p) /\ p.header.mutationCtr \in Nat
    BY IssuedReads
  <2>2. /\ r.verdict \in Advances /\ mark' = [mark EXCEPT ![key] = r.ctr]
        /\ accepted' = (IF r.verdict = "OK" THEN [accepted EXCEPT ![<<"chain", key>>] = Append(@, r.ctr)]
                                            ELSE accepted)
        /\ observed' = observed /\ pending' = pending
    BY <1>2 DEF VerifyChain
  <2>3. r.ctr = p.header.mutationCtr /\ ~(p.header.mutationCtr <= mark[key])
    <3>1. JsJudges(r, Inflates, p, key, mark[key], now + drift)
      BY <2>1, JsVerdict
    <3> HIDE DEF r
    <3> QED BY <2>2, <3>1 DEF JsJudges
  <2> HIDE DEF r
  <2>4. key \in Keys /\ mark[key] \in Nat /\ mark[key] < r.ctr /\ r.ctr \in Nat
    BY <1>1, <2>1, <2>3 DEF GuardInv
  <2> HIDE DEF key
  <2>5. MovesTo
    <3>1. "chain" \in Guards /\ "chain" # "store"
      BY DEF Guards
    <3>2. accepted' = [accepted EXCEPT ![<<"chain", key>>] = Append(@, r.ctr)] \/ accepted' = accepted
      BY <2>2
    <3> QED BY <2>2, <2>4, <3>1, <3>2, Accepts
  <2> QED BY <2>2, <2>5 DEF GuardInv, MovesTo
<1>3. ASSUME NEW t \in Range(issued), NEW drift \in Drifts, NEW v \in Verifiers,
             VerifyStore(v, t, drift)
      PROVE  GuardInv'
  <2> DEFINE r == ServerVerify(t.bytes, t.ask.key, now + drift)
  <2>1. PICK p : DeserializeToken(t.bytes) = Ok(p) /\ p.header.mutationCtr \in Nat
    BY IssuedReads
  <2>2. /\ pending' = [pending EXCEPT ![v] = {[key |-> t.ask.key, ctr |-> r.ctr]}]
        /\ UNCHANGED <<mark, observed, accepted>>
    BY <1>3 DEF VerifyStore
  <2>3. r.ctr \in Nat
    <3>1. JsJudges(r, TRUE, p, t.ask.key, 0, now + drift)
      BY <2>1, JsVerdict DEF ServerVerify
    <3> HIDE DEF r
    <3> QED BY <2>1, <3>1 DEF JsJudges
  <2> HIDE DEF r
  <2>4. ASSUME NEW w \in Verifiers, NEW q \in pending'[w] PROVE q.key \in Keys /\ q.ctr \in Nat
    <3>1. CASE w = v
      BY <1>1, <2>2, <2>3, <2>4, <3>1 DEF GuardInv
    <3>2. CASE w # v
      BY <2>2, <2>4, <3>2 DEF GuardInv
    <3> QED BY <3>1, <3>2
  <2> QED BY <2>2, <2>4 DEF GuardInv
<1>4. ASSUME NEW v \in Verifiers, Observe(v) PROVE GuardInv'
  <2>1. PICK p \in pending[v] :
          /\ observed' = [observed EXCEPT ![p.key] = IF p.ctr > @ THEN p.ctr ELSE @]
          /\ accepted' = IF p.ctr > observed[p.key]
                         THEN [accepted EXCEPT ![<<"store", p.key>>] = Append(@, p.ctr)] ELSE accepted
          /\ pending' = [pending EXCEPT ![v] = {}] /\ mark' = mark
    BY <1>4 DEF Observe
  <2>2. p.key \in Keys /\ p.ctr \in Nat /\ observed \in [Keys -> Nat]
    BY DEF GuardInv
  <2>3. DOMAIN pending' = Verifiers /\ \A w \in Verifiers : \A q \in pending'[w] : q.key \in Keys /\ q.ctr \in Nat
    BY <2>1 DEF GuardInv
  <2>4. CASE p.ctr > observed[p.key]
    <3>1. /\ "store" \in Guards /\ "chain" # "store" /\ observed[p.key] < p.ctr
          /\ observed' = [observed EXCEPT ![p.key] = p.ctr]
          /\ accepted' = [accepted EXCEPT ![<<"store", p.key>>] = Append(@, p.ctr)]
      BY <2>1, <2>2, <2>4 DEF Guards
    <3>2. MovesTo
      <4> DEFINE key == p.key
                 ctr == p.ctr
      <4>1. /\ key \in Keys /\ ctr \in Nat /\ observed[key] < ctr /\ mark' = mark
            /\ observed' = [observed EXCEPT ![key] = ctr]
            /\ \/ accepted' = [accepted EXCEPT ![<<"store", key>>] = Append(@, ctr)]
               \/ accepted' = accepted
        BY <2>1, <2>2, <3>1
      <4> HIDE DEF key, ctr
      <4>2. "store" \in Guards /\ "chain" # "store"
        BY DEF Guards
      <4> QED BY <4>1, <4>2, Accepts
    <3> QED BY <2>1, <2>3, <3>2 DEF GuardInv, MovesTo
  <2>5. CASE ~(p.ctr > observed[p.key])
    <3>1. observed' = observed /\ accepted' = accepted
      BY <2>1, <2>2, <2>5
    <3> QED BY <2>1, <2>3, <3>1 DEF GuardInv
  <2> QED BY <2>4, <2>5
<1>5. ASSUME NEW v \in Verifiers, ObserveFails(v) PROVE GuardInv'
  <2>1. PICK p \in pending[v], took \in BOOLEAN :
          /\ observed' = [observed EXCEPT ![p.key] = IF took /\ p.ctr > @ THEN p.ctr ELSE @]
          /\ pending' = [pending EXCEPT ![v] = {}] /\ UNCHANGED <<mark, accepted>>
    BY <1>5 DEF ObserveFails
  <2>2. p.key \in Keys /\ p.ctr \in Nat /\ observed \in [Keys -> Nat]
    BY DEF GuardInv
  <2>3. /\ DOMAIN pending' = Verifiers
        /\ \A w \in Verifiers : \A q \in pending'[w] : q.key \in Keys /\ q.ctr \in Nat
    BY <2>1 DEF GuardInv
  <2>4. CASE took /\ p.ctr > observed[p.key]
    <3>1. /\ "store" \in Guards /\ "chain" # "store" /\ observed[p.key] < p.ctr
          /\ observed' = [observed EXCEPT ![p.key] = p.ctr] /\ accepted' = accepted
      BY <2>1, <2>2, <2>4 DEF Guards
    <3>2. MovesTo
      <4> DEFINE key == p.key
                 ctr == p.ctr
      <4>1. /\ key \in Keys /\ ctr \in Nat /\ observed[key] < ctr /\ mark' = mark
            /\ observed' = [observed EXCEPT ![key] = ctr]
            /\ \/ accepted' = [accepted EXCEPT ![<<"store", key>>] = Append(@, ctr)]
               \/ accepted' = accepted
        BY <2>1, <2>2, <3>1
      <4> HIDE DEF key, ctr
      <4>2. "store" \in Guards /\ "chain" # "store"
        BY DEF Guards
      <4> QED BY <4>1, <4>2, Accepts
    <3> QED BY <2>1, <2>3, <3>2 DEF GuardInv, MovesTo
  <2>5. CASE ~(took /\ p.ctr > observed[p.key])
    <3>1. observed' = observed
      BY <2>1, <2>2, <2>5
    <3> QED BY <2>1, <2>3, <3>1 DEF GuardInv
  <2> QED BY <2>4, <2>5
<1>6. CASE \/ \E i \in Issuers : Reserve(i) \/ Sign(i)
           \/ CliIssue \/ Tick \/ UNCHANGED vars
  BY <1>6, GuardQuiet DEF Reserve, Sign, CliIssue, Tick, vars
<1> QED BY <1>2, <1>3, <1>4, <1>5, <1>6 DEF Next

-------------------------------------------------------------------------------
(***************************************************************************)
(* The verifiers of the core.                                              *)
(***************************************************************************)

\* A decision is OK exactly if no layer fails.
Passes(r, h, layers, claims) ==
  /\ r.ctr = h.mutationCtr
  /\ r.verdict = "OK" <=> \A i \in 1..Len(layers) : ~layers[i][1]
  /\ r.verdict = "OK" => r.claims = claims.value

\* The verdict is OK exactly if every layer passes.
LEMMA Passed ==
  ASSUME NEW h, NEW layers, NEW claims, Len(layers) \in Nat,
         \A i \in 1..Len(layers) : layers[i][2] # "OK"
  PROVE  Passes(Decide(h, layers, claims), h, layers, claims)
<1> DEFINE r == Decide(h, layers, claims)
<1>1. PICK first \in 0..Len(layers) :
           /\ first = 0 => \A i \in 1..Len(layers) : ~layers[i][1]
           /\ first # 0 => layers[first][1] /\ \A i \in 1..(first - 1) : ~layers[i][1]
           /\ r.verdict = (IF first = 0 THEN "OK" ELSE layers[first][2])
           /\ r.ctr = h.mutationCtr
           /\ first = 0 => r.claims = claims.value
  BY Decided
<1> HIDE DEF r
<1>2. first # 0 => first \in 1..Len(layers)
  OBVIOUS
<1>3. r.verdict = "OK" <=> first = 0
  BY <1>1, <1>2
<1>4. first = 0 <=> \A i \in 1..Len(layers) : ~layers[i][1]
  BY <1>1, <1>2
<1> QED BY <1>1, <1>3, <1>4 DEF Passes, r

\* A layer fails by its condition, and no layer throws "OK".
Fails(layer, cond) == (layer[1] <=> cond) /\ layer[2] # "OK"

\* A layer fails if its condition does not hold.
LEMMA LayerFacts ==
  ASSUME NEW fails \in BOOLEAN, NEW throws, throws # "OK"
  PROVE  Fails(Layer(fails, throws), fails)
BY DEF Layer, Fails

\* The three checks of the header.
LEMMA TimingFacts ==
  ASSUME NEW h, NEW clock
  PROVE  \E a, b, c : /\ Timing(h, clock) = <<a, b, c>>
                      /\ Fails(a, h.nonce = 0) /\ Fails(b, h.issuedAt > clock + Skew)
                      /\ Fails(c, clock > h.issuedAt + h.ttl)
<1> DEFINE none   == h.nonce = 0
           early  == h.issuedAt > clock + Skew
           late   == clock > h.issuedAt + h.ttl
<1>1. none \in BOOLEAN /\ early \in BOOLEAN /\ late \in BOOLEAN
  OBVIOUS
<1>2. Timing(h, clock) = << Layer(none, "KOLMOGOROV"), Layer(early, "NOT_YET_VALID"),
                            Layer(late, "EXPIRED") >>
  BY DEF Timing
<1>3. "KOLMOGOROV" # "OK" /\ "NOT_YET_VALID" # "OK" /\ "EXPIRED" # "OK"
  OBVIOUS
<1> SUFFICES \E a, b, c : /\ Timing(h, clock) = <<a, b, c>>
                          /\ Fails(a, none) /\ Fails(b, early) /\ Fails(c, late)
  OBVIOUS
<1> HIDE DEF none, early, late
<1>4. Fails(Layer(none, "KOLMOGOROV"), none) /\ Fails(Layer(early, "NOT_YET_VALID"), early)
      /\ Fails(Layer(late, "EXPIRED"), late)
  BY <1>1, <1>3, LayerFacts
<1> QED BY <1>2, <1>4

\* The core's checks of what is read of a token.
RsPlain(raw, key) == OpenBlob(raw.payload, "rust", key, raw.header.nonce)
RsClaims(raw, key) == IF RsPlain(raw, key).ok THEN Claims_decode(RsPlain(raw, key).value) ELSE Fail
RsSigned(raw, alg, key) ==
  OpenBlob(raw.signature, alg, key, 0) = Ok(Signed_bytes(raw.header, raw.payload))

\* What the core wants of a token.
RsAccepts(raw, alg, key, clock) ==
  /\ InTime(raw.header, clock) /\ RsSigned(raw, alg, key) /\ RsPlain(raw, key).ok
  /\ raw.header.mutationCtr > 0 /\ RsClaims(raw, key).ok

\* A verdict of the core is what the checks say of what is read of the token.
RsJudges(r, more, raw, alg, key, clock) ==
  /\ r.ctr = raw.header.mutationCtr
  /\ r.verdict = "OK" <=> more /\ RsAccepts(raw, alg, key, clock)
  /\ r.verdict = "OK" => r.claims = RsClaims(raw, key).value

\* The layers of the core, all but the timing.
LEMMA CoreLayers ==
  ASSUME NEW raw, NEW alg, NEW key
  PROVE  \E sig, d, e, f :
           /\ Signature(raw, alg, key) = <<sig>> /\ Content(raw, key, 0).layers = <<d, e, f>>
           /\ Content(raw, key, 0).claims = RsClaims(raw, key)
           /\ Fails(sig, ~RsSigned(raw, alg, key)) /\ Fails(d, ~RsPlain(raw, key).ok)
           /\ Fails(e, ~(raw.header.mutationCtr > 0)) /\ Fails(f, ~RsClaims(raw, key).ok)
<1> DEFINE unsigned == OpenBlob(raw.signature, alg, key, 0) # Ok(Signed_bytes(raw.header, raw.payload))
           closed   == ~RsPlain(raw, key).ok
           replayed == ~(raw.header.mutationCtr > 0)
           broken   == ~RsClaims(raw, key).ok
<1>1. unsigned \in BOOLEAN /\ closed \in BOOLEAN /\ replayed \in BOOLEAN /\ broken \in BOOLEAN
  OBVIOUS
<1>2. "SIGNATURE_INVALID" # "OK" /\ "DECRYPT" # "OK" /\ "REPLAY" # "OK" /\ "CLAIMS" # "OK"
  OBVIOUS
<1>3. unsigned <=> ~RsSigned(raw, alg, key)
  BY DEF RsSigned
<1>4. Signature(raw, alg, key) = <<Layer(unsigned, "SIGNATURE_INVALID")>>
  BY DEF Signature
<1>5. /\ Content(raw, key, 0).claims = RsClaims(raw, key)
      /\ Content(raw, key, 0).layers = <<Layer(closed, "DECRYPT"), Layer(replayed, "REPLAY"),
                                         Layer(broken, "CLAIMS")>>
  BY DEF Content, RsClaims, RsPlain, Check_token_counter
<1> SUFFICES \E sig, d, e, f :
           /\ Signature(raw, alg, key) = <<sig>> /\ Content(raw, key, 0).layers = <<d, e, f>>
           /\ Content(raw, key, 0).claims = RsClaims(raw, key)
           /\ Fails(sig, ~RsSigned(raw, alg, key)) /\ Fails(d, closed)
           /\ Fails(e, replayed) /\ Fails(f, broken)
  OBVIOUS
<1> HIDE DEF unsigned, closed, replayed, broken
<1>6. /\ Fails(Layer(unsigned, "SIGNATURE_INVALID"), unsigned) /\ Fails(Layer(closed, "DECRYPT"), closed)
      /\ Fails(Layer(replayed, "REPLAY"), replayed) /\ Fails(Layer(broken, "CLAIMS"), broken)
  BY <1>1, <1>2, LayerFacts
<1>7. Fails(Layer(unsigned, "SIGNATURE_INVALID"), ~RsSigned(raw, alg, key))
  BY <1>3, <1>6 DEF Fails
<1> QED BY <1>4, <1>5, <1>6, <1>7

\* The layers of Verify_token are these checks.
LEMMA RustVerdict ==
  ASSUME NEW data, NEW key, NEW clock, NEW raw, From_bytes(data) = Ok(raw)
  PROVE  RsJudges(CliVerify(data, key, clock), TRUE, raw, "ml-dsa", key, clock)
<1> DEFINE h      == raw.header
           rest   == Content(raw, key, 0)
           layers == Timing(h, clock) \o Signature(raw, "ml-dsa", key) \o rest.layers
           r      == CliVerify(data, key, clock)
<1>1. r = Decide(h, layers, rest.claims)
  <2>1. Ok(raw).ok /\ Ok(raw).value = raw
    BY OkFacts
  <2> QED BY <2>1 DEF CliVerify, Verify_token
<1>2. PICK a, b, c : /\ Timing(h, clock) = <<a, b, c>>
                     /\ Fails(a, h.nonce = 0) /\ Fails(b, h.issuedAt > clock + Skew)
                     /\ Fails(c, clock > h.issuedAt + h.ttl)
  BY TimingFacts
<1>3. PICK sig, d, e, f :
           /\ Signature(raw, "ml-dsa", key) = <<sig>> /\ rest.layers = <<d, e, f>>
           /\ rest.claims = RsClaims(raw, key)
           /\ Fails(sig, ~RsSigned(raw, "ml-dsa", key)) /\ Fails(d, ~RsPlain(raw, key).ok)
           /\ Fails(e, ~(h.mutationCtr > 0)) /\ Fails(f, ~RsClaims(raw, key).ok)
  BY CoreLayers
<1> HIDE DEF rest
<1>4. /\ Len(layers) = 7 /\ layers[1] = a /\ layers[2] = b /\ layers[3] = c /\ layers[4] = sig
      /\ layers[5] = d /\ layers[6] = e /\ layers[7] = f
  <2>1. layers = <<a, b, c>> \o <<sig>> \o <<d, e, f>>
    BY <1>2, <1>3
  <2> HIDE DEF layers
  <2> QED BY <2>1, OneAndThree
<1> HIDE DEF layers, r
<1>5. (\A i \in 1..7 : ~layers[i][1])
        <=> ~a[1] /\ ~b[1] /\ ~c[1] /\ ~sig[1] /\ ~d[1] /\ ~e[1] /\ ~f[1]
  BY <1>4
<1>6. \A i \in 1..Len(layers) : layers[i][2] # "OK"
  <2>1. /\ a[2] # "OK" /\ b[2] # "OK" /\ c[2] # "OK" /\ sig[2] # "OK"
        /\ d[2] # "OK" /\ e[2] # "OK" /\ f[2] # "OK"
    BY <1>2, <1>3 DEF Fails
  <2> QED BY <1>4, <2>1
<1>7. Passes(r, h, layers, RsClaims(raw, key))
  BY <1>1, <1>3, <1>4, <1>6, Passed
<1>8. (~a[1] /\ ~b[1] /\ ~c[1]) <=> InTime(h, clock)
  <2>1. /\ a[1] <=> h.nonce = 0
        /\ b[1] <=> h.issuedAt > clock + Skew
        /\ c[1] <=> clock > h.issuedAt + h.ttl
    BY <1>2, Zenon DEF Fails
  <2> QED BY <2>1, Zenon DEF InTime
<1>9. (~sig[1] /\ ~d[1] /\ ~e[1] /\ ~f[1])
        <=> RsSigned(raw, "ml-dsa", key) /\ RsPlain(raw, key).ok /\ h.mutationCtr > 0 /\ RsClaims(raw, key).ok
  BY <1>3, Zenon DEF Fails
<1>10. r.verdict = "OK" <=> RsAccepts(raw, "ml-dsa", key, clock)
  <2>1. r.verdict = "OK" <=> \A i \in 1..7 : ~layers[i][1]
    BY <1>4, <1>7 DEF Passes
  <2> QED BY <2>1, <1>5, <1>8, <1>9, Zenon DEF RsAccepts
<1> QED BY <1>7, <1>10 DEF Passes, RsJudges, r

\* The layers of Verify_token_falcon512 are these checks, and the suite.
LEMMA FalconVerdict ==
  ASSUME NEW data, NEW key, NEW clock, NEW raw, From_bytes(data) = Ok(raw)
  PROVE  RsJudges(Verify_token_falcon512(data, key, 0, clock), raw.header.suite = Falcon,
                  raw, "falcon512", key, clock)
<1> DEFINE h      == raw.header
           rest   == Content(raw, key, 0)
           other  == h.suite # Falcon
           layers == <<Layer(other, "SUITE")>> \o Signature(raw, "falcon512", key)
                       \o Timing(h, clock) \o rest.layers
           r      == Verify_token_falcon512(data, key, 0, clock)
<1>1. r = Decide(h, layers, rest.claims)
  <2>1. Ok(raw).ok /\ Ok(raw).value = raw
    BY OkFacts
  <2> QED BY <2>1 DEF Verify_token_falcon512
<1>2. PICK a, b, c : /\ Timing(h, clock) = <<a, b, c>>
                     /\ Fails(a, h.nonce = 0) /\ Fails(b, h.issuedAt > clock + Skew)
                     /\ Fails(c, clock > h.issuedAt + h.ttl)
  BY TimingFacts
<1>3. PICK sig, d, e, f :
           /\ Signature(raw, "falcon512", key) = <<sig>> /\ rest.layers = <<d, e, f>>
           /\ rest.claims = RsClaims(raw, key)
           /\ Fails(sig, ~RsSigned(raw, "falcon512", key)) /\ Fails(d, ~RsPlain(raw, key).ok)
           /\ Fails(e, ~(h.mutationCtr > 0)) /\ Fails(f, ~RsClaims(raw, key).ok)
  BY CoreLayers
<1>s. PICK suite : suite = Layer(other, "SUITE") /\ Fails(suite, other)
  <2>1. other \in BOOLEAN /\ "SUITE" # "OK"
    OBVIOUS
  <2> HIDE DEF other
  <2> QED BY <2>1, LayerFacts
<1> HIDE DEF rest
<1>4. /\ Len(layers) = 8 /\ layers[1] = suite /\ layers[2] = sig /\ layers[3] = a /\ layers[4] = b
      /\ layers[5] = c /\ layers[6] = d /\ layers[7] = e /\ layers[8] = f
  <2>1. layers = <<suite>> \o <<sig>> \o <<a, b, c>> \o <<d, e, f>>
    BY <1>2, <1>3, <1>s
  <2> HIDE DEF layers
  <2> QED BY <2>1, OneAndOneAndThree
<1> HIDE DEF layers, r
<1>5. (\A i \in 1..8 : ~layers[i][1])
        <=> ~suite[1] /\ ~a[1] /\ ~b[1] /\ ~c[1] /\ ~sig[1] /\ ~d[1] /\ ~e[1] /\ ~f[1]
  BY <1>4
<1>6. \A i \in 1..Len(layers) : layers[i][2] # "OK"
  <2>1. /\ a[2] # "OK" /\ b[2] # "OK" /\ c[2] # "OK" /\ sig[2] # "OK" /\ suite[2] # "OK"
        /\ d[2] # "OK" /\ e[2] # "OK" /\ f[2] # "OK"
    BY <1>2, <1>3, <1>s DEF Fails
  <2> QED BY <1>4, <2>1
<1>7. Passes(r, h, layers, RsClaims(raw, key))
  BY <1>1, <1>3, <1>4, <1>6, Passed
<1>8. (~a[1] /\ ~b[1] /\ ~c[1]) <=> InTime(h, clock)
  <2>1. /\ a[1] <=> h.nonce = 0
        /\ b[1] <=> h.issuedAt > clock + Skew
        /\ c[1] <=> clock > h.issuedAt + h.ttl
    BY <1>2, Zenon DEF Fails
  <2> QED BY <2>1, Zenon DEF InTime
<1>9. (~suite[1] /\ ~sig[1] /\ ~d[1] /\ ~e[1] /\ ~f[1])
        <=> /\ h.suite = Falcon /\ RsSigned(raw, "falcon512", key) /\ RsPlain(raw, key).ok
            /\ h.mutationCtr > 0 /\ RsClaims(raw, key).ok
  BY <1>3, <1>s, Zenon DEF Fails
<1>10. r.verdict = "OK" <=> h.suite = Falcon /\ RsAccepts(raw, "falcon512", key, clock)
  <2>1. r.verdict = "OK" <=> \A i \in 1..8 : ~layers[i][1]
    BY <1>4, <1>7 DEF Passes
  <2> QED BY <2>1, <1>5, <1>8, <1>9, Zenon DEF RsAccepts
<1> QED BY <1>7, <1>10 DEF Passes, RsJudges, r

-------------------------------------------------------------------------------
(***************************************************************************)
(* The width of the fields.                                                *)
(***************************************************************************)

\* The requests to the SDK among those taken so far.
Taken(m) == {n \in DOMAIN Asked : n < m /\ Asked[n].impl = "js"}

\* The store has not counted further than it was asked, the command line writes counter 1, and
\* a signature is one cell.
SizeInv ==
  /\ \A k \in Keys : reserved[k] <= Cardinality(Taken(next))
  /\ \A n \in DOMAIN issued : issued[n].ask.impl = "rust" => issued[n].ctr = 1
  /\ ShortSigned(blobs)

\* Every request to the SDK that is taken is one more, and there are few enough.
LEMMA TakenFacts ==
  ASSUME NEW m \in Int
  PROVE  /\ Cardinality(Taken(m)) \in Nat /\ Cardinality(Taken(m)) < Half * Half
         /\ m \in DOMAIN Asked /\ Asked[m].impl = "js"
              => Cardinality(Taken(m + 1)) = Cardinality(Taken(m)) + 1
         /\ m \in DOMAIN Asked /\ Asked[m].impl # "js" => Taken(m + 1) = Taken(m)
<1> DEFINE All == {n \in DOMAIN Asked : Asked[n].impl = "js"}
<1>1. IsFiniteSet(All)
  <2>1. Len(Asked) \in Nat /\ DOMAIN Asked = 1..Len(Asked) /\ 1 \in Int /\ Len(Asked) \in Int
    BY AskedKey
  <2>2. IsFiniteSet(DOMAIN Asked)
    BY <2>1, FS_Interval
  <2> QED BY <2>2, FS_Subset
<1>2. Taken(m) \subseteq All /\ \A n \in DOMAIN Asked : n \in Int
  BY AskedKey DEF Taken
<1>3. Cardinality(All) < Half * Half /\ Cardinality(All) \in Nat
  BY <1>1, WideAssumption, FS_CardinalityType
<1> HIDE DEF All
<1>4. /\ IsFiniteSet(Taken(m)) /\ Cardinality(Taken(m)) \in Nat
      /\ Cardinality(Taken(m)) <= Cardinality(All)
  BY <1>1, <1>2, FS_Subset, FS_CardinalityType
<1>5. Cardinality(Taken(m)) < Half * Half
  BY <1>3, <1>4, CodecAssumption
<1>6. ASSUME m \in DOMAIN Asked, Asked[m].impl = "js"
      PROVE  Cardinality(Taken(m + 1)) = Cardinality(Taken(m)) + 1
  <2>1. Taken(m + 1) = Taken(m) \cup {m} /\ m \notin Taken(m)
    BY <1>2, <1>6 DEF Taken
  <2> QED BY <1>4, <2>1, FS_AddElement
<1>7. m \in DOMAIN Asked /\ Asked[m].impl # "js" => Taken(m + 1) = Taken(m)
  BY <1>2 DEF Taken
<1> QED BY <1>4, <1>5, <1>6, <1>7

\* It holds at first.
LEMMA SizeInit == Init => SizeInv
<1> SUFFICES ASSUME Init PROVE SizeInv
  OBVIOUS
<1>1. next = 1 /\ DOMAIN issued = {} /\ DOMAIN blobs = {} /\ \A k \in Keys : reserved[k] = 0
  BY DEF Init
<1>2. Cardinality(Taken(next)) \in Nat
  BY <1>1, TakenFacts
<1> QED BY <1>1, <1>2 DEF SizeInv, ShortSigned

\* What an issuer's step does to them.
LEMMA IssuesShort ==
  ASSUME IsSeq(issued), SizeInv, NEW r \in Requests, NEW ctr, Issues(r, ctr),
         r.impl = "rust" => ctr = 1
  PROVE  /\ \A n \in DOMAIN issued' : issued'[n].ask.impl = "rust" => issued'[n].ctr = 1
         /\ ShortSigned(blobs')
<1>1. CASE issued' = issued /\ blobs' = blobs
  BY <1>1 DEF SizeInv
<1>2. CASE ~(issued' = issued /\ blobs' = blobs)
  <2>1. PICK e : issued' = Append(issued, e) /\ e.ask = r /\ e.ctr = ctr
    BY <1>2 DEF Issues
  <2>2. ShortSigned(blobs')
    BY <1>2 DEF Issues, SizeInv
  <2>3. /\ DOMAIN issued' = 1..(Len(issued) + 1) /\ issued'[Len(issued) + 1] = e
        /\ Len(issued) \in Nat /\ DOMAIN issued = 1..Len(issued)
        /\ \A n \in DOMAIN issued : issued'[n] = issued[n]
    BY <2>1, SeqAppend DEF Grown
  <2>4. \A n \in DOMAIN issued' : n \in DOMAIN issued \/ n = Len(issued) + 1
    BY <2>3
  <2> QED BY <2>1, <2>2, <2>3, <2>4 DEF SizeInv
<1> QED BY <1>1, <1>2

\* Every step keeps it.
LEMMA SizeNext == IInv /\ MadeInv /\ SizeInv /\ [Next]_vars => SizeInv'
<1> SUFFICES ASSUME IInv, MadeInv, SizeInv, [Next]_vars PROVE SizeInv'
  OBVIOUS
<1>0. /\ IsSeq(issued) /\ IsSeq(blobs) /\ next \in Int /\ reserved \in [Keys -> Nat]
      /\ Cardinality(Taken(next)) \in Nat
  <2>1. next \in Int
    BY AskedKey DEF MadeInv
  <2> QED BY <2>1, TakenFacts DEF IInv, Typed
<1>1. ASSUME NEW i \in Issuers, Reserve(i) PROVE SizeInv'
  <2>1. /\ next \in DOMAIN Asked /\ Asked[next].impl = "js" /\ next' = next + 1
        /\ reserved' = [reserved EXCEPT ![Asked[next].key] = @ + 1]
        /\ issued' = issued /\ blobs' = blobs
    BY <1>1 DEF Reserve
  <2>2. Cardinality(Taken(next')) = Cardinality(Taken(next)) + 1
    BY <1>0, <2>1, TakenFacts
  <2>3. \A k \in Keys : reserved'[k] <= Cardinality(Taken(next'))
    <3> TAKE k \in Keys
    <3>1. reserved'[k] \in {reserved[k], reserved[k] + 1} /\ reserved[k] \in Nat
      BY <1>0, <2>1
    <3>2. reserved[k] <= Cardinality(Taken(next))
      BY DEF SizeInv
    <3> QED BY <1>0, <2>2, <3>1, <3>2
  <2> QED BY <2>1, <2>3 DEF SizeInv, Taken
<1>2. ASSUME NEW i \in Issuers, Sign(i) PROVE SizeInv'
  <2> DEFINE r == Asked[issuing[i].ask]
             ctr == issuing[i].ctr
  <2>1. Holds(i) /\ IssueToken(r, ctr) /\ reserved' = reserved /\ next' = next
    BY <1>2 DEF Sign, Holds
  <2>2. r \in Requests /\ r.impl = "js"
    BY <2>1, AskedKey DEF IInv, HeldIsReserved
  <2>3. Issues(r, ctr)
    BY <1>0, <2>1, <2>2, SdkIssues
  <2>4. /\ \A n \in DOMAIN issued' : issued'[n].ask.impl = "rust" => issued'[n].ctr = 1
        /\ ShortSigned(blobs')
    <3> HIDE DEF r, ctr
    <3> QED BY <1>0, <2>2, <2>3, IssuesShort
  <2> QED BY <2>1, <2>4 DEF SizeInv, Taken
<1>3. CASE CliIssue
  <2>1. /\ next \in DOMAIN Asked /\ Asked[next].impl = "rust" /\ Issue_token(Asked[next], 1)
        /\ next' = next + 1 /\ reserved' = reserved
    BY <1>3 DEF CliIssue, Advance
  <2>2. Issues(Asked[next], 1) /\ Asked[next] \in Requests
    BY <1>0, <2>1, AskedKey, CoreIssues
  <2>3. /\ \A n \in DOMAIN issued' : issued'[n].ask.impl = "rust" => issued'[n].ctr = 1
        /\ ShortSigned(blobs')
    BY <1>0, <2>2, IssuesShort
  <2>4. Taken(next') = Taken(next)
    BY <1>0, <2>1, TakenFacts
  <2>5. \A k \in Keys : reserved'[k] <= Cardinality(Taken(next'))
    BY <2>1, <2>4 DEF SizeInv
  <2> QED BY <2>3, <2>5 DEF SizeInv, Taken
<1>4. ASSUME UNCHANGED <<issued, blobs, reserved, next>> PROVE SizeInv'
  BY <1>4 DEF SizeInv, Taken
<1>5. ASSUME NEW t \in Range(issued), NEW drift \in Drifts,
             VerifyChain(t, drift) \/ \E v \in Verifiers : VerifyStore(v, t, drift)
      PROVE  SizeInv'
  BY <1>4, <1>5 DEF VerifyChain, VerifyStore
<1>6. ASSUME NEW v \in Verifiers, Observe(v) \/ ObserveFails(v) PROVE SizeInv'
  BY <1>4, <1>6 DEF Observe, ObserveFails
<1>7. CASE Tick \/ UNCHANGED vars
  BY <1>4, <1>7 DEF Tick, vars
<1> QED BY <1>1, <1>2, <1>3, <1>5, <1>6, <1>7 DEF Next

\* Every time and every counter fits its field.
LEMMA Fits ==
  ASSUME IInv, MadeInv, SizeInv, NEW n \in DOMAIN issued
  PROVE  /\ issued[n].at \in Nat /\ issued[n].at < Half * Half
         /\ issued[n].ctr \in Nat /\ issued[n].ctr > 0 /\ issued[n].ctr < Half * Half
<1> DEFINE t == issued[n]
<1>1. /\ t.at \in 0..now /\ t.ctr \in 1..(next - 1) /\ t.ask \in Requests /\ next \in Int
      /\ now \in 0..MaxTime /\ MaxTime \in Nat
  BY AskedKey, TimeAssumption DEF MadeInv, Made
<1> HIDE DEF t
<1>2. Half \in Nat /\ Half > 1 /\ Half * Half \in Nat /\ Half * Half > 1
  <2>1. Half \in Nat /\ Half > 1
    BY CodecAssumption
  <2>2. Half * Half >= 2 * Half
    BY <2>1
  <2> QED BY <2>1, <2>2
<1>3. t.at \in Nat /\ t.at < Half * Half
  <2>1. MaxTime < Half * Half
    BY WideAssumption
  <2> QED BY <1>1, <1>2, <2>1
<1>4. t.ctr < Half * Half
  <2>1. CASE t.ask.impl = "rust"
    <3>1. t.ctr = 1
      BY <2>1 DEF SizeInv, t
    <3> QED BY <1>2, <3>1
  <2>2. CASE t.ask.impl = "js"
    <3>1. t.ctr \in 1..reserved[t.ask.key]
      BY <2>2 DEF IInv, CountersUnique, t
    <3>2. t.ask.key \in Keys
      BY <1>1, RequestFacts
    <3>3. reserved[t.ask.key] <= Cardinality(Taken(next)) /\ reserved[t.ask.key] \in Nat
      BY <3>2 DEF SizeInv, IInv, Typed
    <3>4. Cardinality(Taken(next)) < Half * Half /\ Cardinality(Taken(next)) \in Nat
      BY <1>1, TakenFacts
    <3> QED BY <1>2, <3>1, <3>3, <3>4
  <2>3. t.ask.impl \in {"js", "rust"}
    BY <1>1, RequestFacts
  <2> QED BY <2>1, <2>2, <2>3
<1>5. t.ctr \in Nat /\ t.ctr > 0
  BY <1>1
<1> QED BY <1>3, <1>4, <1>5 DEF t

-------------------------------------------------------------------------------
(***************************************************************************)
(* A token as it was issued: every verifier's verdict on it.               *)
(***************************************************************************)

\* What the invariants say of the n-th token.
Was(t, n, s) ==
  /\ IsSeq(blobs) /\ ShortSigned(blobs) /\ n \in Nat \ {0} /\ s \in Nat /\ MadeAt(blobs, t, n, s)
  /\ t.ask \in Requests /\ Encodable(t.ask.claims)
  /\ t.at \in Nat /\ t.at < Half * Half
  /\ t.ctr \in Nat /\ t.ctr > 0 /\ t.ctr < Half * Half

\* Every token is such a one.
LEMMA Known ==
  ASSUME IInv, MadeInv, SizeInv, NEW n \in DOMAIN issued
  PROVE  \E s \in Nat : Was(issued[n], n, s)
<1>1. IsSeq(blobs) /\ IsSeq(issued) /\ ShortSigned(blobs)
  BY DEF IInv, Typed, SizeInv
<1>2. n \in Nat \ {0}
  BY <1>1, SeqAppend
<1>3. Made(blobs, issued[n], n, now, next)
  BY DEF MadeInv
<1> QED BY <1>1, <1>2, <1>3, Fits DEF Was, Made

\* The header that is read is the one that was written, and stands for the same signed bytes.
HeaderBack(h, t, n, s) ==
  LET covered == Wire(HeaderOf(t, n), Uint32(t.ask.ttl), PayloadOf(s), <<>>)
  IN /\ h.issuedAt = t.at /\ h.ttl = Uint32(t.ask.ttl) /\ h.nonce = n /\ h.mutationCtr = t.ctr
     /\ h.suite = t.ask.suite /\ h.tokenType = 1
     /\ SignedBytes(h, PayloadOf(s)) = covered /\ Signed_bytes(h, PayloadOf(s)) = covered

\* The header that is read of a token.
LEMMA ReadHeader ==
  ASSUME NEW t, NEW n, NEW s, Was(t, n, s)
  PROVE  HeaderBack(ReadOf(t, n, s).header, t, n, s)
<1> DEFINE h == ReadOf(t, n, s).header
           w == HeaderOf(t, n)
           ttl == Uint32(t.ask.ttl)
<1>1. Hi(t.at) * Half + Lo(t.at) = t.at /\ Hi(t.ctr) * Half + Lo(t.ctr) = t.ctr
  BY Halves DEF Was
<1>2. /\ h.suite = w.suite /\ h.tokenType = w.tokenType /\ h.issuedAt = t.at /\ h.ttl = ttl
      /\ h.nonce = n /\ h.deviceFp = n /\ h.mutationCtr = t.ctr
      /\ w.suite = t.ask.suite /\ w.tokenType = 1 /\ w.issuedAt = t.at /\ w.nonce = n
      /\ w.deviceFp = n /\ w.mutationCtr = t.ctr
  BY <1>1 DEF ReadOf, Kept, HeaderOf
<1>3. Uint32(ttl) = ttl
  <2>1. t.ask.ttl \in Nat /\ TtlRange \in Nat \ {0}
    BY RequestFacts, CodecAssumption DEF Was
  <2> QED BY <2>1 DEF Uint32
<1> HIDE DEF h, w, ttl
<1>4. SignedBytes(h, PayloadOf(s)) = Wire(w, ttl, PayloadOf(s), <<>>)
  BY <1>2, <1>3 DEF SignedBytes, SerializeToken, Wire
<1>5. Signed_bytes(h, PayloadOf(s)) = Wire(w, ttl, PayloadOf(s), <<>>)
  BY <1>2, <1>3 DEF Signed_bytes, To_bytes, Wire, U64, WriteUint64
<1> QED BY <1>2, <1>4, <1>5 DEF h, w, ttl, HeaderBack

\* Its payload and its signature open as what they are, and as nothing else.
LEMMA ReadOpens ==
  ASSUME NEW t, NEW n, NEW s, Was(t, n, s), NEW kind, NEW key
  PROVE  /\ OpenBlob(PayloadOf(s), kind, key, n)
              = IF kind = t.ask.impl /\ key = t.ask.key THEN Ok(blobs[s - 1].text) ELSE Fail
         /\ OpenBlob(CellsOf(s, 1), kind, key, 0)
              = IF kind = SignatureOf(t.ask.suite, t.ask.impl) /\ key = t.ask.key
                THEN Ok(Wire(HeaderOf(t, n), Uint32(t.ask.ttl), PayloadOf(s), <<>>)) ELSE Fail
<1>1. DOMAIN blobs \subseteq Nat
  BY SeqAppend DEF Was
<1>2. s - 1 \in DOMAIN blobs /\ s \in DOMAIN blobs /\ Len(blobs[s - 1].text) \in Nat
  BY TokenCells DEF Was
<1>3. /\ blobs[s - 1].kind = t.ask.impl /\ blobs[s - 1].key = t.ask.key /\ blobs[s - 1].nonce = n
      /\ blobs[s - 1].len = Len(blobs[s - 1].text) + 1
  <2>1. blobs[s - 1] = Blob(t.ask.impl, t.ask.key, n, blobs[s - 1].text, Len(blobs[s - 1].text) + 1)
    BY DEF Was, MadeAt
  <2> QED BY <2>1 DEF Blob
<1>4. /\ blobs[s].kind = SignatureOf(t.ask.suite, t.ask.impl) /\ blobs[s].key = t.ask.key
      /\ blobs[s].nonce = 0 /\ blobs[s].len = 1
      /\ blobs[s].text = Wire(HeaderOf(t, n), Uint32(t.ask.ttl), PayloadOf(s), <<>>)
  <2>1. blobs[s] = Blob(SignatureOf(t.ask.suite, t.ask.impl), t.ask.key, 0,
                        Wire(HeaderOf(t, n), Uint32(t.ask.ttl), PayloadOf(s), <<>>), 1)
    BY DEF Was, MadeAt, PayloadOf
  <2> QED BY <2>1 DEF Blob
<1>5. OpenBlob(PayloadOf(s), kind, key, n)
        = IF kind = t.ask.impl /\ key = t.ask.key THEN Ok(blobs[s - 1].text) ELSE Fail
  <2>1. blobs[s - 1].len \in Nat \ {0} /\ PayloadOf(s) = CellsOf(s - 1, blobs[s - 1].len)
    BY <1>2, <1>3 DEF PayloadOf
  <2>2. OpenBlob(CellsOf(s - 1, blobs[s - 1].len), kind, key, n)
          = IF blobs[s - 1].kind = kind /\ blobs[s - 1].key = key /\ blobs[s - 1].nonce = n
            THEN Ok(blobs[s - 1].text) ELSE Fail
    <3>1. s - 1 \in DOMAIN blobs /\ blobs[s - 1].len \in Nat \ {0}
      BY <1>2, <2>1
    <3> QED BY <1>1, <3>1, OpenOwn
  <2> QED BY <2>1, <2>2, <1>3
<1>6. OpenBlob(CellsOf(s, blobs[s].len), kind, key, 0)
        = IF blobs[s].kind = kind /\ blobs[s].key = key /\ blobs[s].nonce = 0
          THEN Ok(blobs[s].text) ELSE Fail
  <2>1. s \in DOMAIN blobs /\ blobs[s].len \in Nat \ {0}
    BY <1>2, <1>4
  <2> QED BY <1>1, <2>1, OpenOwn
<1> QED BY <1>4, <1>5, <1>6

\* The marker and what is behind it.
LEMMA ConsFacts ==
  ASSUME NEW a, NEW s \in Seq(Int)
  PROVE  Head(<<a>> \o s) = a /\ Tail(<<a>> \o s) = s
OBVIOUS

\* Behind the marker, and deflated or not, is what the claims were encoded to.
LEMMA BodyCarried ==
  ASSUME NEW t, NEW n, NEW s, Was(t, n, s)
  PROVE  /\ Body(TRUE, blobs[s - 1].text) = Ok(EncodeClaims(t.ask.claims))
         /\ t.ask.impl = "rust" => blobs[s - 1].text = EncodeClaims(t.ask.claims)
<1> DEFINE raw  == EncodeClaims(t.ask.claims)
           text == blobs[s - 1].text
<1>1. raw \in Seq(Int) /\ raw[1] = FixMap + Len(t.ask.claims) /\ Len(raw) \in Nat \ {0} /\ Len(t.ask.claims) \in Nat
  BY RequestFacts, EncodedIsBytes, ClaimTexts DEF Was
<1>2. Carries(blobs, text, t.ask, s) /\ DOMAIN blobs \subseteq Nat
  <2>1. DOMAIN blobs \subseteq Nat
    BY SeqAppend DEF Was
  <2> QED BY <2>1 DEF Was, MadeAt
<1>3. Head(raw) \notin {Raw, Deflate}
  <2>1. Head(raw) = raw[1]
    <3> HIDE DEF raw
    <3> QED BY <1>1
  <2> QED BY <1>1, <2>1 DEF Raw, Deflate, FixMap
<1> HIDE DEF text
<1>4. CASE text = raw
  <2> HIDE DEF raw
  <2>1. Body(TRUE, text) = Ok(raw)
    BY <1>3, <1>4 DEF Body
  <2> QED BY <1>4, <2>1 DEF raw, text
<1>5. CASE t.ask.impl = "js" /\ text = <<Raw>> \o raw
  <2> HIDE DEF raw
  <2>1. Head(text) = Raw /\ Tail(text) = raw
    BY <1>1, <1>5, ConsFacts
  <2>2. Body(TRUE, text) = Ok(raw)
    BY <2>1 DEF Body, Raw
  <2> QED BY <1>5, <2>2 DEF raw, text
<1>6. CASE /\ t.ask.impl = "js" /\ s - 2 \in DOMAIN blobs /\ blobs[s - 2].len \in Nat \ {0}
           /\ blobs[s - 2] = Blob("deflate", 0, 0, raw, blobs[s - 2].len)
           /\ text = <<Deflate>> \o CellsOf(s - 2, blobs[s - 2].len)
  <2> HIDE DEF raw
  <2> DEFINE cells == CellsOf(s - 2, blobs[s - 2].len)
  <2>1. cells \in Seq(Int)
    BY <1>2, <1>6, CellsAreBytes
  <2>2. OpenBlob(cells, "deflate", 0, 0) = Ok(raw)
    <3>1. /\ blobs[s - 2].kind = "deflate" /\ blobs[s - 2].key = 0 /\ blobs[s - 2].nonce = 0
          /\ blobs[s - 2].text = raw
      BY <1>6 DEF Blob
    <3>2. OpenBlob(cells, "deflate", 0, 0)
            = IF blobs[s - 2].kind = "deflate" /\ blobs[s - 2].key = 0 /\ blobs[s - 2].nonce = 0
              THEN Ok(blobs[s - 2].text) ELSE Fail
      BY <1>2, <1>6, OpenOwn
    <3> QED BY <3>1, <3>2
  <2> HIDE DEF cells
  <2>3. Head(text) = Deflate /\ Tail(text) = cells
    <3>1. text = <<Deflate>> \o cells
      BY <1>6 DEF cells
    <3> QED BY <2>1, <3>1, ConsFacts
  <2>4. Body(TRUE, text) = Ok(raw)
    <3>1. Body(TRUE, text) = OpenBlob(Tail(text), "deflate", 0, 0)
      BY <2>3 DEF Body, Raw, Deflate
    <3> QED BY <2>2, <2>3, <3>1
  <2> QED BY <1>6, <2>4 DEF raw, text
<1>7. t.ask.impl = "rust" => t.ask.impl # "js"
  OBVIOUS
<1> QED BY <1>2, <1>4, <1>5, <1>6, <1>7 DEF Carries, text

\* The checks of the header pass exactly in the time of the token.
LEMMA TimelyIsInTime ==
  ASSUME NEW t, NEW n, NEW s, Was(t, n, s), NEW clock \in Int
  PROVE  InTime(ReadOf(t, n, s).header, clock) <=> Timely(t, clock)
<1> DEFINE h == ReadOf(t, n, s).header
<1>1. h.issuedAt = t.at /\ h.ttl = Uint32(t.ask.ttl) /\ h.nonce = n
  BY ReadHeader DEF HeaderBack
<1>2. t.at \in Nat /\ Uint32(t.ask.ttl) \in Nat /\ n \in Nat \ {0} /\ Skew \in Nat
  BY RequestFacts, TimeAssumption DEF Was
<1> HIDE DEF h
<1> QED BY <1>1, <1>2 DEF InTime, Timely, h

\* A verdict on a token as it was issued.
Judged(r, t, own, key, clock) ==
  /\ r.verdict = "OK" <=> own /\ key = t.ask.key /\ Timely(t, clock)
  /\ r.verdict = "OK" => r.claims = Texts(t.ask.claims) /\ r.ctr = t.ctr

\* The verdict of the SDK.
LEMMA JsOfIssued ==
  ASSUME NEW t, NEW n, NEW s, Was(t, n, s), NEW key, NEW clock \in Int
  PROVE  Judged(ServerVerify(t.bytes, key, clock), t, t.ask.impl = "js", key, clock)
<1> DEFINE r   == ServerVerify(t.bytes, key, clock)
           p   == ReadOf(t, n, s)
           own == t.ask.impl = "js" /\ key = t.ask.key
           raw == EncodeClaims(t.ask.claims)
<1>1. DeserializeToken(t.bytes) = Ok(p)
  BY TokenCells DEF Was
<1>2. JsJudges(r, TRUE, p, key, 0, clock)
  <2> HIDE DEF p
  <2> QED BY <1>1, JsVerdict DEF ServerVerify
<1>3. p.payload = PayloadOf(s) /\ p.signature = CellsOf(s, 1)
  BY DEF ReadOf
<1>4. /\ p.header.nonce = n /\ p.header.mutationCtr = t.ctr
      /\ SignedBytes(p.header, p.payload) = Wire(HeaderOf(t, n), Uint32(t.ask.ttl), PayloadOf(s), <<>>)
  BY <1>3, ReadHeader DEF HeaderBack
<1>5. InTime(p.header, clock) <=> Timely(t, clock)
  BY TimelyIsInTime
<1> HIDE DEF r, p
<1>6. JsPlain(p, key) = IF own THEN Ok(blobs[s - 1].text) ELSE Fail
  BY <1>3, <1>4, ReadOpens DEF JsPlain
<1>7. own => JsSigned(p, key)
  <2>1. own => SignatureOf(t.ask.suite, t.ask.impl) = "ml-dsa"
    BY DEF SignatureOf
  <2> QED BY <2>1, <1>3, <1>4, ReadOpens DEF JsSigned
<1>8. own => JsClaims(TRUE, p, key) = Ok(Texts(t.ask.claims)) /\ JsBody(TRUE, p, key).ok
  <2>1. Body(TRUE, blobs[s - 1].text) = Ok(raw)
    BY BodyCarried
  <2>2. DecodeClaims(raw) = Ok(Texts(t.ask.claims))
    BY RequestFacts, MapRoundTrip DEF Was, DecodeClaims
  <2> HIDE DEF raw
  <2>3. own => JsBody(TRUE, p, key) = Ok(raw)
    BY <1>6, <2>1, OkFacts DEF JsBody
  <2>4. own => JsClaims(TRUE, p, key) = DecodeClaims(raw)
    BY <2>3, OkFacts DEF JsClaims
  <2> QED BY <2>2, <2>3, <2>4, OkFacts
<1>9. ~(p.header.mutationCtr <= 0)
  BY <1>4 DEF Was
<1> HIDE DEF own
<1>10. JsAccepts(TRUE, p, key, 0, clock) <=> own /\ Timely(t, clock)
  BY <1>5, <1>6, <1>7, <1>8, <1>9, OkFacts DEF JsAccepts
<1>11. r.verdict = "OK" <=> own /\ Timely(t, clock)
  BY <1>2, <1>10 DEF JsJudges
<1>12. r.verdict = "OK" => r.claims = Texts(t.ask.claims) /\ r.ctr = t.ctr
  BY <1>2, <1>4, <1>8, <1>11, OkFacts DEF JsJudges
<1> QED BY <1>11, <1>12 DEF Judged, r, own

\* The core reads what it issued itself; of the rest it may not know the suite.
LEMMA CoreReads ==
  ASSUME NEW t, NEW n, NEW s, Was(t, n, s)
  PROVE  /\ t.ask.suite \in Suites => From_bytes(t.bytes) = Ok(ReadOf(t, n, s))
         /\ t.ask.suite \notin Suites => From_bytes(t.bytes) = Fail
         /\ t.ask.impl = "rust" => t.ask.suite \in Suites
<1> DEFINE p == ReadOf(t, n, s)
<1>1. DeserializeToken(t.bytes) = Ok(p) /\ Len(CellsOf(s, 1)) = 1
  BY TokenCells DEF Was
<1>2. p.signature = CellsOf(s, 1) /\ p.signature # <<>>
  BY <1>1 DEF ReadOf
<1>3. p.header.suite = t.ask.suite /\ p.header.tokenType \in TokenTypes
  BY ReadHeader DEF TokenTypes, HeaderBack
<1> HIDE DEF p
<1>4. Ok(p).ok /\ Ok(p).value = p
  BY OkFacts
<1> QED BY <1>1, <1>2, <1>3, <1>4, RequestFacts DEF From_bytes, Was, p

\* The verdict of the core, with either algorithm.
LEMMA CoreOfIssued ==
  ASSUME NEW t, NEW n, NEW s, Was(t, n, s), NEW key, NEW clock \in Int,
         NEW alg \in SignatureKinds, NEW r, NEW more \in BOOLEAN,
         alg = "ml-dsa" => more, alg = "falcon512" => (more <=> t.ask.suite = Falcon),
         t.ask.suite \in Suites => RsJudges(r, more, ReadOf(t, n, s), alg, key, clock),
         t.ask.suite \notin Suites => r.verdict # "OK"
  PROVE  Judged(r, t, t.ask.impl = "rust" /\ SignatureOf(t.ask.suite, t.ask.impl) = alg, key, clock)
<1> DEFINE p    == ReadOf(t, n, s)
           rust == t.ask.impl = "rust" /\ key = t.ask.key
           own  == rust /\ SignatureOf(t.ask.suite, t.ask.impl) = alg
           raw  == EncodeClaims(t.ask.claims)
<1>1. CASE t.ask.suite \notin Suites
  <2>1. t.ask.impl # "rust"
    BY <1>1, CoreReads
  <2> QED BY <1>1, <2>1 DEF Judged
<1>2. CASE t.ask.suite \in Suites
  <2>1. p.payload = PayloadOf(s) /\ p.signature = CellsOf(s, 1)
    BY DEF ReadOf
  <2>2. /\ p.header.nonce = n /\ p.header.mutationCtr = t.ctr
        /\ Signed_bytes(p.header, p.payload) = Wire(HeaderOf(t, n), Uint32(t.ask.ttl), PayloadOf(s), <<>>)
    BY <2>1, ReadHeader DEF HeaderBack
  <2>3. InTime(p.header, clock) <=> Timely(t, clock)
    BY TimelyIsInTime
  <2>j. RsJudges(r, more, p, alg, key, clock)
    BY <1>2
  <2> HIDE DEF p
  <2>4. RsPlain(p, key) = IF rust THEN Ok(blobs[s - 1].text) ELSE Fail
    BY <2>1, <2>2, ReadOpens DEF RsPlain
  <2>5. rust => (RsSigned(p, alg, key) <=> SignatureOf(t.ask.suite, t.ask.impl) = alg)
    <3> DEFINE w == Wire(HeaderOf(t, n), Uint32(t.ask.ttl), PayloadOf(s), <<>>)
    <3>1. OpenBlob(CellsOf(s, 1), alg, key, 0)
            = IF alg = SignatureOf(t.ask.suite, t.ask.impl) /\ key = t.ask.key THEN Ok(w) ELSE Fail
      BY ReadOpens
    <3>2. Signed_bytes(p.header, p.payload) = w
      BY <2>2
    <3> HIDE DEF w
    <3> QED BY <2>1, <3>1, <3>2, OkFacts DEF RsSigned
  <2>6. rust => RsClaims(p, key) = Ok(Texts(t.ask.claims))
    <3>1. rust => blobs[s - 1].text = raw
      BY BodyCarried
    <3>2. Claims_decode(raw) = Ok(Texts(t.ask.claims))
      BY RequestFacts, MapRoundTrip DEF Was, Claims_decode
    <3> HIDE DEF raw
    <3> QED BY <2>4, <3>1, <3>2, OkFacts DEF RsClaims
  <2>7. p.header.mutationCtr > 0
    BY <2>2 DEF Was
  <2>8. own => more
    BY DEF SignatureOf, SignatureKinds
  <2> HIDE DEF rust
  <2>9. more /\ RsAccepts(p, alg, key, clock) <=> own /\ Timely(t, clock)
    BY <2>3, <2>4, <2>5, <2>6, <2>7, <2>8, OkFacts DEF RsAccepts
  <2>10. r.verdict = "OK" <=> own /\ Timely(t, clock)
    BY <2>j, <2>9 DEF RsJudges
  <2>11. r.verdict = "OK" => r.claims = Texts(t.ask.claims) /\ r.ctr = t.ctr
    BY <2>j, <2>2, <2>6, <2>10, OkFacts DEF RsJudges
  <2> QED BY <2>10, <2>11 DEF Judged, rust
<1> QED BY <1>1, <1>2

\* The verdict of each verifier, with any key and at any time, on a token as it was issued.
LEMMA VerdictOfIssued ==
  ASSUME NEW t, NEW n, NEW s, Was(t, n, s), NEW key, NEW clock \in Int, NEW verifier \in Verifier
  PROVE  Judged(Verdict(verifier, t.bytes, key, clock), t, verifier = Own(t.ask), key, clock)
<1>1. t.ask.impl \in {"js", "rust"} /\ (t.ask.impl = "js" => SignatureOf(t.ask.suite, t.ask.impl) = "ml-dsa")
      /\ SignatureOf(t.ask.suite, t.ask.impl) \in SignatureKinds
  BY RequestFacts DEF Was, SignatureOf, SignatureKinds
<1> DEFINE p == ReadOf(t, n, s)
<1>2. /\ t.ask.suite \in Suites => From_bytes(t.bytes) = Ok(p)
      /\ t.ask.suite \notin Suites => From_bytes(t.bytes) = Fail
      /\ p.header.suite = t.ask.suite
  BY CoreReads, ReadHeader DEF HeaderBack
<1> HIDE DEF p
<1>3. CASE verifier = "js"
  <2>1. Judged(ServerVerify(t.bytes, key, clock), t, t.ask.impl = "js", key, clock)
    BY JsOfIssued
  <2>2. verifier = Own(t.ask) <=> t.ask.impl = "js"
    BY <1>1, <1>3 DEF Own, SignatureKinds
  <2> QED BY <1>3, <2>1, <2>2 DEF Verdict, Judged
<1>4. CASE verifier = "rust"
  <2> DEFINE r == CliVerify(t.bytes, key, clock)
  <2>1. t.ask.suite \in Suites => RsJudges(r, TRUE, p, "ml-dsa", key, clock)
    BY <1>2, RustVerdict
  <2>2. t.ask.suite \notin Suites => r.verdict # "OK"
    BY <1>2, OkFacts DEF CliVerify, Verify_token
  <2> HIDE DEF r
  <2>3. Judged(r, t, t.ask.impl = "rust" /\ SignatureOf(t.ask.suite, t.ask.impl) = "ml-dsa", key, clock)
    <3>1. "ml-dsa" \in SignatureKinds /\ "ml-dsa" # "falcon512"
      BY DEF SignatureKinds
    <3> QED BY <2>1, <2>2, <3>1, CoreOfIssued DEF p
  <2>4. verifier = Own(t.ask) <=> t.ask.impl = "rust" /\ SignatureOf(t.ask.suite, t.ask.impl) = "ml-dsa"
    BY <1>1, <1>4 DEF Own, SignatureKinds
  <2>5. Verdict(verifier, t.bytes, key, clock) = r
    BY <1>4 DEF Verdict, r
  <2> QED BY <2>3, <2>4, <2>5 DEF Judged
<1>5. CASE verifier = "falcon512"
  <2> DEFINE r == Verify_token_falcon512(t.bytes, key, 0, clock)
             more == t.ask.suite = Falcon
  <2>1. t.ask.suite \in Suites => RsJudges(r, more, p, "falcon512", key, clock)
    BY <1>2, FalconVerdict
  <2>2. t.ask.suite \notin Suites => r.verdict # "OK"
    BY <1>2, OkFacts DEF Verify_token_falcon512
  <2> HIDE DEF r
  <2>3. Judged(r, t, t.ask.impl = "rust" /\ SignatureOf(t.ask.suite, t.ask.impl) = "falcon512", key, clock)
    <3>1. "falcon512" \in SignatureKinds /\ "ml-dsa" # "falcon512" /\ more \in BOOLEAN
      BY DEF SignatureKinds
    <3> QED BY <2>1, <2>2, <3>1, CoreOfIssued DEF p
  <2>4. verifier = Own(t.ask) <=> t.ask.impl = "rust" /\ SignatureOf(t.ask.suite, t.ask.impl) = "falcon512"
    BY <1>1, <1>5 DEF Own, SignatureKinds
  <2>5. Verdict(verifier, t.bytes, key, clock) = r
    BY <1>5 DEF Verdict, r
  <2> QED BY <2>3, <2>4, <2>5 DEF Judged
<1> QED BY <1>3, <1>4, <1>5 DEF Verifier

\* Every key is somewhere in every order of the keys.
LEMMA EachIsActive ==
  ASSUME NEW active \in SetToSeqs(Keys), NEW key \in Keys
  PROVE  /\ Len(active) \in Nat /\ \A i \in 1..Len(active) : active[i] \in Keys
         /\ \E i \in 1..Len(active) : active[i] = key
<1> DEFINE N == Cardinality(Keys)
<1>1. N \in Nat /\ IsFiniteSet(1..N) /\ Cardinality(1..N) = N
  <2>1. N \in Nat
    BY KeysAssumption, FS_CardinalityType
  <2>2. 1 \in Int /\ N \in Int
    BY <2>1
  <2> HIDE DEF N
  <2>3. IsFiniteSet(1..N) /\ Cardinality(1..N) = IF 1 > N THEN 0 ELSE N - 1 + 1
    BY <2>2, FS_Interval
  <2> QED BY <2>1, <2>3
<1>2. active \in [1..N -> Keys] /\ \A i, j \in 1..N : i # j => active[i] # active[j]
  BY DEF SetToSeqs
<1>3. active \in Injection(1..N, Keys)
  BY <1>2 DEF Injection, IsInjective
<1>4. active \in Surjection(1..N, Keys)
  <2> HIDE DEF N
  <2>1. Cardinality(1..N) = Cardinality(Keys)
    BY <1>1 DEF N
  <2> QED BY <1>3, <2>1, KeysAssumption, FS_Injection
<1>5. \E i \in 1..N : active[i] = key
  BY <1>4 DEF Surjection
<1>6. Len(active) = N
  <2> HIDE DEF N
  <2>1. active \in Seq(Keys)
    BY <1>1, <1>2
  <2>2. DOMAIN active = 1..N /\ DOMAIN active = 1..Len(active) /\ Len(active) \in Nat
    BY <1>2, <2>1, LenProperties
  <2> QED BY <1>1, <2>2
<1> HIDE DEF N
<1> QED BY <1>1, <1>2, <1>5, <1>6

\* The first of a sequence that satisfies a predicate; P is its set of places.
LEMMA AutoFinds ==
  ASSUME NEW data, NEW active, NEW clock, Len(active) \in Nat,
         NEW i \in 1..Len(active), ServerVerify(data, active[i], clock).verdict = "OK"
  PROVE  LET found == VerifyAuto(data, active, clock)
         IN found \in 1..Len(active) /\ ServerVerify(data, active[found], clock).verdict = "OK"
<1> DEFINE I == {j \in 1..Len(active) : ServerVerify(data, active[j], clock).verdict = "OK"}
           found == VerifyAuto(data, active, clock)
<1>1. found = IF I # {} THEN Min(I) ELSE 0
  BY DEF VerifyAuto, SelectInSeq
<1>2. i \in I /\ I \subseteq Nat
  OBVIOUS
<1>3. \E n \in I : \A m \in I : n <= m
  <2> HIDE DEF I
  <2> QED BY <1>2, LeastNumber
<1>4. found \in I
  <2>1. found = CHOOSE x \in I : \A y \in I : x <= y
    BY <1>1, <1>2 DEF Min
  <2> HIDE DEF I, found
  <2> QED BY <1>3, <2>1
<1> QED BY <1>4

\* What Complete says follows from the invariants.
LEMMA CompleteHolds == IInv /\ MadeInv /\ SizeInv => Complete
<1> SUFFICES ASSUME IInv, MadeInv, SizeInv, NEW t \in Range(issued)
             PROVE
    /\ LET shown == Ok([issuedAt |-> t.at, ttl |-> Uint32(t.ask.ttl),
                        mutationCtr |-> t.ctr, totalBytes |-> Len(t.bytes)])
       IN /\ InspectToken(t.bytes) = shown
          /\ t.ask.suite \in Suites => CliInspect(t.bytes) = shown
    /\ \A clock \in {now + d : d \in Drifts} :
         SuiteFits(t.ask) /\ Timely(t, clock) =>
           /\ Verdict(Own(t.ask), t.bytes, t.ask.key, clock).verdict = "OK"
           /\ t.ask.impl = "js" =>
                \A active \in SetToSeqs(Keys) :
                  LET found == VerifyAuto(t.bytes, active, clock)
                  IN found # 0 /\ active[found] = t.ask.key
  BY DEF Complete
<1>1. PICK n \in DOMAIN issued : t = issued[n]
  BY DEF Range
<1>2. PICK s \in Nat : Was(t, n, s)
  BY <1>1, Known
<1> DEFINE shown == Ok([issuedAt |-> t.at, ttl |-> Uint32(t.ask.ttl),
                        mutationCtr |-> t.ctr, totalBytes |-> Len(t.bytes)])
           p == ReadOf(t, n, s)
<1>3. /\ DeserializeToken(t.bytes) = Ok(p) /\ p.header.issuedAt = t.at /\ p.header.mutationCtr = t.ctr
      /\ p.header.ttl = Uint32(t.ask.ttl)
      /\ t.ask.suite \in Suites => From_bytes(t.bytes) = Ok(p)
  <2>1. DeserializeToken(t.bytes) = Ok(p)
    BY <1>2, TokenCells DEF Was
  <2>2. HeaderBack(p.header, t, n, s)
    BY <1>2, ReadHeader
  <2>3. t.ask.suite \in Suites => From_bytes(t.bytes) = Ok(p)
    BY <1>2, CoreReads
  <2> HIDE DEF p
  <2> QED BY <2>1, <2>2, <2>3 DEF HeaderBack
<1> HIDE DEF p
<1>4. InspectToken(t.bytes) = shown
  BY <1>3, OkFacts DEF InspectToken
<1>5. t.ask.suite \in Suites => CliInspect(t.bytes) = shown
  BY <1>3, OkFacts DEF CliInspect
<1>6. ASSUME NEW clock \in {now + d : d \in Drifts}, Timely(t, clock)
      PROVE  /\ Verdict(Own(t.ask), t.bytes, t.ask.key, clock).verdict = "OK"
             /\ t.ask.impl = "js" =>
                  \A active \in SetToSeqs(Keys) :
                    LET found == VerifyAuto(t.bytes, active, clock)
                    IN found # 0 /\ active[found] = t.ask.key
  <2>1. clock \in Int
    BY <1>6, TimeAssumption DEF MadeInv
  <2>2. Verdict(Own(t.ask), t.bytes, t.ask.key, clock).verdict = "OK"
    <3>1. Own(t.ask) \in Verifier
      BY <1>2, RequestFacts DEF Was, Own, Verifier, SignatureOf
    <3>2. Judged(Verdict(Own(t.ask), t.bytes, t.ask.key, clock), t, TRUE, t.ask.key, clock)
      <4>1. Judged(Verdict(Own(t.ask), t.bytes, t.ask.key, clock), t, Own(t.ask) = Own(t.ask), t.ask.key, clock)
        BY <1>2, <2>1, <3>1, VerdictOfIssued
      <4> QED BY <4>1
    <3> QED BY <1>6, <3>2 DEF Judged
  <2>3. ASSUME t.ask.impl = "js", NEW active \in SetToSeqs(Keys)
        PROVE  LET found == VerifyAuto(t.bytes, active, clock)
               IN found # 0 /\ active[found] = t.ask.key
    <3>1. t.ask.key \in Keys
      BY <1>2, RequestFacts DEF Was
    <3>2. PICK i \in 1..Len(active) : active[i] = t.ask.key
      BY <3>1, EachIsActive
    <3>3. \A key : ServerVerify(t.bytes, key, clock).verdict = "OK" <=> key = t.ask.key
      <4> TAKE key
      <4>1. Judged(ServerVerify(t.bytes, key, clock), t, t.ask.impl = "js", key, clock)
        BY <1>2, <2>1, JsOfIssued
      <4> QED BY <1>6, <2>3, <4>1 DEF Judged
    <3>4. Len(active) \in Nat
      BY <3>1, EachIsActive
    <3> DEFINE found == VerifyAuto(t.bytes, active, clock)
    <3>5. found \in 1..Len(active) /\ ServerVerify(t.bytes, active[found], clock).verdict = "OK"
      BY <3>2, <3>3, <3>4, AutoFinds
    <3> HIDE DEF found
    <3>6. found # 0 /\ active[found] = t.ask.key
      BY <3>3, <3>4, <3>5
    <3> QED BY <3>6 DEF found
  <2> QED BY <2>2, <2>3
<1> QED BY <1>4, <1>5, <1>6

-------------------------------------------------------------------------------
(***************************************************************************)
(* A token that was damaged: nobody accepts it.                            *)
(***************************************************************************)

\* What is read of any cells that can be read.
ReadAs(data, pl, p) ==
  /\ Len(data) >= 12 + pl /\ data[1] = Magic /\ data[2] = Version
  /\ p.header = [suite |-> data[3], tokenType |-> data[4], issuedAt |-> data[5] * Half + data[6],
                 ttl |-> data[7], nonce |-> data[8], deviceFp |-> data[9],
                 mutationCtr |-> data[pl + 11] * Half + data[pl + 12]]
  /\ p.payload \in Seq(Int) /\ Len(p.payload) = pl
  /\ \A i \in 1..pl : p.payload[i] = data[10 + i]
  /\ Len(p.signature) = Len(data) - 12 - pl
  /\ Len(data) > 12 + pl => p.signature[1] = data[13 + pl]

\* A slice, cell by cell.
LEMMA SliceFacts ==
  ASSUME NEW data \in Seq(Int), NEW from \in Nat, NEW to \in Nat, from <= to, to <= Len(data)
  PROVE  /\ Slice(data, from, to) \in Seq(Int) /\ Len(Slice(data, from, to)) = to - from
         /\ \A i \in 1..(to - from) : Slice(data, from, to)[i] = data[from + i]
<1> DEFINE part == SubSeq(data, from + 1, to)
<1>1. Slice(data, from, to) = part
  <2>1. Len(data) \in Nat
    BY LenProperties
  <2>2. (IF to < Len(data) THEN to ELSE Len(data)) = to
    BY <2>1
  <2> QED BY <2>2 DEF Slice
<1>2. from + 1 \in Int /\ to \in Int /\ to - (from + 1) + 1 = to - from
  OBVIOUS
<1>3. \A i \in (from + 1)..to : data[i] \in Int
  BY LenProperties, ElementOfSeq
<1>4. /\ part \in Seq(Int) /\ Len(part) = IF from + 1 <= to THEN to - (from + 1) + 1 ELSE 0
      /\ \A i \in 1..(to - (from + 1) + 1) : part[i] = data[from + 1 + i - 1]
  BY <1>2, <1>3, SubSeqProperties
<1>5. Len(part) = to - from
  BY <1>2, <1>4
<1>6. \A i \in 1..(to - from) : part[i] = data[from + i]
  <2> TAKE i \in 1..(to - from)
  <2>1. from + 1 + i - 1 = from + i /\ part[i] = data[from + 1 + i - 1]
    BY <1>2, <1>4
  <2> QED BY <2>1
<1> QED BY <1>1, <1>4, <1>5, <1>6

\* What DeserializeToken reads of any cells.
LEMMA Reads ==
  ASSUME NEW data \in Seq(Int), NEW p, DeserializeToken(data) = Ok(p), NEW pl \in Nat,
         Len(data) >= 10 => data[10] = pl
  PROVE  ReadAs(data, pl, p)
<1> DEFINE plLen == At(data, 9)
           ctrAt == HeaderLen + plLen
           bad   == \/ Len(data) < HeaderLen \/ At(data, 0) # Magic \/ At(data, 1) # Version
                    \/ Len(data) < ctrAt + CtrLen
           q     == [header |-> [suite |-> At(data, 2), tokenType |-> At(data, 3),
                                 issuedAt |-> ReadUint64(data, 4), ttl |-> At(data, 6),
                                 nonce |-> At(data, 7), deviceFp |-> At(data, 8),
                                 mutationCtr |-> ReadUint64(data, ctrAt)],
                     payload   |-> Slice(data, HeaderLen, ctrAt),
                     signature |-> Slice(data, ctrAt + CtrLen, Len(data))]
<1>1. DeserializeToken(data) = IF bad THEN Fail ELSE Ok(q)
  BY DEF DeserializeToken
<1> HIDE DEF q, bad
<1>2. ~bad /\ p = q
  <2>1. Ok(p).ok /\ Ok(p).value = p /\ Ok(q).value = q /\ ~Fail.ok
    BY OkFacts
  <2> QED BY <1>1, <2>1
<1>3. Len(data) \in Nat /\ ~(Len(data) < 10) /\ At(data, 0) = Magic /\ At(data, 1) = Version
  BY <1>2, LenProperties DEF bad, HeaderLen
<1>4. \A i \in 0..(Len(data) - 1) : At(data, i) = data[i + 1]
  BY <1>3 DEF At
<1>5. plLen = pl /\ data[1] = Magic /\ data[2] = Version
  BY <1>3, <1>4
<1> HIDE DEF plLen
<1>6. ctrAt = 10 + pl /\ ctrAt + CtrLen = 12 + pl /\ Len(data) >= 12 + pl
  <2>1. ctrAt = 10 + pl /\ ctrAt + CtrLen = 12 + pl
    BY <1>5 DEF HeaderLen, CtrLen
  <2>2. ~(Len(data) < ctrAt + CtrLen)
    BY <1>2 DEF bad, plLen
  <2> HIDE DEF ctrAt
  <2> QED BY <1>3, <2>1, <2>2
<1> HIDE DEF ctrAt
<1>7. ReadUint64(data, 4) = data[5] * Half + data[6] /\ ReadUint64(data, ctrAt) = data[pl + 11] * Half + data[pl + 12]
  <2>1. At(data, 4) = data[5] /\ At(data, 4 + 1) = data[6]
    BY <1>3, <1>4
  <2>2. At(data, ctrAt) = data[pl + 11] /\ At(data, ctrAt + 1) = data[pl + 12]
    <3>1. 10 + pl \in 0..(Len(data) - 1) /\ 10 + pl + 1 \in 0..(Len(data) - 1)
      BY <1>3, <1>6
    <3>2. 10 + pl + 1 = pl + 11 /\ 10 + pl + 1 + 1 = pl + 12
      OBVIOUS
    <3> QED BY <1>4, <1>6, <3>1, <3>2
  <2> QED BY <2>1, <2>2 DEF ReadUint64
<1>8. /\ At(data, 2) = data[3] /\ At(data, 3) = data[4] /\ At(data, 6) = data[7]
      /\ At(data, 7) = data[8] /\ At(data, 8) = data[9]
  BY <1>3, <1>4
<1>9. p.header = [suite |-> data[3], tokenType |-> data[4], issuedAt |-> data[5] * Half + data[6],
                  ttl |-> data[7], nonce |-> data[8], deviceFp |-> data[9],
                  mutationCtr |-> data[pl + 11] * Half + data[pl + 12]]
  BY <1>2, <1>7, <1>8 DEF q, ctrAt, plLen
<1>10. p.payload = Slice(data, 10, 10 + pl) /\ p.signature = Slice(data, 12 + pl, Len(data))
  <2>1. p.payload = Slice(data, HeaderLen, ctrAt) /\ p.signature = Slice(data, ctrAt + CtrLen, Len(data))
    BY <1>2 DEF q, ctrAt, plLen
  <2> QED BY <1>6, <2>1 DEF HeaderLen
<1>11. /\ p.payload \in Seq(Int) /\ Len(p.payload) = pl
       /\ \A i \in 1..pl : p.payload[i] = data[10 + i]
  <2>1. 10 + pl \in Nat /\ 10 <= 10 + pl /\ 10 + pl <= Len(data) /\ (10 + pl) - 10 = pl
    BY <1>3, <1>6
  <2>2. /\ Slice(data, 10, 10 + pl) \in Seq(Int) /\ Len(Slice(data, 10, 10 + pl)) = (10 + pl) - 10
        /\ \A i \in 1..((10 + pl) - 10) : Slice(data, 10, 10 + pl)[i] = data[10 + i]
    BY <2>1, SliceFacts
  <2> QED BY <1>10, <2>1, <2>2
<1>12. /\ Len(p.signature) = Len(data) - 12 - pl
       /\ Len(data) > 12 + pl => p.signature[1] = data[13 + pl]
  <2>1. 12 + pl \in Nat /\ 12 + pl <= Len(data) /\ Len(data) - (12 + pl) = Len(data) - 12 - pl
    BY <1>3, <1>6
  <2>2. /\ Len(p.signature) = Len(data) - (12 + pl)
        /\ \A i \in 1..(Len(data) - (12 + pl)) : p.signature[i] = data[12 + pl + i]
    <3> DEFINE from == 12 + pl
               to   == Len(data)
    <3>1. from \in Nat /\ to \in Nat /\ from <= to /\ to <= Len(data)
      BY <1>3, <2>1
    <3> HIDE DEF from, to
    <3>2. /\ Len(Slice(data, from, to)) = to - from
          /\ \A i \in 1..(to - from) : Slice(data, from, to)[i] = data[from + i]
      BY <3>1, SliceFacts
    <3> QED BY <1>10, <3>2 DEF from, to
  <2>3. Len(data) > 12 + pl => 1 \in 1..(Len(data) - (12 + pl))
    BY <1>3, <2>1
  <2>4. 12 + pl + 1 = 13 + pl
    OBVIOUS
  <2> QED BY <2>1, <2>2, <2>3, <2>4
<1> QED BY <1>5, <1>6, <1>9, <1>11, <1>12 DEF ReadAs

\* What opens as a signature is the one cell of a signature that was made.
LEMMA SignatureOpens ==
  ASSUME ShortSigned(blobs), NEW kind \in SignatureKinds, NEW key, NEW cells, NEW text,
         OpenBlob(cells, kind, key, 0) = Ok(text)
  PROVE  \E b \in DOMAIN blobs :
           blobs[b].kind = kind /\ cells = CellsOf(b, 1) /\ blobs[b].text = text
<1> DEFINE is(b) == /\ blobs[b].kind = kind /\ blobs[b].key = key /\ blobs[b].nonce = 0
                    /\ cells = CellsOf(b, blobs[b].len)
           found == {b \in DOMAIN blobs : is(b)}
           b == CHOOSE c \in found : TRUE
<1>1. OpenBlob(cells, kind, key, 0) = IF found = {} THEN Fail ELSE Ok(blobs[b].text)
  BY DEF OpenBlob
<1>2. found # {} /\ text = blobs[b].text
  <2> HIDE DEF found, b
  <2>1. Ok(text).ok /\ Ok(text).value = text /\ ~Fail.ok /\ Ok(blobs[b].text).value = blobs[b].text
    BY OkFacts
  <2> QED BY <1>1, <2>1
<1>3. b \in found
  <2> HIDE DEF found
  <2> QED BY <1>2
<1>4. b \in DOMAIN blobs /\ blobs[b].kind = kind /\ cells = CellsOf(b, blobs[b].len)
  BY <1>3
<1> HIDE DEF b
<1>5. blobs[b].len = 1
  BY <1>4 DEF ShortSigned
<1> QED BY <1>2, <1>4, <1>5

\* Numbers that are one apart do not have the same rest.
LEMMA ModNear ==
  ASSUME NEW m \in Nat \ {0, 1}, NEW a \in 0..(m - 1), NEW c \in {a - 1, a, a + 1}, c % m = a
  PROVE  c = a
<1> DEFINE k == c \div m
<1>1. c = m * k + a /\ k \in Int /\ m > 1
  OBVIOUS
<1> HIDE DEF k
<1>2. k >= 1 => m * k >= m
  BY <1>1
<1>3. k <= -1 => m * k <= -m
  BY <1>1
<1> QED BY <1>1, <1>2, <1>3

\* A number whose halves on the wire are a and b was read from cells a and b, if from cells
\* next to them.
LEMMA HalfNear ==
  ASSUME NEW a \in 0..(Half - 1), NEW b \in 0..(Half - 1),
         NEW c \in {a - 1, a, a + 1}, NEW d \in {b - 1, b, b + 1},
         Hi(c * Half + d) = a, Lo(c * Half + d) = b
  PROVE  c = a /\ d = b
<1> DEFINE v == c * Half + d
           q == v \div Half
<1>1. Half \in Nat \ {0, 1} /\ Half > 1 /\ c \in Int /\ d \in Int
  BY CodecAssumption
<1>2. v \in Int /\ q \in Int /\ v = Half * q + (v % Half)
  <2>1. v \in Int
    BY <1>1
  <2> HIDE DEF v
  <2> QED BY <1>1, <2>1
<1>3. v % Half = b /\ q % Half = a
  BY DEF Hi, Lo
<1>4. Half * (c - q) = b - d
  <2> HIDE DEF q
  <2>1. c * Half + d = Half * q + b
    BY <1>2, <1>3
  <2>2. Half * (c - q) = c * Half - Half * q
    BY <1>1, <1>2
  <2>3. c * Half \in Int /\ Half * q \in Int
    BY <1>1, <1>2
  <2> QED BY <1>1, <2>1, <2>2, <2>3
<1> HIDE DEF q
<1> DEFINE e == c - q
<1>5. e \in Int /\ Half * e = b - d /\ b - d \in {-1, 0, 1}
  BY <1>1, <1>2, <1>4
<1>6. e = 0
  <2> HIDE DEF e
  <2>1. e >= 1 => Half * e >= Half
    BY <1>1, <1>5
  <2>2. e <= -1 => Half * e <= -Half
    BY <1>1, <1>5
  <2> QED BY <1>1, <1>5, <2>1, <2>2
<1>7. c = q /\ d = b
  BY <1>1, <1>2, <1>5, <1>6
<1>8. c = a
  BY <1>1, <1>3, <1>7, ModNear
<1> QED BY <1>7, <1>8

\* The cells of a token as it was issued, when s is the number of its signature.
LEMMA IssuedCells ==
  ASSUME NEW t, NEW n, NEW s, Was(t, n, s)
  PROVE  LET len == Len(PayloadOf(s)) IN
         /\ len \in Nat \ {0} /\ t.bytes \in Seq(Int) /\ Len(t.bytes) = 13 + len
         /\ DOMAIN t.bytes = 1..(13 + len)
         /\ FrontOf(t.bytes, HeaderOf(t, n), Uint32(t.ask.ttl), len)
         /\ \A i \in 1..len : t.bytes[10 + i] = PayloadOf(s)[i]
         /\ t.bytes[len + 11] = Hi(t.ctr) /\ t.bytes[len + 12] = Lo(t.ctr)
         /\ t.bytes[len + 13] = Opaque + s
<1> DEFINE len == Len(PayloadOf(s))
           sig == CellsOf(s, 1)
           h   == HeaderOf(t, n)
<1>1. /\ len \in Nat \ {0} /\ Len(sig) = 1
      /\ IsWire(t.bytes, h, Uint32(t.ask.ttl), PayloadOf(s), sig)
  <2>1. Len(PayloadOf(s)) = Len(blobs[s - 1].text) + 1 /\ Len(blobs[s - 1].text) \in Nat
    BY TokenCells DEF Was
  <2> QED BY <2>1, TokenCells DEF Was
<1>2. sig[1] = Opaque + s /\ h.mutationCtr = t.ctr
  BY DEF CellsOf, HeaderOf
<1> HIDE DEF sig, h, len
<1>3. /\ t.bytes \in Seq(Int) /\ Len(t.bytes) = 12 + len + 1 /\ FrontOf(t.bytes, h, Uint32(t.ask.ttl), len)
      /\ Holds8(t.bytes, 10, PayloadOf(s)) /\ Holds8(t.bytes, 12 + len, sig)
      /\ t.bytes[len + 11] = Hi(h.mutationCtr) /\ t.bytes[len + 12] = Lo(h.mutationCtr)
  BY <1>1 DEF IsWire, len
<1>4. 12 + len + 1 = 13 + len /\ 12 + len + 1 = len + 13
  BY <1>1
<1>5. DOMAIN t.bytes = 1..(13 + len)
  BY <1>3, <1>4, LenProperties
<1>6. t.bytes[12 + len + 1] = sig[1]
  <2>1. 1 \in 1..Len(sig)
    BY <1>1
  <2> QED BY <1>3, <2>1 DEF Holds8
<1>7. \A i \in 1..len : t.bytes[10 + i] = PayloadOf(s)[i]
  BY <1>3 DEF Holds8, len
<1> QED BY <1>1, <1>2, <1>3, <1>4, <1>5, <1>6, <1>7 DEF len, h

\* The cells differ from the token's by one at most, and what is read of them, with the ttl x,
\* has the token's signed bytes.
Near(t, n, s, data, p, x) ==
  /\ data \in Seq(Int) /\ Len(data) = Len(t.bytes)
  /\ data[10] = Len(PayloadOf(s)) /\ ReadAs(data, Len(PayloadOf(s)), p)
  /\ \A i \in 1..Len(t.bytes) : data[i] \in {t.bytes[i] - 1, t.bytes[i], t.bytes[i] + 1}
  /\ x \in {p.header.ttl, Uint32(p.header.ttl)}
  /\ Wire(p.header, x, p.payload, <<>>)
       = Wire(HeaderOf(t, n), Uint32(t.ask.ttl), PayloadOf(s), <<>>)

\* A cell that is changed by one shows in the signed bytes.
LEMMA ChangeShows ==
  ASSUME NEW t, NEW n, NEW s, Was(t, n, s), NEW data, NEW p, NEW x, Near(t, n, s, data, p, x)
  PROVE  \A i \in 1..(Len(t.bytes) - 1) : data[i] = t.bytes[i]
<1> DEFINE len == Len(PayloadOf(s))
           h   == HeaderOf(t, n)
           ttl == Uint32(t.ask.ttl)
           g   == p.header
           w   == Wire(h, ttl, PayloadOf(s), <<>>)
           bytes == t.bytes
           L   == 13 + len
<1>n. /\ data \in Seq(Int) /\ Len(data) = Len(t.bytes)
      /\ data[10] = Len(PayloadOf(s)) /\ ReadAs(data, Len(PayloadOf(s)), p)
      /\ \A i \in 1..Len(t.bytes) : data[i] \in {t.bytes[i] - 1, t.bytes[i], t.bytes[i] + 1}
      /\ x \in {p.header.ttl, Uint32(p.header.ttl)}
      /\ Wire(p.header, x, p.payload, <<>>)
           = Wire(HeaderOf(t, n), Uint32(t.ask.ttl), PayloadOf(s), <<>>)
  BY DEF Near
<1>1. /\ len \in Nat \ {0} /\ bytes \in Seq(Int) /\ Len(bytes) = L /\ FrontOf(bytes, h, ttl, len)
      /\ \A i \in 1..len : bytes[10 + i] = PayloadOf(s)[i]
      /\ bytes[len + 11] = Hi(t.ctr) /\ bytes[len + 12] = Lo(t.ctr)
  BY IssuedCells
<1>2. h \in Headers /\ ttl \in Int /\ PayloadOf(s) \in Seq(Int) /\ h.mutationCtr = t.ctr /\ <<>> \in Seq(Int)
  <2>1. h.mutationCtr = t.ctr
    BY DEF HeaderOf
  <2>2. h \in Headers /\ ttl \in Nat /\ PayloadOf(s) \in Seq(Int)
    BY TokenCells DEF Was
  <2> QED BY <2>1, <2>2
<1>3. ttl \in 0..(TtlRange - 1) /\ TtlRange \in Nat \ {0, 1}
  <2>1. t.ask.ttl \in Nat /\ TtlRange \in Nat \ {0, 1}
    BY RequestFacts, CodecAssumption DEF Was
  <2> QED BY <2>1 DEF Uint32
<1>4. IsWire(w, h, ttl, PayloadOf(s), <<>>)
  <2> HIDE DEF h, ttl
  <2> QED BY <1>2, WireCells
<1>r. /\ data[1] = Magic /\ data[2] = Version /\ p.payload \in Seq(Int) /\ Len(p.payload) = len
      /\ g.suite = data[3] /\ g.tokenType = data[4] /\ g.issuedAt = data[5] * Half + data[6]
      /\ g.ttl = data[7] /\ g.nonce = data[8] /\ g.deviceFp = data[9]
      /\ g.mutationCtr = data[len + 11] * Half + data[len + 12]
      /\ \A i \in 1..len : p.payload[i] = data[10 + i]
  BY <1>n DEF ReadAs
<1>5. Len(data) = L /\ \A i \in 1..L : data[i] \in Int
  <2>1. Len(data) = L
    BY <1>1, <1>n
  <2> QED BY <1>n, <2>1, LenProperties, ElementOfSeq
<1>6. g \in Headers /\ x \in Int
  <2>1. Half \in Int /\ TtlRange \in Nat \ {0, 1}
    BY CodecAssumption
  <2> DEFINE a == data[3]
             b == data[4]
             c == data[5] * Half + data[6]
             d == data[7]
             e == data[8]
             f == data[9]
             m == data[len + 11] * Half + data[len + 12]
  <2>2. /\ 3 \in 1..L /\ 4 \in 1..L /\ 5 \in 1..L /\ 6 \in 1..L /\ 7 \in 1..L /\ 8 \in 1..L /\ 9 \in 1..L
        /\ len + 11 \in 1..L /\ len + 12 \in 1..L
    <3>1. len \in Nat \ {0}
      BY <1>1
    <3> HIDE DEF len
    <3> QED BY <3>1
  <2>3. a \in Int /\ b \in Int /\ c \in Int /\ d \in Int /\ e \in Int /\ f \in Int /\ m \in Int
    <3> DEFINE c1 == data[5]
               c2 == data[6]
               m1 == data[len + 11]
               m2 == data[len + 12]
    <3>1. a \in Int /\ b \in Int /\ d \in Int /\ e \in Int /\ f \in Int
      BY <1>5, <2>2
    <3>2. c1 \in Int /\ c2 \in Int /\ m1 \in Int /\ m2 \in Int
      BY <1>5, <2>2
    <3> HIDE DEF c1, c2, m1, m2
    <3>3. c1 * Half + c2 \in Int /\ m1 * Half + m2 \in Int
      BY <2>1, <3>2
    <3> QED BY <3>1, <3>3 DEF c1, c2, m1, m2
  <2>4. g = [suite |-> a, tokenType |-> b, issuedAt |-> c, ttl |-> d, nonce |-> e, deviceFp |-> f,
             mutationCtr |-> m]
    BY <1>n DEF ReadAs
  <2> HIDE DEF a, b, c, d, e, f, m
  <2>5. g \in Headers /\ g.ttl = d
    BY <2>3, <2>4 DEF Headers
  <2> HIDE DEF g
  <2>6. x \in {d, Uint32(d)}
    BY <1>n, <2>5 DEF g
  <2>7. Uint32(d) \in Int
    BY <2>1, <2>3 DEF Uint32
  <2> QED BY <2>3, <2>5, <2>6, <2>7
<1>7. IsWire(w, g, x, p.payload, <<>>)
  <2>1. w = Wire(g, x, p.payload, <<>>)
    BY <1>n
  <2> HIDE DEF w, g
  <2> QED BY <1>2, <1>6, <1>r, <2>1, WireCells
<1> HIDE DEF w, L
<1>8. /\ FrontOf(w, h, ttl, len) /\ \A i \in 1..len : w[10 + i] = PayloadOf(s)[i]
      /\ w[len + 11] = Hi(t.ctr) /\ w[len + 12] = Lo(t.ctr)
  BY <1>2, <1>4 DEF IsWire, Holds8
<1>9. /\ FrontOf(w, g, x, len) /\ \A i \in 1..len : w[10 + i] = p.payload[i]
      /\ w[len + 11] = Hi(g.mutationCtr) /\ w[len + 12] = Lo(g.mutationCtr)
  BY <1>r, <1>7 DEF IsWire, Holds8
<1>10. /\ g.suite = h.suite /\ g.tokenType = h.tokenType /\ Hi(g.issuedAt) = Hi(h.issuedAt)
       /\ Lo(g.issuedAt) = Lo(h.issuedAt) /\ x = ttl /\ g.nonce = h.nonce /\ g.deviceFp = h.deviceFp
       /\ Hi(g.mutationCtr) = Hi(t.ctr) /\ Lo(g.mutationCtr) = Lo(t.ctr)
       /\ \A i \in 1..len : p.payload[i] = PayloadOf(s)[i]
  BY <1>8, <1>9 DEF FrontOf
<1>11. /\ bytes[1] = Magic /\ bytes[2] = Version /\ bytes[3] = h.suite /\ bytes[4] = h.tokenType
       /\ bytes[5] = Hi(h.issuedAt) /\ bytes[6] = Lo(h.issuedAt)
       /\ bytes[7] = ttl /\ bytes[8] = h.nonce /\ bytes[9] = h.deviceFp /\ bytes[10] = len
  BY <1>1 DEF FrontOf
<1>12. \A i \in 1..L : data[i] \in {bytes[i] - 1, bytes[i], bytes[i] + 1}
  BY <1>1, <1>n
<1>13. data[5] = bytes[5] /\ data[6] = bytes[6]
  <2> DEFINE a == bytes[5]
             b == bytes[6]
             c == data[5]
             d == data[6]
  <2>1. a \in 0..(Half - 1) /\ b \in 0..(Half - 1)
    <3>1. h.issuedAt \in Int
      BY <1>2 DEF Headers
    <3>2. Hi(h.issuedAt) \in 0..(Half - 1) /\ Lo(h.issuedAt) \in 0..(Half - 1)
      BY <3>1, Halves
    <3> QED BY <1>11, <3>2
  <2>2. c \in {a - 1, a, a + 1} /\ d \in {b - 1, b, b + 1}
    <3>1. 5 \in 1..L /\ 6 \in 1..L
      BY <1>1 DEF L
    <3> QED BY <1>12, <3>1
  <2>3. Hi(c * Half + d) = a /\ Lo(c * Half + d) = b
    <3>1. g.issuedAt = c * Half + d
      BY <1>r
    <3>2. Hi(g.issuedAt) = a /\ Lo(g.issuedAt) = b
      BY <1>10, <1>11
    <3> QED BY <3>1, <3>2
  <2> HIDE DEF a, b, c, d
  <2>4. c = a /\ d = b
    BY <2>1, <2>2, <2>3, HalfNear
  <2> QED BY <2>4 DEF a, b, c, d
<1>14. data[len + 11] = bytes[len + 11] /\ data[len + 12] = bytes[len + 12]
  <2> DEFINE a == bytes[len + 11]
             b == bytes[len + 12]
             c == data[len + 11]
             d == data[len + 12]
  <2>1. a \in 0..(Half - 1) /\ b \in 0..(Half - 1)
    <3>1. t.ctr \in Int
      BY DEF Was
    <3>2. Hi(t.ctr) \in 0..(Half - 1) /\ Lo(t.ctr) \in 0..(Half - 1)
      BY <3>1, Halves
    <3> QED BY <1>1, <3>2
  <2>2. c \in {a - 1, a, a + 1} /\ d \in {b - 1, b, b + 1}
    <3>1. len + 11 \in 1..L /\ len + 12 \in 1..L
      BY <1>1 DEF L
    <3> QED BY <1>12, <3>1
  <2>3. Hi(c * Half + d) = a /\ Lo(c * Half + d) = b
    <3>1. g.mutationCtr = c * Half + d
      BY <1>r
    <3>2. Hi(g.mutationCtr) = a /\ Lo(g.mutationCtr) = b
      BY <1>1, <1>10
    <3> QED BY <3>1, <3>2
  <2> HIDE DEF a, b, c, d
  <2>4. c = a /\ d = b
    BY <2>1, <2>2, <2>3, HalfNear
  <2> QED BY <2>4 DEF a, b, c, d
<1>15. data[7] = bytes[7]
  <2>1. data[7] \in {ttl - 1, ttl, ttl + 1}
    <3>1. 7 \in 1..L
      BY <1>1 DEF L
    <3> HIDE DEF ttl
    <3> QED BY <1>11, <1>12, <3>1
  <2>2. x \in {data[7], data[7] % TtlRange}
    <3>1. x \in {g.ttl, Uint32(g.ttl)}
      BY <1>n
    <3> HIDE DEF g
    <3> QED BY <1>r, <3>1 DEF Uint32
  <2> HIDE DEF ttl, g
  <2>3. data[7] = ttl
    BY <1>3, <1>10, <2>1, <2>2, ModNear
  <2> QED BY <1>11, <2>3
<1>16. data[10] = bytes[10]
  BY <1>11, <1>n
<1>17. \A i \in 1..9 : data[i] = bytes[i]
  <2>1. /\ data[1] = bytes[1] /\ data[2] = bytes[2] /\ data[3] = bytes[3] /\ data[4] = bytes[4]
        /\ data[8] = bytes[8] /\ data[9] = bytes[9]
    BY <1>10, <1>11, <1>r
  <2> TAKE i \in 1..9
  <2>2. i \in {1, 2, 3, 4, 5, 6, 7, 8, 9}
    OBVIOUS
  <2> HIDE DEF bytes
  <2> QED BY <1>13, <1>15, <2>1, <2>2, Zenon
<1>18. \A k \in 1..len : data[10 + k] = bytes[10 + k]
  BY <1>1, <1>10, <1>r
<1>19. ASSUME NEW i \in 1..(L - 1) PROVE data[i] = bytes[i]
  <2> HIDE DEF bytes, len
  <2>1. CASE i \in 1..9
    BY <1>17, <2>1
  <2>2. CASE i = 10
    BY <1>16, <2>2
  <2>3. CASE i \in 11..(10 + len)
    <3>1. i - 10 \in 1..len /\ 10 + (i - 10) = i
      BY <1>1, <2>3
    <3>2. data[10 + (i - 10)] = bytes[10 + (i - 10)]
      BY <1>18, <3>1
    <3> QED BY <3>1, <3>2
  <2>4. CASE i = len + 11 \/ i = len + 12
    BY <1>14, <2>4
  <2>5. i \in 1..(12 + len) /\ len \in Nat
    BY <1>1 DEF L
  <2> QED BY <2>1, <2>2, <2>3, <2>4, <2>5
<1> QED BY <1>1, <1>19

\* With this key the signature that is read opens as one of what is read, with the ttl x.
OpensSigned(data, p, kind, key, x) ==
  /\ DeserializeToken(data) = Ok(p) /\ kind \in SignatureKinds
  /\ x \in {p.header.ttl, Uint32(p.header.ttl)}
  /\ OpenBlob(p.signature, kind, key, 0) = Ok(Wire(p.header, x, p.payload, <<>>))

\* A signature is never the signature of the cells of a damaged token.
LEMMA DamageShows ==
  ASSUME NEW t, NEW n, NEW s, Was(t, n, s), s = Len(blobs), NEW data \in Damaged(t.bytes),
         NEW p, NEW kind, NEW key, NEW x, OpensSigned(data, p, kind, key, x)
  PROVE  FALSE
<1> DEFINE len   == Len(PayloadOf(s))
           bytes == t.bytes
           L     == 13 + len
           w     == Wire(p.header, x, p.payload, <<>>)
<1>o. /\ DeserializeToken(data) = Ok(p) /\ kind \in SignatureKinds
      /\ x \in {p.header.ttl, Uint32(p.header.ttl)}
      /\ OpenBlob(p.signature, kind, key, 0) = Ok(w)
  BY DEF OpensSigned
<1>1. PICK b \in DOMAIN blobs : blobs[b].kind = kind /\ p.signature = CellsOf(b, 1) /\ blobs[b].text = w
  <2>1. ShortSigned(blobs)
    BY DEF Was
  <2> HIDE DEF w
  <2>2. OpenBlob(p.signature, kind, key, 0) = Ok(w)
    BY <1>o
  <2> QED BY <1>o, <2>1, <2>2, SignatureOpens
<1>2. Len(p.signature) = 1 /\ p.signature[1] = Opaque + b
  BY <1>1 DEF CellsOf
<1>3. /\ len \in Nat \ {0} /\ bytes \in Seq(Int) /\ Len(bytes) = L /\ DOMAIN bytes = 1..L
      /\ bytes[10] = len /\ bytes[L] = Opaque + s
  <2>1. bytes[len + 13] = Opaque + s /\ len \in Nat /\ FrontOf(bytes, HeaderOf(t, n), Uint32(t.ask.ttl), len)
    BY IssuedCells
  <2>2. len + 13 = L
    BY <2>1
  <2>3. len \in Nat \ {0} /\ bytes \in Seq(Int) /\ Len(bytes) = L /\ DOMAIN bytes = 1..L
    BY IssuedCells
  <2> HIDE DEF L, len, bytes
  <2> QED BY <2>1, <2>2, <2>3 DEF FrontOf
<1>4. /\ DOMAIN blobs = 1..s /\ s \in Nat /\ blobs[s - 1].kind \notin SignatureKinds
      /\ blobs[s].text = Wire(HeaderOf(t, n), Uint32(t.ask.ttl), PayloadOf(s), <<>>)
  <2>1. DOMAIN blobs = 1..s
    BY SeqAppend DEF Was
  <2>2. blobs[s - 1] = Blob(t.ask.impl, t.ask.key, n, blobs[s - 1].text, Len(blobs[s - 1].text) + 1)
    BY DEF Was, MadeAt
  <2>3. blobs[s - 1].kind = t.ask.impl
    BY <2>2 DEF Blob
  <2>4. t.ask.impl \in {"js", "rust"}
    BY RequestFacts DEF Was
  <2>5. blobs[s] = Blob(SignatureOf(t.ask.suite, t.ask.impl), t.ask.key, 0,
                        Wire(HeaderOf(t, n), Uint32(t.ask.ttl), PayloadOf(s), <<>>), 1)
    BY DEF Was, MadeAt, PayloadOf
  <2>6. blobs[s].text = Wire(HeaderOf(t, n), Uint32(t.ask.ttl), PayloadOf(s), <<>>)
    BY <2>5 DEF Blob
  <2>7. s \in Nat
    BY DEF Was
  <2> QED BY <2>1, <2>3, <2>4, <2>6, <2>7 DEF SignatureKinds
<1>5. /\ len \in Nat /\ L \in Nat /\ L > 12
      /\ \A i \in 1..L : bytes[i] \in Int
  <2>1. len \in Nat /\ L \in Nat /\ L > 12
    BY <1>3
  <2>2. \A i \in 1..Len(bytes) : bytes[i] \in Int
    <3>1. bytes \in Seq(Int)
      BY <1>3
    <3> HIDE DEF bytes
    <3> QED BY <3>1, ElementOfSeq
  <2> QED BY <1>3, <2>1, <2>2
<1>6. ASSUME NEW m \in 0..(L - 1), data = SubSeq(bytes, 1, m)
      PROVE  FALSE
  <2> HIDE DEF len, bytes, L
  <2>1. /\ data \in Seq(Int) /\ Len(data) = m
        /\ \A i \in 1..m : data[i] = bytes[i]
    <3>1. m \in Int /\ \A i \in 1..m : bytes[i] \in Int
      BY <1>5, <1>6
    <3>2. /\ SubSeq(bytes, 1, m) \in Seq(Int)
          /\ Len(SubSeq(bytes, 1, m)) = IF 1 <= m THEN m - 1 + 1 ELSE 0
          /\ \A i \in 1..(m - 1 + 1) : SubSeq(bytes, 1, m)[i] = bytes[1 + i - 1]
      BY <3>1, SubSeqProperties
    <3>3. \A i \in 1..m : data[i] = bytes[i]
      <4> TAKE i \in 1..m
      <4>1. i \in 1..(m - 1 + 1) /\ 1 + i - 1 = i
        BY <3>1
      <4> QED BY <1>6, <3>2, <4>1
    <3> QED BY <1>5, <1>6, <3>1, <3>2, <3>3
  <2>2. Len(data) >= 10 => data[10] = len
    <3>1. Len(data) >= 10 => 10 \in 1..m
      BY <1>5, <1>6, <2>1
    <3> QED BY <1>3, <2>1, <3>1
  <2>3. ReadAs(data, len, p)
    BY <1>5, <1>o, <2>1, <2>2, Reads
  <2>4. Len(p.signature) = m - 12 - len
    BY <2>1, <2>3 DEF ReadAs
  <2>5. L = 13 + len
    BY DEF L
  <2> QED BY <1>2, <1>5, <1>6, <2>4, <2>5
<1>7. ASSUME data = bytes \o bytes
      PROVE  FALSE
  <2> HIDE DEF len, bytes, L
  <2>1. data \in Seq(Int) /\ Len(data) = L + L /\ Starts(bytes, data)
    BY <1>3, <1>7, ConcatStarts
  <2>2. data[10] = len
    <3>1. 10 \in 1..L
      BY <1>5
    <3> QED BY <1>3, <2>1, <3>1 DEF Starts
  <2>3. ReadAs(data, len, p)
    BY <1>5, <1>o, <2>1, <2>2, Reads
  <2>4. Len(p.signature) = Len(data) - 12 - len
    BY <2>3 DEF ReadAs
  <2>5. 1 = L + L - 12 - len
    <3> DEFINE size == Len(data)
               sig  == Len(p.signature)
    <3>1. size = L + L /\ sig = 1 /\ sig = size - 12 - len
      BY <1>2, <2>1, <2>4
    <3> HIDE DEF size, sig
    <3> QED BY <1>5, <3>1
  <2>6. L = 13 + len /\ len \in Nat
    BY <1>5 DEF L
  <2> QED BY <2>5, <2>6
<1>8. ASSUME NEW i \in 1..L, NEW d \in {-1, 1}, data = [bytes EXCEPT ![i] = @ + d]
      PROVE  FALSE
  <2> HIDE DEF len, bytes, L, w
  <2>1. /\ \A j \in 1..L : j # i => data[j] = bytes[j]
        /\ data[i] = bytes[i] + d /\ DOMAIN data = 1..L
        /\ \A j \in 1..L : data[j] \in Int
    <3>1. \A j \in 1..L : data[j] = IF j = i THEN bytes[i] + d ELSE bytes[j]
      BY <1>3, <1>8
    <3>2. DOMAIN data = 1..L
      BY <1>3, <1>8
    <3>3. d \in Int /\ bytes[i] + d \in Int
      BY <1>5, <1>8
    <3> QED BY <1>5, <3>1, <3>2, <3>3
  <2>2. data \in Seq(Int) /\ Len(data) = L
    <3>1. data = [j \in 1..L |-> data[j]]
      BY <1>3, <1>8, <2>1
    <3>2. data \in [1..L -> Int]
      BY <2>1, <3>1
    <3>3. data \in Seq(Int)
      BY <1>5, <3>2
    <3> QED BY <1>5, <2>1, <3>3, LenProperties
  <2>3. CASE i = 10
    <3>1. len + d \in Nat /\ data[10] = len + d
      BY <1>3, <1>8, <2>1, <2>3
    <3>2. ReadAs(data, len + d, p)
      <4> DEFINE pl == len + d
      <4>1. pl \in Nat /\ data[10] = pl
        BY <3>1
      <4> HIDE DEF pl
      <4>2. ReadAs(data, pl, p)
        BY <1>o, <2>2, <4>1, Reads
      <4> QED BY <4>2 DEF pl
    <3>3. Len(p.signature) = Len(data) - 12 - (len + d)
      BY <3>2 DEF ReadAs
    <3>4. 1 = L - 12 - (len + d) /\ L = 13 + len /\ len \in Nat
      BY <1>2, <1>5, <2>2, <3>3 DEF L
    <3> QED BY <1>8, <3>4
  <2>4. CASE i # 10
    <3>1. data[10] = len
      <4>1. 10 \in 1..L
        BY <1>5
      <4> QED BY <1>3, <2>1, <2>4, <4>1
    <3>2. ReadAs(data, len, p)
      BY <1>5, <1>o, <2>2, <3>1, Reads
    <3>3. L = 13 + len /\ L > 12 + len
      BY <1>5 DEF L
    <3>4. Opaque + b = data[L]
      BY <1>2, <2>2, <3>2, <3>3 DEF ReadAs
    <3>5. L \in 1..L /\ b \in Nat /\ b \in 1..s /\ s \in Nat /\ Opaque \in Nat
      BY <1>1, <1>4, <1>5 DEF Opaque
    <3>6. CASE i = L
      <4>1. b = s + d
        BY <1>3, <1>8, <2>1, <3>4, <3>5, <3>6
      <4>2. b = s - 1
        BY <1>8, <3>5, <4>1
      <4> QED BY <1>1, <1>4, <1>o, <4>2
    <3>7. CASE i # L
      <4>1. b = s
        <5>1. data[L] = bytes[L]
          BY <2>1, <3>5, <3>7
        <5> QED BY <1>3, <3>4, <3>5, <5>1
      <4>2. Wire(p.header, x, p.payload, <<>>)
              = Wire(HeaderOf(t, n), Uint32(t.ask.ttl), PayloadOf(s), <<>>)
        BY <1>1, <1>4, <4>1 DEF w
      <4>3. \A j \in 1..Len(bytes) : data[j] \in {bytes[j] - 1, bytes[j], bytes[j] + 1}
        <5> TAKE j \in 1..Len(bytes)
        <5>1. j \in 1..L /\ bytes[j] \in Int /\ (data[j] = bytes[j] \/ data[j] = bytes[j] + d)
          BY <1>3, <1>5, <2>1
        <5> QED BY <1>8, <5>1
      <4>4. Len(data) = Len(bytes)
        BY <1>3, <2>2
      <4>5. \A j \in 1..(Len(bytes) - 1) : data[j] = bytes[j]
        <5>1. data \in Seq(Int) /\ Len(data) = Len(t.bytes) /\ data[10] = Len(PayloadOf(s))
          BY <2>2, <3>1, <4>4 DEF len, bytes
        <5>2. ReadAs(data, Len(PayloadOf(s)), p)
          BY <3>2 DEF len
        <5>3. \A j \in 1..Len(t.bytes) : data[j] \in {t.bytes[j] - 1, t.bytes[j], t.bytes[j] + 1}
          BY <4>3 DEF bytes
        <5>4. Near(t, n, s, data, p, x)
          BY <1>o, <4>2, <5>1, <5>2, <5>3 DEF Near
        <5>5. \A j \in 1..(Len(t.bytes) - 1) : data[j] = t.bytes[j]
          BY <5>4, ChangeShows
        <5> QED BY <5>5 DEF bytes
      <4>6. i \in 1..(Len(bytes) - 1)
        BY <1>3, <1>5, <1>8, <3>7
      <4>7. bytes[i] \in Int /\ bytes[i] + d = bytes[i]
        BY <1>5, <2>1, <4>5, <4>6
      <4> QED BY <1>8, <4>7
    <3> QED BY <3>6, <3>7
  <2> QED BY <2>3, <2>4
<1>9. \/ \E i \in DOMAIN bytes, d \in {-1, 1} : data = [bytes EXCEPT ![i] = @ + d]
      \/ \E m \in 0..(Len(bytes) - 1) : data = SubSeq(bytes, 1, m)
      \/ data = bytes \o bytes
  BY DEF Damaged
<1>10. \/ \E i \in 1..L, d \in {-1, 1} : data = [bytes EXCEPT ![i] = @ + d]
       \/ \E m \in 0..(L - 1) : data = SubSeq(bytes, 1, m)
       \/ data = bytes \o bytes
  <2>1. DOMAIN bytes = 1..L /\ Len(bytes) = L
    BY <1>3
  <2> HIDE DEF bytes, L
  <2> QED BY <1>9, <2>1
<1> HIDE DEF bytes, L
<1> QED BY <1>6, <1>7, <1>8, <1>10

\* What is accepted opens as the signature of what is read.
LEMMA AcceptedIsSigned ==
  ASSUME NEW verifier \in Verifier, NEW data, NEW key, NEW clock,
         Verdict(verifier, data, key, clock).verdict = "OK"
  PROVE  \E p, kind, x : OpensSigned(data, p, kind, key, x)
<1>1. DeserializeToken(data) = Fail \/ \E p : DeserializeToken(data) = Ok(p)
  BY DEF DeserializeToken
<1>2. ~Fail.ok /\ \A p : Ok(p).ok /\ Ok(p).value = p
  BY OkFacts
<1>3. \A p : /\ SignedBytes(p.header, p.payload) = Wire(p.header, Uint32(p.header.ttl), p.payload, <<>>)
             /\ Signed_bytes(p.header, p.payload) = Wire(p.header, p.header.ttl, p.payload, <<>>)
  BY DEF SignedBytes, SerializeToken, Signed_bytes, To_bytes, Wire, U64, WriteUint64
<1>4. From_bytes(data) = Fail \/ (From_bytes(data) = DeserializeToken(data) /\ DeserializeToken(data) # Fail)
  BY <1>1, <1>2 DEF From_bytes
<1>5. CASE verifier = "js"
  <2> DEFINE r == ServerVerify(data, key, clock)
  <2>1. r.verdict = "OK"
    BY <1>5 DEF Verdict
  <2>2. DeserializeToken(data) # Fail
    BY <1>2, <2>1 DEF ServerVerify, VerifyToken
  <2>3. PICK p : DeserializeToken(data) = Ok(p)
    BY <1>1, <2>2
  <2>4. JsJudges(r, TRUE, p, key, 0, clock)
    BY <2>3, JsVerdict DEF ServerVerify
  <2> HIDE DEF r
  <2>5. JsSigned(p, key)
    BY <2>1, <2>4 DEF JsJudges, JsAccepts
  <2> DEFINE x == Uint32(p.header.ttl)
  <2>6. OpenBlob(p.signature, "ml-dsa", key, 0) = Ok(Wire(p.header, x, p.payload, <<>>))
    BY <1>3, <2>5 DEF JsSigned
  <2>7. x \in {p.header.ttl, Uint32(p.header.ttl)} /\ "ml-dsa" \in SignatureKinds
    BY DEF SignatureKinds
  <2> HIDE DEF x
  <2>8. OpensSigned(data, p, "ml-dsa", key, x)
    BY <2>3, <2>6, <2>7 DEF OpensSigned
  <2> QED BY <2>8
<1>6. CASE verifier = "rust"
  <2> DEFINE r == CliVerify(data, key, clock)
  <2>1. r.verdict = "OK"
    BY <1>6 DEF Verdict
  <2>2. From_bytes(data) # Fail
    BY <1>2, <2>1 DEF CliVerify, Verify_token
  <2>3. PICK p : DeserializeToken(data) = Ok(p) /\ From_bytes(data) = Ok(p)
    BY <1>1, <1>4, <2>2
  <2>4. RsJudges(r, TRUE, p, "ml-dsa", key, clock)
    BY <2>3, RustVerdict
  <2> HIDE DEF r
  <2>5. RsSigned(p, "ml-dsa", key)
    BY <2>1, <2>4 DEF RsJudges, RsAccepts
  <2> DEFINE x == p.header.ttl
  <2>6. OpenBlob(p.signature, "ml-dsa", key, 0) = Ok(Wire(p.header, x, p.payload, <<>>))
    BY <1>3, <2>5 DEF RsSigned
  <2>7. x \in {p.header.ttl, Uint32(p.header.ttl)} /\ "ml-dsa" \in SignatureKinds
    BY DEF SignatureKinds
  <2> HIDE DEF x
  <2>8. OpensSigned(data, p, "ml-dsa", key, x)
    BY <2>3, <2>6, <2>7 DEF OpensSigned
  <2> QED BY <2>8
<1>7. CASE verifier = "falcon512"
  <2> DEFINE r == Verify_token_falcon512(data, key, 0, clock)
  <2>1. r.verdict = "OK"
    BY <1>7 DEF Verdict
  <2>2. From_bytes(data) # Fail
    BY <1>2, <2>1 DEF Verify_token_falcon512
  <2>3. PICK p : DeserializeToken(data) = Ok(p) /\ From_bytes(data) = Ok(p)
    BY <1>1, <1>4, <2>2
  <2>4. RsJudges(r, p.header.suite = Falcon, p, "falcon512", key, clock)
    BY <2>3, FalconVerdict
  <2> HIDE DEF r
  <2>5. RsSigned(p, "falcon512", key)
    BY <2>1, <2>4 DEF RsJudges, RsAccepts
  <2> DEFINE x == p.header.ttl
  <2>6. OpenBlob(p.signature, "falcon512", key, 0) = Ok(Wire(p.header, x, p.payload, <<>>))
    BY <1>3, <2>5 DEF RsSigned
  <2>7. x \in {p.header.ttl, Uint32(p.header.ttl)} /\ "falcon512" \in SignatureKinds
    BY DEF SignatureKinds
  <2> HIDE DEF x
  <2>8. OpensSigned(data, p, "falcon512", key, x)
    BY <2>3, <2>6, <2>7 DEF OpensSigned
  <2> QED BY <2>8
<1> QED BY <1>5, <1>6, <1>7 DEF Verifier

\* What Sound says follows from the invariants.
LEMMA SoundHolds == IInv /\ MadeInv /\ SizeInv => Sound
<1> SUFFICES ASSUME IInv, MadeInv, SizeInv, NEW t \in Range(issued)
             PROVE
    /\ \A verifier \in Verifier, key \in Keys, d \in Drifts :
         LET r == Verdict(verifier, t.bytes, key, now + d)
         IN r.verdict = "OK" =>
              /\ verifier = Own(t.ask) /\ key = t.ask.key /\ Timely(t, now + d)
              /\ r.claims = Texts(t.ask.claims) /\ r.ctr = t.ctr
    /\ t = Last(issued) /\ t.at = now =>
         \A data \in Damaged(t.bytes) :
           Verdict(Own(t.ask), data, t.ask.key, now).verdict # "OK"
  BY DEF Sound
<1>1. PICK n \in DOMAIN issued : t = issued[n]
  BY DEF Range
<1>2. PICK s \in Nat : Was(t, n, s)
  BY <1>1, Known
<1>3. ASSUME NEW verifier \in Verifier, NEW key \in Keys, NEW d \in Drifts
      PROVE  LET r == Verdict(verifier, t.bytes, key, now + d)
             IN r.verdict = "OK" =>
                  /\ verifier = Own(t.ask) /\ key = t.ask.key /\ Timely(t, now + d)
                  /\ r.claims = Texts(t.ask.claims) /\ r.ctr = t.ctr
  <2>1. now + d \in Int
    BY TimeAssumption DEF MadeInv
  <2>2. Judged(Verdict(verifier, t.bytes, key, now + d), t, verifier = Own(t.ask), key, now + d)
    BY <1>2, <2>1, VerdictOfIssued
  <2> QED BY <2>2 DEF Judged
<1>4. ASSUME t = Last(issued), NEW data \in Damaged(t.bytes),
             Verdict(Own(t.ask), data, t.ask.key, now).verdict = "OK"
      PROVE  FALSE
  <2> DEFINE m == Len(issued)
             z == Len(blobs)
  <2>1. t = issued[m] /\ issued # <<>>
    BY <1>1, <1>4 DEF Last
  <2>2. MadeAt(blobs, t, m, z)
    BY <2>1 DEF MadeInv
  <2>3. m \in Nat \ {0} /\ z \in Nat
    BY <1>1, SeqAppend DEF IInv, Typed
  <2> HIDE DEF m, z
  <2>4. Was(t, m, z)
    BY <1>2, <2>2, <2>3 DEF Was
  <2>5. Own(t.ask) \in Verifier
    BY <1>2, RequestFacts DEF Was, Own, Verifier, SignatureOf
  <2>6. PICK p, kind, x : OpensSigned(data, p, kind, t.ask.key, x)
    <3> DEFINE v   == Own(t.ask)
               key == t.ask.key
    <3>1. v \in Verifier /\ Verdict(v, data, key, now).verdict = "OK"
      BY <1>4, <2>5
    <3> HIDE DEF v, key
    <3>2. \E p, kind, x : OpensSigned(data, p, kind, key, x)
      BY <3>1, AcceptedIsSigned
    <3> QED BY <3>2 DEF key
  <2> QED BY <1>4, <2>4, <2>6, DamageShows DEF z
<1> QED BY <1>3, <1>4

-------------------------------------------------------------------------------
(***************************************************************************)
(* The theorems.                                                           *)
(***************************************************************************)

\* The invariants hold of every reachable state.
THEOREM Invariant == Spec => [](IInv /\ MadeInv /\ GuardInv /\ SizeInv)
<1>1. Init => IInv /\ MadeInv /\ GuardInv /\ SizeInv
  BY InitIInv, MadeInit, GuardInit, SizeInit
<1>2. IInv /\ MadeInv /\ GuardInv /\ SizeInv /\ [Next]_vars => (IInv /\ MadeInv /\ GuardInv /\ SizeInv)'
  BY NextIInv, MadeNext, GuardNext, SizeNext
<1> QED BY <1>1, <1>2, PTL DEF Spec

\* Of any issuers that share a store, no two ever write one counter into two tokens of one
\* key, in whichever order they reserve and sign and whichever issue fails in between.
THEOREM StoreCountersAreUnique == Spec => []CountersUnique
<1>1. IInv => CountersUnique
  BY DEF IInv
<1> QED BY <1>1, Invariant, PTL

\* A chain, and a store shared by any verifiers that call it when they like, accept each
\* counter of a key at most once, and never one below a counter they accepted, whatever the
\* order of the calls and whichever of them fails.
THEOREM ReplayIsRefused == Spec => []AcceptedOnce
<1>1. GuardInv => AcceptedOnce
  <2> SUFFICES ASSUME GuardInv, NEW gk \in Guards \X Keys
               PROVE  Increasing(accepted[gk])
    BY DEF AcceptedOnce, Increasing
  <2>1. PICK g \in Guards, k \in Keys : gk = <<g, k>>
    OBVIOUS
  <2> QED BY <2>1 DEF GuardInv, Below, Guards
<1> QED BY <1>1, Invariant, PTL

\* Whatever is asked, by whichever issuer and in whatever order: verifyToken, verify_token and
\* verify_token_falcon512 accept a token only as it was issued, by their own implementation,
\* with its key and in its time, and report the claims and the counter that went in; and they
\* refuse the last token with any cell changed by one, cut short anywhere, or sent twice.
THEOREM AcceptedAreSound == Spec => []Sound
<1>1. IInv /\ MadeInv /\ GuardInv /\ SizeInv => Sound
  BY SoundHolds
<1> QED BY <1>1, Invariant, PTL

\* Every token issued with a suite byte that fits its signature is accepted by its verifier all
\* its time, verify-auto finds its key in whatever order the active keys come, and inspect shows
\* what was issued, whatever the byte: for fields of any width, any counter and time that fits
\* them, and claims of any texts that encode.
THEOREM IssuedAreAccepted == Spec => []Complete
<1>1. IInv /\ MadeInv /\ GuardInv /\ SizeInv => Complete
  BY CompleteHolds
<1> QED BY <1>1, Invariant, PTL
===============================================================================
