---------------------------- MODULE MinibufProofs ----------------------------
(***************************************************************************)
(* Proofs about Minibuf, for every alphabet, for prompts that offer any    *)
(* names, and for lines and a history of any length.                       *)
(***************************************************************************)
EXTENDS Minibuf, TextLemmas, FiniteSetTheorems

-----------------------------------------------------------------------------
(* The inductive invariant.                                                *)

Results == {"not matched", "matched", "complete, but not unique", "not unique"}

Typed ==
  /\ at \in {"command", "reading", "aborted", "no window"}
  /\ prompt \in Prompts
  /\ astr \in Seq(Chars) /\ pos \in Nat
  /\ saved \in Seq(Chars) \cup {NULL}
  /\ lasttab \in Results \cup {"none"}
  /\ poppedup \in BOOLEAN /\ shown \in BOOLEAN
  /\ elements \in Seq(Seq(Chars))
  /\ sel \in Nat \cup {-1}

(* t is what the search string s is completed to, with the result r.       *)
Completes(r, s, t) ==
  s # <<>> /\ Matches(s) # {} =>
    /\ IsLongestCommonPrefix(t, Matches(s))
    /\ r = "matched" => Matches(s) = {t}

(* After a completion the line is what it is completed to, so that a TAB   *)
(* that scrolls the completions has nothing to add.                        *)
LineIsCompleted ==
  Reading /\ lasttab \notin {"none", "not matched"} => Completes(lasttab, astr, astr)

IInv ==
  /\ Typed /\ LineIsCompleted /\ HistoryInStep /\ OnlyHistoryMisplaces
  /\ TabScrollsWhatIsShown

-----------------------------------------------------------------------------
(* Strings and their order.                                                *)

Places == Nat \ {0}

LEMMA CharIs ==
  ASSUME NEW s \in Seq(Chars), NEW i \in Places
  PROVE  /\ Char(s, i) \in Nat /\ Len(s) \in Nat
         /\ i <= Len(s) => Char(s, i) = s[i] /\ s[i] \in Chars /\ Char(s, i) # 0
         /\ i > Len(s) => Char(s, i) = 0
<1>1. Len(s) \in Nat /\ i \in Nat /\ i >= 1
  BY LenProperties DEF Places
<1>2. CASE i <= Len(s)
  <2>1. s[i] \in Chars
    BY <1>1, <1>2, ElementOfSeq
  <2>2. Chars \subseteq Nat \ {0}
    BY StringsAssumption
  <2>3. s[i] \in Nat /\ s[i] # 0
    BY <2>1, <2>2
  <2>4. Char(s, i) = s[i]
    BY <1>2 DEF Char
  <2>5. ~(i > Len(s))
    BY <1>1, <1>2
  <2> QED BY <1>1, <2>1, <2>3, <2>4, <2>5
<1>3. CASE i > Len(s)
  BY <1>1, <1>3 DEF Char
<1> QED BY <1>1, <1>2, <1>3

(* Strings whose characters are the same, their NULs included, are the same. *)
LEMMA SameString ==
  ASSUME NEW s \in Seq(Chars), NEW t \in Seq(Chars),
         \A i \in Places : Char(s, i) = Char(t, i)
  PROVE  s = t
<1>1. Len(s) \in Nat /\ Len(t) \in Nat
  BY LenProperties
<1>2. Len(s) + 1 \in Places /\ Len(t) + 1 \in Places
  BY <1>1 DEF Places
<1>3. Len(t) <= Len(s)
  BY <1>1, <1>2, CharIs
<1>4. Len(s) <= Len(t)
  BY <1>1, <1>2, CharIs
<1>5. Len(s) = Len(t)
  BY <1>1, <1>3, <1>4
<1>6. ASSUME NEW i \in 1 .. Len(s) PROVE s[i] = t[i]
  <2>1. i \in Places /\ i <= Len(s) /\ i <= Len(t)
    BY <1>1, <1>5 DEF Places
  <2> QED BY <2>1, CharIs
<1> QED BY <1>5, <1>6, SeqEqual

(* Where two strings first differ. *)
LEMMA FirstDifference ==
  ASSUME NEW s \in Seq(Chars), NEW t \in Seq(Chars), s # t
  PROVE  \E i \in Places : /\ Char(s, i) # Char(t, i)
                           /\ \A j \in Places : j < i => Char(s, j) = Char(t, j)
<1> DEFINE T == {i \in Places : Char(s, i) # Char(t, i)}
<1>1. T # {} /\ T \subseteq Nat
  BY SameString DEF Places
<1>2. PICK i \in T : \A j \in T : i <= j
  BY <1>1, LeastExists
<1>3. ASSUME NEW j \in Places, j < i PROVE Char(s, j) = Char(t, j)
  <2>1. ~(i <= j)
    BY <1>1, <1>3 DEF Places
  <2> QED BY <1>2, <2>1
<1> QED BY <1>2, <1>3

(* Less, over all places.                                                  *)
LEMMA LessIs ==
  ASSUME NEW s \in Seq(Chars), NEW t \in Seq(Chars)
  PROVE  Less(s, t) <=> \E i \in Places :
                          /\ Char(s, i) < Char(t, i)
                          /\ \A j \in Places : j < i => Char(s, j) = Char(t, j)
<1>1. Len(t) \in Nat
  BY LenProperties
<1>2. ASSUME NEW i \in Places, Char(s, i) < Char(t, i)
      PROVE  i \in 1 .. Len(t)
  <2>1. Char(s, i) \in Nat /\ Char(t, i) # 0
    BY <1>2, CharIs
  <2> QED BY <1>1, <2>1, CharIs DEF Places
<1>3. \A i \in 1 .. Len(t) : i \in Places
  BY <1>1 DEF Places
<1>4. \A i \in Places : \A j : j \in 1 .. i - 1 <=> j \in Places /\ j < i
  BY DEF Places
<1> QED BY <1>2, <1>3, <1>4 DEF Less

LEMMA LessTotal ==
  ASSUME NEW s \in Seq(Chars), NEW t \in Seq(Chars), s # t
  PROVE  Less(s, t) \/ Less(t, s)
<1>1. PICK i \in Places : /\ Char(s, i) # Char(t, i)
                          /\ \A j \in Places : j < i => Char(s, j) = Char(t, j)
  BY FirstDifference
<1>2. Char(s, i) < Char(t, i) \/ Char(t, i) < Char(s, i)
  BY <1>1, CharIs
<1> QED BY <1>1, <1>2, LessIs

LEMMA LessTransitive ==
  ASSUME NEW s \in Seq(Chars), NEW t \in Seq(Chars), NEW u \in Seq(Chars),
         Less(s, t), Less(t, u)
  PROVE  Less(s, u)
<1>1. PICK i \in Places : /\ Char(s, i) < Char(t, i)
                          /\ \A j \in Places : j < i => Char(s, j) = Char(t, j)
  BY LessIs
<1>2. PICK k \in Places : /\ Char(t, k) < Char(u, k)
                          /\ \A j \in Places : j < k => Char(t, j) = Char(u, j)
  BY LessIs
<1>3. /\ Char(s, i) \in Nat /\ Char(t, i) \in Nat /\ Char(u, i) \in Nat
      /\ Char(s, k) \in Nat /\ Char(t, k) \in Nat /\ Char(u, k) \in Nat
      /\ i \in Nat /\ k \in Nat
  BY CharIs DEF Places
<1>4. CASE i < k
  <2>1. Char(t, i) = Char(u, i)
    BY <1>2, <1>4
  <2>2. \A j \in Places : j < i => Char(s, j) = Char(u, j)
    BY <1>1, <1>2, <1>3, <1>4 DEF Places
  <2> QED BY <1>1, <2>1, <2>2, LessIs
<1>5. CASE k <= i
  <2>1. Char(s, k) < Char(u, k)
    BY <1>1, <1>2, <1>3, <1>5
  <2>2. \A j \in Places : j < k => Char(s, j) = Char(u, j)
    BY <1>1, <1>2, <1>3, <1>5 DEF Places
  <2> QED BY <2>1, <2>2, LessIs
<1> QED BY <1>3, <1>4, <1>5

(* By the least number of strings of which none is the first.              *)
LEMMA FirstIs ==
  ASSUME NEW S, S \subseteq Seq(Chars), IsFiniteSet(S), S # {}
  PROVE  First(S) \in S /\ \A t \in S \ {First(S)} : Less(First(S), t)
<1> DEFINE HasFirst(T) == \E s \in T : \A t \in T \ {s} : Less(s, t)
           Bad == {n \in Nat : \E T \in SUBSET S : /\ T # {} /\ Cardinality(T) = n
                                                   /\ ~HasFirst(T)}
<1>1. ASSUME Bad # {} PROVE FALSE
  <2>1. PICK n \in Bad : \A m \in Bad : n <= m
    BY <1>1, LeastExists
  <2>2. PICK T \in SUBSET S : T # {} /\ Cardinality(T) = n /\ ~HasFirst(T)
    BY <2>1
  <2>3. PICK x \in T : TRUE
    BY <2>2
  <2> DEFINE R == T \ {x}
  <2>4. IsFiniteSet(T) /\ n \in Nat
    BY FS_Subset, <2>1
  <2>5. IsFiniteSet(R) /\ Cardinality(R) = n - 1 /\ Cardinality(R) \in Nat
    BY <2>2, <2>3, <2>4, FS_RemoveElement, FS_CardinalityType
  <2>6. R # {}
    BY <2>2, <2>3
  <2>7. HasFirst(R)
    <3>1. Cardinality(R) \notin Bad
      <4>1. ~(n <= n - 1)
        BY <2>4
      <4> HIDE DEF Bad
      <4> QED BY <2>1, <2>5, <4>1
    <3>2. R \in SUBSET S
      OBVIOUS
    <3> HIDE DEF R, HasFirst
    <3> QED BY <2>5, <2>6, <3>1, <3>2
  <2>8. PICK r \in R : \A t \in R \ {r} : Less(r, t)
    BY <2>7
  <2>9. r \in Seq(Chars) /\ x \in Seq(Chars) /\ r # x
    BY <2>2, <2>3, <2>8
  <2>10. CASE Less(r, x)
    BY <2>2, <2>3, <2>8, <2>10
  <2>11. CASE Less(x, r)
    <3>1. ASSUME NEW t \in T \ {x} PROVE Less(x, t)
      <4>1. t = r \/ Less(r, t)
        BY <2>8, <3>1
      <4>2. t \in Seq(Chars)
        BY <2>2
      <4> QED BY <2>9, <2>11, <4>1, <4>2, LessTransitive
    <3> QED BY <2>2, <2>3, <3>1
  <2> QED BY <2>9, <2>10, <2>11, LessTotal
<1>2. HasFirst(S)
  <2>1. Cardinality(S) \in Nat
    BY FS_CardinalityType
  <2>2. Cardinality(S) \notin Bad
    BY <1>1
  <2> HIDE DEF HasFirst
  <2> QED BY <2>1, <2>2
<1> QED BY <1>2 DEF First

(* A string is a prefix of another if it agrees with it as far as it goes. *)
LEMMA PrefixAgrees ==
  ASSUME NEW s \in Seq(Chars), NEW t \in Seq(Chars)
  PROVE  IsPrefix(s, t) <=> /\ Len(s) <= Len(t)
                            /\ \A i \in Places : i <= Len(s) => Char(s, i) = Char(t, i)
<1>1. Len(s) \in Nat /\ Len(t) \in Nat
  BY LenProperties
<1>2. CASE Len(s) <= Len(t)
  <2> DEFINE x == SubSeq(s, 1, Len(s))
             y == SubSeq(t, 1, Len(s))
  <2>1. /\ x \in Seq(Chars) /\ Len(x) = Len(s) /\ \A i \in 1 .. Len(s) : x[i] = s[i]
        /\ y \in Seq(Chars) /\ Len(y) = Len(s) /\ \A i \in 1 .. Len(s) : y[i] = t[i]
    BY <1>1, <1>2, PrefixIs
  <2>2. IsPrefix(s, t) <=> x = y
    BY <1>2 DEF IsPrefix
  <2> HIDE DEF x, y
  <2>3. x = y <=> \A i \in 1 .. Len(s) : s[i] = t[i]
    <3>1. ASSUME x = y PROVE \A i \in 1 .. Len(s) : s[i] = t[i]
      BY <2>1, <3>1
    <3>2. ASSUME \A i \in 1 .. Len(s) : s[i] = t[i] PROVE x = y
      <4>1. \A i \in 1 .. Len(x) : x[i] = y[i]
        BY <2>1, <3>2
      <4> QED BY <2>1, <4>1, SeqEqual
    <3> QED BY <3>1, <3>2
  <2>4. \A i \in Places : i \in 1 .. Len(s) <=> i <= Len(s)
    BY <1>1 DEF Places
  <2>5. \A i \in 1 .. Len(s) : i \in Places /\ i <= Len(s) /\ i <= Len(t)
    BY <1>1, <1>2 DEF Places
  <2>6. \A i \in 1 .. Len(s) : Char(s, i) = s[i] /\ Char(t, i) = t[i]
    BY <2>5, CharIs
  <2> QED BY <1>2, <2>2, <2>3, <2>4, <2>5, <2>6
<1>3. CASE ~(Len(s) <= Len(t))
  BY <1>3 DEF IsPrefix
<1> QED BY <1>2, <1>3

LEMMA PrefixOrder ==
  ASSUME NEW s \in Seq(Chars), NEW t \in Seq(Chars)
  PROVE  /\ IsPrefix(s, s)
         /\ IsPrefix(s, t) /\ IsPrefix(t, s) => s = t
         /\ IsPrefix(s, t) /\ Len(t) <= Len(s) => s = t
<1>1. Len(s) \in Nat /\ Len(t) \in Nat
  BY LenProperties
<1>2. IsPrefix(s, s)
  BY <1>1, PrefixAgrees
<1>3. ASSUME IsPrefix(s, t), Len(t) <= Len(s) PROVE s = t
  <2>1. Len(s) = Len(t)
    BY <1>1, <1>3, PrefixAgrees
  <2>2. ASSUME NEW i \in Places PROVE Char(s, i) = Char(t, i)
    <3>1. CASE i <= Len(s)
      BY <1>3, <3>1, PrefixAgrees
    <3>2. CASE i > Len(s)
      BY <2>1, <3>2, CharIs
    <3> QED BY <1>1, <3>1, <3>2 DEF Places
  <2> QED BY <2>2, SameString
<1>4. IsPrefix(t, s) => Len(t) <= Len(s)
  BY PrefixAgrees
<1> QED BY <1>2, <1>3, <1>4

(* What completion_try takes from the first of several matches is the      *)
(* longest text they all begin with.                                       *)
LEMMA AgreedIs ==
  ASSUME NEW S, S \subseteq Seq(Chars), IsFiniteSet(S),
         NEW s1 \in S, NEW s2 \in S, s1 # s2,
         NEW search \in Seq(Chars), \A s \in S : IsPrefix(search, s)
  PROVE  LET t == SubSeq(First(S), 1, Agreed(S, Len(search)))
         IN /\ t \in Seq(Chars) /\ IsPrefix(search, t)
            /\ IsLongestCommonPrefix(t, S)
<1> DEFINE f == First(S)
           n == Len(search)
           differ(j) == \E s \in S : Char(s, j + 1) # Char(f, j + 1)
           j == Agreed(S, n)
           t == SubSeq(f, 1, j)
<1>1. f \in S /\ f \in Seq(Chars)
  BY FirstIs
<1>2. Len(f) \in Nat /\ n \in Nat /\ n <= Len(f)
  <2>1. IsPrefix(search, f)
    BY <1>1
  <2> QED BY <1>1, <2>1, LenProperties, PrefixAgrees
<1>3. PICK s \in S : s # f
  OBVIOUS
<1>j. j = CHOOSE k \in n .. Len(f) : differ(k) /\ \A i \in n .. k - 1 : ~differ(i)
  BY DEF Agreed
<1> HIDE DEF f, n, j
<1>4. PICK i \in Places : /\ Char(s, i) # Char(f, i)
                          /\ \A k \in Places : k < i => Char(s, k) = Char(f, k)
  BY <1>1, <1>3, FirstDifference
<1>5. i \in Nat /\ i >= 1 /\ i - 1 \in Nat /\ (i - 1) + 1 = i
  BY DEF Places
<1>6. i - 1 >= n
  <2> SUFFICES ASSUME i <= n PROVE FALSE
    BY <1>2, <1>5
  <2>1. Char(search, i) = Char(s, i) /\ Char(search, i) = Char(f, i)
    BY <1>1, PrefixAgrees DEF n
  <2> QED BY <1>4, <2>1
<1>7. i - 1 <= Len(f)
  <2> SUFFICES ASSUME Len(f) + 1 < i PROVE FALSE
    BY <1>2, <1>5
  <2>1. Len(f) + 1 \in Places /\ Len(f) + 1 > Len(f) /\ i > Len(f)
    BY <1>2, <1>5 DEF Places
  <2>2. Char(f, Len(f) + 1) = 0 /\ Char(f, i) = 0
    BY <1>1, <2>1, CharIs
  <2>3. Char(s, Len(f) + 1) = 0
    BY <1>4, <2>1, <2>2
  <2>4. s \in Seq(Chars) /\ Len(s) \in Nat
    BY LenProperties
  <2>5. ~(Len(f) + 1 <= Len(s))
    BY <2>1, <2>3, <2>4, CharIs
  <2>6. i > Len(s)
    BY <1>2, <1>5, <2>4, <2>5
  <2>7. Char(s, i) = 0
    BY <2>4, <2>6, CharIs
  <2> QED BY <1>4, <2>2, <2>7
<1>8. /\ j \in n .. Len(f) /\ differ(j)
      /\ \A k \in n .. j - 1 : ~differ(k)
  <2> DEFINE T == {k \in n .. Len(f) : differ(k)}
  <2>1. i - 1 \in T
    BY <1>2, <1>3, <1>4, <1>5, <1>6, <1>7
  <2>2. T \subseteq Nat
    BY <1>2
  <2>3. PICK k \in T : \A m \in T : k <= m
    BY <2>1, <2>2, LeastExists
  <2>4. ASSUME NEW m \in n .. k - 1 PROVE ~differ(m)
    <3>1. m \in n .. Len(f) /\ ~(k <= m)
      BY <1>2, <2>2, <2>3
    <3> QED BY <2>3, <3>1
  <2>5. \E k2 \in n .. Len(f) : differ(k2) /\ \A m \in n .. k2 - 1 : ~differ(m)
    BY <2>3, <2>4
  <2> HIDE DEF differ
  <2> QED BY <1>j, <2>5
<1>9. j \in Nat /\ n <= j /\ j <= Len(f)
  BY <1>2, <1>8
<1>10. ASSUME NEW u \in S, NEW k \in Places, k <= j
       PROVE  Char(u, k) = Char(f, k)
  <2>1. CASE k <= n
    <3>1. Char(search, k) = Char(u, k) /\ Char(search, k) = Char(f, k)
      BY <1>1, <2>1, PrefixAgrees DEF n
    <3> QED BY <3>1
  <2>2. CASE n < k
    <3>1. k - 1 \in n .. j - 1 /\ (k - 1) + 1 = k
      BY <1>2, <1>9, <1>10, <2>2 DEF Places
    <3> QED BY <1>8, <3>1
  <2> QED BY <1>2, <2>1, <2>2 DEF Places
<1>11. t \in Seq(Chars) /\ Len(t) = j /\ \A k \in 1 .. j : t[k] = f[k]
  BY <1>1, <1>9, PrefixIs
<1> HIDE DEF t
<1>12. ASSUME NEW k \in Places, k <= j PROVE Char(t, k) = Char(f, k) /\ Char(f, k) # 0
  <2>1. k \in 1 .. j /\ k <= Len(f) /\ k <= Len(t)
    BY <1>2, <1>9, <1>11, <1>12 DEF Places
  <2>2. Char(t, k) = t[k]
    BY <1>11, <2>1, CharIs
  <2>3. Char(f, k) = f[k] /\ Char(f, k) # 0
    BY <1>1, <2>1, CharIs
  <2> QED BY <1>11, <2>1, <2>2, <2>3
<1>13. ASSUME NEW u \in S PROVE IsPrefix(t, u)
  <2>1. u \in Seq(Chars) /\ Len(u) \in Nat
    BY LenProperties
  <2>2. j <= Len(u)
    <3> SUFFICES ASSUME Len(u) < j PROVE FALSE
      BY <1>9, <2>1
    <3>1. j \in Places /\ j <= j /\ j > Len(u)
      BY <1>9, <2>1 DEF Places
    <3>2. Char(u, j) = 0
      BY <2>1, <3>1, CharIs
    <3> QED BY <1>10, <1>12, <3>1, <3>2
  <2>3. \A k \in Places : k <= j => Char(t, k) = Char(u, k)
    BY <1>10, <1>12
  <2> QED BY <1>11, <2>1, <2>2, <2>3, PrefixAgrees
<1>14. IsPrefix(search, t)
  <2>1. ASSUME NEW k \in Places, k <= n PROVE Char(search, k) = Char(t, k)
    <3>1. k <= j
      BY <1>2, <1>9, <2>1 DEF Places
    <3>2. Char(search, k) = Char(f, k)
      BY <1>1, <2>1, PrefixAgrees DEF n
    <3> QED BY <1>12, <3>1, <3>2
  <2> QED BY <1>9, <1>11, <2>1, PrefixAgrees DEF n
<1>15. t \in S \/ \E u, v \in S : u[Len(t) + 1] # v[Len(t) + 1]
  <2>1. PICK u \in S : Char(u, j + 1) # Char(f, j + 1)
    BY <1>8
  <2>2. u \in Seq(Chars) /\ Len(u) \in Nat
    BY LenProperties
  <2>3. CASE Len(f) <= j
    <3>1. IsPrefix(t, f)
      BY <1>1, <1>13
    <3> QED BY <1>1, <1>11, <2>3, <3>1, PrefixOrder
  <2>4. CASE Len(u) <= j
    <3>1. IsPrefix(t, u)
      BY <1>13
    <3> QED BY <1>11, <2>2, <2>4, <3>1, PrefixOrder
  <2>5. CASE j + 1 <= Len(f) /\ j + 1 <= Len(u)
    <3>1. j + 1 \in Places
      BY <1>9 DEF Places
    <3>2. Char(f, j + 1) = f[j + 1]
      BY <1>1, <2>5, <3>1, CharIs
    <3>3. Char(u, j + 1) = u[j + 1]
      BY <2>2, <2>5, <3>1, CharIs
    <3> QED BY <1>1, <1>11, <2>1, <3>2, <3>3
  <2> QED BY <1>2, <1>9, <2>2, <2>3, <2>4, <2>5
<1>16. IsLongestCommonPrefix(t, S)
  BY <1>13, <1>15 DEF IsLongestCommonPrefix
<1> QED BY <1>11, <1>14, <1>16 DEF t, j, n, f

-----------------------------------------------------------------------------
(* completion_try.                                                         *)

LEMMA PromptIs ==
  ASSUME NEW p \in Prompts
  PROVE  /\ p.value \in Seq(Chars) /\ p.offers \subseteq Seq(Chars)
         /\ IsFiniteSet(p.offers) /\ p.history \in BOOLEAN /\ p.strict \in BOOLEAN
<1>1. p \in [value : Seq(Chars), offers : SUBSET Seq(Chars),
             history : BOOLEAN, strict : BOOLEAN]
  BY StringsAssumption
<1>2. IsFiniteSet(p.offers)
  BY StringsAssumption
<1>3. p.offers \in SUBSET Seq(Chars) /\ p.value \in Seq(Chars)
  BY <1>1
<1>4. p.history \in BOOLEAN /\ p.strict \in BOOLEAN
  BY <1>1
<1> QED BY <1>2, <1>3, <1>4

LEMMA MatchesAre ==
  ASSUME prompt \in Prompts, NEW search
  PROVE  /\ Matches(search) \subseteq Seq(Chars) /\ IsFiniteSet(Matches(search))
         /\ \A s \in Matches(search) : IsPrefix(search, s)
<1>1. Matches(search) \subseteq prompt.offers
  BY DEF Matches
<1>2. prompt.offers \subseteq Seq(Chars) /\ IsFiniteSet(prompt.offers)
  BY PromptIs
<1>3. IsFiniteSet(Matches(search))
  BY <1>1, <1>2, FS_Subset
<1> QED BY <1>1, <1>2, <1>3 DEF Matches

(* Of all that begin with a string, the string itself is the first.        *)
LEMMA ExactIsFirst ==
  ASSUME NEW S, S \subseteq Seq(Chars), IsFiniteSet(S), NEW search \in S,
         \A s \in S : IsPrefix(search, s)
  PROVE  First(S) = search
<1> SUFFICES ASSUME First(S) # search PROVE FALSE
  OBVIOUS
<1> DEFINE f == First(S)
<1>1. f \in S /\ f \in Seq(Chars) /\ search \in Seq(Chars) /\ Less(f, search)
  BY FirstIs
<1>2. f # search /\ IsPrefix(search, f)
  BY <1>1
<1> HIDE DEF f
<1>3. PICK i \in Places : /\ Char(f, i) < Char(search, i)
                          /\ \A j \in Places : j < i => Char(f, j) = Char(search, j)
  BY <1>1, LessIs
<1>4. Char(f, i) \in Nat /\ Char(search, i) \in Nat /\ Char(search, i) # 0
  BY <1>1, <1>3, CharIs
<1>5. i <= Len(search)
  <2>1. ~(i > Len(search)) /\ Len(search) \in Nat
    BY <1>1, <1>4, CharIs
  <2> QED BY <2>1 DEF Places
<1>6. Char(f, i) = Char(search, i)
  BY <1>1, <1>2, <1>5, PrefixAgrees
<1> QED BY <1>3, <1>4, <1>6

LEMMA EmptyIsPrefix ==
  ASSUME NEW s \in Seq(Chars)
  PROVE  <<>> \in Seq(Chars) /\ IsPrefix(<<>>, s)
<1>1. <<>> \in Seq(Chars) /\ Len(<<>>) = 0 /\ Len(s) \in Nat
  BY LenProperties, EmptySeq
<1>2. \A i \in Places : ~(i <= 0)
  BY DEF Places
<1> DEFINE e == <<>>
<1> HIDE DEF e
<1>3. e \in Seq(Chars) /\ Len(e) = 0
  BY <1>1 DEF e
<1>4. IsPrefix(e, s)
  <2>1. Len(e) <= Len(s)
    BY <1>1, <1>3
  <2>2. \A i \in Places : i <= Len(e) => Char(e, i) = Char(s, i)
    BY <1>2, <1>3
  <2> QED BY <1>3, <2>1, <2>2, PrefixAgrees
<1> QED BY <1>3, <1>4 DEF e

LEMMA TryIs ==
  ASSUME prompt \in Prompts, NEW search \in Seq(Chars)
  PROVE  /\ Try(search).result \in Results /\ Try(search).match \in Seq(Chars)
         /\ Try(search).result = "not matched" => Try(search).match = search
         /\ Try(search).result # "not matched" => IsPrefix(search, Try(search).match)
         /\ Completes(Try(search).result, search, Try(search).match)
         /\ Try(search).result = "matched" /\ search # <<>>
              => Matches(search) = {Try(search).match}
<1> DEFINE M == IF search = <<>> THEN prompt.offers ELSE Matches(search)
           t == Try(search)
<1>1. /\ M \subseteq Seq(Chars) /\ IsFiniteSet(M)
      /\ \A s \in M : IsPrefix(search, s)
      /\ search # <<>> => M = Matches(search)
  BY MatchesAre, PromptIs, EmptyIsPrefix
<1>t. t = IF M = {}
          THEN [result |-> "not matched", match |-> search, popup |-> FALSE]
          ELSE IF Cardinality(M) = 1
          THEN [result |-> "matched", match |-> First(M), popup |-> FALSE]
          ELSE IF search \in M \ {<<>>}
          THEN [result |-> "complete, but not unique", match |-> First(M), popup |-> FALSE]
          ELSE [result |-> "not unique", popup |-> TRUE,
                match |-> IF search = <<>> THEN <<>>
                          ELSE SubSeq(First(M), 1, Agreed(M, Len(search)))]
  BY DEF Try
<1> HIDE DEF M, t
<1>2. CASE M = {}
  <2>1. t.result = "not matched" /\ t.match = search
    BY <1>2, <1>t
  <2> QED BY <1>1, <1>2, <2>1 DEF Completes, Results, t
<1>3. CASE M # {} /\ Cardinality(M) = 1
  <2>1. t.result = "matched" /\ t.match = First(M)
    BY <1>3, <1>t
  <2>2. PICK x : M = {x}
    BY <1>1, <1>3, FS_Singleton
  <2>3. First(M) \in M
    BY <1>1, <1>3, FirstIs
  <2>4. M = {t.match} /\ t.match \in Seq(Chars) /\ IsPrefix(search, t.match)
    BY <1>1, <2>1, <2>2, <2>3
  <2>5. IsPrefix(t.match, t.match)
    BY <2>4, PrefixOrder
  <2>6. IsLongestCommonPrefix(t.match, M)
    BY <2>4, <2>5 DEF IsLongestCommonPrefix
  <2> QED BY <1>1, <2>1, <2>4, <2>6 DEF Completes, Results, t
<1>4. CASE Cardinality(M) # 1 /\ search \in M \ {<<>>}
  <2>1. t.result = "complete, but not unique" /\ t.match = First(M)
    BY <1>4, <1>t
  <2>2. First(M) = search
    BY <1>1, <1>4, ExactIsFirst
  <2>3. IsPrefix(search, search)
    BY PrefixOrder
  <2>4. IsLongestCommonPrefix(search, M)
    BY <1>1, <1>4 DEF IsLongestCommonPrefix
  <2> QED BY <1>1, <2>1, <2>2, <2>3, <2>4 DEF Completes, Results, t
<1>5. CASE M # {} /\ Cardinality(M) # 1 /\ search = <<>>
  <2>1. t.result = "not unique" /\ t.match = <<>>
    BY <1>5, <1>t
  <2>2. t.match \in Seq(Chars) /\ IsPrefix(search, t.match)
    BY <1>5, <2>1, EmptyIsPrefix
  <2> QED BY <1>5, <2>1, <2>2 DEF Completes, Results, t
<1>6. CASE M # {} /\ Cardinality(M) # 1 /\ search \notin M /\ search # <<>>
  <2>1. t.result = "not unique" /\ t.match = SubSeq(First(M), 1, Agreed(M, Len(search)))
    BY <1>6, <1>t
  <2>2. PICK s1 \in M, s2 \in M : s1 # s2
    <3>1. PICK x \in M : TRUE
      BY <1>6
    <3>2. M # {x}
      BY <1>6, FS_Singleton
    <3> QED BY <3>1, <3>2
  <2>3. /\ t.match \in Seq(Chars) /\ IsPrefix(search, t.match)
        /\ IsLongestCommonPrefix(t.match, M)
    BY <1>1, <2>1, <2>2, AgreedIs
  <2> QED BY <1>1, <1>6, <2>1, <2>3 DEF Completes, Results, t
<1>7. \/ M = {}
      \/ M # {} /\ Cardinality(M) = 1
      \/ Cardinality(M) # 1 /\ search \in M \ {<<>>}
      \/ M # {} /\ Cardinality(M) # 1 /\ search = <<>>
      \/ M # {} /\ Cardinality(M) # 1 /\ search \notin M /\ search # <<>>
  OBVIOUS
<1> QED BY <1>2, <1>3, <1>4, <1>5, <1>6, <1>7

(* A line that is accepted is not shortened. *)
LEMMA CompletedIs ==
  ASSUME prompt \in Prompts, NEW text \in Seq(Chars)
  PROVE  /\ Completed(text) \in Seq(Chars) /\ Len(text) <= Len(Completed(text))
         /\ \/ Completed(text) = text
            \/ text # <<>> => Matches(text) = {Completed(text)}
         /\ text # <<>> /\ text \in prompt.offers => Completed(text) = text
<1>0. Len(text) \in Nat
  BY LenProperties
<1>1. CASE Try(text).result = "matched"
  <2> DEFINE m == Try(text).match
  <2>1. m \in Seq(Chars) /\ IsPrefix(text, m) /\ (text # <<>> => Matches(text) = {m})
    BY <1>1, TryIs
  <2>2. Completed(text) = m
    BY <1>1 DEF Completed
  <2> HIDE DEF m
  <2>3. Len(text) <= Len(m)
    BY <2>1, PrefixAgrees
  <2>4. text \in prompt.offers => text \in Matches(text)
    BY PrefixOrder DEF Matches
  <2> QED BY <2>1, <2>2, <2>3, <2>4
<1>2. CASE Try(text).result # "matched"
  BY <1>0, <1>2 DEF Completed
<1> QED BY <1>1, <1>2

-----------------------------------------------------------------------------
(* The line.                                                               *)

LEMMA NullIsNoString == NULL \notin Seq(Chars)
<1> SUFFICES ASSUME NULL \in Seq(Chars) PROVE FALSE
  OBVIOUS
<1> DEFINE n == NULL
<1>1. n[1] = -1 /\ Len(n) = 1 /\ n \in Seq(Chars)
  BY DEF NULL
<1> HIDE DEF n
<1>2. n[1] \in Chars
  BY <1>1, ElementOfSeq
<1>3. Chars \subseteq Nat
  BY StringsAssumption
<1> QED BY <1>1, <1>2, <1>3

LEMMA RemoveAtIs ==
  ASSUME NEW s \in Seq(Chars), NEW i \in 1 .. Len(s)
  PROVE  RemoveAt(s, i) \in Seq(Chars) /\ Len(RemoveAt(s, i)) = Len(s) - 1
<1> DEFINE x == SubSeq(s, 1, i - 1)
           y == SubSeq(s, i + 1, Len(s))
<1>1. Len(s) \in Nat /\ i \in Nat /\ i - 1 \in Nat /\ i <= Len(s) /\ i - 1 <= Len(s)
  BY LenProperties
<1>2. x \in Seq(Chars) /\ Len(x) = i - 1
  BY <1>1, PrefixIs
<1>3. y \in Seq(Chars) /\ Len(y) = Len(s) - i
  BY <1>1, SuffixIs
<1>4. RemoveAt(s, i) = x \o y
  BY DEF RemoveAt
<1> HIDE DEF x, y
<1>5. x \o y \in Seq(Chars) /\ Len(x \o y) = Len(x) + Len(y)
  BY <1>2, <1>3, ConcatTwoIs
<1> QED BY <1>1, <1>2, <1>3, <1>4, <1>5

LEMMA InsertAtIs ==
  ASSUME NEW s \in Seq(Chars), NEW p \in Nat, p <= Len(s), NEW c \in Chars
  PROVE  /\ InsertAt(s, p + 1, c) \in Seq(Chars)
         /\ Len(InsertAt(s, p + 1, c)) = Len(s) + 1
<1> DEFINE x == SubSeq(s, 1, p)
           e == <<c>>
           y == SubSeq(s, p + 1, Len(s))
           z == x \o e
<1>1. Len(s) \in Nat
  BY LenProperties
<1>2. x \in Seq(Chars) /\ Len(x) = p
  BY <1>1, PrefixIs
<1>3. e \in Seq(Chars) /\ Len(e) = 1
  OBVIOUS
<1>4. y \in Seq(Chars) /\ Len(y) = Len(s) - p
  BY <1>1, SuffixIs
<1>5. InsertAt(s, p + 1, c) = z \o y
  <2>1. (p + 1) - 1 = p
    OBVIOUS
  <2> QED BY <2>1 DEF InsertAt
<1> HIDE DEF x, e, y
<1>6. z \in Seq(Chars) /\ Len(z) = Len(x) + Len(e)
  BY <1>2, <1>3, ConcatTwoIs
<1> HIDE DEF z
<1>7. z \o y \in Seq(Chars) /\ Len(z \o y) = Len(z) + Len(y)
  <2>1. z \in Seq(Chars) /\ y \in Seq(Chars)
    BY <1>4, <1>6
  <2> QED BY <2>1, ConcatTwoIs
<1>8. Len(z) + Len(y) = Len(s) + 1
  BY <1>1, <1>2, <1>3, <1>4, <1>6
<1> QED BY <1>5, <1>7, <1>8

LEMMA InitGood == Init => IInv
<1> SUFFICES ASSUME Init PROVE IInv
  OBVIOUS
<1>1. Typed
  BY EmptySeq DEF Init, Typed
<1>2. LineIsCompleted /\ HistoryInStep /\ TabScrollsWhatIsShown
  BY DEF Init, LineIsCompleted, HistoryInStep, TabScrollsWhatIsShown, Reading
<1>3. OnlyHistoryMisplaces
  <2>1. Len(astr) = 0 /\ pos = 0
    BY EmptySeq DEF Init
  <2>2. ~(pos > Len(astr))
    BY <2>1
  <2> QED BY <2>2 DEF Init, OnlyHistoryMisplaces
<1> QED BY <1>1, <1>2, <1>3 DEF IInv

LEMMA EditsGood ==
  ASSUME IInv, Key, Same, NEW text \in Seq(Chars), NEW p \in Nat, Edits(text, p),
         p > Len(text) => pos > Len(astr)
  PROVE  IInv'
<1>1. /\ at = "reading" /\ at' = at /\ astr' = text /\ pos' = p /\ lasttab' = "none"
      /\ recalled' = (recalled /\ p > Len(text))
      /\ UNCHANGED <<prompt, elements, saved, poppedup, shown, sel>>
  BY DEF Key, Same, Edits, Reading
<1>2. Typed'
  BY <1>1 DEF IInv, Typed
<1>3. LineIsCompleted' /\ HistoryInStep' /\ TabScrollsWhatIsShown'
  BY <1>1 DEF IInv, LineIsCompleted, HistoryInStep, TabScrollsWhatIsShown, Reading
<1>4. OnlyHistoryMisplaces'
  BY <1>1 DEF IInv, OnlyHistoryMisplaces
<1> QED BY <1>2, <1>3, <1>4 DEF IInv

LEMMA AbortsGood ==
  ASSUME IInv, Key, pos > Len(astr), Aborts
  PROVE  IInv'
<1>1. /\ at' = "aborted"
      /\ UNCHANGED <<prompt, elements, astr, pos, saved, lasttab, poppedup, shown, sel, recalled>>
  BY DEF Key, Aborts, line
<1>2. recalled
  BY DEF IInv, OnlyHistoryMisplaces
<1> QED BY <1>1, <1>2
        DEF IInv, Typed, LineIsCompleted, HistoryInStep, OnlyHistoryMisplaces,
            TabScrollsWhatIsShown, Reading

LEMMA LineGood ==
  ASSUME IInv,
         \/ BeginningOfLine \/ EndOfLine \/ BackwardChar \/ ForwardChar \/ KillLine
         \/ BackwardDeleteChar \/ DeleteChar
         \/ \E c \in Chars : SelfInsert(c)
  PROVE  IInv'
<1>0. astr \in Seq(Chars) /\ Len(astr) \in Nat /\ pos \in Nat
  BY LenProperties DEF IInv, Typed
<1>1. CASE BeginningOfLine
  <2>1. ~(0 > Len(astr)) /\ Key /\ Edits(astr, 0) /\ Same
    BY <1>0, <1>1 DEF BeginningOfLine
  <2> QED BY <1>0, <2>1, EditsGood
<1>2. CASE EndOfLine
  <2>1. ~(Len(astr) > Len(astr)) /\ Key /\ Edits(astr, Len(astr)) /\ Same
    BY <1>0, <1>2 DEF EndOfLine
  <2> QED BY <1>0, <2>1, EditsGood
<1>3. CASE BackwardChar
  <2> DEFINE p == IF pos > 0 THEN pos - 1 ELSE pos
  <2>1. p \in Nat /\ (p > Len(astr) => pos > Len(astr))
    BY <1>0
  <2>2. Key /\ Edits(astr, p) /\ Same
    BY <1>3 DEF BackwardChar
  <2> HIDE DEF p
  <2> QED BY <1>0, <2>1, <2>2, EditsGood
<1>4. CASE ForwardChar
  <2> DEFINE p == IF pos < Len(astr) THEN pos + 1 ELSE pos
  <2>1. p \in Nat /\ (p > Len(astr) => pos > Len(astr))
    BY <1>0
  <2>2. Key /\ Edits(astr, p) /\ Same
    BY <1>4 DEF ForwardChar
  <2> HIDE DEF p
  <2> QED BY <1>0, <2>1, <2>2, EditsGood
<1>5. CASE KillLine
  <2> DEFINE text == IF pos < Len(astr) THEN SubSeq(astr, 1, pos) ELSE astr
  <2>1. text \in Seq(Chars) /\ (pos > Len(text) => pos > Len(astr))
    <3>1. CASE pos < Len(astr)
      <4>1. SubSeq(astr, 1, pos) \in Seq(Chars) /\ Len(SubSeq(astr, 1, pos)) = pos
        BY <1>0, <3>1, PrefixIs
      <4> QED BY <1>0, <3>1, <4>1
    <3>2. CASE ~(pos < Len(astr))
      BY <1>0, <3>2
    <3> QED BY <3>1, <3>2
  <2>2. Key /\ Edits(text, pos) /\ Same
    BY <1>5 DEF KillLine
  <2> HIDE DEF text
  <2> QED BY <1>0, <2>1, <2>2, EditsGood
<1>6. CASE BackwardDeleteChar
  <2>1. CASE Key /\ pos = 0 /\ Edits(astr, pos) /\ Same
    BY <1>0, <2>1, EditsGood
  <2>2. CASE Key /\ pos \in 1 .. Len(astr) /\ Edits(RemoveAt(astr, pos), pos - 1) /\ Same
    <3> DEFINE text == RemoveAt(astr, pos)
    <3>1. text \in Seq(Chars) /\ Len(text) = Len(astr) - 1
      BY <1>0, <2>2, RemoveAtIs
    <3> HIDE DEF text
    <3>2. pos - 1 \in Nat /\ (pos - 1 > Len(text) => pos > Len(astr))
      BY <1>0, <2>2, <3>1
    <3>3. Edits(text, pos - 1)
      BY <2>2 DEF text
    <3> QED BY <2>2, <3>1, <3>2, <3>3, EditsGood
  <2>3. CASE Key /\ pos > Len(astr) /\ Aborts
    BY <2>3, AbortsGood
  <2> QED BY <1>6, <2>1, <2>2, <2>3 DEF BackwardDeleteChar
<1>7. CASE DeleteChar
  <2> DEFINE text == IF pos < Len(astr) THEN RemoveAt(astr, pos + 1) ELSE astr
  <2>1. text \in Seq(Chars) /\ (pos > Len(text) => pos > Len(astr))
    <3>1. CASE pos < Len(astr)
      <4>1. pos + 1 \in 1 .. Len(astr)
        BY <1>0, <3>1
      <4>2. RemoveAt(astr, pos + 1) \in Seq(Chars) /\ Len(RemoveAt(astr, pos + 1)) = Len(astr) - 1
        BY <1>0, <4>1, RemoveAtIs
      <4> QED BY <1>0, <3>1, <4>2
    <3>2. CASE ~(pos < Len(astr))
      BY <1>0, <3>2
    <3> QED BY <3>1, <3>2
  <2>2. Key /\ Edits(text, pos) /\ Same
    BY <1>7 DEF DeleteChar
  <2> HIDE DEF text
  <2> QED BY <1>0, <2>1, <2>2, EditsGood
<1>8. ASSUME NEW c \in Chars, SelfInsert(c) PROVE IInv'
  <2>1. CASE Key /\ pos <= Len(astr) /\ Edits(InsertAt(astr, pos + 1, c), pos + 1) /\ Same
    <3> DEFINE text == InsertAt(astr, pos + 1, c)
    <3>1. text \in Seq(Chars) /\ Len(text) = Len(astr) + 1
      BY <1>0, <2>1, InsertAtIs
    <3> HIDE DEF text
    <3>2. pos + 1 \in Nat /\ (pos + 1 > Len(text) => pos > Len(astr))
      BY <1>0, <2>1, <3>1
    <3>3. Edits(text, pos + 1)
      BY <2>1 DEF text
    <3> QED BY <2>1, <3>1, <3>2, <3>3, EditsGood
  <2>2. CASE Key /\ pos > Len(astr) /\ Aborts
    BY <2>2, AbortsGood
  <2> QED BY <1>8, <2>1, <2>2 DEF SelfInsert
<1> QED BY <1>1, <1>2, <1>3, <1>4, <1>5, <1>6, <1>7, <1>8

-----------------------------------------------------------------------------
(* Prompts, the history and completion.                                    *)

LEMMA ReadsGood ==
  ASSUME Typed, NEW p \in Prompts, prompt' = p, Reads(p),
         poppedup' \in BOOLEAN, shown' \in BOOLEAN
  PROVE  IInv'
<1>1. p.value \in Seq(Chars) /\ Len(p.value) \in Nat /\ p.history \in BOOLEAN
  BY PromptIs, LenProperties
<1>2. /\ at' = "reading" /\ astr' = p.value /\ pos' = Len(p.value)
      /\ saved' = NULL /\ lasttab' = "none" /\ elements' = elements
      /\ sel' = IF p.history THEN -1 ELSE sel
  BY DEF Reads
<1>3. Len(elements) \in Nat /\ sel' \in Nat \cup {-1} /\ (p.history => sel' = -1)
  BY <1>2, LenProperties DEF Typed
<1>4. Typed'
  BY <1>1, <1>2, <1>3 DEF Typed
<1>5. LineIsCompleted' /\ TabScrollsWhatIsShown'
  BY <1>2 DEF LineIsCompleted, TabScrollsWhatIsShown
<1>6. HistoryInStep'
  BY <1>2, <1>3 DEF HistoryInStep
<1>7. OnlyHistoryMisplaces'
  <2>1. ~(pos' > Len(astr'))
    BY <1>1, <1>2
  <2> QED BY <1>2, <2>1 DEF OnlyHistoryMisplaces
<1> QED BY <1>4, <1>5, <1>6, <1>7 DEF IInv

LEMMA PreviousGood ==
  ASSUME IInv, Previous
  PROVE  IInv'
<1> DEFINE i == IF sel = -1 THEN Len(elements) - 1 ELSE sel - 1
<1>0. /\ at = "reading" /\ prompt.history /\ lasttab' = "none"
      /\ UNCHANGED <<prompt, elements, at, pos, poppedup, shown>>
      /\ \/ /\ i >= 0 /\ sel' = i /\ astr' = elements[i + 1] /\ recalled' = TRUE
            /\ saved' = IF saved = NULL THEN astr ELSE saved
         \/ UNCHANGED <<astr, sel, saved, recalled>>
  BY DEF Previous, Key, Reading, Recall
<1>1. /\ elements \in Seq(Seq(Chars)) /\ Len(elements) \in Nat /\ sel \in Nat \cup {-1}
      /\ sel < Len(elements) /\ (saved # NULL <=> sel # -1)
      /\ astr \in Seq(Chars) /\ saved \in Seq(Chars) \cup {NULL}
  BY <1>0, LenProperties DEF IInv, Typed, HistoryInStep, Reading
<1>2. i < Len(elements) /\ i \in Int
  BY <1>1
<1> HIDE DEF i
<1>3. CASE /\ i >= 0 /\ sel' = i /\ astr' = elements[i + 1] /\ recalled' = TRUE
           /\ saved' = IF saved = NULL THEN astr ELSE saved
  <2>1. i + 1 \in 1 .. Len(elements) /\ i \in Nat /\ i # -1
    BY <1>1, <1>2, <1>3
  <2>2. astr' \in Seq(Chars)
    BY <1>1, <1>3, <2>1, ElementOfSeq
  <2>3. saved' \in Seq(Chars) /\ saved' # NULL
    BY <1>1, <1>3, NullIsNoString
  <2>4. Typed'
    BY <1>0, <1>3, <2>1, <2>2, <2>3 DEF IInv, Typed
  <2>5. HistoryInStep'
    BY <1>0, <1>2, <1>3, <2>1, <2>3 DEF HistoryInStep
  <2>6. LineIsCompleted' /\ OnlyHistoryMisplaces' /\ TabScrollsWhatIsShown'
    BY <1>0, <1>3 DEF LineIsCompleted, OnlyHistoryMisplaces, TabScrollsWhatIsShown
  <2> QED BY <2>4, <2>5, <2>6 DEF IInv
<1>4. CASE UNCHANGED <<astr, sel, saved, recalled>>
  <2>1. Typed'
    BY <1>0, <1>4 DEF IInv, Typed
  <2>2. HistoryInStep'
    BY <1>0, <1>4 DEF IInv, HistoryInStep, Reading
  <2>3. LineIsCompleted' /\ OnlyHistoryMisplaces' /\ TabScrollsWhatIsShown'
    BY <1>0, <1>4 DEF IInv, LineIsCompleted, OnlyHistoryMisplaces, TabScrollsWhatIsShown
  <2> QED BY <2>1, <2>2, <2>3 DEF IInv
<1> QED BY <1>0, <1>3, <1>4

LEMMA NextElementGood ==
  ASSUME IInv, NextElement
  PROVE  IInv'
<1>0. /\ at = "reading" /\ prompt.history /\ lasttab' = "none"
      /\ UNCHANGED <<prompt, elements, at, pos, poppedup, shown>>
      /\ \/ /\ sel \in 0 .. Len(elements) - 2
            /\ sel' = sel + 1 /\ astr' = elements[(sel + 1) + 1] /\ recalled' = TRUE
            /\ saved' = saved
         \/ /\ sel' = -1 /\ astr' = IF saved # NULL THEN saved ELSE astr
            /\ saved' = NULL
            /\ recalled' = (recalled \/ saved # NULL)
  BY DEF NextElement, Key, Reading, Recall
<1>1. /\ elements \in Seq(Seq(Chars)) /\ Len(elements) \in Nat /\ sel \in Nat \cup {-1}
      /\ sel < Len(elements) /\ (saved # NULL <=> sel # -1)
      /\ astr \in Seq(Chars) /\ saved \in Seq(Chars) \cup {NULL}
  BY <1>0, LenProperties DEF IInv, Typed, HistoryInStep, Reading
<1>2. CASE /\ sel \in 0 .. Len(elements) - 2
           /\ sel' = sel + 1 /\ astr' = elements[(sel + 1) + 1] /\ recalled' = TRUE
           /\ saved' = saved
  <2>1. /\ (sel + 1) + 1 \in 1 .. Len(elements) /\ sel + 1 \in Nat /\ sel + 1 # -1
        /\ sel # -1 /\ sel + 1 < Len(elements)
    BY <1>1, <1>2
  <2>2. astr' \in Seq(Chars)
    BY <1>1, <1>2, <2>1, ElementOfSeq
  <2>3. Typed'
    BY <1>0, <1>2, <2>1, <2>2 DEF IInv, Typed
  <2>4. HistoryInStep'
    BY <1>0, <1>1, <1>2, <2>1 DEF HistoryInStep
  <2>5. LineIsCompleted' /\ OnlyHistoryMisplaces' /\ TabScrollsWhatIsShown'
    BY <1>0, <1>2 DEF LineIsCompleted, OnlyHistoryMisplaces, TabScrollsWhatIsShown
  <2> QED BY <2>3, <2>4, <2>5 DEF IInv
<1>3. CASE /\ sel' = -1 /\ astr' = IF saved # NULL THEN saved ELSE astr
           /\ saved' = NULL
           /\ recalled' = (recalled \/ saved # NULL)
  <2>1. astr' \in Seq(Chars)
    BY <1>1, <1>3
  <2>2. -1 < Len(elements)
    BY <1>1
  <2>3. Typed'
    BY <1>0, <1>3, <2>1 DEF IInv, Typed
  <2>4. HistoryInStep'
    BY <1>0, <1>3, <2>2 DEF HistoryInStep
  <2>5. LineIsCompleted' /\ TabScrollsWhatIsShown'
    BY <1>0 DEF LineIsCompleted, TabScrollsWhatIsShown
  <2>6. OnlyHistoryMisplaces'
    <3>1. CASE saved # NULL
      BY <1>3, <3>1 DEF OnlyHistoryMisplaces
    <3>2. CASE saved = NULL
      BY <1>0, <1>3, <3>2 DEF IInv, OnlyHistoryMisplaces
    <3> QED BY <3>1, <3>2
  <2> QED BY <2>3, <2>4, <2>5, <2>6 DEF IInv
<1> QED BY <1>0, <1>2, <1>3

(* A list is scrolled, or there is none and the editor ends. *)
LEMMA ScrolledGood ==
  ASSUME IInv, Key, Scrolled
  PROVE  IInv'
<1>1. /\ at = "reading" /\ at' \in {"reading", "no window"}
      /\ UNCHANGED <<prompt, elements, astr, pos, saved, lasttab, poppedup, shown, sel, recalled>>
  BY DEF Key, Reading, Scrolled, line
<1>2. Typed' /\ OnlyHistoryMisplaces' /\ TabScrollsWhatIsShown'
  BY <1>1 DEF IInv, Typed, OnlyHistoryMisplaces, TabScrollsWhatIsShown, Reading
<1>3. LineIsCompleted'
  BY <1>1 DEF IInv, LineIsCompleted, Reading, Completes, IsLongestCommonPrefix, Matches
<1>4. HistoryInStep'
  BY <1>1 DEF IInv, HistoryInStep, Reading
<1> QED BY <1>2, <1>3, <1>4 DEF IInv

LEMMA ScrollGood ==
  ASSUME IInv, Scroll
  PROVE  IInv'
<1>1. CASE Key /\ poppedup /\ Scrolled
  BY <1>1, ScrolledGood
<1>2. CASE Key /\ ~poppedup /\ Edits(astr, pos) /\ Same
  <2>1. astr \in Seq(Chars) /\ pos \in Nat
    BY DEF IInv, Typed
  <2> QED BY <1>2, <2>1, EditsGood
<1> QED BY <1>1, <1>2 DEF Scroll

(* TAB, and that it completes the line as far as it can. *)
LEMMA TabGood ==
  ASSUME IInv, Tab
  PROVE  IInv' /\ Completes(lasttab', astr, astr')
<1> DEFINE t == Try(astr)
<1>0. /\ at = "reading" /\ Key
      /\ \/ /\ lasttab \notin {"none", "not matched"} /\ Scrolled
         \/ /\ astr' = t.match
            /\ UNCHANGED <<prompt, elements, at, saved, sel>>
            /\ poppedup' = ((poppedup /\ t.result # "matched")
                              \/ t.popup \/ t.result = "complete, but not unique")
            /\ shown' = ((shown /\ t.result # "matched")
                           \/ t.popup \/ t.result = "complete, but not unique")
            /\ lasttab' = IF IsPrefix(t.match, astr) THEN t.result ELSE "none"
            /\ IF t.result = "not matched"
               THEN UNCHANGED <<pos, recalled>>
               ELSE pos' = Len(t.match) /\ recalled' = FALSE
  BY DEF Tab, Key, Reading
<1>1. CASE lasttab \notin {"none", "not matched"} /\ Scrolled
  <2>1. IInv'
    BY <1>0, <1>1, ScrolledGood
  <2>2. Completes(lasttab', astr, astr')
    BY <1>0, <1>1 DEF Scrolled, line, IInv, LineIsCompleted, Reading
  <2> QED BY <2>1, <2>2
<1>2. CASE /\ astr' = t.match
           /\ UNCHANGED <<prompt, elements, at, saved, sel>>
           /\ poppedup' = ((poppedup /\ t.result # "matched")
                             \/ t.popup \/ t.result = "complete, but not unique")
           /\ shown' = ((shown /\ t.result # "matched")
                          \/ t.popup \/ t.result = "complete, but not unique")
           /\ lasttab' = IF IsPrefix(t.match, astr) THEN t.result ELSE "none"
           /\ IF t.result = "not matched"
              THEN UNCHANGED <<pos, recalled>>
              ELSE pos' = Len(t.match) /\ recalled' = FALSE
  <2>1. prompt \in Prompts /\ astr \in Seq(Chars)
    BY DEF IInv, Typed
  <2>p. t.popup \in BOOLEAN /\ (t.result = "not unique" => t.popup)
    BY DEF Try
  <2>m. t.result = "matched" => ~t.popup
    BY DEF Try
  <2>2. /\ t.result \in Results /\ t.match \in Seq(Chars)
        /\ t.result = "not matched" => t.match = astr
        /\ t.result # "not matched" => IsPrefix(astr, t.match)
        /\ Completes(t.result, astr, t.match)
    BY <2>1, TryIs
  <2> HIDE DEF t
  <2>3. Len(t.match) \in Nat
    BY <2>2, LenProperties
  <2>4. Completes(lasttab', astr, astr')
    BY <1>2, <2>2 DEF Completes
  <2>5. Typed'
    <3>1. poppedup' \in BOOLEAN /\ shown' \in BOOLEAN
      BY <1>2
    <3> QED BY <1>0, <1>2, <2>2, <2>3, <3>1 DEF IInv, Typed
  <2>s. TabScrollsWhatIsShown'
    <3> SUFFICES ASSUME poppedup', lasttab' \notin {"none", "not matched"} PROVE shown'
      BY DEF TabScrollsWhatIsShown
    <3>1. lasttab' = t.result /\ t.result \in {"matched", "complete, but not unique", "not unique"}
      BY <1>2, <2>2 DEF Results
    <3>2. CASE t.result = "matched"
      BY <1>2, <2>p, <2>m, <3>2
    <3>3. CASE t.result # "matched"
      BY <1>2, <2>p, <3>1, <3>3
    <3> QED BY <3>2, <3>3
  <2>u. UNCHANGED <<prompt, at>>
    BY <1>2
  <2>6. HistoryInStep'
    BY <1>0, <1>2 DEF IInv, HistoryInStep, Reading
  <2>7. LineIsCompleted'
    <3> SUFFICES ASSUME lasttab' \notin {"none", "not matched"}
                 PROVE  Completes(lasttab, astr, astr)'
      BY DEF LineIsCompleted
    <3>1. lasttab' = t.result /\ IsPrefix(t.match, astr) /\ IsPrefix(astr, t.match)
      BY <1>2, <2>2
    <3>2. t.match = astr
      BY <2>1, <2>2, <3>1, PrefixOrder
    <3>3. Completes(lasttab', astr', astr')
      BY <1>2, <2>2, <3>1, <3>2
    <3> QED BY <2>u, <3>3 DEF Completes, Matches, IsLongestCommonPrefix
  <2>8. OnlyHistoryMisplaces'
    <3>1. CASE t.result = "not matched"
      BY <1>0, <1>2, <2>2, <3>1 DEF IInv, OnlyHistoryMisplaces
    <3>2. CASE t.result # "not matched"
      <4>1. pos' = Len(t.match) /\ astr' = t.match
        BY <1>2, <3>2
      <4>2. pos' = Len(astr') /\ pos' \in Nat
        BY <2>3, <4>1
      <4>3. ~(pos' > Len(astr'))
        BY <4>2
      <4> QED BY <1>0, <2>u, <4>3 DEF OnlyHistoryMisplaces
    <3> QED BY <3>1, <3>2
  <2> QED BY <2>4, <2>5, <2>s, <2>6, <2>7, <2>8 DEF IInv
<1> QED BY <1>0, <1>1, <1>2

LEMMA AddIs ==
  ASSUME Typed, NEW text \in Seq(Chars)
  PROVE  Add(text) \in Seq(Seq(Chars))
BY AppendProperties DEF Typed, Add

(* A state that is not read from needs only its line. *)
LEMMA CommandGood ==
  ASSUME IInv, at' = "command", prompt' \in Prompts,
         UNCHANGED <<pos, saved, lasttab, sel, recalled>>,
         UNCHANGED poppedup, shown' \in BOOLEAN,
         astr' \in Seq(Chars), Len(astr) <= Len(astr'), at = "reading",
         elements' \in Seq(Seq(Chars))
  PROVE  IInv'
<1>1. Typed'
  BY DEF IInv, Typed
<1>2. LineIsCompleted' /\ HistoryInStep' /\ TabScrollsWhatIsShown'
  BY DEF LineIsCompleted, HistoryInStep, TabScrollsWhatIsShown, Reading
<1>3. OnlyHistoryMisplaces'
  <2>1. Len(astr) \in Nat /\ Len(astr') \in Nat /\ pos \in Nat
    BY LenProperties DEF IInv, Typed
  <2>2. pos > Len(astr') => pos > Len(astr)
    BY <2>1
  <2> QED BY <2>2 DEF IInv, OnlyHistoryMisplaces
<1> QED BY <1>1, <1>2, <1>3 DEF IInv

(* RET: what a prompt that accepts only what it offers is given. *)
LEMMA ReturnGood ==
  ASSUME IInv, Return
  PROVE  /\ IInv'
         /\ prompt.strict /\ astr # <<>> /\ at' = "command" =>
              IF astr \in prompt.offers THEN astr' = astr
              ELSE Matches(astr) = {astr'}
<1>0. /\ at = "reading" /\ prompt \in Prompts /\ astr \in Seq(Chars)
      /\ Len(astr) \in Nat /\ Typed /\ elements \in Seq(Seq(Chars))
  BY LenProperties DEF Return, Reading, IInv, Typed
<1>1. CASE /\ ~prompt.strict \/ astr = <<>>
           /\ at' = "command" /\ shown' = FALSE
           /\ UNCHANGED <<prompt, line, elements, sel, recalled>>
  <2>1. UNCHANGED <<astr, pos, saved, lasttab, poppedup>>
    BY <1>1 DEF line
  <2>2. Len(astr) <= Len(astr')
    BY <1>0, <2>1
  <2>3. IInv'
    BY <1>0, <1>1, <2>1, <2>2, CommandGood
  <2> QED BY <1>1, <2>3
<1>2. CASE /\ prompt.strict /\ astr # <<>> /\ Accepts(Completed(astr))
           /\ at' = "command" /\ shown' = FALSE
           /\ astr' = Completed(astr)
           /\ elements' = IF prompt.history THEN Add(Completed(astr)) ELSE elements
           /\ UNCHANGED <<prompt, pos, saved, lasttab, poppedup, sel, recalled>>
  <2> DEFINE c == Completed(astr)
  <2>1. /\ c \in Seq(Chars) /\ Len(astr) <= Len(c)
        /\ c = astr \/ Matches(astr) = {c}
        /\ astr \in prompt.offers => c = astr
    BY <1>0, <1>2, CompletedIs
  <2>2. c \in prompt.offers
    BY <1>2 DEF Accepts
  <2> HIDE DEF c
  <2>3. Add(c) \in Seq(Seq(Chars))
    BY <1>0, <2>1, AddIs
  <2>4. elements' \in Seq(Seq(Chars))
    BY <1>0, <1>2, <2>3 DEF c
  <2>5. astr' = c
    BY <1>2 DEF c
  <2>6. IInv'
    BY <1>0, <1>2, <2>1, <2>4, <2>5, CommandGood
  <2>7. IF astr \in prompt.offers THEN astr' = astr ELSE Matches(astr) = {astr'}
    BY <2>1, <2>2, <2>5
  <2> QED BY <2>6, <2>7
<1>3. CASE /\ poppedup' = (poppedup \/ Try(astr).popup)
           /\ shown' = Try(astr).popup
           /\ Reads(prompt) /\ UNCHANGED prompt
  <2>1. poppedup' \in BOOLEAN /\ shown' \in BOOLEAN
    BY <1>3 DEF Try
  <2>3. IInv'
    BY <1>0, <1>3, <2>1, ReadsGood
  <2>2. at' # "command"
    BY <1>3 DEF Reads
  <2> QED BY <2>2, <2>3
<1> QED BY <1>1, <1>2, <1>3 DEF Return

-----------------------------------------------------------------------------
(* The invariant, and what follows from it.                                *)

LEMMA NextGood ==
  ASSUME IInv, [Next]_vars
  PROVE  IInv'
<1>1. CASE UNCHANGED vars
  BY <1>1 DEF vars, line, IInv, Typed, LineIsCompleted, HistoryInStep,
     OnlyHistoryMisplaces, TabScrollsWhatIsShown, Reading, Completes,
     IsLongestCommonPrefix, Matches
<1>2. CASE Next
  <2>1. \/ BeginningOfLine \/ EndOfLine \/ BackwardChar \/ ForwardChar \/ KillLine
        \/ BackwardDeleteChar \/ DeleteChar
        \/ \E c \in Chars : SelfInsert(c)
        => IInv'
    BY LineGood
  <2>2. ASSUME NEW p \in Prompts, Prompt(p) PROVE IInv'
    BY <2>2, ReadsGood DEF Prompt, IInv
  <2>3. Previous \/ NextElement \/ Tab \/ Scroll \/ Return => IInv'
    BY PreviousGood, NextElementGood, TabGood, ScrollGood, ReturnGood
  <2>4. ASSUME Cancel PROVE IInv'
    <3>1. /\ at = "reading" /\ at' = "command"
          /\ UNCHANGED <<prompt, astr, pos, saved, lasttab, poppedup, elements, sel, recalled>>
          /\ shown' = FALSE
      BY <2>4 DEF Cancel, Reading, line
    <3>2. Len(astr) <= Len(astr')
      BY <3>1, LenProperties DEF IInv, Typed
    <3> QED BY <3>1, <3>2, CommandGood DEF IInv, Typed
  <2> QED BY <1>2, <2>1, <2>2, <2>3, <2>4 DEF Next
<1> QED BY <1>1, <1>2

LEMMA IInvHolds == Spec => []IInv
<1>1. IInv /\ [Next]_vars => IInv'
  BY NextGood
<1> QED BY InitGood, <1>1, PTL DEF Spec

(* The reader of the line and the history never disagree (term_minibuf.c   *)
(* keeps the line to come back to, history.c the element selected).        *)
THEOREM HistoryStaysInStep == Spec => []HistoryInStep
<1>1. IInv => HistoryInStep
  BY DEF IInv
<1> QED BY <1>1, IInvHolds, PTL

(* No assertion about the line fails, and the cursor is within the line,   *)
(* as long as no element of the history has taken its place; and that of   *)
(* completion.c:111 does not fail when TAB scrolls the completions, for    *)
(* any prompts, repeated any number of times.                              *)
THEOREM AssertionsAreAlwaysMet == Spec => []AssertionsAreMet
<1>1. IInv => AssertionsAreMet
  BY DEF IInv, AssertionsAreMet
<1> QED BY <1>1, IInvHolds, PTL

(* completion_try and the prompts that use it, whatever is offered.        *)
THEOREM CompletionIsAlwaysSound == Spec => CompletionIsSound
<1>1. ASSUME IInv
      PROVE  /\ Tab /\ astr # <<>> /\ Matches(astr) # {} =>
                  /\ IsLongestCommonPrefix(astr', Matches(astr))
                  /\ lasttab' = "matched" => Matches(astr) = {astr'}
             /\ Return /\ prompt.strict /\ astr # <<>> /\ at' = "command" =>
                  IF astr \in prompt.offers THEN astr' = astr
                  ELSE Matches(astr) = {astr'}
  BY <1>1, TabGood, ReturnGood DEF Completes
<1> QED BY <1>1, IInvHolds, PTL DEF CompletionIsSound

=============================================================================
