--------------------------- MODULE CompilationProofs ---------------------------
(* Theorems about Compilation.  For every set of programs that can be       *)
(* parsed, as large and as deeply nested as one likes: the edges of the     *)
(* graph order the tasks as the program does, and a plain program compiles. *)
(* For all that the server may have, as far as WorldAssumption and          *)
(* ServerAssumption tell, and every machine that may be written: the        *)
(* account, the cluster and the subnets found apart and by name belong      *)
(* together, and the text that decompilation writes of them finds them      *)
(* again.                                                                  *)
EXTENDS Compilation, WellFoundedInduction, TLAPS

-----------------------------------------------------------------------------
(* Numbers.                                                                *)

LEMMA LeastNumber ==
    ASSUME NEW T, T \subseteq Nat, T # {}
    PROVE  \E i \in T : \A j \in T : i <= j
<1>1. PICK i \in T : \A j \in T : ~ (<<j, i>> \in OpToRel(<, Nat))
  BY NatLessThanWellFounded, WFMin
<1>2. \A j \in T : <<j, i>> \in Nat \X Nat
  OBVIOUS
<1>3. \A j \in T : ~ (j < i)
  BY <1>1, <1>2 DEF OpToRel
<1> QED
  BY <1>3

\* The largest of some numbers, none of which is above n.
LEMMA LargestNumber ==
    ASSUME NEW T, T \subseteq Nat, T # {}, NEW n \in Nat, \A x \in T : x <= n
    PROVE  Max(T) \in T /\ \A x \in T : x <= Max(T)
<1> DEFINE bounds == {m \in Nat : \A x \in T : x <= m}
<1>1. PICK m \in bounds : \A l \in bounds : m <= l
  <2>1. bounds \subseteq Nat /\ n \in bounds
    OBVIOUS
  <2> QED
    BY <2>1, LeastNumber
<1>2. m \in T
  <2> SUFFICES ASSUME m \notin T PROVE FALSE
    OBVIOUS
  <2>1. PICK x \in T : TRUE
    OBVIOUS
  <2>2. \A y \in T : y \in Nat /\ y <= m /\ y # m
    OBVIOUS
  <2>3. m - 1 \in Nat /\ \A y \in T : y <= m - 1
    BY <2>1, <2>2
  <2> QED
    BY <1>1, <2>3
<1>3. \E x \in T : \A y \in T : x >= y
  BY <1>2
<1> QED
  BY <1>3 DEF Max

-----------------------------------------------------------------------------
(* Sequences.                                                              *)

\* The parts of a flattened sequence: it is what its definition says it is, ...
LEMMA FlattenIs ==
    ASSUME NEW T, NEW s \in Seq(Seq(T)), s # <<>>
    PROVE  \E g : /\ g = [i \in 1 .. Len(s) |-> IF i = 1 THEN s[i] ELSE g[i - 1] \o s[i]]
                  /\ FlattenSeq(s) = g[Len(s)]
<1>1. Len(s) \in Nat /\ Len(s) # 0 /\ DOMAIN s = 1 .. Len(s)
  OBVIOUS
<1> DEFINE Fold(g, m) == /\ g \in [1 .. m -> Seq(T)]
                         /\ \A i \in 1 .. m : g[i] = IF i = 1 THEN s[i] ELSE g[i - 1] \o s[i]
           bad == {m \in 1 .. Len(s) : \A g \in [1 .. m -> Seq(T)] : ~ Fold(g, m)}
<1> HIDE DEF Fold, bad
<1>2. bad = {}
  <2> SUFFICES ASSUME bad # {} PROVE FALSE
    OBVIOUS
  <2>1. bad \subseteq Nat
    BY <1>1 DEF bad
  <2>2. PICK m \in bad : \A l \in bad : m <= l
    BY <2>1, LeastNumber
  <2>3. m \in 1 .. Len(s) /\ m \in Nat /\ \A g \in [1 .. m -> Seq(T)] : ~ Fold(g, m)
    BY <1>1 DEF bad
  <2>4. CASE m = 1
    <3>1. Fold([i \in 1 .. m |-> s[1]], m)
      BY <1>1, <2>4 DEF Fold
    <3> QED
      BY <2>3, <2>4, <3>1
  <2>5. CASE m # 1
    <3>1. m - 1 \in 1 .. Len(s) /\ m - 1 \notin bad
      BY <1>1, <2>2, <2>3, <2>5
    <3>2. PICK g \in [1 .. (m - 1) -> Seq(T)] : Fold(g, m - 1)
      BY <3>1 DEF bad
    <3>3. m - 1 \in 1 .. (m - 1) /\ m \in 1 .. Len(s)
      BY <1>1, <2>3, <3>1
    <3> DEFINE h == [i \in 1 .. m |-> IF i = m THEN g[m - 1] \o s[m] ELSE g[i]]
    <3>4. \A i \in 1 .. m : h[i] = IF i = m THEN g[m - 1] \o s[m] ELSE g[i]
      OBVIOUS
    <3>5. s[m] \in Seq(T) /\ g[m - 1] \in Seq(T)
      BY <1>1, <3>2, <3>3
    <3>6. h \in [1 .. m -> Seq(T)]
      <4>1. \A i \in 1 .. m : i # m => i \in 1 .. (m - 1)
        BY <2>3, <3>1
      <4> QED
        BY <3>2, <3>5, <4>1
    <3>7. \A i \in 1 .. m : h[i] = IF i = 1 THEN s[i] ELSE h[i - 1] \o s[i]
      <4> TAKE i \in 1 .. m
      <4>1. CASE i = m
        <5>1. i # 1 /\ i - 1 \in 1 .. m /\ i - 1 # m /\ i - 1 = m - 1
          BY <2>3, <2>5, <4>1
        <5>2. h[i - 1] = g[m - 1] /\ h[i] = g[m - 1] \o s[i]
          BY <3>4, <4>1, <5>1
        <5> HIDE DEF h
        <5> QED
          BY <5>1, <5>2
      <4>2. CASE i # m
        <5>1. i \in 1 .. (m - 1) /\ (i # 1 => i - 1 \in 1 .. (m - 1) /\ i - 1 # m)
          BY <2>3, <4>2, <3>3
        <5>2. h[i] = g[i] /\ (i # 1 => h[i - 1] = g[i - 1])
          BY <3>3, <3>4, <4>2, <5>1
        <5>3. g[i] = IF i = 1 THEN s[i] ELSE g[i - 1] \o s[i]
          BY <3>2, <5>1 DEF Fold
        <5> QED
          BY <5>2, <5>3
      <4> QED
        BY <4>1, <4>2
    <3>8. Fold(h, m)
      BY <3>6, <3>7 DEF Fold
    <3> QED
      BY <2>3, <3>6, <3>8
  <2> QED
    BY <2>4, <2>5
<1>3. PICK f \in [1 .. Len(s) -> Seq(T)] : Fold(f, Len(s))
  <2>1. Len(s) \notin bad /\ Len(s) \in 1 .. Len(s)
    BY <1>1, <1>2
  <2> QED
    BY <2>1 DEF bad
<1>4. f = [i \in 1 .. Len(s) |-> IF i = 1 THEN s[i] ELSE f[i - 1] \o s[i]]
  BY <1>3 DEF Fold
<1> DEFINE g == CHOOSE h : h = [i \in 1 .. Len(s) |-> IF i = 1 THEN s[i] ELSE h[i - 1] \o s[i]]
<1>5. g = [i \in 1 .. Len(s) |-> IF i = 1 THEN s[i] ELSE g[i - 1] \o s[i]]
  BY <1>4
<1>6. FlattenSeq(s) = g[Len(s)]
  BY <1>1, Zenon DEF FlattenSeq
<1> QED
  BY <1>5, <1>6

\* ... and holds what the parts hold.
LEMMA FlattenHolds ==
    ASSUME NEW T, NEW s \in Seq(Seq(T))
    PROVE  /\ FlattenSeq(s) \in Seq(T)
           /\ ToSet(FlattenSeq(s)) = UNION {ToSet(s[i]) : i \in DOMAIN s}
<1>1. CASE s = <<>>
  <2>1. FlattenSeq(s) = <<>>
    BY <1>1, Zenon DEF FlattenSeq
  <2>2. DOMAIN s = {} /\ ToSet(<<>>) = {} /\ <<>> \in Seq(T)
    BY <1>1 DEF ToSet
  <2>3. UNION {ToSet(s[i]) : i \in DOMAIN s} = {}
    BY <2>2
  <2> QED
    BY <2>1, <2>2, <2>3
<1>2. CASE s # <<>>
  <2>1. Len(s) \in Nat /\ Len(s) # 0 /\ DOMAIN s = 1 .. Len(s)
    BY <1>2
  <2>2. PICK g : /\ g = [i \in 1 .. Len(s) |-> IF i = 1 THEN s[i] ELSE g[i - 1] \o s[i]]
                 /\ FlattenSeq(s) = g[Len(s)]
    BY <1>2, FlattenIs
  <2> DEFINE Upto(m) == UNION {ToSet(s[i]) : i \in 1 .. m}
             bad == {m \in 1 .. Len(s) : ~ (g[m] \in Seq(T) /\ ToSet(g[m]) = Upto(m))}
  <2> HIDE DEF bad
  <2>3. bad = {}
    <3> SUFFICES ASSUME bad # {} PROVE FALSE
      OBVIOUS
    <3>1. bad \subseteq Nat
      BY <2>1 DEF bad
    <3>2. PICK m \in bad : \A l \in bad : m <= l
      BY <3>1, LeastNumber
    <3>3. m \in 1 .. Len(s) /\ m \in Nat /\ s[m] \in Seq(T) /\ ~ (g[m] \in Seq(T) /\ ToSet(g[m]) = Upto(m))
      BY <2>1 DEF bad
    <3>4. CASE m = 1
      <4>1. g[m] = s[m]
        BY <2>1, <2>2, <3>3, <3>4
      <4>2. Upto(m) = ToSet(s[m])
        BY <3>4
      <4> QED
        BY <3>3, <4>1, <4>2
    <3>5. CASE m # 1
      <4>1. m - 1 \in 1 .. Len(s) /\ m - 1 \notin bad
        BY <2>1, <3>2, <3>3, <3>5
      <4>2. g[m] = g[m - 1] \o s[m]
        BY <2>1, <2>2, <3>3, <3>5
      <4>3. g[m - 1] \in Seq(T) /\ ToSet(g[m - 1]) = Upto(m - 1)
        BY <4>1 DEF bad
      <4>4. g[m] \in Seq(T) /\ ToSet(g[m]) = ToSet(g[m - 1]) \cup ToSet(s[m])
        <5> DEFINE u == g[m - 1]  v == s[m]
        <5>1. u \in Seq(T) /\ v \in Seq(T)
          BY <3>3, <4>3
        <5> HIDE DEF u, v
        <5>2. u \o v \in Seq(T) /\ Len(u \o v) = Len(u) + Len(v) /\ Len(u) \in Nat /\ Len(v) \in Nat
              /\ DOMAIN u = 1 .. Len(u) /\ DOMAIN v = 1 .. Len(v)
              /\ DOMAIN (u \o v) = 1 .. (Len(u) + Len(v))
          BY <5>1
        <5>3. \A i \in 1 .. Len(u) : (u \o v)[i] = u[i] /\ i \in 1 .. (Len(u) + Len(v))
          BY <5>1, <5>2
        <5>4. \A i \in 1 .. Len(v) :
                 (u \o v)[Len(u) + i] = v[i] /\ Len(u) + i \in 1 .. (Len(u) + Len(v))
          BY <5>1, <5>2
        <5>5. \A i \in 1 .. (Len(u) + Len(v)) :
                 (u \o v)[i] \in {u[j] : j \in 1 .. Len(u)} \cup {v[j] : j \in 1 .. Len(v)}
          <6> TAKE i \in 1 .. (Len(u) + Len(v))
          <6>1. CASE i <= Len(u)
            BY <5>2, <5>3, <6>1
          <6>2. CASE ~ (i <= Len(u))
            <7>1. i - Len(u) \in 1 .. Len(v) /\ i = Len(u) + (i - Len(u))
              BY <5>2, <6>2
            <7> QED
              BY <5>4, <7>1
          <6> QED
            BY <6>1, <6>2
        <5>6. {(u \o v)[i] : i \in 1 .. (Len(u) + Len(v))}
                 = {u[j] : j \in 1 .. Len(u)} \cup {v[j] : j \in 1 .. Len(v)}
          <6> DEFINE U == {u[j] : j \in 1 .. Len(u)}  V == {v[j] : j \in 1 .. Len(v)}
                     W == {(u \o v)[i] : i \in 1 .. (Len(u) + Len(v))}
          <6>1. W \subseteq U \cup V
            BY <5>5
          <6>2. U \subseteq W
            BY <5>3
          <6>3. V \subseteq W
            BY <5>4
          <6> QED
            BY <6>1, <6>2, <6>3
        <5>7. ToSet(u \o v) = ToSet(u) \cup ToSet(v)
          BY <5>2, <5>6 DEF ToSet
        <5> QED
          BY <4>2, <5>2, <5>7 DEF u, v
      <4>5. Upto(m) = Upto(m - 1) \cup ToSet(s[m])
        <5>1. 1 .. m = (1 .. (m - 1)) \cup {m}
          BY <3>3, <4>1
        <5> QED
          BY <5>1
      <4> QED
        BY <3>3, <4>3, <4>4, <4>5
    <3> QED
      BY <3>4, <3>5
  <2>4. g[Len(s)] \in Seq(T) /\ ToSet(g[Len(s)]) = Upto(Len(s))
    <3>1. Len(s) \notin bad /\ Len(s) \in 1 .. Len(s)
      BY <2>1, <2>3
    <3> QED
      BY <3>1 DEF bad
  <2> QED
    BY <2>1, <2>2, <2>4
<1> QED
  BY <1>1, <1>2

-----------------------------------------------------------------------------
(* Blocks.                                                                 *)

Texts == Seq([indent : Nat, word : Items \cup Visitors \cup {"pass"}, name : Nat, var : Nat])

LEMMA TextType ==
    ASSUME NEW t \in Texts
    PROVE  /\ Len(t) \in Nat /\ DOMAIN t = 1 .. Len(t) /\ DOMAIN t \subseteq Nat
           /\ \A k \in DOMAIN t : /\ t[k].indent \in Nat /\ t[k].name \in Nat
                                  /\ t[k].word \in Items \cup Visitors \cup {"pass"}
<1> DEFINE AnyLine == [indent : Nat, word : Items \cup Visitors \cup {"pass"}, name : Nat, var : Nat]
<1>1. t \in Seq(AnyLine)
  BY DEF Texts
<1> HIDE DEF AnyLine
<1>2. Len(t) \in Nat /\ DOMAIN t = 1 .. Len(t) /\ \A k \in DOMAIN t : t[k] \in AnyLine
  BY <1>1
<1> QED
  BY <1>2 DEF AnyLine

\* Blocks lie in one another or apart.
LEMMA Nested ==
    ASSUME NEW t \in Texts, NEW i \in DOMAIN t, NEW j \in DOMAIN t, NEW k \in DOMAIN t
    PROVE  /\ Encloses(t, i, j) /\ Within(t, j, k) => Encloses(t, i, k)
           /\ Within(t, i, j) /\ Encloses(t, j, k) => Encloses(t, i, k)
           /\ Within(t, i, j) /\ Within(t, j, k) => Within(t, i, k)
           /\ Within(t, i, k) /\ i < j /\ j <= k => Encloses(t, i, j)
           /\ Within(t, i, k) => i <= k
<1>1. /\ Len(t) \in Nat /\ DOMAIN t = 1 .. Len(t) /\ \A l \in DOMAIN t : t[l].indent \in Nat
  BY TextType
<1>2. ASSUME Encloses(t, i, j), Encloses(t, j, k) PROVE Encloses(t, i, k)
  <2>1. i < j /\ j < k /\ t[j].indent > t[i].indent
    BY <1>1, <1>2 DEF Encloses
  <2>2. ASSUME NEW l \in (i + 1) .. k PROVE t[l].indent > t[i].indent
    <3>1. l \in DOMAIN t /\ (l \in (i + 1) .. j \/ l \in (j + 1) .. k)
      BY <1>1, <2>1
    <3> QED
      BY <1>1, <1>2, <2>1, <3>1 DEF Encloses
  <2> QED
    BY <1>1, <2>1, <2>2 DEF Encloses
<1>3. ASSUME Within(t, i, k), i < j, j <= k PROVE Encloses(t, i, j)
  BY <1>1, <1>3 DEF Within, Encloses
<1> QED
  BY <1>1, <1>2, <1>3 DEF Within, Encloses

\* The lines of a block are in the same blocks, and each is before what is
\* in the next.
LEMMA Siblings ==
    ASSUME NEW t \in Texts, NEW i \in DOMAIN t, NEW k \in DOMAIN t, Level(t, i, k), NEW w \in DOMAIN t
    PROVE  /\ Encloses(t, w, i) <=> Encloses(t, w, k)
           /\ Encloses(t, w, k) => w < i
           /\ Within(t, i, w) => w < k
           /\ Level(t, k, w) => Level(t, i, w)
           /\ i < w /\ Level(t, w, k) => Level(t, i, w)
<1>1. /\ Len(t) \in Nat /\ DOMAIN t = 1 .. Len(t) /\ \A l \in DOMAIN t : t[l].indent \in Nat
  BY TextType
<1>2. /\ i < k /\ t[i].indent = t[k].indent
      /\ \A l \in (i + 1) .. k : l \in DOMAIN t /\ t[l].indent >= t[i].indent
  BY <1>1 DEF Level
<1>3. ASSUME Encloses(t, w, i) PROVE Encloses(t, w, k)
  <2>1. w < i /\ t[i].indent > t[w].indent
    BY <1>1, <1>3 DEF Encloses
  <2>2. ASSUME NEW l \in (w + 1) .. k PROVE t[l].indent > t[w].indent
    <3>1. l \in DOMAIN t /\ (l \in (w + 1) .. i \/ l \in (i + 1) .. k)
      BY <1>1, <2>1
    <3> QED
      BY <1>1, <1>2, <1>3, <2>1, <3>1 DEF Encloses
  <2> QED
    BY <1>1, <1>2, <2>1, <2>2 DEF Encloses
<1>4. ASSUME Encloses(t, w, k) PROVE w < i /\ Encloses(t, w, i)
  <2>1. w < k /\ t[k].indent > t[w].indent
    BY <1>1, <1>4 DEF Encloses
  <2>2. w < i
    BY <1>1, <1>2, <2>1
  <2> QED
    BY <1>1, <1>2, <1>4, <2>2 DEF Encloses
<1>5. ASSUME Within(t, i, w) PROVE w < k
  BY <1>1, <1>2, <1>5 DEF Within, Encloses
<1>6. ASSUME Level(t, k, w) PROVE Level(t, i, w)
  <2>1. /\ k < w /\ t[k].indent = t[w].indent
        /\ \A l \in (k + 1) .. w : t[l].indent >= t[k].indent
    BY <1>6 DEF Level
  <2>2. ASSUME NEW l \in (i + 1) .. w PROVE t[l].indent >= t[i].indent
    <3>1. l \in (i + 1) .. k \/ l \in (k + 1) .. w
      BY <1>1, <1>2, <2>1
    <3> QED
      BY <1>2, <2>1, <3>1
  <2> QED
    BY <1>1, <1>2, <2>1, <2>2 DEF Level
<1>7. ASSUME i < w, Level(t, w, k) PROVE Level(t, i, w)
  BY <1>1, <1>2, <1>7 DEF Level
<1> QED
  BY <1>3, <1>4, <1>5, <1>6, <1>7

\* No line of a block is indented less than its first one.
LEMMA FirstIsOutermost ==
    ASSUME NEW t \in Texts, Legible(t), NEW i \in DOMAIN t, NEW k \in DOMAIN t, Encloses(t, i, k)
    PROVE  t[k].indent >= t[i + 1].indent
<1>1. /\ Len(t) \in Nat /\ DOMAIN t = 1 .. Len(t) /\ \A l \in DOMAIN t : t[l].indent \in Nat
  BY TextType
<1> DEFINE bad == {l \in DOMAIN t : Encloses(t, i, l) /\ t[l].indent < t[i + 1].indent}
<1>2. ASSUME bad # {} PROVE FALSE
  <2>1. bad \subseteq Nat
    BY <1>1
  <2> HIDE DEF bad
  <2>2. PICK l \in bad : \A m \in bad : l <= m
    BY <1>2, <2>1, LeastNumber
  <2>3. l \in DOMAIN t /\ Encloses(t, i, l) /\ t[l].indent < t[i + 1].indent
    BY DEF bad
  <2>4. /\ i < l /\ t[l].indent > t[i].indent
        /\ \A m \in (i + 1) .. (l - 1) : m \in DOMAIN t /\ t[m].indent >= t[i + 1].indent
    <3>1. i < l /\ \A m \in (i + 1) .. l : t[m].indent > t[i].indent
      BY <2>3 DEF Encloses
    <3>2. ASSUME NEW m \in (i + 1) .. (l - 1) PROVE m \in DOMAIN t /\ t[m].indent >= t[i + 1].indent
      <4>1. m \in DOMAIN t /\ m < l /\ Encloses(t, i, m) /\ i + 1 \in DOMAIN t
        BY <1>1, <2>3, <3>1 DEF Encloses
      <4>2. m \notin bad
        BY <1>1, <2>2, <2>3, <4>1
      <4> QED
        BY <1>1, <4>1, <4>2 DEF bad
    <3> QED
      BY <1>1, <2>3, <3>1, <3>2
  <2>5. l \in 2 .. Len(t) /\ l - 1 \in (i + 1) .. (l - 1)
    BY <1>1, <2>3, <2>4
  <2>6. CASE t[l].indent > t[l - 1].indent
    BY <1>1, <2>3, <2>4, <2>5, <2>6
  <2>7. CASE \E j \in 1 .. (l - 1) : Level(t, j, l)
    <3>1. PICK j \in 1 .. (l - 1) : Level(t, j, l)
      BY <2>7
    <3>2. j \in DOMAIN t /\ t[j].indent = t[l].indent /\ Encloses(t, i, j)
      <4>1. j \in DOMAIN t
        BY <1>1, <2>3
      <4>2. Encloses(t, i, j)
        BY <2>3, <3>1, <4>1, Siblings
      <4> QED
        BY <3>1, <4>1, <4>2 DEF Level
    <3>3. j \in (i + 1) .. (l - 1)
      BY <1>1, <3>1, <3>2 DEF Encloses
    <3> QED
      BY <1>1, <2>3, <2>4, <3>2, <3>3
  <2> QED
    BY <2>5, <2>6, <2>7 DEF Legible
<1>3. i + 1 \in DOMAIN t
  BY <1>1 DEF Encloses
<1> QED
  BY <1>1, <1>2, <1>3

\* A line is in one block.
LEMMA OneParent ==
    ASSUME NEW t \in Texts, Legible(t), NEW i \in DOMAIN t, NEW j \in DOMAIN t, NEW k \in DOMAIN t,
           Child(t, i, k), Child(t, j, k)
    PROVE  i = j
<1>1. /\ Len(t) \in Nat /\ DOMAIN t = 1 .. Len(t) /\ \A l \in DOMAIN t : t[l].indent \in Nat
  BY TextType
<1>2. ASSUME NEW a \in DOMAIN t, NEW b \in DOMAIN t, Child(t, a, k), Child(t, b, k) PROVE ~ (a < b)
  <2> SUFFICES ASSUME a < b PROVE FALSE
    OBVIOUS
  <2>1. Encloses(t, a, k) /\ Encloses(t, b, k) /\ t[k].indent = t[a + 1].indent
    BY <1>2 DEF Child
  <2>2. b < k /\ t[k].indent > t[b].indent
    BY <1>1, <2>1 DEF Encloses
  <2>3. Encloses(t, a, b)
    BY <1>1, <2>1, <2>2, Nested DEF Within
  <2>4. t[b].indent >= t[a + 1].indent /\ a + 1 \in DOMAIN t
    BY <1>1, <2>2, <2>3, FirstIsOutermost
  <2> QED
    BY <1>1, <2>1, <2>2, <2>4
<1> QED
  BY <1>1, <1>2

\* A line that opens a block has a first line in it.
LEMMA OpensBlock ==
    ASSUME NEW t \in Texts, Legible(t), NEW k \in DOMAIN t, t[k].word \notin {"task", "pass"}
    PROVE  k + 1 \in DOMAIN t /\ Child(t, k, k + 1)
<1>1. Len(t) \in Nat /\ DOMAIN t = 1 .. Len(t)
  BY TextType
<1>2. k < Len(t) /\ t[k + 1].indent > t[k].indent
  BY DEF Legible
<1>3. (k + 1) .. (k + 1) = {k + 1}
  BY <1>1
<1> QED
  BY <1>1, <1>2, <1>3 DEF Child, Encloses

-----------------------------------------------------------------------------
(* Edges.                                                                  *)

\* There is an edge from line f to line k; and line a comes before line b.
Leads(t, f, k) == k \in GraphLines(t) /\ f \in From(t, k)
Ordered(t, a, b) ==
    /\ a \in GraphLines(t) /\ b \in GraphLines(t)
    /\ \E i, k \in DOMAIN t : Precedes(t, i, k) /\ Within(t, i, a) /\ Within(t, k, b)

LEMMA EdgesLead ==
    ASSUME NEW t \in Texts
    PROVE  \A e : e \in ToSet(CreateEdges(t)) <=>
               \E f, k \in DOMAIN t : Leads(t, f, k) /\ e = <<t[f].name, t[k].name>>
<1> DEFINE from(k) == IF k \in GraphLines(t) THEN From(t, k) ELSE {}
           edge(f, k) == IF f \in from(k) THEN << <<t[f].name, t[k].name>> >> ELSE <<>>
           to(k) == FlattenSeq([f \in DOMAIN t |-> edge(f, k)])
           pairs == Nat \X Nat
<1>1. Len(t) \in Nat /\ DOMAIN t = 1 .. Len(t) /\ \A k \in DOMAIN t : t[k].name \in Nat
  BY TextType
<1>2. ASSUME NEW k \in DOMAIN t
      PROVE  /\ to(k) \in Seq(pairs)
             /\ ToSet(to(k)) = {<<t[f].name, t[k].name>> : f \in {g \in DOMAIN t : Leads(t, g, k)}}
  <2>1. ASSUME NEW f \in DOMAIN t
        PROVE  /\ edge(f, k) \in Seq(pairs)
               /\ ToSet(edge(f, k)) = IF Leads(t, f, k) THEN {<<t[f].name, t[k].name>>} ELSE {}
    <3>1. f \in from(k) <=> Leads(t, f, k)
      BY DEF Leads
    <3>2. <<t[f].name, t[k].name>> \in pairs
      BY <1>1
    <3> HIDE DEF from, pairs
    <3>3. /\ << <<t[f].name, t[k].name>> >> \in Seq(pairs) /\ <<>> \in Seq(pairs)
          /\ ToSet(<< <<t[f].name, t[k].name>> >>) = {<<t[f].name, t[k].name>>} /\ ToSet(<<>>) = {}
      BY <3>2 DEF ToSet
    <3> QED
      BY <3>1, <3>3
  <2> DEFINE s == [f \in DOMAIN t |-> edge(f, k)]
  <2> HIDE DEF edge, pairs
  <2>2. s \in Seq(Seq(pairs)) /\ DOMAIN s = DOMAIN t /\ \A f \in DOMAIN t : s[f] = edge(f, k)
    BY <1>1, <2>1
  <2> HIDE DEF s
  <2>3. FlattenSeq(s) \in Seq(pairs) /\ ToSet(FlattenSeq(s)) = UNION {ToSet(s[f]) : f \in DOMAIN s}
    BY <2>2, FlattenHolds
  <2>4. UNION {ToSet(s[f]) : f \in DOMAIN s}
          = {<<t[f].name, t[k].name>> : f \in {g \in DOMAIN t : Leads(t, g, k)}}
    <3>1. \A f \in DOMAIN t : ToSet(s[f]) = IF Leads(t, f, k) THEN {<<t[f].name, t[k].name>>} ELSE {}
      BY <2>1, <2>2
    <3> QED
      BY <2>2, <3>1
  <2> QED
    BY <2>3, <2>4 DEF s
<1> DEFINE s == [k \in DOMAIN t |-> to(k)]
<1>3. CreateEdges(t) = FlattenSeq(s)
  BY DEF CreateEdges
<1> HIDE DEF to, pairs
<1>4. s \in Seq(Seq(pairs)) /\ DOMAIN s = DOMAIN t /\ \A k \in DOMAIN t : s[k] = to(k)
  BY <1>1, <1>2
<1> HIDE DEF s
<1>5. ToSet(FlattenSeq(s)) = UNION {ToSet(s[k]) : k \in DOMAIN s}
  BY <1>4, FlattenHolds
<1>6. ASSUME NEW e
      PROVE  e \in UNION {ToSet(s[k]) : k \in DOMAIN s} <=>
                 \E f, k \in DOMAIN t : Leads(t, f, k) /\ e = <<t[f].name, t[k].name>>
  <2>1. e \in UNION {ToSet(s[k]) : k \in DOMAIN s} <=> \E k \in DOMAIN t : e \in ToSet(to(k))
    BY <1>4
  <2> QED
    BY <1>2, <2>1
<1> QED
  BY <1>3, <1>5, <1>6

LEMMA PrecedesTrans ==
    ASSUME NEW t \in Texts, NEW i \in DOMAIN t, NEW k \in DOMAIN t, NEW l \in DOMAIN t
    PROVE  /\ Precedes(t, i, k) /\ Precedes(t, k, l) => Precedes(t, i, l)
           /\ Precedes(t, i, l) /\ Precedes(t, k, l) /\ i < k => Precedes(t, i, k)
BY Siblings, TextType DEF Precedes, Level

\* What comes before a line that comes before another one, comes before that.
LEMMA OrderedTrans ==
    ASSUME NEW t \in Texts, NEW a, NEW b, NEW c, Ordered(t, a, b), Ordered(t, b, c)
    PROVE  Ordered(t, a, c)
<1>1. PICK i1 \in DOMAIN t, k1 \in DOMAIN t : Precedes(t, i1, k1) /\ Within(t, i1, a) /\ Within(t, k1, b)
  BY DEF Ordered
<1>2. PICK i2 \in DOMAIN t, k2 \in DOMAIN t : Precedes(t, i2, k2) /\ Within(t, i2, b) /\ Within(t, k2, c)
  BY DEF Ordered
<1>3. /\ a \in DOMAIN t /\ b \in DOMAIN t /\ c \in DOMAIN t
      /\ a \in GraphLines(t) /\ c \in GraphLines(t)
  BY DEF Ordered, GraphLines
<1>4. DOMAIN t \subseteq Nat /\ Level(t, i1, k1) /\ Level(t, i2, k2)
  BY <1>1, <1>2, TextType DEF Precedes
<1>5. CASE k1 = i2
  <2>1. Precedes(t, i1, k2)
    BY <1>1, <1>2, <1>5, PrecedesTrans
  <2> QED
    BY <1>1, <1>2, <1>3, <2>1 DEF Ordered
<1>6. CASE k1 < i2
  <2>1. Encloses(t, k1, i2)
    BY <1>1, <1>2, <1>3, <1>6, Nested
  <2>2. Encloses(t, k1, k2)
    BY <1>4, <2>1, Siblings
  <2>3. Within(t, k1, c)
    BY <1>2, <1>3, <2>2, Nested DEF Within
  <2> QED
    BY <1>1, <1>3, <2>3 DEF Ordered
<1>7. CASE i2 < k1
  <2>1. Encloses(t, i2, k1)
    BY <1>1, <1>2, <1>3, <1>7, Nested
  <2>2. Encloses(t, i2, i1)
    BY <1>4, <2>1, Siblings
  <2>3. Within(t, i2, a)
    BY <1>1, <1>3, <2>2, Nested DEF Within
  <2> QED
    BY <1>2, <1>3, <2>3 DEF Ordered
<1> QED
  BY <1>4, <1>5, <1>6, <1>7

\* The items before a line, and the last of them.
Prior(t, k) == {i \in 1 .. (k - 1) : \E b \in (i + 1) .. k : Within(t, b, k) /\ Precedes(t, i, b)}

LEMMA FromPrior ==
    ASSUME NEW t \in Texts, NEW k \in DOMAIN t
    PROVE  /\ From(t, k) = {f \in GraphLines(t) : Prior(t, k) # {} /\ Within(t, Max(Prior(t, k)), f)}
           /\ Prior(t, k) # {} =>
                  /\ Max(Prior(t, k)) \in Prior(t, k) /\ \A i \in Prior(t, k) : i <= Max(Prior(t, k))
           /\ \A i \in Prior(t, k) :
                  i \in DOMAIN t /\ i < k /\ \E b \in DOMAIN t : Within(t, b, k) /\ Precedes(t, i, b)
           /\ \A i, b \in DOMAIN t : Within(t, b, k) /\ Precedes(t, i, b) => i \in Prior(t, k)
<1>1. Len(t) \in Nat /\ DOMAIN t = 1 .. Len(t)
  BY TextType
<1>2. From(t, k) = {f \in GraphLines(t) : Prior(t, k) # {} /\ Within(t, Max(Prior(t, k)), f)}
  BY DEF From, Prior
<1>3. Prior(t, k) \subseteq Nat /\ \A i \in Prior(t, k) : i <= k
  BY <1>1 DEF Prior
<1>4. Prior(t, k) # {} =>
         Max(Prior(t, k)) \in Prior(t, k) /\ \A i \in Prior(t, k) : i <= Max(Prior(t, k))
  BY <1>1, <1>3, LargestNumber
<1>5. ASSUME NEW i \in Prior(t, k)
      PROVE  i \in DOMAIN t /\ i < k /\ \E b \in DOMAIN t : Within(t, b, k) /\ Precedes(t, i, b)
  BY <1>1 DEF Prior
<1>6. ASSUME NEW i \in DOMAIN t, NEW b \in DOMAIN t, Within(t, b, k), Precedes(t, i, b)
      PROVE  i \in Prior(t, k)
  <2>1. i < b /\ b <= k
    BY <1>6, Nested DEF Precedes, Level
  <2>2. i \in 1 .. (k - 1) /\ b \in (i + 1) .. k
    BY <1>1, <2>1
  <2> QED
    BY <1>6, <2>2 DEF Prior
<1> QED
  BY <1>2, <1>4, <1>5, <1>6

\* No edge puts a line after one it need not wait for.
LEMMA LeadsOrdered ==
    ASSUME NEW t \in Texts, NEW f, NEW k, Leads(t, f, k)
    PROVE  Ordered(t, f, k)
<1>1. k \in DOMAIN t /\ k \in GraphLines(t) /\ f \in From(t, k)
  BY DEF Leads, GraphLines
<1>2. f \in GraphLines(t) /\ Prior(t, k) # {} /\ Within(t, Max(Prior(t, k)), f)
  BY <1>1, FromPrior
<1>3. PICK b \in DOMAIN t :
         Max(Prior(t, k)) \in DOMAIN t /\ Within(t, b, k) /\ Precedes(t, Max(Prior(t, k)), b)
  BY <1>1, <1>2, FromPrior
<1> QED
  BY <1>1, <1>2, <1>3 DEF Ordered

\* A line that must come before another has an edge to it, or comes before one
\* that has.
LEMMA LastBefore ==
    ASSUME NEW t \in Texts, Legible(t), WellFormed(t), ~ Raises(t), NEW a, NEW b, Ordered(t, a, b),
           ~ Leads(t, a, b)
    PROVE  \E c \in DOMAIN t : c < b /\ Ordered(t, a, c) /\ Leads(t, c, b)
<1>1. /\ a \in DOMAIN t /\ b \in DOMAIN t /\ a \in GraphLines(t) /\ b \in GraphLines(t)
      /\ DOMAIN t = 1 .. Len(t) /\ Len(t) \in Nat
  BY TextType DEF Ordered, GraphLines
<1>2. PICK i \in DOMAIN t, k \in DOMAIN t : Precedes(t, i, k) /\ Within(t, i, a) /\ Within(t, k, b)
  BY DEF Ordered
<1> DEFINE m == Max(Prior(t, b))
<1>3. /\ i \in Prior(t, b) /\ m \in Prior(t, b) /\ i <= m /\ m \in DOMAIN t /\ m < b
  BY <1>1, <1>2, FromPrior
<1>4. \A f \in GraphLines(t) : Within(t, m, f) => Leads(t, f, b)
  BY <1>1, <1>3, FromPrior DEF Leads
<1>5. PICK l \in DOMAIN t : Within(t, l, b) /\ Precedes(t, m, l)
  BY <1>1, <1>3, FromPrior
<1> HIDE DEF m
<1>6. i < m
  BY <1>1, <1>2, <1>3, <1>4
<1>7. Level(t, m, l) /\ Level(t, i, k) /\ t[m].word \in Items /\ t[m].word # "parallel"
  BY <1>2, <1>3, <1>5 DEF Precedes, Raises
\* A task of the last item before b is not in a decision or a loop.
<1>8. ASSUME NEW c \in DOMAIN t, Within(t, m, c), t[c].word \in Calls,
             \A w \in DOMAIN t : Encloses(t, w, c) /\ t[w].word \in Special => Encloses(t, w, m)
      PROVE  c \in GraphLines(t)
  <2> SUFFICES ASSUME NEW w \in DOMAIN t, Encloses(t, w, c), t[w].word \in Special PROVE FALSE
    BY <1>1, <1>8 DEF GraphLines, Inside
  <2>1. Encloses(t, w, m)
    BY <1>8
  <2>2. Encloses(t, w, l)
    BY <1>3, <1>7, <2>1, Siblings
  <2>3. Encloses(t, w, b) /\ w < b
    BY <1>1, <1>5, <2>2, Nested DEF Encloses
  <2> QED
    BY <1>1, <2>3 DEF GraphLines, Inside
<1>9. \E c \in DOMAIN t : Within(t, m, c) /\ c \in GraphLines(t)
  <2>1. CASE t[m].word \in Calls
    BY <1>3, <1>8, <2>1 DEF Within
  <2>2. CASE t[m].word \notin Calls
    <3>1. t[m].word = "together"
      BY <1>7, <2>2 DEF Items
    <3>2. m + 1 \in DOMAIN t /\ Child(t, m, m + 1)
      BY <1>3, <3>1, OpensBlock
    <3>3. t[m + 1].word = "task"
      BY <1>3, <3>1, <3>2 DEF WellFormed
    <3>4. Within(t, m, m + 1)
      BY <3>2 DEF Child, Within
    <3>5. ASSUME NEW w \in DOMAIN t, Encloses(t, w, m + 1), t[w].word \in Special
          PROVE  Encloses(t, w, m)
      <4>1. w # m
        BY <3>1, <3>5 DEF Special
      <4>2. w < m
        BY <1>1, <1>3, <3>5, <4>1 DEF Encloses
      <4> QED
        BY <1>1, <1>3, <3>2, <3>5, <4>2 DEF Encloses
    <3>6. m + 1 \in GraphLines(t)
      BY <1>8, <3>2, <3>3, <3>4, <3>5 DEF Calls
    <3> QED
      BY <3>2, <3>4, <3>6
  <2> QED
    BY <2>1, <2>2
<1>10. PICK c \in DOMAIN t : Within(t, m, c) /\ c \in GraphLines(t)
  BY <1>9
<1>11. c < b
  <2>1. c < l /\ l <= b
    BY <1>1, <1>3, <1>5, <1>7, <1>10, Siblings, Nested
  <2> QED
    BY <1>1, <2>1
<1>12. Ordered(t, a, c)
  <2>1. CASE k = l
    <3>1. Precedes(t, i, m)
      BY <1>2, <1>3, <1>5, <1>6, <2>1, PrecedesTrans
    <3> QED
      BY <1>1, <1>2, <1>3, <1>10, <3>1 DEF Ordered
  <2>2. CASE k < l
    <3>1. Encloses(t, k, l)
      BY <1>1, <1>2, <1>5, <2>2, Nested
    <3>2. Encloses(t, k, m)
      BY <1>3, <1>7, <3>1, Siblings
    <3>3. Within(t, k, c)
      BY <1>3, <1>10, <3>2, Nested DEF Within
    <3> QED
      BY <1>1, <1>2, <1>10, <3>3 DEF Ordered
  <2>3. CASE l < k
    <3>1. Encloses(t, l, k)
      BY <1>1, <1>2, <1>5, <2>3, Nested
    <3>2. l < i
      BY <1>7, <3>1, Siblings
    <3> QED
      BY <1>1, <1>3, <1>6, <1>7, <3>2 DEF Level
  <2> QED
    BY <1>1, <2>1, <2>2, <2>3
<1> QED
  BY <1>4, <1>10, <1>11, <1>12

\* Tasks have names of their own.
Distinct(t) ==
    \A i, k \in DOMAIN t : t[i].word \in Calls /\ t[k].word \in Calls =>
        t[i].name # Root /\ (t[i].name = t[k].name => i = k)

LEMMA BeforeOrdered ==
    ASSUME NEW t
    PROVE  \A e : e \in Before(t) <=> \E a, b \in DOMAIN t : Ordered(t, a, b) /\ e = <<t[a].name, t[b].name>>
<1>1. GraphLines(t) \subseteq DOMAIN t
  BY DEF GraphLines
<1> DEFINE before(a, b) == \E i, k \in DOMAIN t : Precedes(t, i, k) /\ Within(t, i, a) /\ Within(t, k, b)
           pairs == {q \in GraphLines(t) \X GraphLines(t) : before(q[1], q[2])}
<1>2. Before(t) = {<<t[p[1]].name, t[p[2]].name>> : p \in pairs}
  BY DEF Before
<1>3. \A a, b : Ordered(t, a, b) <=> a \in GraphLines(t) /\ b \in GraphLines(t) /\ before(a, b)
  BY DEF Ordered
<1> HIDE DEF before
<1>4. \A a, b : Ordered(t, a, b) => <<a, b>> \in pairs
  BY <1>3
<1>5. \A p \in pairs : Ordered(t, p[1], p[2]) /\ p[1] \in DOMAIN t /\ p[2] \in DOMAIN t
  BY <1>1, <1>3
<1> HIDE DEF pairs
<1>6. ASSUME NEW e \in Before(t)
      PROVE  \E a, b \in DOMAIN t : Ordered(t, a, b) /\ e = <<t[a].name, t[b].name>>
  <2>1. PICK p \in pairs : e = <<t[p[1]].name, t[p[2]].name>>
    BY <1>2
  <2> QED
    BY <1>5, <2>1
<1>7. ASSUME NEW a \in DOMAIN t, NEW b \in DOMAIN t, Ordered(t, a, b)
      PROVE  <<t[a].name, t[b].name>> \in Before(t)
  <2> DEFINE q == <<a, b>>
  <2>1. q \in pairs
    BY <1>4, <1>7
  <2>2. q[1] = a /\ q[2] = b
    OBVIOUS
  <2>3. <<t[q[1]].name, t[q[2]].name>> \in Before(t)
    BY <1>2, <2>1
  <2> QED
    BY <2>2, <2>3
<1> QED
  BY <1>6, <1>7

\* The edges order the tasks of a text as the text does.
LEMMA EdgesOrder ==
    ASSUME NEW t \in Texts, Legible(t), WellFormed(t), ~ Raises(t), Distinct(t)
    PROVE  Reach(ToSet(CreateEdges(t)), {t[k].name : k \in GraphLines(t)}) = Before(t)
<1> DEFINE names == {t[k].name : k \in GraphLines(t)}
           edges == ToSet(CreateEdges(t))
<1>1. /\ DOMAIN t \subseteq Nat /\ GraphLines(t) \subseteq DOMAIN t
      /\ \A k \in GraphLines(t) : t[k].name \in names
  BY TextType DEF GraphLines
<1>2. \A i, k \in GraphLines(t) : t[i].name = t[k].name => i = k
  BY DEF Distinct, GraphLines
<1>3. \A e : e \in edges <=> \E f, k \in DOMAIN t : Leads(t, f, k) /\ e = <<t[f].name, t[k].name>>
  BY EdgesLead
<1>4. \A f, k : Ordered(t, f, k) => f \in GraphLines(t) /\ k \in GraphLines(t)
  BY DEF Ordered
<1> HIDE DEF names, edges
\* No order but that of the text: what must come after x is closed.
<1>5. ASSUME NEW x \in names, NEW y \in names, <<x, y>> \in Reach(edges, names) PROVE <<x, y>> \in Before(t)
  <2> DEFINE closed == {z \in names : <<x, z>> \in Before(t)}
  <2>1. ASSUME NEW e \in edges, e[1] \in {x} \cup closed PROVE e[2] \in closed
    <3>1. PICK f \in DOMAIN t, k \in DOMAIN t : Leads(t, f, k) /\ e = <<t[f].name, t[k].name>>
      BY <1>3
    <3>2. Ordered(t, f, k) /\ e[1] = t[f].name /\ e[2] = t[k].name /\ t[k].name \in names
      BY <1>1, <1>4, <3>1, LeadsOrdered
    <3>3. CASE t[f].name = x
      BY <3>2, <3>3, BeforeOrdered
    <3>4. CASE t[f].name \in closed
      <4>1. PICK a \in DOMAIN t, c \in DOMAIN t :
               Ordered(t, a, c) /\ <<x, t[f].name>> = <<t[a].name, t[c].name>>
        BY <3>4, BeforeOrdered
      <4>2. c = f
        BY <1>2, <1>4, <3>2, <4>1
      <4>3. Ordered(t, a, k)
        BY <3>2, <4>1, <4>2, OrderedTrans
      <4>4. <<x, t[k].name>> \in Before(t)
        BY <4>1, <4>3, BeforeOrdered
      <4> QED
        BY <3>2, <4>4
    <3> QED
      BY <2>1, <3>2, <3>3, <3>4
  <2>2. closed \in SUBSET names
    OBVIOUS
  <2> HIDE DEF closed
  <2>3. y \in closed
    BY <1>5, <2>1, <2>2 DEF Reach
  <2> QED
    BY <2>3 DEF closed
\* And all of it: the first line that were not reached would be.
<1>6. ASSUME NEW a, NEW b, Ordered(t, a, b), NEW closed \in SUBSET names,
             \A e \in edges : e[1] \in {t[a].name} \cup closed => e[2] \in closed
      PROVE  t[b].name \in closed
  <2> DEFINE bad == {k \in GraphLines(t) : Ordered(t, a, k) /\ t[k].name \notin closed}
  <2> SUFFICES ASSUME bad # {} PROVE FALSE
    BY <1>4, <1>6
  <2>1. bad \subseteq Nat
    BY <1>1
  <2> HIDE DEF bad
  <2>2. PICK k \in bad : \A l \in bad : k <= l
    BY <2>1, LeastNumber
  <2>3. k \in GraphLines(t) /\ Ordered(t, a, k) /\ t[k].name \notin closed
    BY DEF bad
  <2>4. \A f \in DOMAIN t : Leads(t, f, k) => t[f].name \notin {t[a].name} \cup closed
    <3> TAKE f \in DOMAIN t
    <3> DEFINE e == <<t[f].name, t[k].name>>
    <3>1. Leads(t, f, k) => e \in edges
      BY <1>1, <1>3, <2>3
    <3>2. e[1] = t[f].name /\ e[2] = t[k].name
      OBVIOUS
    <3> QED
      BY <1>6, <2>3, <3>1, <3>2
  <2>5. ~ Leads(t, a, k)
    BY <1>1, <1>4, <1>6, <2>4
  <2>6. PICK c \in DOMAIN t : c < k /\ Ordered(t, a, c) /\ Leads(t, c, k)
    BY <2>3, <2>5, LastBefore
  <2>7. c \in bad
    BY <1>4, <2>4, <2>6 DEF bad
  <2> QED
    BY <1>1, <2>1, <2>2, <2>6, <2>7
<1>7. ASSUME NEW e \in Before(t) PROVE e \in Reach(edges, names)
  <2>1. PICK a \in DOMAIN t, b \in DOMAIN t : Ordered(t, a, b) /\ e = <<t[a].name, t[b].name>>
    BY <1>7, BeforeOrdered
  <2>2. e \in names \X names /\ e[1] = t[a].name /\ e[2] = t[b].name
    BY <1>1, <1>4, <2>1
  <2> QED
    BY <1>6, <2>1, <2>2 DEF Reach
<1>8. ASSUME NEW e \in Reach(edges, names) PROVE e \in Before(t)
  <2>1. e \in names \X names
    BY DEF Reach
  <2>2. PICK x \in names, y \in names : e = <<x, y>>
    BY <2>1
  <2> QED
    BY <1>5, <2>2
<1>9. Reach(edges, names) = Before(t)
  BY <1>7, <1>8
<1> QED
  BY <1>9 DEF edges, names

-----------------------------------------------------------------------------
(* What compiles.                                                          *)

LEMMA Written ==
    ASSUME program \in Program
    PROVE  program \in Texts /\ Legible(program) /\ WellFormed(program) /\ Distinct(program)
BY ProgramAssumption DEF Texts, Distinct

LEMMA VisitorEncloses ==
    ASSUME NEW t \in Texts, NEW k \in DOMAIN t, Visitor(t, k) # 0
    PROVE  /\ Visitor(t, k) \in DOMAIN t /\ Encloses(t, Visitor(t, k), k)
           /\ t[Visitor(t, k)].word \in Visitors
<1> DEFINE around == {0} \cup {i \in 1 .. (k - 1) : t[i].word \in Visitors /\ Encloses(t, i, k)}
<1>1. DOMAIN t = 1 .. Len(t) /\ Len(t) \in Nat /\ k \in Nat
  BY TextType
<1>2. around \subseteq Nat /\ around # {} /\ \A x \in around : x <= k
  BY <1>1
<1>3. Visitor(t, k) = Max(around)
  BY DEF Visitor
<1> HIDE DEF around
<1>4. Max(around) \in around
  BY <1>1, <1>2, LargestNumber
<1> QED
  BY <1>1, <1>3, <1>4 DEF around

\* The visitor of a path or of a loop is inside a decision or a loop.
LEMMA MetataskInside ==
    ASSUME NEW t \in Texts, WellFormed(t), NEW k \in DOMAIN t, NEW v \in DOMAIN t,
           Encloses(t, v, k), t[v].word \in Visitors \ {"branch"}
    PROVE  Inside(t, Special, k)
<1>1. DOMAIN t = 1 .. Len(t) /\ Len(t) \in Nat
  BY TextType
<1>2. \E i \in DOMAIN t : Encloses(t, i, k) /\ t[i].word \in Special
  <2>1. CASE t[v].word = "loop"
    BY <2>1 DEF Special
  <2>2. CASE t[v].word # "loop"
    <3>1. t[v].word \in {"branch", "if", "else"} /\ t[v].word # "branch"
      BY <2>2 DEF Visitors
    <3>2. PICK i \in DOMAIN t : Child(t, i, v) /\ t[i].word = "decision"
      BY <3>1 DEF WellFormed
    <3>3. Encloses(t, i, k)
      BY <3>2, Nested DEF Child, Within
    <3> QED
      BY <3>2, <3>3 DEF Special
  <2> QED
    BY <2>1, <2>2
<1>3. PICK i \in DOMAIN t : Encloses(t, i, k) /\ t[i].word \in Special
  BY <1>2
<1>4. i \in 1 .. (k - 1)
  BY <1>1, <1>3 DEF Encloses
<1> QED
  BY <1>3, <1>4 DEF Inside

LEMMA PlainAccepted ==
    ASSUME entity \in {"runbook", "action"}, program \in Program, Plain, Supported
    PROVE  ~ Fails(program)
<1>1. /\ program \in Texts /\ Legible(program) /\ WellFormed(program)
      /\ DOMAIN program = 1 .. Len(program) /\ Len(program) \in Nat
      /\ \A k \in DOMAIN program : program[k].word \in Items \cup Visitors \cup {"pass"}
  BY Written, TextType
<1>2. /\ entity = "runbook" => ~ Uses({"together"})
      /\ entity = "action" => ~ Uses(Special) /\ ~ (Uses({"parallel"}) /\ Uses({"together"}))
  BY DEF Supported
\* Blocks of their own visitors come with what they belong to.
<1>3. ASSUME NEW k \in DOMAIN program
      PROVE  /\ program[k].word = "branch" => Uses({"parallel"})
             /\ program[k].word \in Visitors \ {"branch"} => Uses(Special)
  <2>1. program[k].word = "branch" => \E i \in DOMAIN program : program[i].word = "parallel"
    BY <1>1 DEF WellFormed
  <2>2. program[k].word \in {"if", "else"} => \E i \in DOMAIN program : program[i].word = "decision"
    BY <1>1 DEF WellFormed
  <2> QED
    BY <2>1, <2>2 DEF Uses, Visitors, Special
<1>4. ASSUME NEW k \in DOMAIN program, program[k].word = "together"
      PROVE  ~ IsRunbook(program, k) /\ ~ IsBranchPresent(program)
  <2>1. Uses({"together"}) /\ entity = "action"
    BY <1>2, <1>4 DEF Uses
  <2>2. ~ Uses(Special) /\ ~ Uses({"parallel"})
    BY <1>2, <2>1
  <2>3. \A v \in DOMAIN program : program[v].word \notin Visitors
    BY <1>3, <2>2
  <2>4. Visitor(program, k) = 0
    BY <1>1, <1>4, <2>3, VisitorEncloses
  <2>5. \A v \in DOMAIN program : program[v].word # "branch"
    BY <2>3 DEF Visitors
  <2> QED
    BY <2>1, <2>4, <2>5 DEF IsRunbook, IsBranchPresent
<1>5. ASSUME NEW k \in DOMAIN program, program[k].word = "parallel"
      PROVE  IsBranchPresent(program) /\ ~ IsMetatask(program, k)
  <2>1. k + 1 \in DOMAIN program /\ Child(program, k, k + 1)
    BY <1>1, <1>5, OpensBlock
  <2>2. program[k + 1].word = "branch"
    BY <1>1, <1>5, <2>1 DEF WellFormed
  <2>3. ~ Inside(program, Special, k)
    BY <1>5 DEF Plain
  <2>4. ~ IsMetatask(program, k)
    BY <1>1, <2>3, VisitorEncloses, MetataskInside DEF IsMetatask
  <2> QED
    BY <2>1, <2>2, <2>4 DEF IsBranchPresent
<1>6. ASSUME NEW k \in DOMAIN program, program[k].word = "branch"
      PROVE  \E l \in DOMAIN program : Child(program, k, l) /\ program[l].word \in Items
  <2>1. PICK l \in DOMAIN program : Child(program, k, l) /\ program[l].word # "pass"
    BY <1>6 DEF Plain
  <2>2. program[l].word \notin {"branch", "if", "else"}
    <3> SUFFICES ASSUME program[l].word \in {"branch", "if", "else"} PROVE FALSE
      OBVIOUS
    <3>1. PICK i \in DOMAIN program : Child(program, i, l) /\ program[i].word \in {"parallel", "decision"}
      BY <1>1 DEF WellFormed
    <3>2. i = k
      BY <1>1, <2>1, <3>1, OneParent
    <3> QED
      BY <1>6, <3>1, <3>2
  <2>3. program[l].word \in Items
    BY <1>1, <2>1, <2>2 DEF Visitors, Items, Calls
  <2> QED
    BY <2>1, <2>3
<1>7. ASSUME NEW k \in DOMAIN program, program[k].word \in Special PROVE IsRunbook(program, k)
  BY <1>2, <1>7 DEF Uses, IsRunbook
<1>8. Accepts(program)
  BY <1>1, <1>4, <1>5, <1>6, <1>7 DEF Accepts
<1>9. ~ Raises(program)
  <2> SUFFICES ASSUME NEW i \in DOMAIN program, NEW k \in DOMAIN program,
                      program[i].word = "parallel", Precedes(program, i, k)
               PROVE  FALSE
    BY DEF Raises
  <2>1. Level(program, i, k) /\ program[k].word \in Items
    BY DEF Precedes
  <2> QED
    BY <2>1 DEF Plain, Items, Calls
<1> QED
  BY <1>1, <1>8, <1>9 DEF Fails

-----------------------------------------------------------------------------
(* The program on its way.                                                 *)

GraphIInv ==
    /\ subject = "tasks" => program \in Program
    /\ subject # "tasks" => stage = "written"
    /\ entity \in {"runbook", "action"}
    /\ stage = "compiled" => ~ Fails(program) /\ payload = Compiled(program)
    /\ stage = "rejected" => Fails(program)

LEMMA GraphInit == CompilationInit => GraphIInv
BY DEF CompilationInit, Init, GraphIInv

LEMMA GraphStep == GraphIInv /\ [CompilationNext]_compilationVars => GraphIInv'
<1> SUFFICES ASSUME GraphIInv, [CompilationNext]_compilationVars PROVE GraphIInv'
  OBVIOUS
<1> USE DEF GraphIInv
<1>1. CASE UNCHANGED <<subject, vars>>
  BY <1>1 DEF vars, Fails, Accepts, IsRunbook, Compiled
<1>2. CASE subject = "tasks" /\ Next /\ UNCHANGED <<subject, placementOwn>>
  <2> SUFFICES ASSUME entity' = entity, program' = program,
                      Compile \/ Reject \/ stage' \notin {"compiled", "rejected"}
               PROVE  GraphIInv'
    BY <1>2 DEF Next, Compile, Reject, Decompile, DecompileFails, Recompile, RecompileFails
  <2>1. Fails(program)' = Fails(program) /\ Compiled(program)' = Compiled(program)
    BY DEF Fails, Accepts, IsRunbook, Compiled
  <2>2. CASE Compile
    BY <1>2, <2>1, <2>2 DEF Compile
  <2>3. CASE Reject
    BY <1>2, <2>1, <2>3 DEF Reject
  <2>4. CASE stage' \notin {"compiled", "rejected"}
    BY <1>2, <2>4
  <2> QED
    BY <2>2, <2>3, <2>4
<1>3. CASE subject = "machine" /\ PlacementNext /\ UNCHANGED <<subject, vars>>
  BY <1>1, <1>3
<1>4. CASE UNCHANGED compilationVars
  BY <1>1, <1>4 DEF compilationVars
<1> QED
  BY <1>2, <1>3, <1>4 DEF CompilationNext

LEMMA OrderFollows == GraphIInv => EdgesKeepOrder
<1> SUFFICES ASSUME GraphIInv, stage = "compiled"
             PROVE  Reach(ToSet(payload.edges), {program[k].name : k \in GraphLines(program)}) = Before(program)
  BY DEF EdgesKeepOrder
<1>1. program \in Program /\ ~ Fails(program) /\ payload.edges = CreateEdges(program)
  BY DEF GraphIInv, Compiled
<1>2. ~ Raises(program)
  BY <1>1 DEF Fails
<1> QED
  BY <1>1, <1>2, Written, EdgesOrder

LEMMA PlainFollows == GraphIInv => PlainProgramsCompile
BY PlainAccepted DEF GraphIInv, PlainProgramsCompile

(* The program in hand is one that was written, and what was compiled of it *)
(* is what runbook.__get__ makes of it.                                    *)
THEOREM GraphInvariant == CompilationSpec => []GraphIInv
BY GraphInit, GraphStep, PTL DEF CompilationSpec

(* The edges of the DAG put the tasks in the order in which the program    *)
(* puts them, and in no other.                                             *)
THEOREM EdgesKeepOrderHolds == CompilationSpec => []EdgesKeepOrder
BY GraphInvariant, OrderFollows, PTL

(* A program that puts nothing after a parallel block with branches, leaves *)
(* no branch empty and uses what its entity supports is compiled.          *)
THEOREM PlainProgramsCompileHolds == CompilationSpec => []PlainProgramsCompile
BY GraphInvariant, PlainFollows, PTL

-----------------------------------------------------------------------------
(* Machines.                                                               *)

\* What m says of its cluster: SaysItsCluster of any machine.
LiteralOf(m) == {i \in DOMAIN m.nics : m.nics[i].subnet # Macro}
Says(m) ==
    IF m.cluster # None
    THEN m.cluster.name # Macro /\ m.cluster.account = None
    ELSE /\ LiteralOf(m) # {}
         /\ \A i, j \in LiteralOf(m) :
                m.nics[i].cluster # None /\ m.nics[i].cluster = m.nics[j].cluster

\* s is what m compiles to in account a, with the subnets f and the cluster c.
MadeFrom(m, s, a, f, c) ==
    /\ a \in AccountOf(m) /\ f \in Finds(m, a) /\ Fits(m, f, a)
    /\ c \in ClusterRows /\ c.account = a
    /\ s = [pe |-> c.pe, cluster |-> IF m.cluster = None THEN None ELSE c.uuid,
            nics |-> [i \in DOMAIN m.nics |->
                        IF m.nics[i].subnet = Macro THEN [subnet |-> Macro, vpc |-> None]
                        ELSE [subnet |-> f[i].uuid, vpc |-> IF IsOverlay(f[i]) THEN f[i].vpc ELSE None]]]
    /\ m.cluster # None => c \in ClustersOf(m, a)
    /\ \A i \in LiteralOf(m) :
           /\ f[i] \in SubnetRows(m.nics[i], a)
           /\ f[i].cluster # None => f[i].cluster = c.uuid
           /\ m.cluster = None => f[i].cluster # None

\* The specification has been compiled from the machine, in one of the worlds.
WasCompiled ==
    \E w \in World : \E c \in w.clusters :
        /\ c.pe # None
        /\ spec.pe = c.pe /\ spec.cluster = IF machine.cluster = None THEN None ELSE c.uuid
        /\ spec = [pe |-> spec.pe, cluster |-> spec.cluster, nics |-> spec.nics]
        /\ spec.nics = [i \in DOMAIN machine.nics |-> spec.nics[i]]
        /\ \A i \in DOMAIN machine.nics :
               IF machine.nics[i].subnet = Macro THEN spec.nics[i] = [subnet |-> Macro, vpc |-> None]
               ELSE \E r \in w.subnets :
                       /\ r.account = c.account
                       /\ spec.nics[i] = [subnet |-> r.uuid, vpc |-> IF IsOverlay(r) THEN r.vpc ELSE None]
                       /\ r.cluster # None => r.cluster = c.uuid
                       /\ machine.cluster = None => r.cluster # None

PlacementIInv ==
    /\ world \in World /\ machine \in Machine
    /\ progress \notin {"written", "refused"} =>
           /\ SaysItsCluster => WasCompiled
           /\ moves = {} => spec \in Compilations(machine)
    /\ progress = "lost" => ~ Decompilable(spec)
    /\ progress \in {"decompiled", "estranged", "recompiled"} /\ "decompiled" \notin moves =>
           Decompilable(spec) /\ rewritten = Decompilation(spec)
    /\ progress = "estranged" => Refused(rewritten)
    /\ progress = "recompiled" => respec \in Compilations(rewritten)

-----------------------------------------------------------------------------
(* The cache.                                                              *)

\* The only row with its identity, or with its name in its account.
LEMMA OneRow ==
    ASSUME world \in World
    PROVE  /\ \A s \in world.subnets : (CHOOSE t \in world.subnets : t.uuid = s.uuid) = s
           /\ \A c \in ClusterRows : (CHOOSE d \in ClusterRows : d.uuid = c.uuid) = c
           /\ \A v \in world.vpcs : (CHOOSE u \in world.vpcs : u.uuid = v.uuid) = v
           /\ \A c \in ClusterRows : Named(ClusterRows, c.name, c.account) = {c}
           /\ \A v \in world.vpcs : Named(world.vpcs, v.name, v.account) = {v}
<1>1. \A t \in {world.subnets, world.clusters, world.vpcs} : \A r, q \in t : r.uuid = q.uuid => r = q
  BY WorldAssumption
<1>2. \A t \in {world.clusters, world.vpcs} : \A r, q \in t :
         r.name = q.name /\ r.account = q.account => r = q
  BY WorldAssumption
<1>3. ClusterRows \subseteq world.clusters
  BY DEF ClusterRows
<1>4. ASSUME NEW s \in world.subnets PROVE (CHOOSE t \in world.subnets : t.uuid = s.uuid) = s
  BY <1>1
<1>5. ASSUME NEW c \in ClusterRows PROVE (CHOOSE d \in ClusterRows : d.uuid = c.uuid) = c
  BY <1>1, <1>3
<1>6. ASSUME NEW v \in world.vpcs PROVE (CHOOSE u \in world.vpcs : u.uuid = v.uuid) = v
  BY <1>1
<1>7. ASSUME NEW c \in ClusterRows PROVE Named(ClusterRows, c.name, c.account) = {c}
  BY <1>2, <1>3 DEF Named
<1>8. ASSUME NEW v \in world.vpcs PROVE Named(world.vpcs, v.name, v.account) = {v}
  BY <1>2 DEF Named
<1> QED
  BY <1>4, <1>5, <1>6, <1>7, <1>8

LEMMA PeOfRow ==
    ASSUME world \in World, NEW c \in ClusterRows
    PROVE  PeOf(c.name, c.account) = c.pe /\ c.pe # None /\ c.pe \in Pes(c.account)
<1>1. Named(ClusterRows, c.name, c.account) = {c}
  BY OneRow
<1>2. (CHOOSE d \in {c} : TRUE) = c
  OBVIOUS
<1>3. c.pe \in Pes(c.account)
  BY DEF Pes
<1> QED
  BY <1>1, <1>2, <1>3 DEF PeOf, ClusterRows

\* The cluster and the VPC of a subnet whose row can be read.
LEMMA ClusterOfSubnet ==
    ASSUME world \in World, NEW s \in world.subnets, Readable(s)
    PROVE  /\ s.cluster # None => /\ ClusterOf(s) \in ClusterRows /\ ClusterOf(s).uuid = s.cluster
                                  /\ ClusterOf(s).account = s.account /\ s.vpc = None
           /\ IsOverlay(s) => /\ VpcOf(s) \in world.vpcs /\ VpcOf(s).uuid = s.vpc
                              /\ VpcOf(s).account = s.account
<1>1. /\ s.cluster # None => s.vpc = None
      /\ \A c \in world.clusters : c.uuid = s.cluster => c.account = s.account
      /\ \A v \in world.vpcs : v.uuid = s.vpc => v.account = s.account
  BY WorldAssumption
<1>2. ASSUME s.cluster # None
      PROVE  /\ ClusterOf(s) \in ClusterRows /\ ClusterOf(s).uuid = s.cluster
             /\ ClusterOf(s).account = s.account /\ s.vpc = None
  <2>1. PICK c \in ClusterRows : c.uuid = s.cluster
    BY <1>2 DEF Readable, Identified
  <2>2. ClusterOf(s) \in ClusterRows /\ ClusterOf(s).uuid = s.cluster
    BY <2>1 DEF ClusterOf
  <2> QED
    BY <1>1, <1>2, <2>2 DEF ClusterRows
<1>3. ASSUME IsOverlay(s)
      PROVE  VpcOf(s) \in world.vpcs /\ VpcOf(s).uuid = s.vpc /\ VpcOf(s).account = s.account
  <2>1. PICK v \in world.vpcs : v.uuid = s.vpc
    BY <1>3 DEF Readable, Identified, IsOverlay
  <2>2. VpcOf(s) \in world.vpcs /\ VpcOf(s).uuid = s.vpc
    BY <2>1 DEF VpcOf
  <2> QED
    BY <1>1, <2>2
<1> QED
  BY <1>2, <1>3

\* The text of a NIC finds the subnet it was made of, and nothing else.
LEMMA TextFindsBack ==
    ASSUME world \in World, NEW s \in world.subnets, Readable(s), s.cluster # None \/ s.vpc # None,
           NEW v
    PROVE  LET n == NicText([subnet |-> s.uuid, vpc |-> v])
           IN  /\ n.subnet # Macro
               /\ n.cluster = IF s.cluster = None THEN None ELSE ClusterOf(s).name
               /\ n.vpc = IF s.cluster = None THEN VpcOf(s).name ELSE None
               /\ SubnetRows(n, s.account) = {s}
               /\ s.cluster # None => ClusterOf(s).name # None
               /\ s.cluster = None => VpcOf(s).name # None
<1> DEFINE n == NicText([subnet |-> s.uuid, vpc |-> v])
<1>1. s.name \notin {None, Macro} /\ s.uuid # Macro
  BY WorldAssumption
<1>2. (CHOOSE t \in world.subnets : t.uuid = s.uuid) = s
  BY OneRow
<1>3. /\ s.cluster # None => /\ ClusterOf(s) \in ClusterRows /\ ClusterOf(s).uuid = s.cluster
                             /\ ClusterOf(s).account = s.account /\ s.vpc = None
      /\ IsOverlay(s) => /\ VpcOf(s) \in world.vpcs /\ VpcOf(s).uuid = s.vpc
                         /\ VpcOf(s).account = s.account
  BY ClusterOfSubnet
<1>4. (\A c \in ClusterRows : c.name # None) /\ (\A u \in world.vpcs : u.name # None)
  BY WorldAssumption DEF ClusterRows
<1>5. n = IF IsOverlay(s) THEN [subnet |-> s.name, cluster |-> None, vpc |-> VpcOf(s).name]
          ELSE [subnet |-> s.name, cluster |-> ClusterOf(s).name, vpc |-> None]
  BY <1>1, <1>2 DEF NicText
<1>6. n.subnet = s.name /\ n.cluster = (IF s.cluster = None THEN None ELSE ClusterOf(s).name)
      /\ n.vpc = (IF s.cluster = None THEN VpcOf(s).name ELSE None)
  BY <1>5 DEF IsOverlay
<1>7. \A r, q \in world.subnets :
         r.name = q.name /\ r.account = q.account /\ r.cluster = q.cluster /\ r.vpc = q.vpc => r = q
  BY WorldAssumption
<1>8. \A r \in world.subnets : r.cluster # None => r.vpc = None
  BY WorldAssumption
<1> HIDE DEF n
<1>9. SubnetRows(n, s.account) = {s}
  <2>1. CASE s.cluster # None
    <3>1. Named(ClusterRows, n.cluster, s.account) = {ClusterOf(s)} /\ n.cluster # None
      BY <1>3, <1>4, <1>6, <2>1, OneRow
    <3>2. \A r \in SubnetRows(n, s.account) :
             /\ r \in world.subnets /\ r.name = s.name /\ r.account = s.account
             /\ r.cluster = s.cluster
      BY <1>3, <1>6, <2>1, <3>1 DEF SubnetRows
    <3>3. \A r \in SubnetRows(n, s.account) : r = s
      BY <1>7, <1>8, <2>1, <3>2
    <3>4. s \in SubnetRows(n, s.account)
      BY <1>3, <1>6, <2>1, <3>1 DEF SubnetRows
    <3> QED
      BY <3>3, <3>4
  <2>2. CASE s.cluster = None
    <3>1. Named(world.vpcs, n.vpc, s.account) = {VpcOf(s)} /\ n.vpc # None /\ n.cluster = None
      BY <1>3, <1>4, <1>6, <2>2, OneRow DEF IsOverlay
    <3>2. \A r \in SubnetRows(n, s.account) :
             /\ r \in world.subnets /\ r.name = s.name /\ r.account = s.account
             /\ r.cluster = s.cluster /\ r.vpc = s.vpc
      BY <1>3, <1>6, <2>2, <3>1 DEF SubnetRows, IsOverlay
    <3>3. \A r \in SubnetRows(n, s.account) : r = s
      BY <1>7, <3>2
    <3>4. s \in SubnetRows(n, s.account)
      BY <1>3, <1>6, <2>2, <3>1 DEF SubnetRows, IsOverlay
    <3> QED
      BY <3>3, <3>4
  <2> QED
    BY <2>1, <2>2
<1>10. (s.cluster # None => ClusterOf(s).name # None) /\ (s.cluster = None => VpcOf(s).name # None)
  BY <1>3, <1>4 DEF IsOverlay
<1> QED
  BY <1>1, <1>6, <1>9, <1>10 DEF n

-----------------------------------------------------------------------------
(* What compilation makes of a machine that says its cluster.              *)

LEMMA FoundSubnets ==
    ASSUME NEW m, NEW a, NEW f \in Finds(m, a), Fits(m, f, a), NEW i \in LiteralOf(m)
    PROVE  f[i] \in SubnetRows(m.nics[i], a) /\ NicFits(m, f[i], a)
           /\ f[i] \in world.subnets /\ f[i].account = a /\ Readable(f[i])
<1>1. i \in DOMAIN m.nics /\ m.nics[i].subnet # Macro
  BY DEF LiteralOf
<1>2. f[i] # None /\ NicFits(m, f[i], a)
  BY <1>1 DEF Fits
<1>3. f[i] \in SubnetRows(m.nics[i], a)
  BY <1>1, <1>2 DEF Finds
<1> QED
  BY <1>2, <1>3 DEF SubnetRows, NicFits

\* A machine with a cluster of its own.
LEMMA CompiledWithCluster ==
    ASSUME world \in World, NEW m, m.cluster # None, Says(m), NEW a \in AccountOf(m),
           NEW f \in Finds(m, a), Fits(m, f, a), NEW pe \in PeAccounts(m, f, a)
    PROVE  \E c \in ClusterRows : MadeFrom(m, SpecOf(m, f, a, pe), a, f, c)
<1>1. m.cluster.name # Macro /\ m.cluster.account = None
  BY DEF Says
<1>2. PICK c \in ClustersOf(m, a) : TRUE
  BY <1>1 DEF Fits
<1>3. c \in ClusterRows /\ c.name = m.cluster.name /\ c.account = a
  BY <1>1, <1>2 DEF ClustersOf, Named
<1>4. Named(ClusterRows, m.cluster.name, a) = {c}
  BY <1>3, OneRow
<1>5. ClustersOf(m, a) = {c}
  BY <1>1, <1>2, <1>4 DEF ClustersOf
<1>6. pe = c.pe
  BY <1>3, PeOfRow DEF PeAccounts
<1>7. ASSUME NEW i \in LiteralOf(m), f[i].cluster # None PROVE f[i].cluster = c.uuid
  <2>1. f[i] \in world.subnets /\ f[i].account = a /\ Readable(f[i]) /\ NicFits(m, f[i], a)
    BY FoundSubnets
  <2>2. /\ ClusterOf(f[i]) \in ClusterRows /\ ClusterOf(f[i]).uuid = f[i].cluster
        /\ ClusterOf(f[i]).account = a
    BY <1>7, <2>1, ClusterOfSubnet
  <2>3. ClusterOf(f[i]).name = m.cluster.name
    BY <1>1, <1>7, <2>1 DEF NicFits
  <2>4. ClusterOf(f[i]) \in Named(ClusterRows, m.cluster.name, a)
    BY <2>2, <2>3 DEF Named
  <2> QED
    BY <1>4, <2>2, <2>4
<1>8. \A i \in LiteralOf(m) : f[i] \in SubnetRows(m.nics[i], a)
  BY FoundSubnets
<1>9. (CHOOSE d \in {c} : TRUE) = c
  OBVIOUS
<1>10. SpecOf(m, f, a, pe) =
         [pe |-> c.pe, cluster |-> c.uuid,
          nics |-> [i \in DOMAIN m.nics |->
                      IF m.nics[i].subnet = Macro THEN [subnet |-> Macro, vpc |-> None]
                      ELSE [subnet |-> f[i].uuid, vpc |-> IF IsOverlay(f[i]) THEN f[i].vpc ELSE None]]]
  BY <1>1, <1>5, <1>6, <1>9 DEF SpecOf
<1> QED
  BY <1>3, <1>5, <1>7, <1>8, <1>10 DEF MadeFrom

\* A machine without, whose NICs name it.
LEMMA CompiledByNics ==
    ASSUME world \in World, NEW m, DOMAIN m.nics \subseteq Nat, m.cluster = None, Says(m),
           NEW a \in AccountOf(m), NEW f \in Finds(m, a), Fits(m, f, a), NEW pe \in PeAccounts(m, f, a)
    PROVE  \E c \in ClusterRows : MadeFrom(m, SpecOf(m, f, a, pe), a, f, c)
<1>1. /\ LiteralOf(m) # {}
      /\ \A i, j \in LiteralOf(m) :
            m.nics[i].cluster # None /\ m.nics[i].cluster = m.nics[j].cluster
  BY DEF Says
<1>2. Naming(m) = LiteralOf(m)
  BY <1>1 DEF Naming, LiteralOf
<1> DEFINE first == CHOOSE i \in Naming(m) : \A j \in Naming(m) : i <= j
<1>3. first \in LiteralOf(m)
  <2>1. Naming(m) \subseteq Nat
    BY DEF Naming
  <2> QED
    BY <1>1, <1>2, <2>1, LeastNumber
<1>4. pe = PeOf(ClusterOf(f[first]).name, a)
  BY <1>1, <1>2 DEF PeAccounts
<1> HIDE DEF first
<1>5. ASSUME NEW i \in LiteralOf(m)
      PROVE  /\ f[i] \in SubnetRows(m.nics[i], a) /\ f[i].cluster # None
             /\ ClusterOf(f[i]) \in Named(ClusterRows, m.nics[first].cluster, a)
             /\ ClusterOf(f[i]).uuid = f[i].cluster
  <2>1. f[i] \in SubnetRows(m.nics[i], a) /\ f[i] \in world.subnets /\ f[i].account = a /\ Readable(f[i])
    BY FoundSubnets
  <2>2. m.nics[i].cluster # None /\ m.nics[i].cluster = m.nics[first].cluster
    BY <1>1, <1>3
  <2>3. PICK c \in Named(ClusterRows, m.nics[first].cluster, a) : f[i].cluster = c.uuid
    BY <2>1, <2>2 DEF SubnetRows
  <2>4. c \in ClusterRows /\ c.uuid # None
    BY <2>3, WorldAssumption DEF Named, ClusterRows
  <2>5. ClusterOf(f[i]) = c
    BY <2>3, <2>4, OneRow DEF ClusterOf
  <2> QED
    BY <2>1, <2>3, <2>4, <2>5
<1> DEFINE c == ClusterOf(f[first])
<1>6. c \in ClusterRows /\ c.account = a /\ c.name = m.nics[first].cluster
  BY <1>3, <1>5 DEF Named
<1> HIDE DEF c
<1>7. Named(ClusterRows, m.nics[first].cluster, a) = {c}
  BY <1>6, OneRow
<1>8. \A i \in LiteralOf(m) :
         f[i] \in SubnetRows(m.nics[i], a) /\ f[i].cluster # None /\ f[i].cluster = c.uuid
  BY <1>5, <1>7
<1>9. pe = c.pe
  BY <1>4, <1>6, PeOfRow DEF c
<1>10. SpecOf(m, f, a, pe) =
         [pe |-> c.pe, cluster |-> None,
          nics |-> [i \in DOMAIN m.nics |->
                      IF m.nics[i].subnet = Macro THEN [subnet |-> Macro, vpc |-> None]
                      ELSE [subnet |-> f[i].uuid, vpc |-> IF IsOverlay(f[i]) THEN f[i].vpc ELSE None]]]
  BY <1>9 DEF SpecOf
<1> QED
  BY <1>6, <1>8, <1>10 DEF MadeFrom

LEMMA CompiledFrom ==
    ASSUME world \in World, NEW m, DOMAIN m.nics \subseteq Nat, Says(m), NEW s \in Compilations(m)
    PROVE  \E a \in AccountOf(m) : \E f \in Finds(m, a) : \E c \in ClusterRows : MadeFrom(m, s, a, f, c)
<1>1. PICK a \in AccountOf(m), f \in UNION {Finds(m, b) : b \in AccountOf(m)} :
         f \in Finds(m, a) /\ Fits(m, f, a) /\ \E pe \in PeAccounts(m, f, a) : s = SpecOf(m, f, a, pe)
  BY DEF Compilations
<1>2. PICK pe \in PeAccounts(m, f, a) : s = SpecOf(m, f, a, pe)
  BY <1>1
<1>3. CASE m.cluster # None
  BY <1>1, <1>2, <1>3, CompiledWithCluster
<1>4. CASE m.cluster = None
  BY <1>1, <1>2, <1>4, CompiledByNics
<1> QED
  BY <1>3, <1>4

LEMMA SaysIt == SaysItsCluster <=> Says(machine)
BY DEF SaysItsCluster, Says, Literal, LiteralOf

\* What is compiled now has been compiled in one of the worlds.
LEMMA CompiledNow ==
    ASSUME world \in World, machine \in Machine, SaysItsCluster, spec \in Compilations(machine)
    PROVE  WasCompiled
<1>1. PICK a \in AccountOf(machine), f \in UNION {Finds(machine, b) : b \in AccountOf(machine)},
           c \in ClusterRows : MadeFrom(machine, spec, a, f, c)
  BY MachineAssumption, SaysIt, CompiledFrom
<1>2. c \in world.clusters /\ c.pe # None /\ c.account = a
  BY <1>1 DEF ClusterRows, MadeFrom
<1> DEFINE nic(i) == IF machine.nics[i].subnet = Macro THEN [subnet |-> Macro, vpc |-> None]
                     ELSE [subnet |-> f[i].uuid, vpc |-> IF IsOverlay(f[i]) THEN f[i].vpc ELSE None]
<1>3. spec = [pe |-> c.pe, cluster |-> IF machine.cluster = None THEN None ELSE c.uuid,
              nics |-> [i \in DOMAIN machine.nics |-> nic(i)]]
  BY <1>1 DEF MadeFrom
<1>4. ASSUME NEW i \in DOMAIN machine.nics, machine.nics[i].subnet # Macro
      PROVE  /\ f[i] \in world.subnets /\ f[i].account = a
             /\ f[i].cluster # None => f[i].cluster = c.uuid
             /\ machine.cluster = None => f[i].cluster # None
  BY <1>1, <1>4 DEF MadeFrom, LiteralOf, SubnetRows
<1>5. ASSUME NEW i \in DOMAIN machine.nics
      PROVE  IF machine.nics[i].subnet = Macro THEN spec.nics[i] = [subnet |-> Macro, vpc |-> None]
             ELSE \E r \in world.subnets :
                     /\ r.account = c.account
                     /\ spec.nics[i] = [subnet |-> r.uuid, vpc |-> IF IsOverlay(r) THEN r.vpc ELSE None]
                     /\ r.cluster # None => r.cluster = c.uuid
                     /\ machine.cluster = None => r.cluster # None
  <2>1. spec.nics[i] = nic(i)
    BY <1>3
  <2> QED
    BY <1>2, <1>4, <2>1
<1>6. /\ spec.pe = c.pe /\ spec.cluster = IF machine.cluster = None THEN None ELSE c.uuid
      /\ spec = [pe |-> spec.pe, cluster |-> spec.cluster, nics |-> spec.nics]
      /\ spec.nics = [i \in DOMAIN machine.nics |-> spec.nics[i]]
  BY <1>3
<1> QED
  BY <1>2, <1>5, <1>6 DEF WasCompiled

\* What one compilation puts together belongs together.
LEMMA PlacedFollows == PlacementIInv => PlacedTogether
<1> SUFFICES ASSUME PlacementIInv, progress = "compiled", moves = {}, SaysItsCluster, NEW i \in Literal
             PROVE  /\ Found(i).cluster # None => ClusterOf(Found(i)).pe = spec.pe
                    /\ \E c \in world.clusters : c.pe = spec.pe /\ c.account = Found(i).account
                    /\ Found(i).uuid \in Allowed(machine)
  BY DEF PlacedTogether
<1>1. world \in World /\ machine \in Machine /\ spec \in Compilations(machine)
  BY DEF PlacementIInv
<1>2. PICK a \in AccountOf(machine), f \in UNION {Finds(machine, b) : b \in AccountOf(machine)},
           c \in ClusterRows : MadeFrom(machine, spec, a, f, c)
  BY <1>1, MachineAssumption, SaysIt, CompiledFrom
<1>3. i \in LiteralOf(machine) /\ i \in DOMAIN machine.nics /\ machine.nics[i].subnet # Macro
  BY DEF Literal, LiteralOf
<1>4. /\ f[i] \in world.subnets /\ f[i].account = a /\ Readable(f[i]) /\ NicFits(machine, f[i], a)
      /\ f[i].cluster # None => f[i].cluster = c.uuid
  BY <1>2, <1>3, FoundSubnets DEF MadeFrom
<1>5. spec.pe = c.pe /\ spec.nics[i].subnet = f[i].uuid
  BY <1>2, <1>3 DEF MadeFrom
<1>6. Found(i) = f[i]
  BY <1>1, <1>4, <1>5, OneRow DEF Found, Row
<1>7. c \in world.clusters /\ c.account = a
  BY <1>2 DEF MadeFrom, ClusterRows
<1>8. f[i].cluster # None => ClusterOf(f[i]) = c
  BY <1>1, <1>4, OneRow DEF ClusterOf
<1>9. f[i].uuid \in Allowed(machine)
  BY <1>4 DEF NicFits
<1> QED
  BY <1>4, <1>5, <1>6, <1>7, <1>8, <1>9

-----------------------------------------------------------------------------
(* The steps.                                                              *)

LEMMA PlacementInit == PlacementStart => PlacementIInv
BY DEF PlacementStart, PlacementIInv

\* What compilation and decompilation make of something depends on the world alone.
LEMMA WorldStays ==
    ASSUME NEW m, NEW s, UNCHANGED world
    PROVE  /\ Compilations(m)' = Compilations(m) /\ (Refused(m)' <=> Refused(m))
           /\ Decompilable(s)' <=> Decompilable(s)
           /\ machine' = machine => Decompilation(s)' = Decompilation(s)
<1>1. ClusterRows' = ClusterRows
  BY DEF ClusterRows
<1>2. \A r : (Readable(r)' <=> Readable(r)) /\ ClusterOf(r)' = ClusterOf(r) /\ VpcOf(r)' = VpcOf(r)
  BY <1>1 DEF Readable, ClusterOf, VpcOf, Identified
<1>3. \A n, b : SubnetRows(n, b)' = SubnetRows(n, b)
  BY <1>1 DEF SubnetRows, Named
<1>4. \A b : Finds(m, b)' = Finds(m, b)
  BY <1>3 DEF Finds
<1>5. AccountOf(m)' = AccountOf(m) /\ Allowed(m)' = Allowed(m)
  BY DEF AccountOf, Allowed
<1>6. \A b : Pes(b)' = Pes(b) /\ ClustersOf(m, b)' = ClustersOf(m, b)
  BY <1>1 DEF Pes, ClustersOf, Named
<1>7. \A n, b : PeOf(n, b)' = PeOf(n, b)
  BY <1>1 DEF PeOf, Named
<1>8. \A g, b : PeAccounts(m, g, b)' = PeAccounts(m, g, b)
  BY <1>2, <1>6, <1>7 DEF PeAccounts, Naming
<1>9. \A r, b : NicFits(m, r, b)' <=> NicFits(m, r, b)
  BY <1>2, <1>5 DEF NicFits, IsOverlay
<1>10. \A g, b : Fits(m, g, b)' <=> Fits(m, g, b)
  BY <1>6, <1>9 DEF Fits, NetworksAgree
<1>11. ASSUME NEW g, NEW b, NEW pe PROVE SpecOf(m, g, b, pe)' = SpecOf(m, g, b, pe)
  <2> DEFINE made(cs) ==
        [pe |-> pe,
         cluster |-> IF m.cluster = None THEN None
                     ELSE IF m.cluster.name = Macro THEN Macro
                     ELSE (CHOOSE c \in cs : TRUE).uuid,
         nics |-> [i \in DOMAIN m.nics |->
                     IF m.nics[i].subnet = Macro THEN [subnet |-> Macro, vpc |-> None]
                     ELSE [subnet |-> g[i].uuid, vpc |-> IF IsOverlay(g[i]) THEN g[i].vpc ELSE None]]]
  <2>1. SpecOf(m, g, b, pe) = made(ClustersOf(m, b)) /\ SpecOf(m, g, b, pe)' = made(ClustersOf(m, b)')
    BY DEF SpecOf
  <2>2. ClustersOf(m, b)' = ClustersOf(m, b)
    BY <1>6
  <2> HIDE DEF made
  <2> QED
    BY <2>1, <2>2
<1>12. Compilations(m)' = Compilations(m) /\ (Refused(m)' <=> Refused(m))
  BY <1>4, <1>5, <1>8, <1>10, <1>11 DEF Compilations, Refused
<1>13. Decompilable(s)' <=> Decompilable(s)
  BY <1>1, <1>2 DEF Decompilable, Identified
<1>14. ASSUME machine' = machine PROVE Decompilation(s)' = Decompilation(s)
  <2>1. \A pe : AccountAbove(pe)' = AccountAbove(pe)
    BY DEF AccountAbove
  <2>2. \A n : NicText(n)' = NicText(n)
    BY <1>2 DEF NicText, IsOverlay
  <2> QED
    BY <1>1, <1>14, <2>1, <2>2 DEF Decompilation
<1> QED
  BY <1>12, <1>13, <1>14

\* What a variable holds may be put in its place.
LEMMA InItsPlace ==
    ASSUME NEW k
    PROVE  /\ machine = k => Compilations(machine) = Compilations(k)
           /\ rewritten = k => Compilations(rewritten) = Compilations(k) /\ (Refused(rewritten) <=> Refused(k))
           /\ spec = k => (Decompilable(spec) <=> Decompilable(k)) /\ Decompilation(spec) = Decompilation(k)
OBVIOUS

\* While neither the world nor what they are made of changes.
LEMMA StaysMade ==
    ASSUME UNCHANGED world
    PROVE  /\ UNCHANGED machine => Compilations(machine)' = Compilations(machine)
           /\ UNCHANGED rewritten => /\ Compilations(rewritten)' = Compilations(rewritten)
                                     /\ Refused(rewritten)' <=> Refused(rewritten)
           /\ UNCHANGED spec => Decompilable(spec)' <=> Decompilable(spec)
           /\ UNCHANGED <<machine, spec>> => Decompilation(spec)' = Decompilation(spec)
<1>1. ASSUME UNCHANGED machine PROVE Compilations(machine)' = Compilations(machine)
  <2> SUFFICES ASSUME NEW k, machine = k PROVE Compilations(machine)' = Compilations(machine)
    OBVIOUS
  <2>1. machine = k => Compilations(machine) = Compilations(k)
    BY InItsPlace
  <2>2. (machine = k => Compilations(machine) = Compilations(k))'
    BY InItsPlace, PTL
  <2> QED
    BY <1>1, <2>1, <2>2, WorldStays
<1>2. ASSUME UNCHANGED rewritten
      PROVE  Compilations(rewritten)' = Compilations(rewritten) /\ (Refused(rewritten)' <=> Refused(rewritten))
  <2> SUFFICES ASSUME NEW k, rewritten = k
               PROVE  /\ Compilations(rewritten)' = Compilations(rewritten)
                      /\ Refused(rewritten)' <=> Refused(rewritten)
    OBVIOUS
  <2>1. rewritten = k => Compilations(rewritten) = Compilations(k) /\ (Refused(rewritten) <=> Refused(k))
    BY InItsPlace
  <2>2. (rewritten = k => Compilations(rewritten) = Compilations(k) /\ (Refused(rewritten) <=> Refused(k)))'
    BY InItsPlace, PTL
  <2> QED
    BY <1>2, <2>1, <2>2, WorldStays
<1>3. ASSUME UNCHANGED spec
      PROVE  /\ Decompilable(spec)' <=> Decompilable(spec)
             /\ UNCHANGED machine => Decompilation(spec)' = Decompilation(spec)
  <2> SUFFICES ASSUME NEW k, spec = k
               PROVE  /\ Decompilable(spec)' <=> Decompilable(spec)
                      /\ UNCHANGED machine => Decompilation(spec)' = Decompilation(spec)
    OBVIOUS
  <2>1. spec = k => (Decompilable(spec) <=> Decompilable(k)) /\ Decompilation(spec) = Decompilation(k)
    BY InItsPlace
  <2>2. (spec = k => (Decompilable(spec) <=> Decompilable(k)) /\ Decompilation(spec) = Decompilation(k))'
    BY InItsPlace, PTL
  <2> QED
    BY <1>3, <2>1, <2>2, WorldStays
<1> QED
  BY <1>1, <1>2, <1>3

LEMMA StaysCompiled ==
    UNCHANGED <<machine, spec>> => (SaysItsCluster' <=> SaysItsCluster) /\ (WasCompiled' <=> WasCompiled)
BY DEF SaysItsCluster, Literal, WasCompiled

LEMMA PlacementStep == PlacementIInv /\ [PlacementNext]_placementOwn => PlacementIInv'
<1> SUFFICES ASSUME PlacementIInv, [PlacementNext]_placementOwn PROVE PlacementIInv'
  OBVIOUS
<1>1. world \in World /\ machine \in Machine
  BY DEF PlacementIInv
<1>2. CASE CompileMachine
  <2>1. UNCHANGED <<world, machine>> /\ progress' = "compiled" /\ spec' \in Compilations(machine)
    BY <1>2 DEF CompileMachine
  <2>2. (spec \in Compilations(machine))'
    BY <2>1, StaysMade
  <2>3. (world \in World /\ machine \in Machine)'
    BY <1>1, <2>1
  <2>4. (SaysItsCluster => WasCompiled)'
    <3>1. (world \in World /\ machine \in Machine /\ SaysItsCluster /\ spec \in Compilations(machine)
             => WasCompiled)'
      BY CompiledNow, PTL
    <3> QED
      BY <2>2, <2>3, <3>1
  <2> QED
    BY <2>1, <2>2, <2>3, <2>4 DEF PlacementIInv
<1>3. CASE RefuseMachine
  BY <1>1, <1>3 DEF RefuseMachine, PlacementIInv
<1>4. CASE DecompileMachine
  <2>1. UNCHANGED <<world, machine, spec, moves>> /\ progress = "compiled" /\ progress' = "decompiled"
        /\ Decompilable(spec) /\ rewritten' = Decompilation(spec)
    BY <1>4 DEF DecompileMachine
  <2>2. Decompilable(spec)' /\ rewritten' = Decompilation(spec)'
    BY <2>1, StaysMade
  <2> QED
    BY <1>1, <2>1, <2>2, StaysMade, StaysCompiled DEF PlacementIInv
<1>5. CASE DecompileMachineFails
  <2>1. UNCHANGED <<world, machine, spec, moves>> /\ progress = "compiled" /\ progress' = "lost"
        /\ ~ Decompilable(spec)
    BY <1>5 DEF DecompileMachineFails
  <2> QED
    BY <1>1, <2>1, StaysMade, StaysCompiled DEF PlacementIInv
<1>6. CASE RecompileMachine
  <2>1. UNCHANGED <<world, machine, spec, rewritten, moves>> /\ progress = "decompiled"
        /\ progress' = "recompiled" /\ respec' \in Compilations(rewritten)
    BY <1>6 DEF RecompileMachine
  <2> QED
    BY <1>1, <2>1, StaysMade, StaysCompiled DEF PlacementIInv
<1>7. CASE RefuseRewritten
  <2>1. UNCHANGED <<world, machine, spec, rewritten, moves>> /\ progress = "decompiled"
        /\ progress' = "estranged" /\ Refused(rewritten)
    BY <1>7 DEF RefuseRewritten
  <2> QED
    BY <1>1, <2>1, StaysMade, StaysCompiled DEF PlacementIInv
<1>8. CASE WorldMoves
  <2>1. UNCHANGED <<machine, progress, spec, rewritten, respec>> /\ world' \in World
        /\ progress \in {"compiled", "decompiled"} /\ moves' = moves \cup {progress}
    BY <1>8 DEF WorldMoves
  <2>2. moves' # {} /\ (progress = "decompiled" => "decompiled" \in moves')
    BY <2>1
  <2> QED
    BY <1>1, <2>1, <2>2, StaysCompiled DEF PlacementIInv
<1>9. CASE UNCHANGED placementOwn
  <2>1. UNCHANGED <<world, machine, progress, spec, rewritten, respec, moves>>
    BY <1>9 DEF placementOwn
  <2> QED
    BY <1>1, <2>1, StaysMade, StaysCompiled DEF PlacementIInv
<1> QED
  BY <1>2, <1>3, <1>4, <1>5, <1>6, <1>7, <1>8, <1>9 DEF PlacementNext

-----------------------------------------------------------------------------
(* Decompilation and what is compiled of its text.                         *)

\* The specification is one of the machine with the cluster c, in this world.
Stands(c) ==
    /\ c \in ClusterRows
    /\ spec = [pe |-> c.pe, cluster |-> IF machine.cluster = None THEN None ELSE c.uuid,
               nics |-> [i \in DOMAIN machine.nics |-> spec.nics[i]]]
    /\ \A i \in DOMAIN machine.nics :
           IF machine.nics[i].subnet = Macro THEN spec.nics[i] = [subnet |-> Macro, vpc |-> None]
           ELSE \E r \in world.subnets :
                   /\ Readable(r) /\ (r.cluster # None \/ r.vpc # None)
                   /\ r.account = c.account
                   /\ spec.nics[i] = [subnet |-> r.uuid, vpc |-> IF IsOverlay(r) THEN r.vpc ELSE None]
                   /\ r.cluster # None => r.cluster = c.uuid
                   /\ machine.cluster = None => r.cluster # None

\* What was compiled, and can be decompiled, has only been renamed.
LEMMA StillStands ==
    ASSUME world \in World, machine \in Machine, SaysItsCluster, WasCompiled, Decompilable(spec)
    PROVE  \E c \in ClusterRows : Stands(c)
<1>1. PICK w \in World, d \in UNION {x.clusters : x \in World} :
         /\ d \in w.clusters
         /\ d.pe # None
         /\ spec.pe = d.pe /\ spec.cluster = IF machine.cluster = None THEN None ELSE d.uuid
         /\ spec = [pe |-> spec.pe, cluster |-> spec.cluster, nics |-> spec.nics]
         /\ spec.nics = [i \in DOMAIN machine.nics |-> spec.nics[i]]
         /\ \A i \in DOMAIN machine.nics :
               IF machine.nics[i].subnet = Macro THEN spec.nics[i] = [subnet |-> Macro, vpc |-> None]
               ELSE \E r \in w.subnets :
                       /\ r.account = d.account
                       /\ spec.nics[i] = [subnet |-> r.uuid, vpc |-> IF IsOverlay(r) THEN r.vpc ELSE None]
                       /\ r.cluster # None => r.cluster = d.uuid
                       /\ machine.cluster = None => r.cluster # None
  BY DEF WasCompiled
<1>2. ASSUME NEW i \in DOMAIN machine.nics, machine.nics[i].subnet # Macro
      PROVE  \E r \in world.subnets :
                /\ Readable(r) /\ (r.cluster # None \/ r.vpc # None)
                /\ r.account = d.account
                /\ spec.nics[i] = [subnet |-> r.uuid, vpc |-> IF IsOverlay(r) THEN r.vpc ELSE None]
                /\ r.cluster # None => r.cluster = d.uuid
                /\ machine.cluster = None => r.cluster # None
  <2>1. PICK q \in w.subnets :
           /\ q.account = d.account
           /\ spec.nics[i] = [subnet |-> q.uuid, vpc |-> IF IsOverlay(q) THEN q.vpc ELSE None]
           /\ q.cluster # None => q.cluster = d.uuid
           /\ machine.cluster = None => q.cluster # None
    BY <1>1, <1>2
  <2>2. q.uuid # Macro
    BY WorldAssumption
  <2>3. i \in DOMAIN spec.nics /\ spec.nics[i].subnet = q.uuid
    BY <1>1, <2>1
  <2>4. PICK r \in Identified(world.subnets, q.uuid) : Readable(r) /\ (r.cluster # None \/ r.vpc # None)
    BY <2>2, <2>3 DEF Decompilable
  <2>5. r \in world.subnets /\ r.uuid = q.uuid
    BY <2>4 DEF Identified
  <2>6. r.account = q.account /\ r.cluster = q.cluster /\ r.vpc = q.vpc
    BY <2>5, ServerAssumption
  <2> QED
    BY <2>1, <2>4, <2>5, <2>6 DEF IsOverlay
<1>3. PICK c \in ClusterRows : c.uuid = d.uuid
  <2>1. CASE machine.cluster # None
    <3>1. spec.cluster = d.uuid /\ d.uuid \notin {None, Macro}
      BY <1>1, <2>1, WorldAssumption
    <3> QED
      BY <3>1 DEF Decompilable, Identified
  <2>2. CASE machine.cluster = None
    <3>1. PICK i \in Literal : TRUE
      BY <2>2 DEF SaysItsCluster
    <3>2. PICK r \in world.subnets : Readable(r) /\ r.cluster # None /\ r.cluster = d.uuid
      BY <1>2, <2>2, <3>1 DEF Literal
    <3> QED
      BY <3>2 DEF Readable, Identified
  <2> QED
    BY <2>1, <2>2
<1>4. c.account = d.account /\ c.pe = d.pe
  <2>1. c \in world.clusters /\ c.pe # None
    BY DEF ClusterRows
  <2>2. c.account = d.account /\ (c.pe = d.pe \/ None \in {c.pe, d.pe})
    BY <1>1, <1>3, <2>1, ServerAssumption
  <2> QED
    BY <1>1, <2>1, <2>2
<1>5. spec = [pe |-> c.pe, cluster |-> IF machine.cluster = None THEN None ELSE c.uuid,
              nics |-> [i \in DOMAIN machine.nics |-> spec.nics[i]]]
  BY <1>1, <1>3, <1>4
<1>6. \A i \in DOMAIN machine.nics :
         machine.nics[i].subnet = Macro => spec.nics[i] = [subnet |-> Macro, vpc |-> None]
  BY <1>1
<1>7. \A i \in DOMAIN machine.nics :
         IF machine.nics[i].subnet = Macro THEN spec.nics[i] = [subnet |-> Macro, vpc |-> None]
         ELSE \E r \in world.subnets :
                 /\ Readable(r) /\ (r.cluster # None \/ r.vpc # None)
                 /\ r.account = c.account
                 /\ spec.nics[i] = [subnet |-> r.uuid, vpc |-> IF IsOverlay(r) THEN r.vpc ELSE None]
                 /\ r.cluster # None => r.cluster = c.uuid
                 /\ machine.cluster = None => r.cluster # None
  BY <1>2, <1>3, <1>4, <1>6
<1> QED
  BY <1>5, <1>7 DEF Stands

\* NIC i of the text m finds the subnet r of the specification, which has the
\* cluster c if it has one.
FindsAgain(m, c, i, r) ==
    /\ Readable(r) /\ r.account = c.account
    /\ spec.nics[i] = [subnet |-> r.uuid, vpc |-> IF IsOverlay(r) THEN r.vpc ELSE None]
    /\ r.cluster # None => r.cluster = c.uuid /\ ClusterOf(r) = c
    /\ machine.cluster = None => r.cluster # None
    /\ SubnetRows(m.nics[i], c.account) = {r}
    /\ m.nics[i].cluster = IF r.cluster = None THEN None ELSE c.name
    /\ m.nics[i].vpc = IF r.cluster = None THEN VpcOf(r).name ELSE None
    /\ r.cluster = None => IsOverlay(r) /\ VpcOf(r).name # None

\* The text says the same cluster, and each of its NICs finds its subnet.
LEMMA TextSays ==
    ASSUME world \in World, machine \in Machine, SaysItsCluster, NEW c \in ClusterRows, Stands(c),
           NEW m, m = Decompilation(spec)
    PROVE  /\ DOMAIN m.nics = DOMAIN machine.nics /\ LiteralOf(m) = Literal
           /\ m.home = machine.home /\ m.account = AccountAbove(spec.pe)
           /\ m.cluster = IF machine.cluster = None THEN None ELSE [name |-> c.name, account |-> None]
           /\ m.cluster = None <=> machine.cluster = None
           /\ \A i \in DOMAIN machine.nics \ Literal :
                 m.nics[i] = [subnet |-> Macro, cluster |-> None, vpc |-> None]
           /\ \A i \in Literal : \E r \in world.subnets : FindsAgain(m, c, i, r)
           /\ Says(m)
<1>1. c \in world.clusters /\ c.uuid \notin {None, Macro} /\ c.name \notin {None, Macro}
      /\ [name |-> c.name, account |-> None] # None
  BY WorldAssumption DEF ClusterRows
<1>2. spec.pe = c.pe /\ spec.cluster = (IF machine.cluster = None THEN None ELSE c.uuid)
      /\ DOMAIN spec.nics = DOMAIN machine.nics
  BY DEF Stands
<1>3. (CHOOSE d \in ClusterRows : d.uuid = c.uuid) = c
  BY OneRow
<1>4. m.cluster = IF machine.cluster = None THEN None ELSE [name |-> c.name, account |-> None]
  BY <1>1, <1>2, <1>3 DEF Decompilation
<1>5. m.home = machine.home /\ m.account = AccountAbove(spec.pe)
      /\ m.nics = [i \in DOMAIN spec.nics |-> NicText(spec.nics[i])]
  BY DEF Decompilation
<1>6. ASSUME NEW i \in DOMAIN machine.nics, machine.nics[i].subnet = Macro
      PROVE  m.nics[i] = [subnet |-> Macro, cluster |-> None, vpc |-> None]
  <2>1. spec.nics[i] = [subnet |-> Macro, vpc |-> None]
    BY <1>6 DEF Stands
  <2> QED
    BY <1>2, <1>5, <2>1 DEF NicText
<1>7. ASSUME NEW i \in DOMAIN machine.nics, machine.nics[i].subnet # Macro
      PROVE  /\ m.nics[i].subnet # Macro
             /\ \E r \in world.subnets : FindsAgain(m, c, i, r)
  <2>1. PICK r \in world.subnets :
           /\ Readable(r) /\ (r.cluster # None \/ r.vpc # None)
           /\ r.account = c.account
           /\ spec.nics[i] = [subnet |-> r.uuid, vpc |-> IF IsOverlay(r) THEN r.vpc ELSE None]
           /\ r.cluster # None => r.cluster = c.uuid
           /\ machine.cluster = None => r.cluster # None
    BY <1>7 DEF Stands
  <2> DEFINE v == IF IsOverlay(r) THEN r.vpc ELSE None
  <2>2. m.nics[i] = NicText([subnet |-> r.uuid, vpc |-> v])
    BY <1>2, <1>5, <2>1
  <2>3. r.cluster # None => ClusterOf(r) = c
    BY <1>3, <2>1 DEF ClusterOf
  <2>4. /\ m.nics[i].subnet # Macro
        /\ m.nics[i].cluster = IF r.cluster = None THEN None ELSE ClusterOf(r).name
        /\ m.nics[i].vpc = IF r.cluster = None THEN VpcOf(r).name ELSE None
        /\ SubnetRows(m.nics[i], r.account) = {r}
        /\ r.cluster = None => VpcOf(r).name # None
    BY <2>1, <2>2, TextFindsBack
  <2> QED
    BY <2>1, <2>3, <2>4 DEF IsOverlay, FindsAgain
<1>8. DOMAIN m.nics = DOMAIN machine.nics /\ LiteralOf(m) = Literal
  BY <1>2, <1>5, <1>6, <1>7 DEF LiteralOf, Literal
<1>9. m.cluster = None <=> machine.cluster = None
  BY <1>1, <1>4
<1>10. Says(m)
  <2>1. CASE machine.cluster # None
    BY <1>1, <1>4, <1>9, <2>1 DEF Says
  <2>2. CASE machine.cluster = None
    <3>1. \A i \in LiteralOf(m) : m.nics[i].cluster = c.name
      BY <1>7, <1>8, <2>2 DEF Literal, FindsAgain
    <3>2. LiteralOf(m) # {}
      BY <1>8, <2>2 DEF SaysItsCluster
    <3> QED
      BY <1>1, <1>9, <2>2, <3>1, <3>2 DEF Says
  <2> QED
    BY <2>1, <2>2
<1> QED
  BY <1>4, <1>5, <1>6, <1>7, <1>8, <1>9, <1>10 DEF Literal

\* The account of a cluster is below one account.
LEMMA AccountAboveCluster ==
    ASSUME world \in World, NEW c \in ClusterRows, AccountAbove(c.pe) # None
    PROVE  AccountAbove(c.pe) = c.account
<1> DEFINE above == {d.account : d \in {e \in world.clusters : e.pe = c.pe}} \cap world.listed
<1>1. above # {} /\ AccountAbove(c.pe) = CHOOSE a \in above : TRUE
  BY DEF AccountAbove
<1>2. AccountAbove(c.pe) \in above
  BY <1>1
<1>3. PICK d \in world.clusters : d.pe = c.pe /\ d.account = AccountAbove(c.pe)
  BY <1>2
<1>4. c \in world.clusters /\ c.pe # None
  BY DEF ClusterRows
<1> QED
  BY <1>3, <1>4, ServerAssumption

\* The text is compiled to what it was made of, or not at all.
LEMMA SameAgain ==
    ASSUME world \in World, machine \in Machine, SaysItsCluster, NEW c \in ClusterRows, Stands(c),
           NEW m, m = Decompilation(spec), m.account # None, NEW t \in Compilations(m)
    PROVE  t = spec
<1>1. spec = [pe |-> c.pe, cluster |-> IF machine.cluster = None THEN None ELSE c.uuid,
              nics |-> [i \in DOMAIN machine.nics |-> spec.nics[i]]]
  BY DEF Stands
<1>2. /\ DOMAIN m.nics = DOMAIN machine.nics /\ LiteralOf(m) = Literal /\ Says(m)
      /\ m.account = AccountAbove(c.pe)
      /\ m.cluster = IF machine.cluster = None THEN None ELSE [name |-> c.name, account |-> None]
      /\ m.cluster = None <=> machine.cluster = None
  BY <1>1, TextSays
<1>3. m.account = c.account
  BY <1>2, AccountAboveCluster
<1>4. DOMAIN m.nics \subseteq Nat
  BY <1>2, MachineAssumption
<1>5. PICK a \in AccountOf(m), f \in UNION {Finds(m, b) : b \in AccountOf(m)}, d \in ClusterRows :
         MadeFrom(m, t, a, f, d)
  BY <1>2, <1>4, CompiledFrom
<1>6. a = c.account /\ d.account = a
  BY <1>3, <1>5 DEF AccountOf, MadeFrom
<1>7. ASSUME NEW i \in Literal
      PROVE  /\ spec.nics[i] = [subnet |-> f[i].uuid, vpc |-> IF IsOverlay(f[i]) THEN f[i].vpc ELSE None]
             /\ machine.cluster = None => d.uuid = c.uuid
  <2>1. PICK r \in world.subnets : FindsAgain(m, c, i, r)
    BY <1>7, TextSays
  <2>2. SubnetRows(m.nics[i], c.account) = {r}
    BY <2>1 DEF FindsAgain
  <2>3. f[i] = r /\ (f[i].cluster # None => f[i].cluster = d.uuid)
    BY <1>2, <1>5, <1>6, <2>2 DEF MadeFrom
  <2> QED
    BY <2>1, <2>3 DEF FindsAgain
<1>8. d = c
  <2>1. CASE machine.cluster # None
    <3>1. m.cluster # None /\ m.cluster.name = c.name /\ m.cluster.account = None
      BY <1>2, <2>1
    <3>2. d \in ClustersOf(m, a)
      BY <1>5, <3>1 DEF MadeFrom
    <3>3. d \in Named(ClusterRows, c.name, c.account)
      BY <1>6, <3>1, <3>2 DEF ClustersOf
    <3> QED
      BY <3>3, OneRow
  <2>2. CASE machine.cluster = None
    <3>1. d.uuid = c.uuid
      BY <1>7, <2>2 DEF SaysItsCluster
    <3> QED
      BY <3>1, WorldAssumption DEF ClusterRows
  <2> QED
    BY <2>1, <2>2
<1> DEFINE nic(i) == IF m.nics[i].subnet = Macro THEN [subnet |-> Macro, vpc |-> None]
                     ELSE [subnet |-> f[i].uuid, vpc |-> IF IsOverlay(f[i]) THEN f[i].vpc ELSE None]
<1>9. t = [pe |-> c.pe, cluster |-> IF machine.cluster = None THEN None ELSE c.uuid,
           nics |-> [i \in DOMAIN machine.nics |-> nic(i)]]
  BY <1>2, <1>5, <1>8 DEF MadeFrom
<1>10. ASSUME NEW i \in DOMAIN machine.nics PROVE nic(i) = spec.nics[i]
  <2>1. CASE i \in Literal
    BY <1>2, <1>7, <2>1 DEF LiteralOf
  <2>2. CASE i \notin Literal
    <3>1. m.nics[i] = [subnet |-> Macro, cluster |-> None, vpc |-> None]
      BY <2>2, TextSays
    <3>2. spec.nics[i] = [subnet |-> Macro, vpc |-> None]
      BY <2>2 DEF Stands, Literal
    <3> QED
      BY <3>1, <3>2
  <2> QED
    BY <2>1, <2>2
<1> HIDE DEF nic
<1>11. [i \in DOMAIN machine.nics |-> nic(i)] = [i \in DOMAIN machine.nics |-> spec.nics[i]]
  BY <1>10
<1> QED
  BY <1>1, <1>9, <1>11

\* A NIC that names its cluster or its VPC is given a subnet there.
LEMMA WhereItSays ==
    ASSUME world \in World, NEW n, NEW a, NEW s \in SubnetRows(n, a), Readable(s),
           n.cluster # None \/ n.vpc # None
    PROVE  /\ s.cluster # None \/ s.vpc # None
           /\ s.cluster # None <=> n.cluster # None
           /\ s.cluster = None => n.vpc = VpcOf(s).name /\ n.vpc # None
<1>1. (\A c \in ClusterRows : c.uuid # None) /\ (\A v \in world.vpcs : v.uuid # None)
  BY WorldAssumption DEF ClusterRows
<1>2. CASE n.cluster # None
  BY <1>1, <1>2 DEF SubnetRows, Named
<1>3. CASE n.cluster = None
  <2>1. PICK v \in Named(world.vpcs, n.vpc, a) : s.vpc = v.uuid /\ s.cluster = None
    BY <1>3 DEF SubnetRows
  <2>2. v \in world.vpcs /\ v.name = n.vpc
    BY <2>1 DEF Named
  <2>3. VpcOf(s) = v
    BY <2>1, <2>2, OneRow DEF VpcOf
  <2> QED
    BY <1>1, <1>3, <2>1, <2>2, <2>3
<1> QED
  BY <1>2, <1>3

\* What was just compiled stands, if every NIC says where it belongs.
LEMMA StandsNow ==
    ASSUME world \in World, machine \in Machine, SaysItsCluster,
           \A i \in Literal : machine.nics[i].cluster # None \/ machine.nics[i].vpc # None,
           NEW a \in AccountOf(machine), NEW f \in Finds(machine, a), NEW c \in ClusterRows,
           MadeFrom(machine, spec, a, f, c)
    PROVE  Stands(c)
<1> DEFINE nic(i) == IF machine.nics[i].subnet = Macro THEN [subnet |-> Macro, vpc |-> None]
                     ELSE [subnet |-> f[i].uuid, vpc |-> IF IsOverlay(f[i]) THEN f[i].vpc ELSE None]
<1>1. spec = [pe |-> c.pe, cluster |-> IF machine.cluster = None THEN None ELSE c.uuid,
              nics |-> [i \in DOMAIN machine.nics |-> nic(i)]]
  BY DEF MadeFrom
<1>2. \A i \in DOMAIN machine.nics : spec.nics[i] = nic(i)
  BY <1>1
<1>3. ASSUME NEW i \in DOMAIN machine.nics, machine.nics[i].subnet # Macro
      PROVE  /\ f[i] \in world.subnets /\ Readable(f[i]) /\ (f[i].cluster # None \/ f[i].vpc # None)
             /\ f[i].account = c.account
             /\ f[i].cluster # None => f[i].cluster = c.uuid
             /\ machine.cluster = None => f[i].cluster # None
  <2>1. i \in LiteralOf(machine) /\ i \in Literal
    BY <1>3 DEF LiteralOf, Literal
  <2>2. f[i] \in world.subnets /\ Readable(f[i]) /\ f[i].account = a /\ f[i] \in SubnetRows(machine.nics[i], a)
    BY <2>1, FoundSubnets DEF MadeFrom
  <2>3. f[i].cluster # None \/ f[i].vpc # None
    BY <2>1, <2>2, WhereItSays
  <2> QED
    BY <2>1, <2>2, <2>3 DEF MadeFrom
<1>4. spec = [pe |-> c.pe, cluster |-> IF machine.cluster = None THEN None ELSE c.uuid,
              nics |-> [i \in DOMAIN machine.nics |-> spec.nics[i]]]
  BY <1>1
<1>5. \A i \in DOMAIN machine.nics :
         IF machine.nics[i].subnet = Macro THEN spec.nics[i] = [subnet |-> Macro, vpc |-> None]
         ELSE \E r \in world.subnets :
                 /\ Readable(r) /\ (r.cluster # None \/ r.vpc # None)
                 /\ r.account = c.account
                 /\ spec.nics[i] = [subnet |-> r.uuid, vpc |-> IF IsOverlay(r) THEN r.vpc ELSE None]
                 /\ r.cluster # None => r.cluster = c.uuid
                 /\ machine.cluster = None => r.cluster # None
  BY <1>2, <1>3
<1> QED
  BY <1>4, <1>5 DEF Stands

\* What stands can be decompiled.
LEMMA NotLost ==
    ASSUME machine \in Machine, NEW c \in ClusterRows, Stands(c), c.account \in world.listed
    PROVE  Decompilable(spec)
<1>1. spec.cluster \notin {None, Macro} =>
         \E d \in Identified(ClusterRows, spec.cluster) : d.account \in world.listed
  BY DEF Stands, Identified
<1>2. ASSUME NEW i \in DOMAIN spec.nics, spec.nics[i].subnet # Macro
      PROVE  \E r \in Identified(world.subnets, spec.nics[i].subnet) :
                Readable(r) /\ (r.cluster # None \/ r.vpc # None)
  <2>1. i \in DOMAIN machine.nics /\ machine.nics[i].subnet # Macro
    BY <1>2 DEF Stands
  <2>2. PICK r \in world.subnets :
           /\ Readable(r) /\ (r.cluster # None \/ r.vpc # None)
           /\ spec.nics[i] = [subnet |-> r.uuid, vpc |-> IF IsOverlay(r) THEN r.vpc ELSE None]
    BY <2>1 DEF Stands
  <2>3. r \in Identified(world.subnets, spec.nics[i].subnet)
    BY <2>2 DEF Identified
  <2> QED
    BY <2>2, <2>3
<1> QED
  BY <1>1, <1>2 DEF Decompilable

\* Nor is the text of what stands refused in the world it was compiled in.
LEMMA TextFits ==
    ASSUME world \in World, machine \in Machine, SaysItsCluster,
           \A i \in Literal : machine.nics[i].cluster # None \/ machine.nics[i].vpc # None,
           NEW a \in AccountOf(machine), NEW f \in Finds(machine, a), NEW c \in ClusterRows,
           MadeFrom(machine, spec, a, f, c),
           NEW m, m = Decompilation(spec), NEW g \in Finds(m, a)
    PROVE  Fits(m, g, a)
<1>1. Stands(c) /\ c.account = a /\ Fits(machine, f, a)
  BY StandsNow DEF MadeFrom
<1>2. /\ DOMAIN m.nics = DOMAIN machine.nics /\ LiteralOf(m) = Literal /\ m.home = machine.home
      /\ m.cluster = IF machine.cluster = None THEN None ELSE [name |-> c.name, account |-> None]
      /\ m.cluster = None <=> machine.cluster = None
  BY <1>1, TextSays
<1>3. ASSUME NEW i \in DOMAIN m.nics, i \notin Literal
      PROVE  m.nics[i] = [subnet |-> Macro, cluster |-> None, vpc |-> None]
  BY <1>1, <1>2, <1>3, TextSays
<1>4. ASSUME NEW i \in Literal
      PROVE  /\ i \in DOMAIN machine.nics /\ g[i] = f[i] /\ NicFits(machine, g[i], a) /\ g[i] # None
             /\ g[i] \in world.subnets
             /\ g[i].cluster # None => ClusterOf(g[i]) = c
             /\ m.nics[i].cluster # None => machine.nics[i].cluster # None
             /\ m.nics[i].vpc # None =>
                    machine.nics[i].cluster = None /\ machine.nics[i].vpc = m.nics[i].vpc
  <2>1. PICK r \in world.subnets : FindsAgain(m, c, i, r)
    BY <1>1, <1>4, TextSays
  <2>2. i \in LiteralOf(machine) /\ i \in DOMAIN machine.nics /\ machine.nics[i].subnet # Macro
        /\ i \in DOMAIN m.nics /\ m.nics[i].subnet # Macro
    BY <1>2, <1>4 DEF Literal, LiteralOf
  <2>3. /\ f[i] \in SubnetRows(machine.nics[i], a) /\ NicFits(machine, f[i], a)
        /\ f[i] \in world.subnets /\ Readable(f[i])
    BY <1>1, <2>2, FoundSubnets
  <2>4. f[i] = r
    <3>1. spec.nics[i].subnet = f[i].uuid
      BY <2>2 DEF MadeFrom
    <3>2. spec.nics[i].subnet = r.uuid
      BY <2>1 DEF FindsAgain
    <3>3. r \in world.subnets /\ \A q \in world.subnets : q.uuid = r.uuid => q = r
      BY <2>1, WorldAssumption
    <3> QED
      BY <2>3, <3>1, <3>2, <3>3
  <2>5. g[i] = r
    <3>1. SubnetRows(m.nics[i], a) = {r}
      BY <1>1, <2>1 DEF FindsAgain
    <3> QED
      BY <2>2, <3>1 DEF Finds
  <2>6. f[i] # None
    BY <1>1, <2>2 DEF Fits
  <2>7. machine.nics[i].cluster # None \/ machine.nics[i].vpc # None
    BY <1>4
  <2>8. /\ r.cluster # None <=> machine.nics[i].cluster # None
        /\ r.cluster = None => machine.nics[i].vpc = VpcOf(r).name
    BY <2>3, <2>4, <2>7, WhereItSays
  <2> QED
    BY <2>1, <2>2, <2>3, <2>4, <2>5, <2>6, <2>8 DEF FindsAgain
<1>5. Pes(a) # {}
  BY <1>1 DEF Fits
<1>6. NetworksAgree(m)
  <2>1. \A i \in DOMAIN m.nics :
           /\ i \in DOMAIN machine.nics
           /\ m.nics[i].cluster # None => machine.nics[i].cluster # None
           /\ m.nics[i].vpc # None =>
                  machine.nics[i].cluster = None /\ machine.nics[i].vpc = m.nics[i].vpc
    BY <1>2, <1>3, <1>4
  <2>2. NetworksAgree(machine)
    BY <1>1 DEF Fits
  <2>3. ASSUME NEW i \in DOMAIN m.nics PROVE ~ (m.nics[i].cluster # None /\ m.nics[i].vpc # None)
    BY <2>1, <2>3
  <2>4. ASSUME NEW i \in DOMAIN m.nics, NEW j \in DOMAIN m.nics
        PROVE  /\ ~ (m.nics[i].vpc # None /\ m.nics[j].cluster # None)
               /\ m.nics[i].vpc # None /\ m.nics[j].vpc # None => m.nics[i].vpc = m.nics[j].vpc
    <3>1. /\ ~ (machine.nics[i].vpc # None /\ machine.nics[j].cluster # None)
          /\ machine.nics[i].vpc # None /\ machine.nics[j].vpc # None =>
                 machine.nics[i].vpc = machine.nics[j].vpc
      BY <2>1, <2>2 DEF NetworksAgree
    <3> QED
      BY <2>1, <3>1
  <2> QED
    BY <2>3, <2>4 DEF NetworksAgree
<1>7. ASSUME m.cluster # None PROVE ClustersOf(m, a) # {}
  <2>1. m.cluster.name = c.name /\ m.cluster.account = None /\ machine.cluster # None
    BY <1>2, <1>7
  <2>2. machine.cluster.account = None /\ c \in ClustersOf(machine, a)
    BY <2>1 DEF SaysItsCluster, MadeFrom
  <2>3. c.uuid \in world.projectAllows
    BY <2>2 DEF ClustersOf
  <2>4. c \in Named(ClusterRows, c.name, a)
    BY <1>1 DEF Named
  <2> QED
    BY <2>1, <2>3, <2>4 DEF ClustersOf
<1>8. ASSUME NEW i \in DOMAIN m.nics, m.nics[i].subnet # Macro
      PROVE  g[i] # None /\ NicFits(m, g[i], a)
  <2>1. i \in Literal
    BY <1>2, <1>8 DEF LiteralOf
  <2>2. g[i] # None /\ NicFits(machine, g[i], a) /\ (g[i].cluster # None => ClusterOf(g[i]) = c)
    BY <1>4, <2>1
  <2>3. m.cluster # None => m.cluster.name = c.name
    BY <1>2
  <2>4. Allowed(m) = Allowed(machine)
    BY <1>2 DEF Allowed
  <2>5. NicFits(m, g[i], a)
    BY <1>2, <2>2, <2>3, <2>4 DEF NicFits
  <2> QED
    BY <2>2, <2>5
<1> QED
  BY <1>5, <1>6, <1>7, <1>8 DEF Fits

LEMMA NotRefused ==
    ASSUME world \in World, machine \in Machine, SaysItsCluster,
           \A i \in Literal : machine.nics[i].cluster # None \/ machine.nics[i].vpc # None,
           NEW a \in AccountOf(machine), NEW f \in Finds(machine, a), NEW c \in ClusterRows,
           MadeFrom(machine, spec, a, f, c),
           NEW m, m = Decompilation(spec), m.account # None
    PROVE  ~ Refused(m)
<1>1. Stands(c) /\ c.account = a /\ spec.pe = c.pe
  BY StandsNow DEF MadeFrom
<1>2. m.home = machine.home /\ m.account = a
  BY <1>1, TextSays, AccountAboveCluster
<1>3. a \in AccountOf(m)
  BY <1>2 DEF AccountOf
<1>4. \A g \in Finds(m, a) : Fits(m, g, a)
  BY TextFits
<1> QED
  BY <1>3, <1>4 DEF Refused

LEMMA DecompileFollows == PlacementIInv => DecompileKeepsPlacement
<1> SUFFICES ASSUME PlacementIInv, progress \in {"lost", "estranged", "recompiled"},
                    "decompiled" \notin moves, SaysItsCluster,
                    progress = "lost" \/ rewritten.account # None
             PROVE  /\ progress = "recompiled" => respec = spec
                    /\ (/\ moves = {}
                        /\ \A i \in Literal :
                              machine.nics[i].cluster # None \/ machine.nics[i].vpc # None) =>
                           progress = "recompiled"
  BY DEF DecompileKeepsPlacement
<1>1. world \in World /\ machine \in Machine /\ WasCompiled
  BY DEF PlacementIInv
<1>2. ASSUME progress = "recompiled" PROVE respec = spec
  <2>1. Decompilable(spec) /\ rewritten = Decompilation(spec) /\ respec \in Compilations(rewritten)
    BY <1>2 DEF PlacementIInv
  <2>2. PICK c \in ClusterRows : Stands(c)
    BY <1>1, <2>1, StillStands
  <2>3. rewritten.account # None
    BY <1>2
  <2> QED
    BY <1>1, <2>1, <2>2, <2>3, SameAgain
<1>3. ASSUME moves = {}, \A i \in Literal : machine.nics[i].cluster # None \/ machine.nics[i].vpc # None
      PROVE  progress = "recompiled"
  <2>1. spec \in Compilations(machine)
    BY <1>3 DEF PlacementIInv
  <2>2. PICK a \in AccountOf(machine), f \in UNION {Finds(machine, b) : b \in AccountOf(machine)},
             c \in ClusterRows : MadeFrom(machine, spec, a, f, c)
    BY <1>1, <2>1, MachineAssumption, SaysIt, CompiledFrom
  <2>3. f \in Finds(machine, a) /\ c.account = a /\ a \in world.listed
    BY <2>2 DEF MadeFrom, AccountOf
  <2>4. progress # "lost"
    <3>1. Stands(c)
      BY <1>1, <1>3, <2>2, <2>3, StandsNow
    <3> QED
      BY <1>1, <2>3, <3>1, NotLost DEF PlacementIInv
  <2>5. progress # "estranged"
    <3> SUFFICES ASSUME progress = "estranged" PROVE FALSE
      OBVIOUS
    <3>1. Refused(rewritten) /\ rewritten = Decompilation(spec) /\ rewritten.account # None
      BY DEF PlacementIInv
    <3> QED
      BY <1>1, <1>3, <2>2, <2>3, <3>1, NotRefused
  <2> QED
    BY <2>4, <2>5
<1> QED
  BY <1>2, <1>3

(* The specification of a machine, its text and what is compiled of that   *)
(* are what compilation and decompilation make of one another.             *)
THEOREM PlacementInvariant == PlacementSpec => []PlacementIInv
BY PlacementInit, PlacementStep, PTL DEF PlacementSpec

\* The same of a machine that is compiled and decompiled beside the programs.
MachineIInv ==
    /\ subject = "machine" => PlacementIInv
    /\ subject # "machine" => progress = "written"

LEMMA MachineInit == CompilationInit => MachineIInv
BY PlacementInit DEF CompilationInit, MachineIInv

LEMMA MachineStep == MachineIInv /\ [CompilationNext]_compilationVars => MachineIInv'
<1> SUFFICES ASSUME MachineIInv, [CompilationNext]_compilationVars PROVE MachineIInv'
  OBVIOUS
<1>1. subject' = subject
  BY DEF CompilationNext, compilationVars
<1>2. CASE subject = "machine"
  <2>1. [PlacementNext]_placementOwn
    BY <1>2 DEF CompilationNext, compilationVars
  <2>2. PlacementIInv'
    BY <1>2, <2>1, PlacementStep DEF MachineIInv
  <2> QED
    BY <1>1, <1>2, <2>2 DEF MachineIInv
<1>3. CASE subject # "machine"
  <2>1. progress' = progress
    BY <1>3 DEF CompilationNext, compilationVars, placementOwn
  <2> QED
    BY <1>1, <1>3, <2>1 DEF MachineIInv
<1> QED
  BY <1>2, <1>3

LEMMA MachineFollows == MachineIInv => PlacedTogether /\ DecompileKeepsPlacement
<1>1. progress = "written" => PlacedTogether /\ DecompileKeepsPlacement
  BY DEF PlacedTogether, DecompileKeepsPlacement
<1> QED
  BY <1>1, PlacedFollows, DecompileFollows DEF MachineIInv

(* What compilation puts into one machine belongs together: the account    *)
(* serves the cluster of every VLAN, every subnet is in the account above  *)
(* it, and the project or the environment allows it.                       *)
THEOREM PlacedTogetherHolds == CompilationSpec => []PlacedTogether
BY MachineInit, MachineStep, MachineFollows, PTL DEF CompilationSpec

(* What decompile writes compiles to the same placement, or is refused; it *)
(* is not refused if nothing changed and every NIC said where it belongs.  *)
THEOREM DecompileKeepsPlacementHolds == CompilationSpec => []DecompileKeepsPlacement
BY MachineInit, MachineStep, MachineFollows, PTL DEF CompilationSpec
=============================================================================
