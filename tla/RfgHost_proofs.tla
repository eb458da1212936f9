-------------------------- MODULE RfgHost_proofs --------------------------
(***************************************************************************)
(* Proofs about the register driver: for every register map, part length,  *)
(* number of calls and of faults, it keeps its types; until a call is      *)
(* cancelled, a read returns what its register holds; when a register is   *)
(* not written twice without a flush, a write reaches no other register,   *)
(* and a session without faults implements RegisterAccess.                 *)
(*                                                                         *)
(* The registers after a sequence of commands are a fold, the bytes of the *)
(* buffer a concatenation, and a write is sent in any number of parts.     *)
(* What these do to sequences of any length is proved by induction, from   *)
(* the least-number principle for sets of numbers (Smallest); the folds    *)
(* are unfolded to the recursive functions that define them.               *)
(*                                                                         *)
(* Then come the types, the command in the buffer that can be extended,    *)
(* where the one command that is answered can be (OneCall), and what the   *)
(* registers will hold when all that was called has been carried out       *)
(* (Shown), which no step of the threads and the firmware changes.         *)
(***************************************************************************)
EXTENDS RfgHost, SequenceTheorems, WellFoundedInduction, TLAPS

-----------------------------------------------------------------------------
(* The least-number principle for sets, and induction from it.             *)
LEMMA Smallest ==
    ASSUME NEW T, T \subseteq Nat, T # {}
    PROVE  \E n \in T : \A m \in T : n <= m
<1> DEFINE R == {ss \in Nat \X Nat : ss[1] < ss[2]}
<1>1. IsWellFoundedOn(R, Nat)
  BY NatLessThanWellFounded DEF OpToRel
<1> HIDE DEF R
<1>2. PICK x \in T : \A y \in T : ~ (<<y, x>> \in R)
  BY <1>1, WFMin
<1>3. \A y \in T : ~ (y < x)
  BY <1>2 DEF R
<1> QED
  BY <1>3

(* Induction over the numbers, for a set that holds 0 and every successor. *)
LEMMA Induction ==
    ASSUME NEW T, 0 \in T, \A n \in Nat : n \in T => n + 1 \in T
    PROVE  Nat \subseteq T
<1> DEFINE U == Nat \ T
<1> SUFFICES ASSUME U # {} PROVE FALSE
  OBVIOUS
<1>1. PICK n \in U : \A m \in U : n <= m
  BY Smallest
<1>2. n # 0 /\ n - 1 \in Nat /\ n - 1 \in T
  BY <1>1
<1> QED
  BY <1>2

(* The largest of some numbers up to n.                                    *)
LEMMA LargestIn ==
    ASSUME NEW n \in Nat, NEW s, s \subseteq 1 .. n, s # {}
    PROVE  Max(s) \in s /\ \A y \in s : Max(s) >= y
<1> DEFINE U == {m \in Nat : \A y \in s : m >= y}
<1>1. n \in U
  OBVIOUS
<1>2. PICK m \in U : \A k \in U : m <= k
  BY <1>1, Smallest
<1>3. m \in s
  <2> SUFFICES ASSUME m \notin s PROVE FALSE
    OBVIOUS
  <2>1. m # 0
    <3>1. PICK y \in s : y \in 1 .. n
      OBVIOUS
    <3> QED
      BY <3>1
  <2>2. m - 1 \in U
    BY <2>1
  <2> QED
    BY <1>2, <2>2
<1> QED
  BY <1>3 DEF Max

-----------------------------------------------------------------------------
(* FoldLeft.                                                               *)

(* What the recursion of FoldLeft computes on the index sets up to n.      *)
Folds(base, cs, n, g) ==
    g = [s \in SUBSET (1 .. n) |->
            IF s = {} THEN base ELSE Do(g[s \ {Max(s)}], cs[Max(s)])]

(* It begins with the base.                                                *)
LEMMA FoldsEmpty ==
    ASSUME NEW base, NEW cs, NEW n \in Nat, NEW g, Folds(base, cs, n, g)
    PROVE  g[{}] = base
  BY DEF Folds

(* One command more.                                                       *)
LEMMA FoldsExtended ==
    ASSUME NEW base, NEW cs, NEW n \in Nat, NEW g, Folds(base, cs, n, g)
    PROVE  \E h : Folds(base, cs, n + 1, h)
<1> DEFINE h == [s \in SUBSET (1 .. n + 1) |->
                    IF n + 1 \in s THEN Do(g[s \ {n + 1}], cs[n + 1]) ELSE g[s]]
<1> SUFFICES Folds(base, cs, n + 1, h)
  OBVIOUS
<1>1. ASSUME NEW s \in SUBSET (1 .. n + 1)
      PROVE  h[s] = IF s = {} THEN base ELSE Do(h[s \ {Max(s)}], cs[Max(s)])
  <2>1. CASE s = {}
    BY <2>1, FoldsEmpty
  <2>2. CASE n + 1 \in s
    <3>1. Max(s) = n + 1
      <4>1. n + 1 \in Nat /\ s \subseteq 1 .. n + 1 /\ s # {}
        BY <2>2
      <4>2. Max(s) \in s /\ \A y \in s : Max(s) >= y
        BY <4>1, LargestIn
      <4>3. Max(s) \in 1 .. n + 1 /\ Max(s) >= n + 1
        BY <2>2, <4>2
      <4> QED
        BY <4>3
    <3>2. s \ {n + 1} \in SUBSET (1 .. n + 1) /\ n + 1 \notin s \ {n + 1}
      OBVIOUS
    <3>3. h[s \ {n + 1}] = g[s \ {n + 1}]
      BY <3>2
    <3>4. h[s] = Do(g[s \ {n + 1}], cs[n + 1])
      BY <2>2
    <3> HIDE DEF h
    <3> QED
      BY <2>2, <3>1, <3>3, <3>4
  <2>3. CASE s # {} /\ n + 1 \notin s
    <3>1. s \subseteq 1 .. n
      BY <2>3
    <3>2. s \ {Max(s)} \in SUBSET (1 .. n + 1) /\ n + 1 \notin s \ {Max(s)}
      BY <2>3
    <3>3. h[s \ {Max(s)}] = g[s \ {Max(s)}]
      BY <3>2
    <3>4. h[s] = g[s]
      BY <2>3
    <3>5. g[s] = Do(g[s \ {Max(s)}], cs[Max(s)])
      <4>1. s \in SUBSET (1 .. n) /\ s # {}
        BY <2>3, <3>1
      <4> QED
        BY <4>1 DEF Folds
    <3> HIDE DEF h
    <3> QED
      BY <2>3, <3>3, <3>4, <3>5
  <2> QED
    BY <2>1, <2>2, <2>3
<1>2. h = [s \in SUBSET (1 .. n + 1) |-> h[s]]
  OBVIOUS
<1> HIDE DEF h
<1> QED
  BY <1>1, <1>2 DEF Folds

(* So there is such a function for every number of commands.               *)
LEMMA FoldsExist ==
    ASSUME NEW base, NEW cs, NEW n \in Nat
    PROVE  \E g : Folds(base, cs, n, g)
<1> DEFINE T == {m \in Nat : \E g : Folds(base, cs, m, g)}
<1>1. 0 \in T
  <2> DEFINE g == [s \in SUBSET (1 .. 0) |-> base]
  <2>1. \A s \in SUBSET (1 .. 0) : s = {}
    OBVIOUS
  <2>2. g = [s \in SUBSET (1 .. 0) |->
                 IF s = {} THEN base ELSE Do(g[s \ {Max(s)}], cs[Max(s)])]
    BY <2>1
  <2>3. Folds(base, cs, 0, g)
    BY <2>2 DEF Folds
  <2> QED
    BY <2>3
<1>2. \A m \in Nat : m \in T => m + 1 \in T
  BY FoldsExtended
<1> HIDE DEF T
<1>3. n \in T
  BY <1>1, <1>2, Induction
<1> QED
  BY <1>3 DEF T

(* It depends on the first n commands only.                                *)
LEMMA FoldsAgree ==
    ASSUME NEW base, NEW cs, NEW ds, NEW n \in Nat, NEW m \in Nat, n <= m,
           NEW g, Folds(base, cs, n, g), NEW h, Folds(base, ds, m, h),
           \A k \in 1 .. n : cs[k] = ds[k]
    PROVE  g[1 .. n] = h[1 .. n]
<1> DEFINE P(j) == j <= n => g[1 .. j] = h[1 .. j]
           T == {j \in Nat : P(j)}
<1>1. 0 \in T
  <2>1. 1 .. 0 = {}
    OBVIOUS
  <2> QED
    BY <2>1, FoldsEmpty
<1>2. ASSUME NEW j \in Nat, j \in T PROVE j + 1 \in T
  <2> SUFFICES ASSUME j + 1 <= n PROVE g[1 .. j + 1] = h[1 .. j + 1]
    OBVIOUS
  <2>1. g[1 .. j] = h[1 .. j]
    BY <1>2
  <2>2. Max(1 .. j + 1) = j + 1
    <3> DEFINE s == 1 .. j + 1
    <3>0. j + 1 \in Nat /\ s \subseteq 1 .. j + 1 /\ s # {} /\ j + 1 \in s
      OBVIOUS
    <3> HIDE DEF s
    <3>1. Max(s) \in s /\ Max(s) >= j + 1
      BY <3>0, LargestIn
    <3> USE DEF s
    <3> QED
      BY <3>1
  <2>3. (1 .. j + 1) \ {j + 1} = 1 .. j
    OBVIOUS
  <2>4. 1 .. j + 1 \subseteq 1 .. n /\ 1 .. j + 1 \subseteq 1 .. m /\ 1 .. j + 1 # {}
    OBVIOUS
  <2>5. g[1 .. j + 1] = Do(g[1 .. j], cs[j + 1])
    <3>1. PICK t \in SUBSET (1 .. n) : t = 1 .. j + 1
      BY <2>4
    <3>2. g[t] = Do(g[t \ {Max(t)}], cs[Max(t)])
      BY <2>4, <3>1 DEF Folds
    <3> QED
      BY <2>2, <2>3, <3>1, <3>2
  <2>6. h[1 .. j + 1] = Do(h[1 .. j], ds[j + 1])
    <3>1. PICK t \in SUBSET (1 .. m) : t = 1 .. j + 1
      BY <2>4
    <3>2. h[t] = Do(h[t \ {Max(t)}], ds[Max(t)])
      BY <2>4, <3>1 DEF Folds
    <3> QED
      BY <2>2, <2>3, <3>1, <3>2
  <2>7. cs[j + 1] = ds[j + 1]
    OBVIOUS
  <2> QED
    BY <2>1, <2>5, <2>6, <2>7
<1> HIDE DEF T
<1>3. n \in T
  BY <1>1, <1>2, Induction
<1> QED
  BY <1>3 DEF T

(* FoldLeft of a sequence of n commands.                                   *)
LEMMA FoldLeftIs ==
    ASSUME NEW base, NEW cs, NEW n \in Nat, DOMAIN cs = 1 .. n
    PROVE  \E g : Folds(base, cs, n, g) /\ FoldLeft(Do, base, cs) = g[1 .. n]
<1> DEFINE it == CHOOSE g : g = [s \in SUBSET (DOMAIN cs) |->
                         IF s = {} THEN base ELSE Do(g[s \ {Max(s)}], cs[Max(s)])]
<1>1. FoldLeft(Do, base, cs) = it[DOMAIN cs]
  BY DEF FoldLeft, MapThenFoldSet
<1>2. \E g : g = [s \in SUBSET (DOMAIN cs) |->
                         IF s = {} THEN base ELSE Do(g[s \ {Max(s)}], cs[Max(s)])]
  <2>1. PICK g : Folds(base, cs, n, g)
    BY FoldsExist
  <2> QED
    BY <2>1 DEF Folds
<1>3. it = [s \in SUBSET (DOMAIN cs) |->
                         IF s = {} THEN base ELSE Do(it[s \ {Max(s)}], cs[Max(s)])]
  BY <1>2
<1> HIDE DEF it
<1>4. Folds(base, cs, n, it)
  BY <1>3 DEF Folds
<1> QED
  BY <1>1, <1>4

-----------------------------------------------------------------------------
(* Fold(d, cs): the registers d after the commands cs.                     *)
Fold(d, cs) == FoldLeft(Do, d, cs)

(* No commands change nothing.                                             *)
LEMMA FoldNone ==
    ASSUME NEW d
    PROVE  Fold(d, <<>>) = d
<1>1. DOMAIN <<>> = 1 .. 0 /\ 1 .. 0 = {}
  OBVIOUS
<1>2. PICK g : Folds(d, <<>>, 0, g) /\ FoldLeft(Do, d, <<>>) = g[1 .. 0]
  BY <1>1, FoldLeftIs
<1> QED
  BY <1>1, <1>2, FoldsEmpty DEF Fold

(* The last command is carried out last.                                   *)
LEMMA FoldAppend ==
    ASSUME NEW d, NEW S, NEW cs \in Seq(S), NEW c \in S
    PROVE  Fold(d, Append(cs, c)) = Do(Fold(d, cs), c)
<1> DEFINE n == Len(cs)
           ds == Append(cs, c)
<1>1. /\ n \in Nat /\ DOMAIN cs = 1 .. n /\ DOMAIN ds = 1 .. n + 1
      /\ ds[n + 1] = c /\ \A k \in 1 .. n : cs[k] = ds[k]
  OBVIOUS
<1> HIDE DEF n, ds
<1>2. PICK g : Folds(d, cs, n, g) /\ FoldLeft(Do, d, cs) = g[1 .. n]
  BY <1>1, FoldLeftIs
<1>3. n + 1 \in Nat
  BY <1>1
<1>4. PICK h : Folds(d, ds, n + 1, h) /\ FoldLeft(Do, d, ds) = h[1 .. n + 1]
  BY <1>1, <1>3, FoldLeftIs
<1>5. g[1 .. n] = h[1 .. n]
  BY <1>1, <1>2, <1>3, <1>4, FoldsAgree
<1>6. h[1 .. n + 1] = Do(h[1 .. n], ds[n + 1])
  <2> DEFINE s == 1 .. n + 1
  <2>1. s \in SUBSET (1 .. n + 1) /\ s # {} /\ n + 1 \in s /\ s \ {n + 1} = 1 .. n
    <3>1. n + 1 \in 1 .. n + 1 /\ \A x : x \in 1 .. n + 1 /\ x # n + 1 <=> x \in 1 .. n
      BY <1>1
    <3> QED
      BY <3>1
  <2> HIDE DEF s
  <2>2. Max(s) \in s /\ \A y \in s : Max(s) >= y
    BY <1>3, <2>1, LargestIn
  <2>3. Max(s) \in 1 .. n + 1 /\ Max(s) >= n + 1
    BY <2>1, <2>2
  <2>4. Max(s) = n + 1
    BY <1>1, <2>3
  <2>5. h[s] = Do(h[s \ {Max(s)}], ds[Max(s)])
    BY <1>3, <1>4, <2>1 DEF Folds
  <2> QED
    BY <2>1, <2>4, <2>5 DEF s
<1> QED
  BY <1>1, <1>2, <1>4, <1>5, <1>6 DEF Fold, ds

(* First some commands, then the others.                                   *)
LEMMA FoldConcat ==
    ASSUME NEW d, NEW S, NEW cs \in Seq(S), NEW ds \in Seq(S)
    PROVE  Fold(d, cs \o ds) = Fold(Fold(d, cs), ds)
<1> DEFINE P(n) == \A es \in Seq(S) : Len(es) = n => Fold(d, cs \o es) = Fold(Fold(d, cs), es)
           T == {n \in Nat : P(n)}
<1>1. 0 \in T
  <2> SUFFICES ASSUME NEW es \in Seq(S), Len(es) = 0
               PROVE  Fold(d, cs \o es) = Fold(Fold(d, cs), es)
    OBVIOUS
  <2>1. es = <<>> /\ cs \o es = cs
    OBVIOUS
  <2> QED
    BY <2>1, FoldNone
<1>2. ASSUME NEW n \in Nat, n \in T PROVE n + 1 \in T
  <2> SUFFICES ASSUME NEW es \in Seq(S), Len(es) = n + 1
               PROVE  Fold(d, cs \o es) = Fold(Fold(d, cs), es)
    OBVIOUS
  <2> DEFINE fs == SubSeq(es, 1, n)
             e == es[n + 1]
  <2>1. fs \in Seq(S) /\ e \in S /\ Len(fs) = n /\ es = Append(fs, e)
    OBVIOUS
  <2> HIDE DEF fs, e
  <2>2. cs \o es = Append(cs \o fs, e) /\ cs \o fs \in Seq(S)
    BY <2>1
  <2>3. Fold(d, cs \o fs) = Fold(Fold(d, cs), fs)
    BY <1>2, <2>1
  <2>4. Fold(d, Append(cs \o fs, e)) = Do(Fold(d, cs \o fs), e)
    BY <2>1, <2>2, FoldAppend, ZenonT(60)
  <2>5. Fold(Fold(d, cs), Append(fs, e)) = Do(Fold(Fold(d, cs), fs), e)
    BY <2>1, FoldAppend
  <2> QED
    BY <2>1, <2>2, <2>3, <2>4, <2>5
<1> HIDE DEF T
<1>3. Len(ds) \in T
  <2>1. Len(ds) \in Nat
    OBVIOUS
  <2> QED
    BY <1>1, <1>2, <2>1, Induction
<1> QED
  BY <1>3 DEF T

(* One command.                                                            *)
LEMMA FoldOne ==
    ASSUME NEW d, NEW c
    PROVE  Fold(d, <<c>>) = Do(d, c)
<1>1. <<>> \in Seq({c}) /\ c \in {c} /\ Append(<<>>, c) = <<c>>
  OBVIOUS
<1>2. PICK S : S = {c}
  OBVIOUS
<1>3. <<>> \in Seq(S) /\ c \in S
  BY <1>2
<1>4. Fold(d, Append(<<>>, c)) = Do(Fold(d, <<>>), c)
  BY <1>3, FoldAppend
<1> QED
  BY <1>1, <1>4, FoldNone

-----------------------------------------------------------------------------
(* FlattenSeq.                                                             *)
Flattens(ss, n, g) ==
    g = [i \in 1 .. n |-> IF i = 1 THEN ss[i] ELSE g[i - 1] \o ss[i]]

(* There is such a function for every number of sequences.                 *)
LEMMA FlattensExist ==
    ASSUME NEW ss, NEW n \in Nat
    PROVE  \E g : Flattens(ss, n, g)
<1> DEFINE T == {m \in Nat : \E g : Flattens(ss, m, g)}
<1>1. 0 \in T
  <2> DEFINE g == [i \in 1 .. 0 |-> ss]
  <2>1. g = [i \in 1 .. 0 |-> IF i = 1 THEN ss[i] ELSE g[i - 1] \o ss[i]]
    OBVIOUS
  <2> QED
    BY <2>1 DEF Flattens
<1>2. ASSUME NEW m \in Nat, m \in T PROVE m + 1 \in T
  <2>1. PICK g : Flattens(ss, m, g)
    BY <1>2
  <2> DEFINE h == [i \in 1 .. m + 1 |->
                     IF i <= m THEN g[i]
                     ELSE IF i = 1 THEN ss[i] ELSE g[i - 1] \o ss[i]]
  <2>2. ASSUME NEW i \in 1 .. m + 1
        PROVE  h[i] = IF i = 1 THEN ss[i] ELSE h[i - 1] \o ss[i]
    <3>1. CASE i = m + 1
      <4>1. CASE i = 1
        BY <3>1, <4>1
      <4>2. CASE i # 1
        <5>1. i - 1 \in 1 .. m + 1 /\ i - 1 <= m /\ ~(i <= m)
          BY <3>1, <4>2
        <5>2. h[i - 1] = g[i - 1]
          BY <5>1
        <5> QED
          BY <4>2, <5>1, <5>2
      <4> QED
        BY <4>1, <4>2
    <3>2. CASE i \in 1 .. m
      <4>1. h[i] = g[i]
        BY <3>2
      <4>2. g[i] = IF i = 1 THEN ss[i] ELSE g[i - 1] \o ss[i]
        BY <2>1, <3>2 DEF Flattens
      <4>3. i # 1 => h[i - 1] = g[i - 1]
        BY <3>2
      <4> HIDE DEF h
      <4> QED
        BY <4>1, <4>2, <4>3
    <3> QED
      BY <3>1, <3>2
  <2>3. h = [i \in 1 .. m + 1 |-> h[i]]
    OBVIOUS
  <2> HIDE DEF h
  <2>4. Flattens(ss, m + 1, h)
    BY <2>2, <2>3 DEF Flattens
  <2> QED
    BY <2>4
<1> HIDE DEF T
<1>3. n \in T
  BY <1>1, <1>2, Induction
<1> QED
  BY <1>3 DEF T

(* It depends on the first n sequences only.                               *)
LEMMA FlattensAgree ==
    ASSUME NEW ss, NEW tt, NEW n \in Nat, NEW m \in Nat, n <= m,
           NEW g, Flattens(ss, n, g), NEW h, Flattens(tt, m, h),
           \A k \in 1 .. n : ss[k] = tt[k]
    PROVE  n # 0 => g[n] = h[n]
<1> DEFINE T == {j \in Nat : j + 1 <= n => g[j + 1] = h[j + 1]}
<1>1. 0 \in T
  BY DEF Flattens
<1>2. ASSUME NEW j \in Nat, j \in T PROVE j + 1 \in T
  <2> SUFFICES ASSUME j + 1 + 1 <= n PROVE g[j + 1 + 1] = h[j + 1 + 1]
    OBVIOUS
  <2>1. g[j + 1] = h[j + 1]
    BY <1>2
  <2> DEFINE i == j + 1 + 1
  <2>2. i \in 1 .. n /\ i \in 1 .. m /\ i # 1 /\ i - 1 = j + 1
    OBVIOUS
  <2> HIDE DEF i
  <2>3. g[i] = g[i - 1] \o ss[i]
    BY <2>2 DEF Flattens
  <2>4. h[i] = h[i - 1] \o tt[i]
    BY <2>2 DEF Flattens
  <2>5. g[i] = h[i]
    BY <2>1, <2>2, <2>3, <2>4
  <2> QED
    BY <2>5 DEF i
<1> HIDE DEF T
<1>3. n # 0 => n - 1 \in T
  BY <1>1, <1>2, Induction
<1> QED
  BY <1>3 DEF T

(* FlattenSeq of n sequences.                                              *)
LEMMA FlattenIs ==
    ASSUME NEW ss, NEW n \in Nat, ss = [k \in 1 .. n |-> ss[k]], n # 0
    PROVE  \E g : Flattens(ss, n, g) /\ FlattenSeq(ss) = g[n]
<1>1. Len(ss) = n
  OBVIOUS
<1> DEFINE it == CHOOSE g : g = [i \in 1 .. Len(ss) |->
                        IF i = 1 THEN ss[i] ELSE g[i - 1] \o ss[i]]
<1>2. FlattenSeq(ss) = it[Len(ss)]
  BY <1>1 DEF FlattenSeq
<1>3. \E g : g = [i \in 1 .. Len(ss) |-> IF i = 1 THEN ss[i] ELSE g[i - 1] \o ss[i]]
  BY <1>1, FlattensExist, ZenonT(60) DEF Flattens
<1>4. it = [i \in 1 .. Len(ss) |-> IF i = 1 THEN ss[i] ELSE it[i - 1] \o ss[i]]
  BY <1>3, ZenonT(60)
<1> HIDE DEF it
<1>5. Flattens(ss, n, it)
  BY <1>1, <1>4 DEF Flattens
<1> QED
  BY <1>1, <1>2, <1>5

(* The sequences tt are the n sequences ss and one more.                   *)
OneMoreThan(tt, ss, n, last) ==
    /\ n \in Nat
    /\ ss = [k \in 1 .. n |-> ss[k]]
    /\ tt = [k \in 1 .. n + 1 |-> tt[k]]
    /\ \A k \in 1 .. n : tt[k] = ss[k]
    /\ tt[n + 1] = last

(* One sequence more is appended to what the others give.                  *)
LEMMA FlattenAppend ==
    ASSUME NEW S, NEW last \in Seq(S), NEW n, NEW ss, NEW tt, OneMoreThan(tt, ss, n, last)
    PROVE  FlattenSeq(tt) = FlattenSeq(ss) \o last
<1> USE DEF OneMoreThan
<1>0. PICK m \in Nat : m = n + 1
  OBVIOUS
<1>1. PICK h : Flattens(tt, m, h) /\ FlattenSeq(tt) = h[m]
  <2>1. m # 0 /\ tt = [k \in 1 .. m |-> tt[k]]
    BY <1>0
  <2> QED
    BY ONLY m \in Nat, <2>1, FlattenIs
<1>2. CASE n = 0
  <2>1. ss = <<>> /\ FlattenSeq(ss) = <<>>
    <3>1. ss = <<>> /\ Len(ss) = 0
      BY <1>2
    <3> QED
      BY <3>1 DEF FlattenSeq
  <2>2. h[1] = tt[1]
    BY <1>0, <1>1, <1>2 DEF Flattens
  <2> QED
    BY <1>0, <1>1, <1>2, <2>1, <2>2
<1>3. CASE n # 0
  <2>1. PICK g : Flattens(ss, n, g) /\ FlattenSeq(ss) = g[n]
    BY <1>3, FlattenIs
  <2>2. g[n] = h[n]
    <3>1. n <= m
      BY <1>0
    <3>2. \A k \in 1 .. n : ss[k] = tt[k]
      BY Zenon
    <3>3. n # 0 => g[n] = h[n]
      BY ONLY n \in Nat, m \in Nat, <1>1, <2>1, <3>1, <3>2, FlattensAgree
    <3> QED
      BY <1>3, <3>3
  <2>3. h[m] = h[n] \o tt[m]
    <3>1. m \in 1 .. m /\ m # 1 /\ m - 1 = n
      BY <1>0, <1>3
    <3>2. h[m] = IF m = 1 THEN tt[m] ELSE h[m - 1] \o tt[m]
      BY ONLY <1>1, <3>1 DEF Flattens
    <3> QED
      BY <3>1, <3>2
  <2> QED
    BY <1>0, <1>1, <2>1, <2>2, <2>3
<1> QED
  BY <1>2, <1>3

-----------------------------------------------------------------------------
(* Types.                                                                  *)
Byte   == {BytesOf(v, n)[k] : v \in Value, n \in Nat, k \in Nat} \cup Noise
Device == [Address -> Seq(Byte \cup {0})]

Command == [write : BOOLEAN, address : Address, increment : BOOLEAN,
            values : Seq(Byte), length : Nat]

Buffered == {c \in Command : c.write => Len(c.values) >= 1 /\ c.length = Len(c.values)}
Wired    == {c \in Command : c.write => c.length \in 1 .. PartLength /\ Len(c.values) = c.length}
Writes   == {c \in Wired : c.write}

Puts     == {c \in Buffered : c.write}

(* A buffered write that is not torn when it is sent in parts.             *)
Whole    == {c \in Buffered : c.write /\ (c.increment => Len(c.values) <= PartLength)}

(* A part of a range of numbers consists of numbers.                       *)
LEMMA InRange ==
    ASSUME NEW n \in Nat, NEW S, S \subseteq 0 .. n
    PROVE  \A a \in S : a \in Nat
  OBVIOUS

(* An address is a number.                                                 *)
LEMMA Addresses == \A a \in Address : a \in Nat
<1>1. LastAddress \in Nat
  BY DEF LastAddress
<1> QED
  BY <1>1, RegisterMapAssumption, InRange

(* A part holds at least one value.                                        *)
LEMMA Parts == PartLength \in Nat /\ PartLength >= 1
<1>1. MostValues \in Nat
  BY DEF MostValues
<1> QED
  BY <1>1, HostAssumption

(* A value is split into as many bytes as are asked for.                   *)
LEMMA BytesOfType ==
    ASSUME NEW v \in Value, NEW n \in Nat
    PROVE  BytesOf(v, n) \in Seq(Byte) /\ Len(BytesOf(v, n)) = n
<1>1. \A k \in 1 .. n : BytesOf(v, n)[k] \in Byte
  BY DEF Byte
<1>2. BytesOf(v, n) = [k \in 1 .. n |-> BytesOf(v, n)[k]]
  BY DEF BytesOf
<1> QED
  BY <1>1, <1>2

(* Writing bytes to the registers keeps them registers.                    *)
LEMMA PutType ==
    ASSUME NEW d \in Device, NEW a \in Address, NEW i \in BOOLEAN,
           NEW bs \in Seq(Byte), Len(bs) >= 1
    PROVE  Put(d, a, i, bs) \in Device
<1>1. \A k \in 1 .. Len(bs) : bs[k] \in Byte \cup {0}
  OBVIOUS
<1>2. bs \in Seq(Byte \cup {0})
  BY <1>1
<1>3. \A b \in Byte \cup {0} : <<b>> \in Seq(Byte \cup {0})
  OBVIOUS
<1>4. d[a] \o bs \in Seq(Byte \cup {0})
  BY <1>2 DEF Device
<1>5. DOMAIN d = Address /\ \A x \in Address : d[x] \in Seq(Byte \cup {0})
  BY DEF Device
<1>6. \A x \in Address : x \in Nat
  BY Addresses
<1>7. \A x \in Address : x \in a .. a + Len(bs) - 1 => x - a + 1 \in 1 .. Len(bs)
  BY <1>6
<1>8. Len(bs) \in 1 .. Len(bs)
  OBVIOUS
<1>9. \A x \in Address : Put(d, a, i, bs)[x] \in Seq(Byte \cup {0})
  BY <1>1, <1>3, <1>4, <1>5, <1>7, <1>8 DEF Put
<1>10. Put(d, a, i, bs) = [x \in Address |-> Put(d, a, i, bs)[x]]
  BY <1>5 DEF Put
<1> QED
  BY <1>9, <1>10 DEF Device

(* Without increment, bytes written after others are written after them.   *)
LEMMA PutTwice ==
    ASSUME NEW d \in Device, NEW a \in Address,
           NEW bs \in Seq(Byte), NEW cs \in Seq(Byte), Len(cs) >= 1
    PROVE  Put(Put(d, a, FALSE, bs), a, FALSE, cs) = Put(d, a, FALSE, bs \o cs)
<1>1. DOMAIN d = Address /\ d[a] \in Seq(Byte \cup {0})
  BY DEF Device
<1>2. Len(bs \o cs) = Len(bs) + Len(cs) /\ (bs \o cs)[Len(bs \o cs)] = cs[Len(cs)]
  OBVIOUS
<1>3. (d[a] \o bs) \o cs = d[a] \o (bs \o cs)
  <2>1. bs \in Seq(Byte \cup {0}) /\ cs \in Seq(Byte \cup {0})
    <3>1. \A k \in 1 .. Len(bs) : bs[k] \in Byte \cup {0}
      OBVIOUS
    <3>2. \A k \in 1 .. Len(cs) : cs[k] \in Byte \cup {0}
      OBVIOUS
    <3> QED
      BY <3>1, <3>2
  <2> QED
    BY <1>1, <2>1
<1> DEFINE e == Put(d, a, FALSE, bs)
<1>4. DOMAIN e = Address /\ \A x \in Address :
        e[x] = IF x # a THEN d[x] ELSE IF IsFifo(a) THEN d[a] \o bs ELSE <<bs[Len(bs)]>>
  BY <1>1 DEF Put
<1> HIDE DEF e
<1>5. Put(e, a, FALSE, cs) = [x \in Address |-> IF x # a THEN e[x]
                                 ELSE IF IsFifo(a) THEN e[a] \o cs ELSE <<cs[Len(cs)]>>]
  BY <1>4 DEF Put
<1>6. Put(d, a, FALSE, bs \o cs) = [x \in Address |-> IF x # a THEN d[x]
                 ELSE IF IsFifo(a) THEN d[a] \o (bs \o cs) ELSE <<(bs \o cs)[Len(bs \o cs)]>>]
  BY <1>1 DEF Put
<1>7. \A x \in Address : (IF x # a THEN e[x] ELSE IF IsFifo(a) THEN e[a] \o cs ELSE <<cs[Len(cs)]>>)
                       = (IF x # a THEN d[x] ELSE IF IsFifo(a) THEN d[a] \o (bs \o cs)
                          ELSE <<(bs \o cs)[Len(bs \o cs)]>>)
  BY <1>2, <1>3, <1>4
<1>8. Put(e, a, FALSE, cs) = Put(d, a, FALSE, bs \o cs)
  BY <1>5, <1>6, <1>7
<1> QED
  BY <1>8 DEF e

(* What is on the wire could be buffered.                                  *)
LEMMA WiredBuffered == Wired \subseteq Buffered
  BY HostAssumption DEF Wired, Buffered, Command

(* A command keeps the registers registers.                                *)
LEMMA DoType ==
    ASSUME NEW d \in Device, NEW c \in Buffered
    PROVE  Do(d, c) \in Device
  BY PutType DEF Do, Buffered, Command

(* So do several.                                                          *)
LEMMA FoldType ==
    ASSUME NEW d \in Device, NEW cs \in Seq(Buffered)
    PROVE  Fold(d, cs) \in Device
<1> DEFINE T == {n \in Nat : \A es \in Seq(Buffered) : Len(es) = n => Fold(d, es) \in Device}
<1>1. 0 \in T
  <2>1. \A es \in Seq(Buffered) : Len(es) = 0 => es = <<>>
    OBVIOUS
  <2> QED
    BY <2>1, FoldNone
<1>2. ASSUME NEW n \in Nat, n \in T PROVE n + 1 \in T
  <2> SUFFICES ASSUME NEW es \in Seq(Buffered), Len(es) = n + 1
               PROVE  Fold(d, es) \in Device
    OBVIOUS
  <2> DEFINE fs == SubSeq(es, 1, n)
             e == es[n + 1]
  <2>1. fs \in Seq(Buffered) /\ e \in Buffered /\ Len(fs) = n /\ es = Append(fs, e)
    OBVIOUS
  <2> HIDE DEF fs, e
  <2>2. Fold(d, es) = Do(Fold(d, fs), e)
    BY <2>1, FoldAppend
  <2>3. Fold(d, fs) \in Device
    BY <1>2, <2>1
  <2> QED
    BY <2>1, <2>2, <2>3, DoType
<1> HIDE DEF T
<1>3. Len(cs) \in T
  <2>1. Len(cs) \in Nat
    OBVIOUS
  <2> QED
    BY <1>1, <1>2, <2>1, Induction
<1> QED
  BY <1>3 DEF T

-----------------------------------------------------------------------------
(* A write sent in parts.                                                  *)
PartCount(len) == (len + PartLength - 1) \div PartLength

(* What the quotient of a division is.                                     *)
LEMMA Division ==
    ASSUME NEW a \in Nat, NEW p \in Nat, p >= 1
    PROVE  a \div p \in Nat /\ (a \div p) * p <= a /\ a < (a \div p) * p + p
  OBVIOUS

(* The product grows with its first factor.                                *)
LEMMA Times ==
    ASSUME NEW m \in Nat, NEW n \in Nat, m <= n, NEW p \in Nat
    PROVE  m * p \in Nat /\ m * p <= n * p /\ (m + 1) * p = m * p + p
<1>1. \E k \in Nat : n = m + k
  <2>1. n - m \in Nat /\ n = m + (n - m)
    OBVIOUS
  <2> QED
    BY <2>1
<1>2. PICK k \in Nat : n = m + k
  BY <1>1
<1>3. k * p >= 0 /\ n * p = m * p + k * p /\ m * p \in Nat
  BY <1>2
<1> QED
  BY <1>3

(* The number of parts is the least that holds all values.                 *)
LEMMA PartCounts ==
    ASSUME NEW len \in Nat, len >= 1
    PROVE  /\ PartCount(len) \in Nat /\ PartCount(len) >= 1
           /\ len <= PartCount(len) * PartLength
           /\ \A k \in Nat : k < PartCount(len) => k * PartLength < len
           /\ len <= PartLength => PartCount(len) = 1
<1> DEFINE p == PartLength
           a == len + p - 1
           n == PartCount(len)
<1>1. p \in Nat /\ p >= 1 /\ a \in Nat
  BY Parts
<1>2. n = a \div p
  BY DEF PartCount
<1> HIDE DEF n
<1>3. n \in Nat /\ n * p <= a /\ a < n * p + p
  BY <1>1, <1>2, Division
<1>4. n >= 1
  <2>1. n = 0 => n * p = 0
    BY <1>1
  <2> QED
    BY <1>1, <1>3, <2>1
<1>5. len <= n * p
  BY <1>1, <1>3
<1>6. ASSUME NEW k \in Nat, k < n PROVE k * p < len
  <2>1. (k + 1) * p <= n * p /\ (k + 1) * p = k * p + p /\ k * p \in Nat
    BY <1>1, <1>3, <1>6, Times
  <2> QED
    BY <1>1, <1>3, <2>1
<1>7. ASSUME len <= p, n # 1 PROVE FALSE
  <2>1. 1 < n /\ 1 * p = p
    BY <1>1, <1>3, <1>4, <1>7
  <2> QED
    BY <1>1, <1>6, <1>7, <2>1
<1> QED
  BY <1>3, <1>4, <1>5, <1>6, <1>7 DEF n

(* Where the k-th part of len values ends.                                 *)
PartEnd(len, k) == IF k * PartLength <= len THEN k * PartLength ELSE len

(* The parts follow each other, are not empty and not too long.            *)
LEMMA PartEnds ==
    ASSUME NEW len \in Nat, len >= 1
    PROVE  /\ PartEnd(len, 0) = 0 /\ PartEnd(len, PartCount(len)) = len
           /\ \A k \in 1 .. PartCount(len) :
                 /\ PartEnd(len, k - 1) = (k - 1) * PartLength
                 /\ PartEnd(len, k) = IF len - (k - 1) * PartLength <= PartLength THEN len
                                      ELSE (k - 1) * PartLength + PartLength
                 /\ PartEnd(len, k - 1) \in Nat /\ PartEnd(len, k) \in Nat
                 /\ PartEnd(len, k - 1) < PartEnd(len, k)
                 /\ PartEnd(len, k) <= len
                 /\ PartEnd(len, k) - PartEnd(len, k - 1) <= PartLength
<1> DEFINE p == PartLength
           n == PartCount(len)
<1>1. p \in Nat /\ p >= 1
  BY Parts
<1>2. n \in Nat /\ n >= 1 /\ len <= n * p /\ \A k \in Nat : k < n => k * p < len
  BY PartCounts
<1> HIDE DEF n
<1>3. PartEnd(len, 0) = 0 /\ PartEnd(len, n) = len
  <2>1. 0 * p = 0 /\ n * p \in Nat
    BY <1>1, <1>2
  <2> QED
    BY <1>2, <2>1 DEF PartEnd
<1>4. ASSUME NEW k \in 1 .. n
      PROVE  /\ PartEnd(len, k - 1) = (k - 1) * p
             /\ PartEnd(len, k) = IF len - (k - 1) * p <= p THEN len ELSE (k - 1) * p + p
             /\ PartEnd(len, k - 1) \in Nat /\ PartEnd(len, k) \in Nat
             /\ PartEnd(len, k - 1) < PartEnd(len, k)
             /\ PartEnd(len, k) <= len
             /\ PartEnd(len, k) - PartEnd(len, k - 1) <= p
  <2>1. PICK j \in Nat : j = k - 1
    BY <1>2
  <2>2. k = j + 1 /\ j < n
    BY <1>2, <2>1
  <2>3. j * p < len /\ j * p \in Nat /\ (j + 1) * p = j * p + p
    BY <1>1, <1>2, <2>1, <2>2, Times
  <2>4. PartEnd(len, j) = j * p
    BY <2>3 DEF PartEnd
  <2>5. PartEnd(len, j + 1) = IF j * p + p <= len THEN j * p + p ELSE len
    BY <2>3 DEF PartEnd
  <2> HIDE DEF p
  <2>6. PICK q \in Nat : q = j * p
    BY <2>3
  <2>7. /\ PartEnd(len, j + 1) = IF len - q <= p THEN len ELSE q + p
        /\ PartEnd(len, j + 1) \in Nat /\ q < PartEnd(len, j + 1)
        /\ PartEnd(len, j + 1) <= len /\ PartEnd(len, j + 1) - q <= p
    BY <1>1, <2>3, <2>5, <2>6
  <2> QED
    BY <2>1, <2>2, <2>4, <2>6, <2>7
<1> QED
  BY <1>3, <1>4 DEF n

(* The fields that tell one part of a write from another.                  *)
LEMMA Records ==
    ASSUME NEW c \in Command, NEW v, NEW l
    PROVE  [c EXCEPT !.values = v, !.length = l]
             = [write |-> c.write, address |-> c.address, increment |-> c.increment,
                values |-> v, length |-> l]
<1>1. PICK d : d = [c EXCEPT !.values = v]
  OBVIOUS
<1>2. d = [write |-> c.write, address |-> c.address, increment |-> c.increment,
           values |-> v, length |-> c.length]
  BY <1>1 DEF Command
<1>3. [d EXCEPT !.length = l] = [write |-> c.write, address |-> c.address,
                                 increment |-> c.increment, values |-> v, length |-> l]
  BY <1>2
<1> QED
  BY <1>1, <1>3

(* The parts of a write.                                                   *)
LEMMA PartsAre ==
    ASSUME NEW c \in Buffered, c.write
    PROVE  /\ PartCount(Len(c.values)) \in Nat
           /\ WriteParts(c) = [k \in 1 .. PartCount(Len(c.values)) |-> WriteParts(c)[k]]
           /\ \A k \in 1 .. PartCount(Len(c.values)) :
                WriteParts(c)[k] =
                  [write |-> TRUE, address |-> c.address, increment |-> c.increment,
                   values |-> SubSeq(c.values, PartEnd(Len(c.values), k - 1) + 1,
                                               PartEnd(Len(c.values), k)),
                   length |-> PartEnd(Len(c.values), k) - PartEnd(Len(c.values), k - 1)]
<1> DEFINE len == Len(c.values)
           n == PartCount(len)
           from(k) == (k - 1) * PartLength
           part(k) == IF len - from(k) <= PartLength THEN len - from(k) ELSE PartLength
<1>1. len \in Nat /\ len >= 1 /\ c \in Command /\ c.write = TRUE
  BY DEF Buffered, Command
<1>2. WriteParts(c) = [k \in 1 .. n |->
         [c EXCEPT !.values = SubSeq(c.values, from(k) + 1, from(k) + part(k)),
                   !.length = part(k)]]
  BY Zenon DEF WriteParts, PartCount
<1>3. \A v, l : [c EXCEPT !.values = v, !.length = l]
                = [write |-> TRUE, address |-> c.address, increment |-> c.increment,
                   values |-> v, length |-> l]
  BY <1>1, Records
<1>4. n \in Nat
  BY <1>1, PartCounts
<1>5. ASSUME NEW k \in 1 .. n
      PROVE  from(k) = PartEnd(len, k - 1) /\ from(k) + part(k) = PartEnd(len, k)
             /\ part(k) = PartEnd(len, k) - PartEnd(len, k - 1)
  <2> HIDE DEF len
  <2>1. /\ PartEnd(len, k - 1) = from(k)
        /\ PartEnd(len, k) = IF len - from(k) <= PartLength THEN len ELSE from(k) + PartLength
        /\ PartEnd(len, k - 1) \in Nat
    BY <1>1, PartEnds
  <2> HIDE DEF from
  <2>2. from(k) \in Nat
    BY <2>1
  <2> QED
    BY <1>1, <2>1, <2>2, Parts
<1> HIDE DEF len, n, from, part
<1>6. ASSUME NEW k \in 1 .. n
      PROVE  WriteParts(c)[k] =
               [write |-> TRUE, address |-> c.address, increment |-> c.increment,
                values |-> SubSeq(c.values, PartEnd(len, k - 1) + 1, PartEnd(len, k)),
                length |-> PartEnd(len, k) - PartEnd(len, k - 1)]
  <2>1. WriteParts(c)[k] = [c EXCEPT !.values = SubSeq(c.values, from(k) + 1, from(k) + part(k)),
                                     !.length = part(k)]
    BY <1>2
  <2>2. WriteParts(c)[k] = [write |-> TRUE, address |-> c.address, increment |-> c.increment,
                 values |-> SubSeq(c.values, from(k) + 1, from(k) + part(k)), length |-> part(k)]
    BY <1>3, <2>1
  <2> QED
    BY <1>5, <2>2
<1>7. WriteParts(c) = [k \in 1 .. n |-> WriteParts(c)[k]]
  BY <1>2
<1> QED
  BY <1>4, <1>6, <1>7, Zenon DEF len, n

(* A piece of a sequence and the next one.                                 *)
LEMMA Split ==
    ASSUME NEW S, NEW s \in Seq(S), NEW m \in Nat, NEW n \in Nat, m <= n, n <= Len(s)
    PROVE  SubSeq(s, 1, m) \o SubSeq(s, m + 1, n) = SubSeq(s, 1, n)
<1>1. DOMAIN s = 1 .. Len(s) /\ Len(s) \in Nat
  OBVIOUS
<1>2. /\ SubSeq(s, 1, m) \in Seq(S) /\ Len(SubSeq(s, 1, m)) = m
      /\ SubSeq(s, m + 1, n) \in Seq(S) /\ Len(SubSeq(s, m + 1, n)) = n - m
      /\ SubSeq(s, 1, n) \in Seq(S) /\ Len(SubSeq(s, 1, n)) = n
  BY <1>1
<1>3. \A k \in 1 .. n : (SubSeq(s, 1, m) \o SubSeq(s, m + 1, n))[k] = SubSeq(s, 1, n)[k]
  BY <1>1, <1>2
<1> QED
  BY <1>2, <1>3

(* The parts are no longer than what the wire carries.                     *)
LEMMA PartsWired ==
    ASSUME NEW c \in Buffered
    PROVE  PartsOf(c) \in Seq(Wired) /\ (c.write => PartsOf(c) \in Seq(Writes))
<1>1. CASE ~c.write
  <2>1. PartsOf(c) = <<c>> /\ c \in Wired
    BY <1>1 DEF PartsOf, Buffered, Wired
  <2> QED
    BY <1>1, <2>1
<1>2. CASE c.write
  <2> DEFINE n == PartCount(Len(c.values))
             ps == WriteParts(c)
             end(k) == PartEnd(Len(c.values), k)
  <2>1. /\ c.address \in Address /\ c.increment \in BOOLEAN
        /\ c.values \in Seq(Byte) /\ Len(c.values) \in Nat /\ Len(c.values) >= 1
    BY <1>2 DEF Buffered, Command
  <2>2. /\ n \in Nat /\ ps = [k \in 1 .. n |-> ps[k]]
        /\ \A k \in 1 .. n : ps[k] =
             [write |-> TRUE, address |-> c.address, increment |-> c.increment,
              values |-> SubSeq(c.values, end(k - 1) + 1, end(k)),
              length |-> end(k) - end(k - 1)]
    BY <1>2, PartsAre
  <2>3. \A k \in 1 .. n : /\ end(k - 1) \in Nat /\ end(k) \in Nat /\ end(k - 1) < end(k)
                          /\ end(k) <= Len(c.values) /\ end(k) - end(k - 1) <= PartLength
    BY <2>1, PartEnds
  <2> HIDE DEF n, ps, end
  <2>4. ASSUME NEW k \in 1 .. n PROVE ps[k] \in Writes
    <3>1. PICK m \in Nat : m = end(k - 1)
      BY <2>3
    <3>2. PICK u \in Nat : u = end(k)
      BY <2>3
    <3>3. m < u /\ u <= Len(c.values) /\ u - m <= PartLength
      BY <2>3, <3>1, <3>2
    <3>4. SubSeq(c.values, m + 1, u) \in Seq(Byte) /\ Len(SubSeq(c.values, m + 1, u)) = u - m
      BY <2>1, <3>3
    <3>5. ps[k] = [write |-> TRUE, address |-> c.address, increment |-> c.increment,
                   values |-> SubSeq(c.values, m + 1, u), length |-> u - m]
      BY <2>2, <3>1, <3>2
    <3>6. u - m \in Nat /\ u - m \in 1 .. PartLength
      BY <3>3, Parts
    <3> QED
      BY <2>1, <3>4, <3>5, <3>6 DEF Writes, Wired, Command
  <2>5. ps \in Seq(Writes)
    BY <2>2, <2>4
  <2>6. \A k \in DOMAIN ps : ps[k] \in Wired
    BY <2>2, <2>4 DEF Writes
  <2>7. ps \in Seq(Wired)
    BY <2>2, <2>6
  <2> QED
    BY <1>2, <2>5, <2>7 DEF PartsOf, ps
<1> QED
  BY <1>1, <1>2

(* The first element.                                                      *)
LEMMA First ==
    ASSUME NEW S, NEW s \in Seq(S), Len(s) >= 1
    PROVE  SubSeq(s, 1, 1) = <<s[1]>>
<1>0. Len(SubSeq(s, 1, 1)) = 1 /\ SubSeq(s, 1, 1)[1] = s[1] /\ SubSeq(s, 1, 1) \in Seq(S)
  OBVIOUS
<1>1. PICK t \in Seq(S) : t = SubSeq(s, 1, 1) /\ Len(t) = 1 /\ t[1] = s[1]
  BY <1>0
<1>2. Len(<<s[1]>>) = 1 /\ <<s[1]>>[1] = s[1] /\ <<s[1]>> \in Seq(S)
  OBVIOUS
<1>3. \A j \in 1 .. Len(t) : t[j] = <<s[1]>>[j]
  BY <1>1
<1>4. t = <<s[1]>>
  BY <1>1, <1>2, <1>3, SeqEqual
<1> QED
  BY <1>1, <1>4

(* One element more.                                                       *)
LEMMA OneMore ==
    ASSUME NEW S, NEW s \in Seq(S), NEW k \in Nat, k + 1 <= Len(s)
    PROVE  /\ SubSeq(s, 1, k) \in Seq(S) /\ s[k + 1] \in S
           /\ SubSeq(s, 1, k + 1) = Append(SubSeq(s, 1, k), s[k + 1])
<1>1. SubSeq(s, 1, k) \in Seq(S) /\ s[k + 1] \in S /\ Len(SubSeq(s, 1, k)) = k
  OBVIOUS
<1>2. Len(SubSeq(s, 1, k + 1)) = k + 1 /\ Len(Append(SubSeq(s, 1, k), s[k + 1])) = k + 1
  BY <1>1
<1>3. \A j \in 1 .. k + 1 : SubSeq(s, 1, k + 1)[j] = Append(SubSeq(s, 1, k), s[k + 1])[j]
  BY <1>1
<1> QED
  BY <1>1, <1>2, <1>3

(* Carried out one after the other, the parts do what the write does.      *)
LEMMA PartsDo ==
    ASSUME NEW d \in Device, NEW c \in Whole
    PROVE  Fold(d, PartsOf(c)) = Do(d, c)
<1> DEFINE len == Len(c.values)
           n == PartCount(len)
           ps == WriteParts(c)
           end(k) == PartEnd(len, k)
           bs(k) == SubSeq(c.values, 1, end(k))
<1>1. /\ c \in Buffered /\ c.write /\ c.address \in Address /\ c.increment \in BOOLEAN
      /\ c.values \in Seq(Byte) /\ len \in Nat /\ len >= 1
      /\ c.increment => len <= PartLength
  BY DEF Whole, Buffered, Command
<1>2. /\ ps = [k \in 1 .. n |-> ps[k]]
      /\ \A k \in 1 .. n : ps[k] =
           [write |-> TRUE, address |-> c.address, increment |-> c.increment,
            values |-> SubSeq(c.values, end(k - 1) + 1, end(k)),
            length |-> end(k) - end(k - 1)]
  BY <1>1, PartsAre
<1>3. \A k \in 1 .. n : /\ end(k - 1) \in Nat /\ end(k) \in Nat /\ end(k - 1) < end(k)
                        /\ end(k) <= len
  BY <1>1, PartEnds
<1>4. end(0) = 0 /\ end(n) = len
  BY <1>1, PartEnds
<1>5. n \in Nat /\ n >= 1 /\ (len <= PartLength => n = 1)
  BY <1>1, PartCounts
<1>6. ps \in Seq(Writes) /\ PartsOf(c) = ps
  BY <1>1, PartsWired DEF PartsOf
<1> HIDE DEF len, n, ps, end
<1>7. \A k \in 1 .. n : ps[k].write /\ ps[k].address = c.address
                        /\ ps[k].increment = c.increment
                        /\ ps[k].values = SubSeq(c.values, end(k - 1) + 1, end(k))
  BY <1>2
<1>8. \A k \in 1 .. n : \A e : Do(e, ps[k]) =
         Put(e, c.address, c.increment, SubSeq(c.values, end(k - 1) + 1, end(k)))
  BY <1>7 DEF Do
<1>9. Len(ps) = n
  BY <1>2, <1>5
<1>10. bs(n) = c.values /\ Do(d, c) = Put(d, c.address, c.increment, c.values)
  BY <1>1, <1>4 DEF len, Do
<1>11. Fold(d, SubSeq(ps, 1, 1)) = Put(d, c.address, c.increment, bs(1))
  <2>1. SubSeq(ps, 1, 1) = <<ps[1]>> /\ 1 \in 1 .. n
    BY <1>5, <1>6, <1>9, First
  <2>2. Do(d, ps[1]) = Put(d, c.address, c.increment, SubSeq(c.values, end(0) + 1, end(1)))
    BY <1>8, <2>1
  <2>3. end(0) + 1 = 1
    BY <1>4
  <2> QED
    BY <2>1, <2>2, <2>3, FoldOne
<1>12. CASE c.increment
  <2>1. n = 1 /\ SubSeq(ps, 1, 1) = ps
    BY <1>1, <1>5, <1>6, <1>9, <1>12
  <2> QED
    BY <1>6, <1>10, <1>11, <2>1
<1>13. CASE ~c.increment
  <2> DEFINE P(k) == Fold(d, SubSeq(ps, 1, k)) = Put(d, c.address, FALSE, bs(k))
             T == {k \in Nat : k \in 1 .. n => P(k)}
  <2>0. P(1)
    BY <1>1, <1>11, <1>13
  <2>1. 0 \in T
    OBVIOUS
  <2>2. ASSUME NEW k \in Nat, k \in T, k + 1 \in 1 .. n PROVE P(k + 1)
    <3>1. CASE k = 0
      <4>1. k + 1 = 1
        BY <3>1
      <4> HIDE DEF P
      <4> QED
        BY <2>0, <4>1
    <3>2. CASE k # 0
      <4>0. PICK i \in 1 .. n : i = k + 1 /\ i - 1 = k
        BY <2>2
      <4>1. k \in 1 .. n /\ P(k)
        <5> HIDE DEF P
        <5> QED
          BY <1>5, <2>2, <3>2
      <4>2. SubSeq(ps, 1, k + 1) = Append(SubSeq(ps, 1, k), ps[k + 1])
            /\ SubSeq(ps, 1, k) \in Seq(Writes) /\ ps[k + 1] \in Writes
        <5>1. k + 1 <= Len(ps)
          BY <1>5, <1>9, <2>2
        <5> QED
          BY <1>6, <5>1, OneMore
      <4>3. Fold(d, SubSeq(ps, 1, k + 1)) = Do(Fold(d, SubSeq(ps, 1, k)), ps[k + 1])
        <5> DEFINE qs == SubSeq(ps, 1, k)
                   q == ps[k + 1]
        <5> HIDE DEF qs, q
        <5>1. Fold(d, Append(qs, q)) = Do(Fold(d, qs), q)
          BY <4>2, FoldAppend DEF qs, q
        <5> QED
          BY <4>2, <5>1 DEF qs, q
      <4>4. PICK m \in Nat : m = end(k)
        BY <1>3, <4>0
      <4>5. PICK u \in Nat : u = end(i)
        BY <1>3
      <4>6. m < u /\ u <= len
        BY <1>3, <4>0, <4>4, <4>5
      <4>7. Do(Fold(d, SubSeq(ps, 1, k)), ps[i])
              = Put(Put(d, c.address, FALSE, SubSeq(c.values, 1, m)),
                    c.address, FALSE, SubSeq(c.values, m + 1, u))
        <5>1. Do(Fold(d, SubSeq(ps, 1, k)), ps[i])
                = Put(Fold(d, SubSeq(ps, 1, k)), c.address, c.increment,
                      SubSeq(c.values, end(i - 1) + 1, end(i)))
          BY <1>8
        <5>2. end(i - 1) = m /\ c.increment = FALSE
          BY <1>1, <1>13, <4>0, <4>4
        <5> QED
          BY <4>1, <4>4, <4>5, <5>1, <5>2
      <4>8. /\ SubSeq(c.values, 1, m) \in Seq(Byte)
            /\ SubSeq(c.values, m + 1, u) \in Seq(Byte)
            /\ Len(SubSeq(c.values, m + 1, u)) >= 1
            /\ SubSeq(c.values, 1, m) \o SubSeq(c.values, m + 1, u) = SubSeq(c.values, 1, u)
        <5>1. u <= Len(c.values) /\ m <= u
          BY <4>6 DEF len
        <5> QED
          BY <1>1, <4>6, <5>1, Split
      <4>9. Put(Put(d, c.address, FALSE, SubSeq(c.values, 1, m)),
                c.address, FALSE, SubSeq(c.values, m + 1, u))
              = Put(d, c.address, FALSE, SubSeq(c.values, 1, u))
        <5> DEFINE v == SubSeq(c.values, 1, m)
                   w == SubSeq(c.values, m + 1, u)
        <5>1. v \in Seq(Byte) /\ w \in Seq(Byte) /\ Len(w) >= 1
              /\ v \o w = SubSeq(c.values, 1, u)
          BY <4>8
        <5> HIDE DEF v, w
        <5>2. Put(Put(d, c.address, FALSE, v), c.address, FALSE, w)
                = Put(d, c.address, FALSE, v \o w)
          BY <1>1, <5>1, PutTwice
        <5> QED
          BY <5>1, <5>2 DEF v, w
      <4> QED
        BY <4>0, <4>3, <4>5, <4>7, <4>9
    <3> QED
      BY <3>1, <3>2
  <2> HIDE DEF P
  <2>3. \A k \in Nat : k \in T => k + 1 \in T
    BY <2>2
  <2> HIDE DEF T
  <2>6. n \in T
    BY <1>5, <2>1, <2>3, Induction
  <2>4. Fold(d, SubSeq(ps, 1, n)) = Put(d, c.address, FALSE, bs(n))
    <3>1. n \in 1 .. n
      BY <1>5
    <3>2. P(n)
      BY <2>6, <3>1 DEF T
    <3> QED
      BY <3>2 DEF P
  <2>5. SubSeq(ps, 1, n) = ps /\ c.increment = FALSE
    BY <1>1, <1>6, <1>9, <1>13
  <2> QED
    BY <1>6, <1>10, <2>4, <2>5
<1> QED
  BY <1>1, <1>12, <1>13

(* The empty sequence is one of any set.                                   *)
LEMMA EmptySequence == \A S : <<>> \in Seq(S)
  OBVIOUS

(* Induction over sequences, again with a set.                             *)
LEMMA OverSequences ==
    ASSUME NEW S, NEW T, <<>> \in T,
           \A s \in Seq(S), e \in S : s \in T => Append(s, e) \in T
    PROVE  Seq(S) \subseteq T
<1> DEFINE U == {n \in Nat : \A s \in Seq(S) : Len(s) = n => s \in T}
<1>1. 0 \in U
  <2>1. \A s \in Seq(S) : Len(s) = 0 => s = <<>>
    OBVIOUS
  <2> QED
    BY <2>1
<1>2. ASSUME NEW n \in Nat, n \in U PROVE n + 1 \in U
  <2> SUFFICES ASSUME NEW s \in Seq(S), Len(s) = n + 1 PROVE s \in T
    OBVIOUS
  <2>0. /\ SubSeq(s, 1, n) \in Seq(S) /\ Len(SubSeq(s, 1, n)) = n
        /\ s[n + 1] \in S /\ s = Append(SubSeq(s, 1, n), s[n + 1])
    OBVIOUS
  <2>1. PICK r \in Seq(S) : r = SubSeq(s, 1, n) /\ Len(r) = n
    BY <2>0
  <2>2. s[n + 1] \in S /\ s = Append(r, s[n + 1])
    BY <2>0, <2>1
  <2>3. r \in T
    BY <1>2, <2>1
  <2> QED
    BY <2>2, <2>3
<1> HIDE DEF U
<1>3. Nat \subseteq U
  BY <1>1, <1>2, Induction
<1>4. \A s \in Seq(S) : Len(s) \in U
  BY <1>3
<1> QED
  BY <1>4 DEF U

-----------------------------------------------------------------------------
(* The bytes of the buffer.                                                *)

(* An empty buffer has no bytes.                                           *)
LEMMA WireNone == OnTheWire(<<>>) = <<>>
<1>1. [k \in DOMAIN <<>> |-> PartsOf(<<>>[k])] = <<>>
  OBVIOUS
<1> QED
  BY <1>1 DEF OnTheWire, FlattenSeq

(* The command buffered last has the last bytes.                           *)
LEMMA WireAppend ==
    ASSUME NEW cs \in Seq(Buffered), NEW c \in Buffered
    PROVE  OnTheWire(Append(cs, c)) = OnTheWire(cs) \o PartsOf(c)
<1> DEFINE n  == Len(cs)
           ds == Append(cs, c)
           ss == [k \in DOMAIN cs |-> PartsOf(cs[k])]
           tt == [k \in DOMAIN ds |-> PartsOf(ds[k])]
<1>1. /\ n \in Nat /\ DOMAIN cs = 1 .. n /\ DOMAIN ds = 1 .. n + 1
      /\ ds[n + 1] = c /\ \A k \in 1 .. n : ds[k] = cs[k]
  OBVIOUS
<1> HIDE DEF n, ds
<1>2. n + 1 \in 1 .. n + 1 /\ \A k \in 1 .. n : k \in 1 .. n + 1
  BY <1>1
<1>3. ss = [k \in 1 .. n |-> ss[k]] /\ tt = [k \in 1 .. n + 1 |-> tt[k]]
  BY <1>1
<1>4. (\A k \in 1 .. n : tt[k] = ss[k]) /\ tt[n + 1] = PartsOf(c)
  BY <1>1, <1>2
<1>5. OnTheWire(cs) = FlattenSeq(ss) /\ OnTheWire(ds) = FlattenSeq(tt)
  BY DEF OnTheWire
<1> HIDE DEF ss, tt
<1>6. PartsOf(c) \in Seq(Wired)
  BY PartsWired
<1>7. OneMoreThan(tt, ss, n, PartsOf(c))
  BY <1>1, <1>3, <1>4 DEF OneMoreThan
<1>8. FlattenSeq(tt) = FlattenSeq(ss) \o PartsOf(c)
  BY ONLY <1>6, <1>7, FlattenAppend
<1> QED
  BY <1>5, <1>8 DEF ds

(* Every command on the wire fits its length field.                        *)
LEMMA WireType ==
    /\ \A cs \in Seq(Buffered) : OnTheWire(cs) \in Seq(Wired)
    /\ \A cs \in Seq(Puts) : OnTheWire(cs) \in Seq(Writes)
<1>1. \A cs \in Seq(Buffered) : OnTheWire(cs) \in Seq(Wired)
  <2> DEFINE T == {cs \in Seq(Buffered) : OnTheWire(cs) \in Seq(Wired)}
  <2>1. <<>> \in T
    BY WireNone, EmptySequence
  <2>2. ASSUME NEW s \in Seq(Buffered), NEW e \in Buffered, s \in T PROVE Append(s, e) \in T
    <3>1. /\ OnTheWire(Append(s, e)) = OnTheWire(s) \o PartsOf(e)
          /\ OnTheWire(s) \in Seq(Wired) /\ PartsOf(e) \in Seq(Wired)
      BY <2>2, WireAppend, PartsWired
    <3>2. OnTheWire(s) \o PartsOf(e) \in Seq(Wired) /\ Append(s, e) \in Seq(Buffered)
      BY <3>1
    <3> QED
      BY <3>1, <3>2
  <2> HIDE DEF T
  <2>3. Seq(Buffered) \subseteq T
    BY <2>1, <2>2, OverSequences
  <2> QED
    BY <2>3 DEF T
<1>2. \A cs \in Seq(Puts) : OnTheWire(cs) \in Seq(Writes)
  <2> DEFINE T == {cs \in Seq(Puts) : OnTheWire(cs) \in Seq(Writes)}
  <2>1. <<>> \in T
    BY WireNone, EmptySequence
  <2>2. ASSUME NEW s \in Seq(Puts), NEW e \in Puts, s \in T PROVE Append(s, e) \in T
    <3>1. s \in Seq(Buffered) /\ e \in Buffered /\ e.write
      BY DEF Puts
    <3> QED
      <4>1. /\ OnTheWire(Append(s, e)) = OnTheWire(s) \o PartsOf(e)
            /\ OnTheWire(s) \in Seq(Writes) /\ PartsOf(e) \in Seq(Writes)
        BY <2>2, <3>1, WireAppend, PartsWired
      <4>2. OnTheWire(s) \o PartsOf(e) \in Seq(Writes) /\ Append(s, e) \in Seq(Puts)
        BY <4>1
      <4> QED
        BY <4>1, <4>2
  <2> HIDE DEF T
  <2>3. Seq(Puts) \subseteq T
    BY <2>1, <2>2, OverSequences
  <2> QED
    BY <2>3 DEF T
<1> QED
  BY <1>1, <1>2

(* The bytes do what the buffered commands do.                             *)
LEMMA WireFold ==
    ASSUME NEW d \in Device, NEW cs \in Seq(Whole)
    PROVE  Fold(d, OnTheWire(cs)) = Fold(d, cs)
<1> DEFINE T == {es \in Seq(Whole) : Fold(d, OnTheWire(es)) = Fold(d, es)}
<1>1. <<>> \in T
  BY WireNone
<1>2. ASSUME NEW s \in Seq(Whole), NEW e \in Whole, s \in T PROVE Append(s, e) \in T
  <2>1. s \in Seq(Buffered) /\ e \in Buffered /\ e.write /\ s \in Seq(Puts)
    BY DEF Whole, Puts
  <2>2. /\ OnTheWire(Append(s, e)) = OnTheWire(s) \o PartsOf(e)
        /\ OnTheWire(s) \in Seq(Writes) /\ PartsOf(e) \in Seq(Writes)
    BY <2>1, WireAppend, WireType, PartsWired
  <2>3. Fold(d, OnTheWire(Append(s, e))) = Fold(Fold(d, OnTheWire(s)), PartsOf(e))
    BY <2>2, FoldConcat
  <2>4. Fold(d, s) \in Device /\ Fold(d, OnTheWire(s)) = Fold(d, s)
    BY <1>2, <2>1, FoldType
  <2>5. Fold(Fold(d, s), PartsOf(e)) = Do(Fold(d, s), e)
    BY <2>4, PartsDo
  <2>6. Fold(d, Append(s, e)) = Do(Fold(d, s), e)
    BY FoldAppend
  <2> QED
    BY <2>3, <2>4, <2>5, <2>6
<1> HIDE DEF T
<1>3. Seq(Whole) \subseteq T
  BY <1>1, <1>2, OverSequences
<1> QED
  BY <1>3 DEF T

-----------------------------------------------------------------------------
(* Types of the state.                                                     *)
Item == Nat \cup {d[a][1] : d \in Device, a \in Nat}
Job  == [kind : {"none", "read", "write"}, todo : Seq(Wired), left : Nat, got : Seq(Item)]
Asked(r, n) == r \in Register /\ Readable(r) /\ n \in Counts(r)

HostTypes ==
    /\ pc \in {"idle", "writing", "reading"}
    /\ commands \in Seq(Buffered)
    /\ want # <<>> => \E r \in Register : \E n \in Counts(r) : want = <<r, n>> /\ Readable(r)
    /\ pc = "reading" => want # <<>>
    /\ calls \in 0 .. MaxCalls /\ cancels \in 0 .. MaxFaults /\ failures \in 0 .. MaxFaults
    /\ torn \in BOOLEAN /\ (torn => failures > 0)

PortTypes ==
    /\ up \in Seq(Wired) /\ down \in Seq(Item)
    /\ device \in Device /\ sent \in 0 .. FifoWords - 1

JobTypes ==
    /\ job \in [Jobs -> Job]
    /\ \A j \in Jobs : /\ job[j].left > 0 => job[j].kind = "read"
                       /\ j > cancels => job[j] = NoJob
    /\ pc = "idle" => job[cancels] = NoJob

Types == HostTypes /\ PortTypes /\ JobTypes

(* The types proved below are no weaker than TypeOK.                       *)
LEMMA TypesGiveTypeOK == Types => TypeOK
<1> SUFFICES ASSUME Types PROVE TypeOK
  OBVIOUS
<1>1. \A k \in DOMAIN up : up[k].write => /\ up[k].length \in 1 .. PartLength
                                         /\ Len(up[k].values) = up[k].length
  <2>1. \A k \in DOMAIN up : up[k] \in Wired
    BY DEF Types, PortTypes
  <2> QED
    BY <2>1 DEF Wired
<1> QED
  BY <1>1 DEF Types, HostTypes, PortTypes, JobTypes, TypeOK

(* What the constants are.                                                 *)
LEMMA Registers ==
    ASSUME NEW r \in Register
    PROVE  /\ r.address \in Address /\ r.width \in Nat /\ r.width >= 1
           /\ r.increment \in BOOLEAN /\ r.fifo \in BOOLEAN
           /\ \A n \in Counts(r) : n \in Nat /\ n >= 1
<1>1. r \in [address : Address, width : Nat \ {0},
              increment : BOOLEAN, fifo : BOOLEAN, readonly : BOOLEAN]
  BY RegisterMapAssumption
<1>2. MaxRead \in Nat
  BY RegisterMapAssumption
<1>3. /\ r.address \in Address /\ r.width \in Nat \ {0}
      /\ r.increment \in BOOLEAN /\ r.fifo \in BOOLEAN
  BY <1>1
<1>4. \A n \in Counts(r) : n \in 1 .. MaxRead \/ n = r.width
  BY DEF Counts
<1>5. \A n \in 1 .. MaxRead : n \in Nat /\ n >= 1
  BY <1>2
<1>6. r.width \in Nat /\ r.width >= 1
  BY <1>3
<1> QED
  BY <1>3, <1>4, <1>5, <1>6

(* The bounds and the values written are numbers.                          *)
LEMMA Constants ==
    /\ FifoWords \in Nat /\ FifoWords >= 1
    /\ MaxCalls \in Nat /\ MaxFaults \in Nat /\ MaxNoise \in Nat /\ Noise \subseteq 0 .. 255
    /\ \A v \in Value : v \in Nat
  BY RegisterMapAssumption, HostAssumption

(* A write the driver builds can be buffered.                              *)
LEMMA WriteCommandType ==
    ASSUME NEW r \in Register, NEW v \in Value
    PROVE  /\ BytesOf(v, r.width) \in Seq(Byte) /\ Len(BytesOf(v, r.width)) = r.width
           /\ WriteCommand(r, BytesOf(v, r.width)) \in Buffered
<1>1. BytesOf(v, r.width) \in Seq(Byte) /\ Len(BytesOf(v, r.width)) = r.width
  BY BytesOfType, Registers
<1> DEFINE bs == BytesOf(v, r.width)
<1> HIDE DEF bs
<1>2. WriteCommand(r, bs) = [write |-> TRUE, address |-> r.address,
           increment |-> r.increment, values |-> bs, length |-> Len(bs)]
  BY DEF WriteCommand
<1>3. /\ r.address \in Address /\ r.increment \in BOOLEAN /\ bs \in Seq(Byte)
      /\ Len(bs) \in Nat /\ Len(bs) >= 1
  BY <1>1, Registers DEF bs
<1>4. WriteCommand(r, bs) \in Command
  BY <1>2, <1>3 DEF Command
<1>5. WriteCommand(r, bs) \in Buffered
  BY <1>2, <1>3, <1>4 DEF Buffered
<1> QED
  BY <1>1, <1>5 DEF bs

(* A write can be extended.                                                *)
LEMMA AddValuesType ==
    ASSUME NEW c \in Buffered, NEW bs \in Seq(Byte), Len(bs) >= 1
    PROVE  /\ addValues(c, bs) \in Buffered
           /\ addValues(c, bs) = [write |-> c.write, address |-> c.address,
                                  increment |-> c.increment, values |-> c.values \o bs,
                                  length |-> Len(c.values) + Len(bs)]
<1>1. c \in Command
  BY DEF Buffered
<1>2. addValues(c, bs) = [write |-> c.write, address |-> c.address, increment |-> c.increment,
                          values |-> c.values \o bs, length |-> Len(c.values) + Len(bs)]
  BY <1>1, Records DEF addValues
<1>3. /\ c.write \in BOOLEAN /\ c.address \in Address /\ c.increment \in BOOLEAN
      /\ c.values \o bs \in Seq(Byte) /\ Len(c.values) + Len(bs) \in Nat
      /\ Len(c.values \o bs) = Len(c.values) + Len(bs) /\ Len(c.values \o bs) >= 1
  BY <1>1 DEF Command
<1>4. addValues(c, bs) \in Command
  BY <1>2, <1>3 DEF Command
<1> QED
  BY <1>2, <1>3, <1>4 DEF Buffered

(* A read the driver builds can be buffered.                               *)
LEMMA ReadCommandType ==
    ASSUME NEW r \in Register, NEW n \in Counts(r)
    PROVE  ReadCommand(r, n) \in Buffered /\ ReadCommand(r, n).write = FALSE
<1>1. ReadCommand(r, n) = [write |-> FALSE, address |-> r.address,
           increment |-> r.increment, values |-> <<>>, length |-> n]
  BY DEF ReadCommand
<1>2. /\ r.address \in Address /\ r.increment \in BOOLEAN /\ <<>> \in Seq(Byte) /\ n \in Nat
  BY Registers, EmptySequence
<1>3. ReadCommand(r, n) \in Command /\ ReadCommand(r, n).write = FALSE
  BY <1>1, <1>2 DEF Command
<1> QED
  BY <1>3 DEF Buffered

(* The firmware answers with as many bytes as are asked for.               *)
LEMMA BytesType ==
    ASSUME NEW d \in Device, NEW f \in Nat, NEW a \in Nat, NEW i \in BOOLEAN, NEW n \in Nat
    PROVE  Bytes(d, f, a, i, n) \in Seq(Item) /\ Len(Bytes(d, f, a, i, n)) = n
<1>1. \A k \in 1 .. n : (f + k - 1) % FifoWords \in Item
  <2>1. \A k \in 1 .. n : (f + k - 1) % FifoWords \in Nat
    BY Constants
  <2>2. \A x \in Nat : x \in Item
    BY DEF Item
  <2> QED
    BY <2>1, <2>2
<1>2. \A k \in 1 .. n : d[IF i THEN a + k - 1 ELSE a][1] \in Item
  <2>1. \A k \in 1 .. n : (IF i THEN a + k - 1 ELSE a) \in Nat
    OBVIOUS
  <2>2. \A x \in Nat : d[x][1] \in Item
    BY DEF Item
  <2> QED
    BY <2>1, <2>2
<1>3. [k \in 1 .. n |-> (f + k - 1) % FifoWords] \in Seq(Item)
      /\ Len([k \in 1 .. n |-> (f + k - 1) % FifoWords]) = n
  BY <1>1
<1>4. [k \in 1 .. n |-> d[IF i THEN a + k - 1 ELSE a][1]] \in Seq(Item)
      /\ Len([k \in 1 .. n |-> d[IF i THEN a + k - 1 ELSE a][1]]) = n
  BY <1>2
<1> QED
  BY <1>3, <1>4 DEF Bytes

(* The registers at the start.                                             *)
LEMMA DeviceStart == Fresh \in Device
<1>1. <<>> \in Seq(Byte \cup {0}) /\ <<0>> \in Seq(Byte \cup {0})
  OBVIOUS
<1> QED
  BY <1>1 DEF Fresh, Device

(* No thread.                                                              *)
LEMMA NoJobType == NoJob \in Job
  BY EmptySequence DEF NoJob, Job

(* The thread of a call as it starts.                                      *)
LEMMA JobsAre ==
    /\ \A p \in Seq(Wired) : WriteJob(p) = [kind |-> "write", todo |-> p, left |-> 0, got |-> <<>>]
                             /\ WriteJob(p) \in Job
    /\ \A n \in Nat : ReadJob(n) = [kind |-> "read", todo |-> <<>>, left |-> n, got |-> <<>>]
                      /\ ReadJob(n) \in Job
<1>1. \A p : WriteJob(p) = [kind |-> "write", todo |-> p, left |-> 0, got |-> <<>>]
  <2> SUFFICES ASSUME NEW p
               PROVE  WriteJob(p) = [kind |-> "write", todo |-> p, left |-> 0, got |-> <<>>]
    OBVIOUS
  <2>1. PICK j : j = [NoJob EXCEPT !.kind = "write"]
    OBVIOUS
  <2>2. j = [kind |-> "write", todo |-> <<>>, left |-> 0, got |-> <<>>]
    BY <2>1 DEF NoJob
  <2>3. [j EXCEPT !.todo = p] = [kind |-> "write", todo |-> p, left |-> 0, got |-> <<>>]
    BY <2>2
  <2> QED
    BY <2>1, <2>3 DEF WriteJob
<1>2. \A n : ReadJob(n) = [kind |-> "read", todo |-> <<>>, left |-> n, got |-> <<>>]
  <2> SUFFICES ASSUME NEW n
               PROVE  ReadJob(n) = [kind |-> "read", todo |-> <<>>, left |-> n, got |-> <<>>]
    OBVIOUS
  <2>1. PICK j : j = [NoJob EXCEPT !.kind = "read"]
    OBVIOUS
  <2>2. j = [kind |-> "read", todo |-> <<>>, left |-> 0, got |-> <<>>]
    BY <2>1 DEF NoJob
  <2>3. [j EXCEPT !.left = n] = [kind |-> "read", todo |-> <<>>, left |-> n, got |-> <<>>]
    BY <2>2
  <2> QED
    BY <2>1, <2>3 DEF ReadJob
<1> QED
  BY <1>1, <1>2, EmptySequence DEF Job

(* The types hold at the start.                                            *)
LEMMA TypesAtStart == Init => Types
<1> SUFFICES ASSUME Init PROVE Types
  OBVIOUS
<1> USE DEF Init
<1>1. HostTypes
  <2>1. torn \in BOOLEAN /\ ~torn
    BY Zenon
  <2> QED
    BY <2>1, EmptySequence, Constants DEF HostTypes
<1>2. PortTypes
  BY EmptySequence, Constants, DeviceStart DEF PortTypes
<1>3. JobTypes
  <2>1. 0 \in Jobs
    BY Constants DEF Jobs
  <2>2. NoJob.left = 0
    BY DEF NoJob
  <2> QED
    BY <2>1, <2>2, NoJobType DEF JobTypes
<1> QED
  BY <1>1, <1>2, <1>3 DEF Types

(* A thread of a call is put at the place of the task.                     *)
LEMMA JobSet ==
    ASSUME JobTypes, cancels \in Jobs, NEW p \in Job,
           p.left > 0 => p.kind = "read", pc' = "idle" => p = NoJob,
           job' = [job EXCEPT ![cancels] = p], cancels' = cancels
    PROVE  JobTypes'
<1>1. job' \in [Jobs -> Job] /\ job'[cancels] = p
      /\ \A j \in Jobs : j # cancels => job'[j] = job[j]
  BY DEF JobTypes
<1>2. ~ (cancels > cancels)
  BY DEF Jobs
<1> QED
  BY <1>1, <1>2 DEF JobTypes

(* There is room for the thread of the next call.                          *)
LEMMA Served == Types => cancels \in Jobs /\ \A j \in Jobs : job[j] # NoJob => j <= cancels
  BY Constants DEF Types, HostTypes, JobTypes, Jobs

(* A thread goes on.                                                       *)
LEMMA JobGoesOn ==
    ASSUME Types, NEW j \in Jobs, job[j] # NoJob, NEW p \in Job,
           p.left > 0 => p.kind = "read",
           job' = [job EXCEPT ![j] = p], cancels' = cancels, pc' = pc
    PROVE  JobTypes'
<1>1. job' \in [Jobs -> Job] /\ job'[j] = p
      /\ \A i \in Jobs : i # j => job'[i] = job[i]
  BY DEF Types, JobTypes
<1>2. ~ (j > cancels) /\ cancels \in Jobs
  BY Served DEF Types, JobTypes
<1> QED
  BY <1>1, <1>2 DEF Types, JobTypes

(* Its record, field by field.                                             *)
LEMMA JobTodo ==
    ASSUME NEW p \in Job, NEW t
    PROVE  [p EXCEPT !.todo = t] = [kind |-> p.kind, todo |-> t, left |-> p.left, got |-> p.got]
  BY DEF Job

(* Its record after bytes were taken.                                      *)
LEMMA JobRead ==
    ASSUME NEW p \in Job, NEW l, NEW g
    PROVE  [p EXCEPT !.left = l, !.got = g]
             = [kind |-> p.kind, todo |-> p.todo, left |-> l, got |-> g]
<1>1. PICK q : q = [p EXCEPT !.left = l]
  OBVIOUS
<1>2. q = [kind |-> p.kind, todo |-> p.todo, left |-> l, got |-> p.got]
  BY <1>1 DEF Job
<1>3. [q EXCEPT !.got = g] = [kind |-> p.kind, todo |-> p.todo, left |-> l, got |-> g]
  BY <1>2
<1> QED
  BY <1>1, <1>3

(* A command that is carried out keeps the types of the firmware and of    *)
(* its answers.                                                            *)
LEMMA CarriedOut ==
    ASSUME Types, NEW c \in Wired, CarryOut(c)
    PROVE  device' \in Device /\ down' \in Seq(Item) /\ sent' \in 0 .. FifoWords - 1
<1>1. c \in Buffered
  BY WiredBuffered
<1>2. c.address \in Nat /\ c.increment \in BOOLEAN /\ c.length \in Nat
  BY <1>1, Addresses DEF Buffered, Command
<1>3. device \in Device /\ sent \in Nat /\ sent \in 0 .. FifoWords - 1 /\ down \in Seq(Item)
  BY Constants DEF Types, PortTypes
<1>4. device' = Do(device, c)
      /\ down' \in {down, down \o Bytes(device, sent, c.address, c.increment, c.length)}
      /\ sent' \in {sent, (sent + c.length) % FifoWords}
  BY DEF CarryOut
<1>5. device' \in Device
  BY <1>1, <1>3, <1>4, DoType
<1>6. down' \in Seq(Item)
  <2>1. Bytes(device, sent, c.address, c.increment, c.length) \in Seq(Item)
    BY <1>2, <1>3, BytesType
  <2>2. down \o Bytes(device, sent, c.address, c.increment, c.length) \in Seq(Item)
    BY <1>3, <2>1
  <2> QED
    BY <1>3, <1>4, <2>2, Zenon
<1>7. sent' \in 0 .. FifoWords - 1
  <2>1. PICK n \in Nat : n = sent + c.length
    BY <1>2, <1>3
  <2>2. n % FifoWords \in 0 .. FifoWords - 1
    BY Constants
  <2> QED
    BY <1>3, <1>4, <2>1, <2>2
<1> QED
  BY <1>5, <1>6, <1>7

(* Bytes taken for something else write and answer some numbers.           *)
LEMMA Misreads ==
    ASSUME Types, Misread
    PROVE  device' \in Device /\ down' \in Seq(Item) /\ sent' \in 0 .. FifoWords - 1
<1>1. Strays \subseteq Seq(Byte) /\ Strays \subseteq Seq(Item)
  <2> SUFFICES ASSUME NEW bs \in Strays PROVE bs \in Seq(Byte) /\ bs \in Seq(Item)
    OBVIOUS
  <2>1. PICK n \in 0 .. MaxNoise : bs \in [1 .. n -> Noise]
    BY DEF Strays
  <2>2. n \in Nat /\ Noise \subseteq Byte /\ Noise \subseteq Item
    <3>1. Noise \subseteq Nat /\ n \in Nat
      BY Constants
    <3>2. \A u, w : Nat \subseteq Nat \cup u /\ Noise \subseteq w \cup Noise
      OBVIOUS
    <3>3. Nat \subseteq Item
      BY <3>2 DEF Item
    <3>4. Noise \subseteq Byte
      BY <3>2 DEF Byte
    <3> QED
      BY <3>1, <3>3, <3>4
  <2>3. bs \in [1 .. n -> Byte] /\ bs \in [1 .. n -> Item]
    BY <2>1, <2>2
  <2> QED
    BY <2>2, <2>3
<1>2. device \in Device /\ sent \in Nat /\ sent \in 0 .. FifoWords - 1 /\ down \in Seq(Item)
  BY Constants DEF Types, PortTypes
<1>3. device' \in Device
  <2>1. PICK a \in Address, increment \in BOOLEAN, bs \in Strays :
          device' = IF bs = <<>> THEN device ELSE Put(device, a, increment, bs)
    BY DEF Misread
  <2>2. bs \in Seq(Byte) /\ bs # <<>> => Put(device, a, increment, bs) \in Device
    BY <1>2, PutType
  <2> QED
    BY <1>1, <1>2, <2>1, <2>2
<1>4. down' \in Seq(Item)
  <2>1. PICK bs \in Strays : down' = down \o bs
    BY DEF Misread
  <2> QED
    BY <1>1, <1>2, <2>1
<1>5. sent' \in 0 .. FifoWords - 1
  <2>1. PICK n \in 0 .. MaxNoise : sent' = (sent + n) % FifoWords
    BY DEF Misread
  <2>2. PICK m \in Nat : m = sent + n
    BY <1>2, Constants
  <2>3. m % FifoWords \in 0 .. FifoWords - 1
    BY Constants
  <2> QED
    BY <2>1, <2>2, <2>3
<1> QED
  BY <1>3, <1>4, <1>5

(* Every step keeps the types, a cancelled call and a failing port         *)
(* included.                                                               *)
LEMMA TypesKept == Types /\ [Next]_vars => Types'
<1> SUFFICES ASSUME Types, [Next]_vars PROVE Types'
  OBVIOUS
<1>0. cancels \in Jobs /\ \A j \in Jobs : job[j] # NoJob => j <= cancels
  BY Served
<1> USE DEF script, port, fpga
<1>1. ASSUME NEW r \in Register, NEW v \in Value, addWrite(r, v) PROVE Types'
  <2> DEFINE bs == BytesOf(v, r.width)
  <2>1. bs \in Seq(Byte) /\ Len(bs) >= 1 /\ WriteCommand(r, bs) \in Buffered
    BY WriteCommandType, Registers
  <2> HIDE DEF bs
  <2>2. commands \in Seq(Buffered) /\ calls \in 0 .. MaxCalls
    BY DEF Types, HostTypes
  <2>3. commands' \in Seq(Buffered)
    <3>1. CASE Extends(r)
      <4>1. commands # <<>> /\ Len(commands) \in 1 .. Len(commands)
            /\ commands[Len(commands)] \in Buffered
        BY <2>2, <3>1 DEF Extends
      <4>2. commands' = [commands EXCEPT ![Len(commands)] = addValues(commands[Len(commands)], bs)]
        BY <1>1, <3>1 DEF addWrite, bs
      <4>3. addValues(commands[Len(commands)], bs) \in Buffered
        BY <2>1, <4>1, AddValuesType
      <4> QED
        BY <2>2, <4>1, <4>2, <4>3
    <3>2. CASE ~Extends(r)
      BY <1>1, <2>1, <2>2, <3>2 DEF addWrite, bs
    <3> QED
      BY <3>1, <3>2
  <2>4. calls' \in 0 .. MaxCalls
    BY <1>1, <2>2, Constants DEF addWrite, Idle
  <2>5. UNCHANGED <<pc, want, cancels, failures, torn, job, up, down, device, sent>>
    BY <1>1 DEF addWrite
  <2> QED
    BY <2>3, <2>4, <2>5 DEF Types, HostTypes, PortTypes, JobTypes
<1>2. CASE flush
  <2>1. OnTheWire(commands) \in Seq(Wired)
    BY WireType DEF Types, HostTypes
  <2>2. JobTypes'
    <3>1. WriteJob(OnTheWire(commands)) \in Job /\ ~ (WriteJob(OnTheWire(commands)).left > 0)
      BY <2>1, JobsAre
    <3> QED
      BY <1>0, <1>2, <3>1, JobSet DEF flush, Types
  <2>3. calls' \in 0 .. MaxCalls
    BY <1>2, Constants DEF flush, Idle, Types, HostTypes
  <2> QED
    BY <1>2, <2>2, <2>3 DEF flush, Types, HostTypes, PortTypes
<1>3. ASSUME NEW r \in Register, NEW n \in Counts(r), syncRead(r, n) PROVE Types'
  <2>0. ReadCommand(r, n) \in Buffered
    BY ReadCommandType
  <2>1. commands' = Append(commands, ReadCommand(r, n)) /\ commands' \in Seq(Buffered)
    BY <1>3, <2>0 DEF syncRead, Types, HostTypes
  <2>2. JobTypes'
    <3>1. OnTheWire(commands') \in Seq(Wired)
      BY <2>1, WireType
    <3>2. WriteJob(OnTheWire(commands')) \in Job /\ ~ (WriteJob(OnTheWire(commands')).left > 0)
      BY <3>1, JobsAre
    <3>3. job' = [job EXCEPT ![cancels] = WriteJob(OnTheWire(commands'))]
          /\ cancels' = cancels /\ pc' # "idle"
      BY <1>3, <2>1 DEF syncRead
    <3> QED
      BY <1>0, <3>2, <3>3, JobSet DEF Types
  <2>3. calls' \in 0 .. MaxCalls
    BY <1>3, Constants DEF syncRead, Idle, Types, HostTypes
  <2>4. want' = <<r, n>> /\ Readable(r) /\ pc' = "writing"
    BY <1>3 DEF syncRead
  <2>5. UNCHANGED <<cancels, failures, torn, up, down, device, sent>>
    BY <1>3 DEF syncRead
  <2> QED
    BY <2>1, <2>2, <2>3, <2>4, <2>5 DEF Types, HostTypes, PortTypes
<1>4. CASE Flushed
  <2>1. commands' = <<>>
    BY <1>4 DEF Flushed, resetCommands
  <2>2. JobTypes'
    <3>1. CASE want = <<>>
      <4>1. NoJob.left = 0
        BY DEF NoJob
      <4> QED
        BY <1>0, <1>4, <3>1, <4>1, NoJobType, JobSet DEF Flushed, Types
    <3>2. CASE want # <<>>
      <4>1. want[2] \in Nat
        BY <3>2, Registers DEF Types, HostTypes
      <4>2. ReadJob(want[2]) \in Job /\ ReadJob(want[2]).kind = "read"
        BY <4>1, JobsAre
      <4>3. job' = [job EXCEPT ![cancels] = ReadJob(want[2])] /\ cancels' = cancels /\ pc' # "idle"
        BY <1>4, <3>2 DEF Flushed
      <4> QED
        BY <1>0, <4>2, <4>3, JobSet DEF Types
    <3> QED
      BY <3>1, <3>2
  <2>3. UNCHANGED <<want, cancels, calls, failures, torn, up, down, device, sent>>
    BY <1>4 DEF Flushed
  <2>4. pc' \in {"idle", "reading"} /\ (pc' = "reading" => want # <<>>)
    BY <1>4 DEF Flushed
  <2> QED
    BY <2>1, <2>2, <2>3, <2>4, EmptySequence DEF Types, HostTypes, PortTypes
<1>5. CASE ReadReturns
  <2>1. JobTypes'
    <3>1. ~ (NoJob.left > 0)
      BY DEF NoJob
    <3>2. job' = [job EXCEPT ![cancels] = NoJob] /\ cancels' = cancels /\ JobTypes
      BY <1>5 DEF ReadReturns, Types
    <3> QED
      BY <1>0, <3>1, <3>2, NoJobType, JobSet
  <2> QED
    BY <1>5, <2>1 DEF ReadReturns, Types, HostTypes, PortTypes
<1>6. CASE Cancel
  <2>1. cancels' = cancels + 1 /\ cancels + failures < MaxFaults /\ job' = job /\ pc' = "idle"
    BY <1>6 DEF Cancel
  <2>2. cancels' \in 0 .. MaxFaults
    BY <2>1, Constants DEF Types, HostTypes
  <2>3. JobTypes'
    BY <2>1, <2>2, Constants DEF Types, HostTypes, JobTypes, Jobs
  <2> QED
    BY <1>6, <2>2, <2>3 DEF Cancel, Types, HostTypes, PortTypes
<1>7. ASSUME NEW j \in Jobs, writeBytesIO(j) PROVE Types'
  <2>1. job[j] \in Job /\ job[j].todo \in Seq(Wired) /\ job[j].todo # <<>>
        /\ (job[j].left > 0 => job[j].kind = "read")
    BY <1>7 DEF writeBytesIO, Types, JobTypes, Job
  <2>2. Head(job[j].todo) \in Wired /\ Tail(job[j].todo) \in Seq(Wired)
    BY <2>1
  <2> DEFINE p == [job[j] EXCEPT !.todo = Tail(job[j].todo)]
  <2>3. p \in Job /\ (p.left > 0 => p.kind = "read")
    <3>1. p = [kind |-> job[j].kind, todo |-> Tail(job[j].todo),
               left |-> job[j].left, got |-> job[j].got]
      BY <2>1, JobTodo
    <3> QED
      BY <2>1, <2>2, <3>1 DEF Job
  <2>4. job' = [job EXCEPT ![j] = p] /\ cancels' = cancels /\ pc' = pc
    BY <1>7 DEF writeBytesIO
  <2> HIDE DEF p
  <2>5. job[j] # NoJob
    BY <2>1 DEF NoJob
  <2>6. JobTypes'
    BY <2>3, <2>4, <2>5, JobGoesOn
  <2>7. up' \in Seq(Wired)
    BY <1>7, <2>2 DEF writeBytesIO, Types, PortTypes
  <2> QED
    BY <1>7, <2>6, <2>7 DEF writeBytesIO, Types, HostTypes, PortTypes
<1>8. ASSUME NEW j \in Jobs, readBytesIO(j) PROVE Types'
  <2>1. job[j] \in Job /\ job[j].left \in Nat /\ job[j].left > 0 /\ job[j].kind = "read"
        /\ job[j].got \in Seq(Item) /\ down \in Seq(Item) /\ down # <<>>
    BY <1>8 DEF readBytesIO, Types, PortTypes, JobTypes, Job
  <2>2. Head(down) \in Item /\ Tail(down) \in Seq(Item) /\ job[j].left - 1 \in Nat
    BY <2>1
  <2> DEFINE p == [job[j] EXCEPT !.left = job[j].left - 1, !.got = Append(job[j].got, Head(down))]
  <2>3. p \in Job /\ (p.left > 0 => p.kind = "read")
    <3>1. p = [kind |-> job[j].kind, todo |-> job[j].todo,
               left |-> job[j].left - 1, got |-> Append(job[j].got, Head(down))]
      BY <2>1, JobRead, Zenon
    <3>2. Append(job[j].got, Head(down)) \in Seq(Item)
      BY <2>1, <2>2
    <3> QED
      BY <2>1, <2>2, <3>1, <3>2 DEF Job
  <2>4. job' = [job EXCEPT ![j] = p] /\ cancels' = cancels /\ pc' = pc
    <3>1. job' = [job EXCEPT ![j].left = @ - 1, ![j].got = Append(@, Head(down))]
      BY <1>8 DEF readBytesIO
    <3>2. [job EXCEPT ![j].left = @ - 1, ![j].got = Append(@, Head(down))] = [job EXCEPT ![j] = p]
      BY <2>1 DEF Types, JobTypes
    <3> QED
      BY <1>8, <3>1, <3>2 DEF readBytesIO
  <2> HIDE DEF p
  <2>5. job[j] # NoJob
    BY <2>1 DEF NoJob
  <2>6. JobTypes'
    BY <2>3, <2>4, <2>5, JobGoesOn
  <2> QED
    BY <1>8, <2>2, <2>6 DEF readBytesIO, Types, HostTypes, PortTypes
<1>9. ASSUME NEW j \in Jobs, WriteFails(j) PROVE Types'
  <2>1. job[j] \in Job /\ job[j].todo # <<>> /\ (job[j].left > 0 => job[j].kind = "read")
    BY <1>9 DEF WriteFails, Types, JobTypes
  <2> DEFINE p == [job[j] EXCEPT !.todo = <<>>]
  <2>3. p \in Job /\ (p.left > 0 => p.kind = "read")
    <3>1. p = [kind |-> job[j].kind, todo |-> <<>>, left |-> job[j].left, got |-> job[j].got]
      BY <2>1, JobTodo
    <3> QED
      BY <2>1, <3>1, EmptySequence DEF Job
  <2>4. job' = [job EXCEPT ![j] = p] /\ cancels' = cancels /\ pc' = pc
    BY <1>9 DEF WriteFails
  <2> HIDE DEF p
  <2>5. job[j] # NoJob
    BY <2>1 DEF NoJob
  <2>6. JobTypes'
    BY <2>3, <2>4, <2>5, JobGoesOn
  <2>7. failures' \in 0 .. MaxFaults /\ failures' > 0
    BY <1>9, Constants DEF WriteFails, Types, HostTypes
  <2>8. up' \in Seq(Wired)
    <3>1. Head(job[j].todo) \in Wired
      BY <2>1 DEF Job
    <3> QED
      BY <1>9, <3>1 DEF WriteFails, Types, PortTypes
  <2>9. torn' \in BOOLEAN
    BY <1>9 DEF WriteFails, Types, HostTypes
  <2> QED
    BY <1>9, <2>6, <2>7, <2>8, <2>9 DEF WriteFails, Types, HostTypes, PortTypes
<1>10. CASE Firmware
  <2>1. device' \in Device /\ down' \in Seq(Item) /\ sent' \in 0 .. FifoWords - 1
    <3>1. up # <<>> /\ (CarryOut(Head(up)) \/ Misread)
      BY <1>10 DEF Firmware
    <3>2. Head(up) \in Wired /\ Types
      BY <3>1 DEF Types, PortTypes
    <3> QED
      BY <3>1, <3>2, CarriedOut, Misreads
  <2>2. up' \in Seq(Wired)
    BY <1>10 DEF Firmware, Types, PortTypes
  <2> QED
    BY <1>10, <2>1, <2>2 DEF Firmware, Types, HostTypes, PortTypes, JobTypes
<1>11. CASE UNCHANGED vars
  BY <1>11 DEF vars, Types, HostTypes, PortTypes, JobTypes
<1> QED
  BY <1>1, <1>2, <1>3, <1>4, <1>5, <1>6, <1>7, <1>8, <1>9, <1>10, <1>11
     DEF Next, Returns, Thread

(* The driver, the threads of its calls, the port and the firmware keep    *)
(* their types, whatever is cancelled and whenever the port fails          *)
(* (core.py:78-210, io/uart.py:55-101): a command in the buffer always has *)
(* the length of its values, a part on the wire never more values than its *)
(* length field can say, and a thread waits for bytes only when it is      *)
(* reading.                                                                *)
THEOREM TypeCorrect == Spec => []TypeOK
<1>1. Types => TypeOK
  BY TypesGiveTypeOK
<1> QED
  BY <1>1, TypesAtStart, TypesKept, PTL DEF Spec

-----------------------------------------------------------------------------
(* The command in the buffer that can be extended.                         *)
LastIsCurrent ==
    commands # <<>> => \E r \in Register : /\ currentRegister = <<r.address>>
                                           /\ commands[Len(commands)].address = r.address
                                           /\ commands[Len(commands)].increment = r.increment

(* The invariant holds at the start.                                       *)
LEMMA LastAtStart == Init => LastIsCurrent
  BY DEF Init, LastIsCurrent

(* The last element of an extended sequence.                               *)
LEMMA Appended ==
    ASSUME NEW S, NEW s \in Seq(S), NEW e \in S
    PROVE  Append(s, e) # <<>> /\ Append(s, e)[Len(Append(s, e))] = e
  OBVIOUS

(* A sequence with its last element replaced.                              *)
LEMMA Replaced ==
    ASSUME NEW S, NEW s \in Seq(S), s # <<>>, NEW e \in S
    PROVE  /\ [s EXCEPT ![Len(s)] = e] \in Seq(S)
           /\ Front(s) \in Seq(S) /\ s[Len(s)] \in S
           /\ s = Append(Front(s), s[Len(s)])
           /\ [s EXCEPT ![Len(s)] = e] = Append(Front(s), e)
<1> DEFINE n == Len(s)
           f == SubSeq(s, 1, n - 1)
           t == [s EXCEPT ![n] = e]
<1>0. Front(s) = f
  BY DEF Front
<1>1. n \in Nat /\ n >= 1 /\ s[n] \in S
  OBVIOUS
<1>2. f \in Seq(S) /\ Len(f) = n - 1 /\ \A k \in 1 .. n - 1 : f[k] = s[k]
  <2>1. \A k \in 1 .. n - 1 : s[k] \in S
    OBVIOUS
  <2> HIDE DEF n
  <2>2. 1 \in Int /\ n - 1 \in Int /\ (1 <= n - 1 \/ n - 1 = 0)
    BY <1>1
  <2>3. /\ f \in Seq(S) /\ Len(f) = (IF 1 <= n - 1 THEN n - 1 - 1 + 1 ELSE 0)
        /\ \A k \in 1 .. n - 1 - 1 + 1 : f[k] = s[1 + k - 1]
    BY <2>1, <2>2, SubSeqProperties
  <2> QED
    BY <2>2, <2>3
<1>3. t \in Seq(S) /\ Len(t) = n /\ t[n] = e /\ \A k \in 1 .. n - 1 : t[k] = s[k]
  BY <1>1
<1> HIDE DEF f, t, n
<1>4. /\ Append(f, s[n]) \in Seq(S) /\ Len(Append(f, s[n])) = n /\ Append(f, s[n])[n] = s[n]
      /\ \A k \in 1 .. n - 1 : Append(f, s[n])[k] = s[k]
  BY <1>1, <1>2
<1>5. /\ Append(f, e) \in Seq(S) /\ Len(Append(f, e)) = n /\ Append(f, e)[n] = e
      /\ \A k \in 1 .. n - 1 : Append(f, e)[k] = s[k]
  BY <1>1, <1>2
<1>6. \A k \in 1 .. n : k \in 1 .. n - 1 \/ k = n
  BY <1>1
<1>7. s = Append(f, s[n])
  <2>1. Len(s) = n
    BY DEF n
  <2>2. \A k \in 1 .. Len(s) : s[k] = Append(f, s[n])[k]
    BY <1>4, <1>6, <2>1
  <2> QED
    BY <1>4, <2>1, <2>2, SeqEqual
<1>8. t = Append(f, e)
  <2>1. \A k \in 1 .. Len(t) : t[k] = Append(f, e)[k]
    BY <1>3, <1>5, <1>6
  <2> QED
    BY <1>3, <1>5, <2>1, SeqEqual
<1> QED
  BY <1>0, <1>1, <1>2, <1>3, <1>7, <1>8 DEF n, t

(* Every step keeps it: only a call that buffers a command names the       *)
(* register.                                                               *)
LEMMA LastKept == Types /\ LastIsCurrent /\ [Next]_vars => LastIsCurrent'
<1> SUFFICES ASSUME Types, LastIsCurrent, [Next]_vars PROVE LastIsCurrent'
  OBVIOUS
<1>0. commands \in Seq(Buffered)
  BY DEF Types, HostTypes
<1>1. ASSUME NEW r \in Register, NEW v \in Value, addWrite(r, v) PROVE LastIsCurrent'
  <2> DEFINE bs == BytesOf(v, r.width)
  <2>1. bs \in Seq(Byte) /\ Len(bs) >= 1 /\ WriteCommand(r, bs) \in Buffered
    BY WriteCommandType, Registers
  <2> HIDE DEF bs
  <2>2. CASE Extends(r)
    <3>1. commands # <<>> /\ currentRegister = <<r.address>>
      BY <2>2 DEF Extends
    <3>2. commands[Len(commands)] \in Buffered
      BY <1>0, <3>1
    <3> DEFINE e == addValues(commands[Len(commands)], bs)
    <3>3. e \in Buffered /\ e.address = commands[Len(commands)].address
          /\ e.increment = commands[Len(commands)].increment
      BY <2>1, <3>2, AddValuesType
    <3>4. commands' = [commands EXCEPT ![Len(commands)] = e] /\ currentRegister' = currentRegister
      BY <1>1, <2>2 DEF addWrite, bs
    <3> HIDE DEF e
    <3>5. commands'[Len(commands')] = e
      BY <1>0, <3>1, <3>3, <3>4
    <3> QED
      BY <3>1, <3>3, <3>4, <3>5 DEF LastIsCurrent
  <2>3. CASE ~Extends(r)
    <3>1. commands' = Append(commands, WriteCommand(r, bs)) /\ currentRegister' = <<r.address>>
      BY <1>1, <2>3 DEF addWrite, bs
    <3>2. commands'[Len(commands')] = WriteCommand(r, bs)
      BY <1>0, <2>1, <3>1, Appended
    <3>3. WriteCommand(r, bs).address = r.address /\ WriteCommand(r, bs).increment = r.increment
      BY DEF WriteCommand
    <3> QED
      BY <3>1, <3>2, <3>3 DEF LastIsCurrent
  <2> QED
    BY <2>2, <2>3
<1>2. CASE flush
  BY <1>2 DEF flush, LastIsCurrent
<1>3. ASSUME NEW r \in Register, NEW n \in Counts(r), syncRead(r, n) PROVE LastIsCurrent'
  <2>1. commands' = Append(commands, ReadCommand(r, n)) /\ currentRegister' = <<r.address>>
    BY <1>3 DEF syncRead
  <2>2. commands'[Len(commands')] = ReadCommand(r, n)
    BY <1>0, <2>1, Appended, ReadCommandType
  <2>3. ReadCommand(r, n).address = r.address /\ ReadCommand(r, n).increment = r.increment
    BY DEF ReadCommand
  <2> QED
    BY <2>1, <2>2, <2>3 DEF LastIsCurrent
<1>4. CASE Flushed
  BY <1>4 DEF Flushed, resetCommands, LastIsCurrent
<1>5. ASSUME UNCHANGED <<commands, currentRegister>> PROVE LastIsCurrent'
  BY <1>5 DEF LastIsCurrent
<1>6. CASE Cancel \/ ReadReturns \/ Thread \/ Firmware \/ (\E j \in Jobs : WriteFails(j))
  BY <1>5, <1>6 DEF Cancel, ReadReturns, Thread, Firmware, WriteFails, writeBytesIO, readBytesIO
<1>7. CASE UNCHANGED vars
  BY <1>5, <1>7 DEF vars
<1> QED
  BY <1>1, <1>2, <1>3, <1>4, <1>6, <1>7 DEF Next, Returns

-----------------------------------------------------------------------------
(* What a write shows.                                                     *)

(* The commands on their way and in the thread, then those in the buffer.  *)
LEMMA Shows ==
    ASSUME NEW d \in Device, NEW a \in Seq(Wired), NEW b \in Seq(Wired), NEW c \in Seq(Buffered)
    PROVE  /\ FoldLeft(Do, d, a \o b \o c) = Fold(Fold(d, a \o b), c)
           /\ Fold(d, a \o b) \in Device /\ Fold(Fold(d, a \o b), c) \in Device
<1>1. a \o b \in Seq(Wired)
  OBVIOUS
<1>2. a \o b \in Seq(Buffered)
  BY <1>1, WiredBuffered, SeqMonotonic
<1>3. Fold(d, (a \o b) \o c) = Fold(Fold(d, a \o b), c)
  <2>1. PICK x \in Seq(Buffered) : x = a \o b
    BY <1>2
  <2>2. Fold(d, x \o c) = Fold(Fold(d, x), c)
    BY FoldConcat
  <2> QED
    BY <2>1, <2>2
<1>4. Fold(d, a \o b) \in Device
  BY <1>2, FoldType
<1>5. Fold(Fold(d, a \o b), c) \in Device
  BY <1>4, FoldType
<1> QED
  BY <1>3, <1>4, <1>5 DEF Fold

(* What a script that reads everything back would find.                    *)
LEMMA ShownIs ==
    Types => /\ Shown = Fold(Fold(device, up \o job[cancels].todo), Kept)
             /\ Fold(device, up \o job[cancels].todo) \in Device
             /\ Shown \in Device
<1> SUFFICES ASSUME Types PROVE /\ Shown = Fold(Fold(device, up \o job[cancels].todo), Kept)
             /\ Fold(device, up \o job[cancels].todo) \in Device
             /\ Shown \in Device
  OBVIOUS
<1>1. device \in Device /\ up \in Seq(Wired) /\ Kept \in Seq(Buffered)
  BY EmptySequence DEF Types, HostTypes, PortTypes, Kept
<1>2. job[cancels].todo \in Seq(Wired)
  BY Served DEF Types, JobTypes, Job
<1> QED
  BY <1>1, <1>2, Shows DEF Shown, Pending

(* A buffered write shows at once, unless a read is buffered before it.    *)
LEMMA AddWriteShows ==
    ASSUME Types, LastIsCurrent, ~Repeats,
           NEW r \in Register, NEW v \in Value, addWrite(r, v)
    PROVE  \/ Shown' = Put(Shown, r.address, r.increment, BytesOf(v, r.width))
           \/ Shown' = Shown /\ \E k \in 1 .. Len(commands) : ~ commands[k].write
<1> DEFINE bs == BytesOf(v, r.width)
           e == Fold(device, up \o job[cancels].todo)
<1>1. bs \in Seq(Byte) /\ Len(bs) >= 1 /\ WriteCommand(r, bs) \in Buffered
  BY WriteCommandType, Registers
<1>2. Shown = Fold(e, commands) /\ e \in Device /\ commands \in Seq(Buffered)
  <2>1. pc = "idle"
    BY DEF addWrite, Idle
  <2> QED
    BY <2>1, ShownIs DEF Kept, Types, HostTypes
<1>3. Shown' = Fold(e, commands') /\ commands' \in Seq(Buffered)
  <2>1. Types'
    <3>1. Next
      BY DEF Next
    <3> QED
      BY <3>1, TypesKept
  <2>2. UNCHANGED <<device, up, job, cancels, pc>> /\ pc = "idle"
    BY DEF addWrite, Idle, script, port, fpga
  <2>3. Kept' = commands' /\ commands' \in Seq(Buffered)
    BY <2>1, <2>2 DEF Kept, Types, HostTypes
  <2>4. /\ device \in Device /\ up \in Seq(Wired)
        /\ job[cancels].todo \in Seq(Wired)
    BY Served DEF Types, PortTypes, JobTypes, Job
  <2>5. Shown' = FoldLeft(Do, device, up \o job[cancels].todo \o commands')
    BY <2>2, <2>3 DEF Shown, Pending
  <2> QED
    BY <2>3, <2>4, <2>5, Shows
<1> HIDE DEF bs, e
<1>4. CASE ~Extends(r)
  <2>1. commands' = Append(commands, WriteCommand(r, bs))
    BY <1>4 DEF addWrite, bs
  <2>2. Fold(e, Append(commands, WriteCommand(r, bs))) = Do(Fold(e, commands), WriteCommand(r, bs))
    BY <1>1, <1>2, FoldAppend
  <2>3. Do(Shown, WriteCommand(r, bs)) = Put(Shown, r.address, r.increment, bs)
    BY DEF Do, WriteCommand
  <2> QED
    BY <1>2, <1>3, <2>1, <2>2, <2>3 DEF bs
<1>5. CASE Extends(r)
  <2>1. commands # <<>> /\ currentRegister = <<r.address>> /\ r.increment = FALSE
    <3>1. ~r.increment
      BY <1>5 DEF addWrite
    <3> QED
      BY <1>5, <3>1, Registers DEF Extends
  <2>2. commands[Len(commands)] \in Buffered /\ Len(commands) \in 1 .. Len(commands)
    BY <1>2, <2>1
  <2> DEFINE new == addValues(commands[Len(commands)], bs)
  <2>3. new \in Buffered
    BY <1>1, <2>2, AddValuesType
  <2> HIDE DEF new
  <2>4. commands' = [commands EXCEPT ![Len(commands)] = new]
    BY <1>5 DEF addWrite, bs, new
  <2>5. PICK c \in Buffered : c = commands[Len(commands)] /\ new = addValues(c, bs)
    BY <2>2 DEF new
  <2>6. PICK f \in Seq(Buffered) : commands = Append(f, c) /\ commands' = Append(f, new)
    BY <1>2, <2>1, <2>3, <2>4, <2>5, Replaced
  <2>7. c.address = r.address /\ c.increment = FALSE
    <3>1. PICK q \in Register : /\ currentRegister = <<q.address>>
                                /\ commands[Len(commands)].address = q.address
                                /\ commands[Len(commands)].increment = q.increment
      BY <2>1 DEF LastIsCurrent
    <3>2. q.address = r.address
      BY <2>1, <3>1
    <3>3. q = r
      BY <3>2, RegisterMapAssumption
    <3> QED
      BY <2>1, <2>5, <3>1, <3>3
  <2>8. /\ new.write = c.write /\ new.address = r.address /\ new.increment = FALSE
        /\ new.values = c.values \o bs
    <3>1. new = [write |-> c.write, address |-> c.address, increment |-> c.increment,
                 values |-> c.values \o bs, length |-> Len(c.values) + Len(bs)]
      BY <1>1, <2>5, AddValuesType
    <3> QED
      BY <2>7, <3>1
  <2> DEFINE x == Fold(e, f)
  <2>9. x \in Device /\ Shown = Do(x, c) /\ Shown' = Do(x, new)
    BY <1>2, <1>3, <2>3, <2>6, FoldAppend, FoldType
  <2> HIDE DEF x
  <2>10. CASE ~c.write
    BY <2>2, <2>6, <2>8, <2>9, <2>10 DEF Do
  <2>11. CASE c.write
    <3>1. c.values \in Seq(Byte) /\ r.address \in Address
      BY Registers DEF Buffered, Command
    <3>2. Shown = Put(x, r.address, FALSE, c.values)
          /\ Shown' = Put(x, r.address, FALSE, c.values \o bs)
      BY <2>7, <2>8, <2>9, <2>11 DEF Do
    <3>3. Put(Put(x, r.address, FALSE, c.values), r.address, FALSE, bs)
            = Put(x, r.address, FALSE, c.values \o bs)
      BY <1>1, <2>9, <3>1, PutTwice
    <3> QED
      BY <2>1, <3>2, <3>3 DEF bs
  <2> QED
    BY <2>10, <2>11
<1> QED
  BY <1>4, <1>5

(* A write leaves the other addresses alone.                               *)
LEMMA PutElsewhere ==
    ASSUME NEW d \in Device, NEW a \in Address, NEW i \in BOOLEAN,
           NEW bs \in Seq(Byte), Len(bs) >= 1,
           NEW x \in Address \ (a .. a + Len(bs) - 1)
    PROVE  Put(d, a, i, bs)[x] = d[x]
<1>1. DOMAIN d = Address /\ a \in Nat /\ a \in a .. a + Len(bs) - 1 /\ x # a
  BY Addresses DEF Device
<1> QED
  BY <1>1 DEF Put

(* A write changes the bytes of its own register only, whatever else is    *)
(* buffered or under way (core.py:162-180): only the last command of the   *)
(* buffer is extended, and only by the register it is for.  This is about  *)
(* scripts that flush between two writes of a register of several bytes,   *)
(* because the code spreads the second one over the addresses behind the   *)
(* register.                                                               *)
THEOREM OthersKeepTheirBytes ==
    ASSUME ~Repeats
    PROVE  Spec => WriteLeavesOthers
<1> DEFINE Inv == Types /\ LastIsCurrent
           Others == \A r \in Register, v \in Value : addWrite(r, v) =>
                        \A a \in Address \ (r.address .. r.address + r.width - 1) :
                            Shown'[a] = Shown[a]
<1>1. Init => Inv
  BY TypesAtStart, LastAtStart
<1>2. Inv /\ [Next]_vars => Inv'
  BY TypesKept, LastKept
<1>3. Inv /\ [Next]_vars => Others
  <2> SUFFICES ASSUME Types, LastIsCurrent,
                      NEW r \in Register, NEW v \in Value, addWrite(r, v),
                      NEW a \in Address \ (r.address .. r.address + r.width - 1)
               PROVE  Shown'[a] = Shown[a]
    OBVIOUS
  <2> DEFINE bs == BytesOf(v, r.width)
  <2>1. bs \in Seq(Byte) /\ Len(bs) = r.width /\ Len(bs) >= 1
        /\ r.address \in Address /\ r.increment \in BOOLEAN
    BY WriteCommandType, Registers
  <2>2. Shown \in Device
    BY ShownIs
  <2>3. Shown' = Put(Shown, r.address, r.increment, bs) \/ Shown' = Shown
    BY AddWriteShows
  <2> HIDE DEF bs
  <2>4. Put(Shown, r.address, r.increment, bs)[a] = Shown[a]
    BY <2>1, <2>2, PutElsewhere
  <2> QED
    BY <2>3, <2>4
<1>4. WriteLeavesOthers <=> [][Others]_vars
  BY DEF WriteLeavesOthers
<1> HIDE DEF Others
<1> QED
  BY <1>1, <1>2, <1>3, <1>4, PTL DEF Spec

-----------------------------------------------------------------------------
(* Readout words modulo FifoWords.                                         *)
Back(s, n) == (s + FifoWords - (n % FifoWords)) % FifoWords

(* The remainder of q f + s.                                               *)
LEMMA ModIs ==
    ASSUME NEW f \in Nat, f >= 1, NEW s \in 0 .. f - 1, NEW q \in Nat, NEW x \in Nat,
           x = q * f + s
    PROVE  x % f = s
  OBVIOUS

(* The same, for all of them.                                              *)
LEMMA ModSum ==
    ASSUME NEW f \in Nat, f >= 1
    PROVE  \A x \in Nat : \A q \in Nat : \A s \in 0 .. f - 1 : x = q * f + s => x % f = s
  BY ModIs

(* A number is a multiple and a remainder.                                 *)
LEMMA ModParts ==
    ASSUME NEW f \in Nat, f >= 1, NEW n \in Nat
    PROVE  \E a \in Nat : \E b \in 0 .. f - 1 : b = n % f /\ n = a * f + b
<1>1. n % f \in 0 .. f - 1
  OBVIOUS
<1>2. n \div f \in Nat
  BY Division
<1>3. PICK a \in Nat : a = n \div f
  BY <1>2
<1>4. PICK b \in 0 .. f - 1 : b = n % f
  BY <1>1
<1>5. n = a * f + b
  BY <1>3, <1>4
<1> QED
  BY <1>4, <1>5

(* Back by nothing.                                                        *)
LEMMA BackNone ==
    ASSUME NEW s \in 0 .. FifoWords - 1
    PROVE  Back(s, 0) = s
<1> DEFINE f == FifoWords
<1>1. f \in Nat /\ f >= 1
  BY Constants
<1>2. 0 % f = 0
  BY <1>1
<1> HIDE DEF f
<1>3. s \in 0 .. f - 1
  BY DEF f
<1>4. s + f - 0 \in Nat /\ s + f - 0 = 1 * f + s
  BY <1>1, <1>3
<1>5. (s + f - 0) % f = s
  BY <1>1, <1>3, <1>4, ModIs
<1> QED
  BY <1>2, <1>5 DEF Back, f

(* Back by as much as forth.                                               *)
LEMMA BackAgain ==
    ASSUME NEW s \in 0 .. FifoWords - 1, NEW n \in Nat
    PROVE  Back((s + n) % FifoWords, n) = s
<1> DEFINE f == FifoWords
<1>1. f \in Nat /\ f >= 1
  BY Constants
<1> HIDE DEF f
<1>2. s \in 0 .. f - 1
  BY DEF f
<1>3. PICK a \in Nat, b \in 0 .. f - 1 : b = n % f /\ n = a * f + b
  BY <1>1, ModParts
<1>4. n = a * f + b
  BY <1>3
<1>5. CASE s + b < f
  <2>1. s + b \in 0 .. f - 1 /\ s + n \in Nat /\ s + n = a * f + (s + b)
    BY <1>1, <1>2, <1>3, <1>4, <1>5
  <2>2. (s + n) % f = s + b
    BY <1>1, <2>1, ModSum
  <2>3. (s + b) + f - b = 1 * f + s /\ (s + b) + f - b \in Nat
    BY <1>1, <1>2, <1>3
  <2>4. ((s + b) + f - b) % f = s
    BY <1>1, <1>2, <2>3, ModIs
  <2> QED
    BY <1>3, <2>2, <2>4 DEF Back, f
<1>6. CASE ~ (s + b < f)
  <2>1. s + b - f \in 0 .. f - 1 /\ s + n \in Nat /\ s + n = (a + 1) * f + (s + b - f) /\ a + 1 \in Nat
    BY <1>1, <1>2, <1>3, <1>4, <1>6
  <2>2. (s + n) % f = s + b - f
    BY <1>1, <2>1, ModSum
  <2>3. (s + b - f) + f - b = 0 * f + s /\ (s + b - f) + f - b \in Nat
    BY <1>1, <1>2, <1>3
  <2>4. ((s + b - f) + f - b) % f = s
    BY <1>1, <1>2, <2>3, ModIs
  <2> QED
    BY <1>3, <2>2, <2>4 DEF Back, f
<1> QED
  BY <1>5, <1>6

(* Forth by as much as back.                                               *)
LEMMA BackForth ==
    ASSUME NEW s \in 0 .. FifoWords - 1, NEW n \in Nat
    PROVE  (Back(s, n) + n) % FifoWords = s
<1> DEFINE f == FifoWords
<1>1. f \in Nat /\ f >= 1
  BY Constants
<1> HIDE DEF f
<1>2. s \in 0 .. f - 1
  BY DEF f
<1>3. PICK a \in Nat, b \in 0 .. f - 1 : b = n % f /\ n = a * f + b
  BY <1>1, ModParts
<1>4. n = a * f + b
  BY <1>3
<1>5. Back(s, n) = (s + f - b) % f
  BY <1>3 DEF Back, f
<1>6. CASE s < b
  <2>1. s + f - b \in 0 .. f - 1 /\ s + f - b \in Nat /\ s + f - b = 0 * f + (s + f - b)
    BY <1>1, <1>2, <1>3, <1>6
  <2>2. (s + f - b) % f = s + f - b
    BY ONLY <1>1, <2>1, ModIs
  <2>3. (s + f - b) + n \in Nat /\ (s + f - b) + n = (a + 1) * f + s /\ a + 1 \in Nat
    BY <1>1, <1>2, <1>3, <1>4
  <2>4. ((s + f - b) + n) % f = s
    BY <1>1, <1>2, <2>3, ModSum
  <2> QED
    BY <1>5, <2>2, <2>4 DEF f
<1>7. CASE ~ (s < b)
  <2>1. s - b \in 0 .. f - 1 /\ s + f - b \in Nat /\ s + f - b = 1 * f + (s - b)
    BY <1>1, <1>2, <1>3, <1>7
  <2>2. (s + f - b) % f = s - b
    BY ONLY <1>1, <2>1, ModIs
  <2>3. (s - b) + n \in Nat /\ (s - b) + n = a * f + s
    BY <1>1, <1>2, <1>3, <1>4, <1>7
  <2>4. ((s - b) + n) % f = s
    BY <1>1, <1>2, <2>3, ModIs
  <2> QED
    BY <1>5, <2>2, <2>4 DEF f
<1> QED
  BY <1>6, <1>7

-----------------------------------------------------------------------------
(* Sequences that pass through the port.                                   *)

(* A command goes from the thread to the wire.                             *)
LEMMA MovedOn ==
    ASSUME NEW S, NEW a \in Seq(S), NEW b \in Seq(S), b # <<>>
    PROVE  Append(a, Head(b)) \o Tail(b) = a \o b
  OBVIOUS

(* The first element leaves.                                               *)
LEMMA TakenOff ==
    ASSUME NEW S, NEW a \in Seq(S), NEW b \in Seq(S), a # <<>>
    PROVE  Tail(a) \o b = Tail(a \o b) /\ Head(a) = Head(a \o b) /\ a \o b # <<>>
  OBVIOUS

(* Of two sequences that end in one element, the first has it only when    *)
(* the second is empty.                                                    *)
LEMMA AllButLast ==
    ASSUME NEW S, NEW a \in Seq(S), NEW b \in Seq(S), b # <<>>,
           NEW T, NEW w \in Seq(T), NEW e, a \o b = Append(w, e)
    PROVE  a \in Seq(T)
<1>1. Len(a \o b) = Len(a) + Len(b) /\ Len(b) >= 1 /\ Len(a) \in Nat /\ Len(b) \in Nat
  OBVIOUS
<1>2. Len(Append(w, e)) = Len(w) + 1 /\ Len(w) \in Nat
  OBVIOUS
<1>3. Len(a) <= Len(w)
  BY <1>1, <1>2
<1>4. ASSUME NEW k \in 1 .. Len(a) PROVE a[k] \in T
  <2>1. a[k] = (a \o b)[k]
    OBVIOUS
  <2>2. Append(w, e)[k] = w[k] /\ w[k] \in T
    BY <1>2, <1>3
  <2> QED
    BY <2>1, <2>2
<1> QED
  BY <1>4

-----------------------------------------------------------------------------
(* The one call of a session in which none was cancelled.                  *)

(* Nothing but writes is under way.                                        *)
Quiet == up \in Seq(Writes) /\ down = <<>> /\ job[0].got = <<>>

(* The read command is the last on its way to the firmware.                *)
Ahead(r, n) ==
    /\ \E w \in Seq(Writes) : up \o job[0].todo = Append(w, ReadCommand(r, n))
    /\ down = <<>> /\ job[0].got = <<>>

(* The firmware has answered it.                                           *)
Answered(r, n) ==
    /\ up = <<>> /\ job[0].todo = <<>>
    /\ job[0].got \o down = Bytes(device, Back(sent, n), r.address, r.increment, n)

(* It was lost in the port.                                                *)
Lost == failures > 0 /\ Quiet /\ job[0].todo = <<>>

AskedInv   == want # <<>> => Ahead(want[1], want[2]) \/ Answered(want[1], want[2]) \/ Lost
IdleInv    == pc = "idle" => want = <<>> /\ Quiet /\ commands \in Seq(Puts)
WritingInv == pc = "writing" => /\ job[0].kind = "write" /\ job[0].got = <<>>
                                /\ want = <<>> => Quiet /\ job[0].todo \in Seq(Writes)
ReadingInv == pc = "reading" => /\ job[0].todo = <<>> /\ commands = <<>>
                                /\ job[0].left + Len(job[0].got) = want[2]

CallInv  == AskedInv /\ IdleInv /\ WritingInv /\ ReadingInv
OneCall  == cancels = 0 /\ ~torn => CallInv

(* When no call was cancelled there is one thread, or none.                *)
LEMMA FirstJob ==
    ASSUME Types
    PROVE  /\ 0 \in Jobs /\ job[0] \in Job /\ DOMAIN job = Jobs
           /\ job[0].todo \in Seq(Wired) /\ job[0].left \in Nat /\ job[0].got \in Seq(Item)
           /\ up \in Seq(Wired) /\ down \in Seq(Item)
           /\ cancels = 0 /\ pc = "idle" => job[0] = NoJob
           /\ cancels = 0 => \A j \in Jobs : j # 0 => job[j] = NoJob
<1>1. 0 \in Jobs /\ \A j \in Jobs : j # 0 => j > 0
  BY Constants DEF Jobs
<1>2. job[0] \in Job
  BY <1>1 DEF Types, JobTypes
<1> QED
  BY <1>1, <1>2 DEF Types, JobTypes, PortTypes, Job

(* A thread that does not exist has nothing to do.                         *)
LEMMA Empty == NoJob.todo = <<>> /\ NoJob.got = <<>> /\ NoJob.left = 0 /\ NoJob.kind = "none"
  BY DEF NoJob

(* No call has been made at the start.                                     *)
LEMMA CallAtStart == Init => OneCall
  BY Constants, Empty, EmptySequence
     DEF Init, OneCall, CallInv, AskedInv, IdleInv, WritingInv, ReadingInv, Quiet, Jobs

(* A write is buffered.                                                    *)
LEMMA CallWrites ==
    ASSUME Types, OneCall, cancels = 0, ~torn, NEW r \in Register, NEW v \in Value, addWrite(r, v)
    PROVE  CallInv'
<1>1. pc = "idle" /\ want = <<>> /\ Quiet /\ commands \in Seq(Puts)
  BY DEF addWrite, Idle, OneCall, CallInv, IdleInv
<1>2. UNCHANGED <<pc, want, job, up, down>>
  BY DEF addWrite, script, port
<1>3. commands' \in Seq(Puts)
  <2> DEFINE bs == BytesOf(v, r.width)
  <2>1. bs \in Seq(Byte) /\ Len(bs) >= 1 /\ WriteCommand(r, bs) \in Buffered
    BY WriteCommandType, Registers
  <2> HIDE DEF bs
  <2>2. CASE Extends(r)
    <3>1. commands # <<>>
      BY <2>2 DEF Extends
    <3>2. PICK c \in Buffered : c = commands[Len(commands)] /\ c.write
      BY <1>1, <3>1 DEF Puts
    <3>3. addValues(c, bs) \in Buffered /\ addValues(c, bs).write
      BY <2>1, <3>2, AddValuesType
    <3>4. commands' = [commands EXCEPT ![Len(commands)] = addValues(c, bs)]
      BY <2>2, <3>2 DEF addWrite, bs
    <3>5. addValues(c, bs) \in Puts
      BY <3>3 DEF Puts
    <3> QED
      BY <1>1, <3>1, <3>4, <3>5
  <2>3. CASE ~Extends(r)
    <3>1. WriteCommand(r, bs) \in Puts
      BY <2>1 DEF Puts, WriteCommand
    <3>2. commands' = Append(commands, WriteCommand(r, bs))
      BY <2>3 DEF addWrite, bs
    <3> QED
      BY <1>1, <3>1, <3>2
  <2> QED
    BY <2>2, <2>3
<1> QED
  BY <1>1, <1>2, <1>3 DEF CallInv, AskedInv, IdleInv, WritingInv, ReadingInv, Quiet

(* A flush hands the buffer to a thread.                                   *)
LEMMA CallFlushes ==
    ASSUME Types, OneCall, cancels = 0, ~torn, flush
    PROVE  CallInv'
<1>1. pc = "idle" /\ want = <<>> /\ Quiet /\ commands \in Seq(Puts)
  BY DEF flush, Idle, OneCall, CallInv, IdleInv
<1>2. OnTheWire(commands) \in Seq(Writes) /\ OnTheWire(commands) \in Seq(Wired)
  BY <1>1, WireType DEF Types, HostTypes
<1>3. job'[0] = WriteJob(OnTheWire(commands))
  BY FirstJob DEF flush
<1>4. job'[0].kind = "write" /\ job'[0].got = <<>> /\ job'[0].todo = OnTheWire(commands)
  BY <1>2, <1>3, JobsAre
<1>5. pc' = "writing" /\ want' = <<>> /\ up' = up /\ down' = down
  BY DEF flush, port
<1> QED
  BY <1>1, <1>2, <1>4, <1>5 DEF CallInv, AskedInv, IdleInv, WritingInv, ReadingInv, Quiet

(* A read does, with its own command last.                                 *)
LEMMA CallAsks ==
    ASSUME Types, OneCall, cancels = 0, ~torn,
           NEW r \in Register, NEW n \in Counts(r), syncRead(r, n)
    PROVE  CallInv'
<1> DEFINE c == ReadCommand(r, n)
           p == OnTheWire(Append(commands, c))
<1>1. pc = "idle" /\ want = <<>> /\ Quiet /\ commands \in Seq(Puts)
  BY DEF syncRead, Idle, OneCall, CallInv, IdleInv
<1>2. c \in Buffered /\ c.write = FALSE
  BY ReadCommandType
<1> HIDE DEF c
<1>3. commands \in Seq(Buffered)
  BY DEF Types, HostTypes
<1>4. PICK w \in Seq(Writes) : w = OnTheWire(commands)
  BY <1>1, WireType
<1>5. p = Append(w, c)
  <2>1. PartsOf(c) = <<c>>
    BY <1>2 DEF PartsOf
  <2>2. p = w \o <<c>>
    BY <1>2, <1>3, <1>4, <2>1, WireAppend
  <2> QED
    BY <2>2
<1>6. p \in Seq(Wired)
  <2>1. Append(commands, c) \in Seq(Buffered)
    BY <1>2, <1>3
  <2> QED
    BY <2>1, WireType
<1>7. job'[0] = WriteJob(p)
  BY FirstJob DEF syncRead, c
<1> HIDE DEF p
<1>8. job'[0].kind = "write" /\ job'[0].got = <<>> /\ job'[0].todo = p
  BY <1>6, <1>7, JobsAre
<1>9. pc' = "writing" /\ want' = <<r, n>> /\ up' = up /\ down' = down
  BY DEF syncRead, port
<1>10. up \o p = Append(up \o w, c) /\ up \o w \in Seq(Writes)
  BY <1>1, <1>5 DEF Quiet
<1>11. Ahead(r, n)'
  BY <1>1, <1>8, <1>9, <1>10 DEF Ahead, Quiet, c
<1>12. want'[1] = r /\ want'[2] = n /\ want' # <<>>
  BY <1>9
<1>13. Ahead(want[1], want[2])'
  BY <1>11, <1>12 DEF Ahead
<1> QED
  BY <1>8, <1>9, <1>12, <1>13 DEF CallInv, AskedInv, IdleInv, WritingInv, ReadingInv

(* A flush ends, or the read goes on to take its answer.                   *)
LEMMA CallFlushed ==
    ASSUME Types, OneCall, cancels = 0, ~torn, Flushed
    PROVE  CallInv'
<1>1. pc = "writing" /\ job[0].todo = <<>> /\ job[0].got = <<>> /\ commands' = <<>>
      /\ want' = want /\ up' = up /\ down' = down /\ device' = device /\ sent' = sent
      /\ failures' = failures
  BY DEF Flushed, resetCommands, port, fpga, OneCall, CallInv, WritingInv
<1>2. CASE want = <<>>
  <2>1. pc' = "idle" /\ job'[0] = NoJob
    BY <1>2, FirstJob DEF Flushed
  <2>2. Quiet
    BY <1>1, <1>2 DEF OneCall, CallInv, WritingInv
  <2> QED
    BY <1>1, <1>2, <2>1, <2>2, Empty, EmptySequence
       DEF CallInv, AskedInv, IdleInv, WritingInv, ReadingInv, Quiet
<1>3. CASE want # <<>>
  <2>1. PICK n \in Nat : n = want[2]
    BY <1>3, Registers DEF Types, HostTypes
  <2>2. pc' = "reading" /\ job'[0] = ReadJob(n)
    BY <1>3, <2>1, FirstJob DEF Flushed
  <2>3. job'[0].todo = <<>> /\ job'[0].got = <<>> /\ job'[0].left = n /\ Len(<<>>) = 0
    BY <2>2, JobsAre
  <2>4. AskedInv'
    BY <1>1, <1>3, <2>3 DEF OneCall, CallInv, AskedInv, Ahead, Answered, Lost, Quiet
  <2>5. n + 0 = n
    OBVIOUS
  <2>6. ReadingInv'
    BY <1>1, <2>1, <2>3, <2>5 DEF ReadingInv
  <2> QED
    BY <2>2, <2>4, <2>6 DEF CallInv, IdleInv, WritingInv
<1> QED
  BY <1>2, <1>3

(* What a read is asked.                                                   *)
LEMMA WantIs ==
    ASSUME Types, want # <<>>
    PROVE  \E r \in Register : \E n \in Counts(r) :
              /\ want[1] = r /\ want[2] = n /\ Readable(r) /\ n \in Nat /\ n >= 1
              /\ r.address \in Nat /\ r.increment \in BOOLEAN
<1>0. PICK r \in Register : \E n \in Counts(r) : want = <<r, n>> /\ Readable(r)
  BY DEF Types, HostTypes
<1>1. PICK n \in Counts(r) : want = <<r, n>> /\ Readable(r)
  BY <1>0
<1>2. want[1] = r /\ want[2] = n
  BY <1>1
<1> QED
  BY <1>1, <1>2, Registers, Addresses

(* Registers with different addresses are different registers.             *)
LEMMA FifoIs ==
    ASSUME NEW r \in Register
    PROVE  IsFifo(r.address) <=> r.fifo
<1>1. \A s \in Register : s.address = r.address => s = r
  BY RegisterMapAssumption
<1> QED
  BY <1>1 DEF IsFifo

(* The distance is one of the positions.                                   *)
LEMMA BackType ==
    ASSUME NEW s \in 0 .. FifoWords - 1, NEW n \in Nat
    PROVE  Back(s, n) \in 0 .. FifoWords - 1 /\ Back(s, n) \in Nat
<1> DEFINE f == FifoWords
<1>1. f \in Nat /\ f >= 1
  BY Constants
<1> HIDE DEF f
<1>2. PICK b \in 0 .. f - 1 : b = n % f
  BY <1>1, ModParts
<1>3. PICK x \in Nat : x = s + f - b
  BY <1>1, <1>2 DEF f
<1>4. x % f \in 0 .. f - 1
  BY <1>1
<1> QED
  BY <1>1, <1>2, <1>3, <1>4 DEF Back, f

(* The answer is as long as was asked for.                                 *)
LEMMA AnswerLength ==
    ASSUME Types, NEW r \in Register, NEW n \in Counts(r), Answered(r, n)
    PROVE  Len(job[0].got) + Len(down) = n
<1>1. device \in Device /\ sent \in 0 .. FifoWords - 1
  BY DEF Types, PortTypes
<1>2. Len(Bytes(device, Back(sent, n), r.address, r.increment, n)) = n
  <2>1. Back(sent, n) \in Nat /\ n \in Nat /\ r.address \in Nat /\ r.increment \in BOOLEAN
    BY <1>1, BackType, Registers, Addresses
  <2> QED
    BY <1>1, <2>1, BytesType, ZenonT(60)
<1>3. Len(job[0].got \o down) = n
  BY <1>2 DEF Answered
<1> QED
  BY <1>3, FirstJob

(* A read that returns has been answered, and all of the answer was taken. *)
LEMMA AnsweredInFull ==
    ASSUME Types, OneCall, cancels = 0, ~torn, ReadReturns
    PROVE  /\ Answered(want[1], want[2]) /\ want # <<>> /\ commands = <<>>
           /\ up = <<>> /\ down = <<>> /\ job[0].todo = <<>>
           /\ job[0].got = Bytes(device, Back(sent, want[2]), want[1].address,
                                 want[1].increment, want[2])
<1>1. pc = "reading" /\ job[0].left = 0 /\ commands = <<>> /\ job[0].todo = <<>>
      /\ job[0].left + Len(job[0].got) = want[2]
  BY DEF ReadReturns, OneCall, CallInv, ReadingInv
<1>2. want # <<>>
  BY <1>1 DEF Types, HostTypes
<1>a. PICK r \in Register : \E n \in Counts(r) :
        want[1] = r /\ want[2] = n /\ n \in Nat /\ n >= 1
  BY <1>2, WantIs
<1>3. PICK n \in Counts(r) : want[1] = r /\ want[2] = n /\ n \in Nat /\ n >= 1
  BY <1>a
<1>4. Len(job[0].got) = n /\ job[0].got # <<>>
  BY <1>1, <1>3, FirstJob
<1>5. Answered(r, n)
  BY <1>2, <1>3, <1>4 DEF OneCall, CallInv, AskedInv, Ahead, Lost, Quiet
<1>6. Len(down) = 0 /\ down = <<>>
  BY <1>3, <1>4, <1>5, AnswerLength, FirstJob
<1>7. job[0].got \o down = job[0].got
  BY <1>6, FirstJob
<1> QED
  BY <1>1, <1>2, <1>3, <1>5, <1>6, <1>7 DEF Answered

(* The read returns and the call is over.                                  *)
LEMMA CallReturned ==
    ASSUME Types, OneCall, cancels = 0, ~torn, ReadReturns
    PROVE  CallInv'
<1>1. /\ up = <<>> /\ down = <<>> /\ commands = <<>>
  BY AnsweredInFull
<1>2. job'[0] = NoJob
  BY FirstJob DEF ReadReturns
<1>3. pc' = "idle" /\ want' = <<>> /\ up' = up /\ down' = down /\ commands' = commands
  BY DEF ReadReturns, port
<1> QED
  BY <1>1, <1>2, <1>3, Empty, EmptySequence
     DEF CallInv, AskedInv, IdleInv, WritingInv, ReadingInv, Quiet

(* Only the thread of the call does something.                             *)
LEMMA OwnThread ==
    ASSUME Types, cancels = 0, NEW j \in Jobs,
           writeBytesIO(j) \/ readBytesIO(j) \/ WriteFails(j)
    PROVE  j = 0 /\ pc # "idle"
<1>1. job[j] # NoJob
  BY Empty DEF writeBytesIO, readBytesIO, WriteFails
<1> QED
  BY <1>1, FirstJob

(* A write is a command on the wire.                                       *)
LEMMA WritesAreWired == \A s \in Seq(Writes) : s \in Seq(Wired)
<1>1. Writes \subseteq Wired
  BY DEF Writes
<1> QED
  BY <1>1, SeqMonotonic

(* The thread writes a command to the port.                                *)
LEMMA CallSends ==
    ASSUME Types, OneCall, cancels = 0, ~torn, writeBytesIO(0)
    PROVE  CallInv'
<1> DEFINE p == [job[0] EXCEPT !.todo = Tail(job[0].todo)]
<1>1. job[0].todo # <<>> /\ pc # "idle"
  BY OwnThread, FirstJob DEF writeBytesIO
<1>2. pc = "writing" /\ job[0].kind = "write" /\ job[0].got = <<>>
  BY <1>1 DEF Types, HostTypes, OneCall, CallInv, WritingInv, ReadingInv
<1>3. p = [kind |-> job[0].kind, todo |-> Tail(job[0].todo),
           left |-> job[0].left, got |-> job[0].got]
  BY FirstJob, JobTodo
<1>4. job'[0] = p
  BY FirstJob DEF writeBytesIO
<1>5. job'[0].kind = "write" /\ job'[0].got = <<>> /\ job'[0].todo = Tail(job[0].todo)
  BY <1>2, <1>3, <1>4
<1>6. up' = Append(up, Head(job[0].todo))
  BY DEF writeBytesIO
<1>7. UNCHANGED <<pc, want, commands, down, device, sent, failures>>
  BY DEF writeBytesIO, script, fpga
<1> HIDE DEF p
<1>8. up' \o job'[0].todo = up \o job[0].todo
  BY <1>1, <1>5, <1>6, FirstJob, MovedOn
<1>9. WritingInv'
  <2>1. CASE want = <<>>
    <3>1. up \in Seq(Writes) /\ job[0].todo \in Seq(Writes) /\ down = <<>>
      BY <1>2, <2>1 DEF OneCall, CallInv, WritingInv, Quiet
    <3>2. up' \in Seq(Writes) /\ job'[0].todo \in Seq(Writes)
      BY <1>1, <1>5, <1>6, <3>1
    <3> QED
      BY <1>5, <1>7, <3>1, <3>2 DEF WritingInv, Quiet
  <2>2. CASE want # <<>>
    BY <1>5, <1>7, <2>2 DEF WritingInv
  <2> QED
    BY <2>1, <2>2
<1>10. AskedInv'
  <2> SUFFICES ASSUME want # <<>> PROVE Ahead(want[1], want[2])'
    BY <1>7 DEF AskedInv
  <2>1. Ahead(want[1], want[2])
    BY <1>1 DEF OneCall, CallInv, AskedInv, Answered, Lost
  <2> QED
    BY <1>5, <1>7, <1>8, <2>1 DEF Ahead
<1> QED
  BY <1>2, <1>7, <1>9, <1>10 DEF CallInv, IdleInv, ReadingInv

(* The thread takes bytes from the port.                                   *)
LEMMA CallTakes ==
    ASSUME Types, OneCall, cancels = 0, ~torn, readBytesIO(0)
    PROVE  CallInv'
<1> DEFINE p == [job[0] EXCEPT !.left = job[0].left - 1,
                               !.got = Append(job[0].got, Head(down))]
<1>1. job[0].kind = "read" /\ job[0].left > 0 /\ down # <<>> /\ pc # "idle"
  BY OwnThread, FirstJob DEF readBytesIO
<1>2. pc = "reading" /\ job[0].todo = <<>> /\ commands = <<>>
      /\ job[0].left + Len(job[0].got) = want[2]
  BY <1>1 DEF Types, HostTypes, OneCall, CallInv, WritingInv, ReadingInv
<1>3. p = [kind |-> job[0].kind, todo |-> job[0].todo, left |-> job[0].left - 1,
           got |-> Append(job[0].got, Head(down))]
  BY FirstJob, JobRead, Zenon
<1>4. job'[0] = p
  BY FirstJob DEF readBytesIO
<1>5. job'[0].left = job[0].left - 1 /\ job'[0].got = Append(job[0].got, Head(down))
      /\ job'[0].todo = <<>>
  BY <1>2, <1>3, <1>4
<1>6. down' = Tail(down) /\ UNCHANGED <<pc, want, commands, up, device, sent, failures>>
  BY DEF readBytesIO, script, fpga
<1> HIDE DEF p
<1>7. job'[0].got \o down' = job[0].got \o down
  BY <1>1, <1>5, <1>6, FirstJob, MovedOn
<1>8. job'[0].left + Len(job'[0].got) = job[0].left + Len(job[0].got)
  <2>1. PICK g \in Seq(Item) : g = job[0].got
    BY FirstJob
  <2>2. Len(Append(g, Head(down))) = Len(g) + 1 /\ Len(g) \in Nat /\ job[0].left \in Nat
    BY FirstJob
  <2>3. job[0].left - 1 + (Len(g) + 1) = job[0].left + Len(g)
    BY <2>2
  <2> QED
    BY <1>5, <2>1, <2>2, <2>3
<1>9. AskedInv'
  <2> SUFFICES ASSUME want # <<>> PROVE Answered(want[1], want[2])'
    BY <1>6 DEF AskedInv
  <2>1. Answered(want[1], want[2])
    BY <1>1 DEF OneCall, CallInv, AskedInv, Ahead, Lost, Quiet
  <2> QED
    BY <1>5, <1>6, <1>7, <2>1 DEF Answered
<1> QED
  BY <1>2, <1>5, <1>6, <1>8, <1>9 DEF CallInv, IdleInv, WritingInv, ReadingInv

(* The port raises an exception and what the thread had is lost.           *)
LEMMA CallFails ==
    ASSUME Types, OneCall, cancels = 0, ~torn, ~torn', WriteFails(0)
    PROVE  CallInv'
<1> DEFINE p == [job[0] EXCEPT !.todo = <<>>]
<1>1. job[0].todo # <<>> /\ pc # "idle"
  BY OwnThread, FirstJob DEF WriteFails
<1>2. pc = "writing" /\ job[0].kind = "write" /\ job[0].got = <<>>
  BY <1>1 DEF Types, HostTypes, OneCall, CallInv, WritingInv, ReadingInv
<1>3. p = [kind |-> job[0].kind, todo |-> <<>>, left |-> job[0].left, got |-> job[0].got]
  BY FirstJob, JobTodo
<1>4. job'[0] = p
  BY FirstJob DEF WriteFails
<1>5. job'[0].kind = "write" /\ job'[0].got = <<>> /\ job'[0].todo = <<>>
  BY <1>2, <1>3, <1>4
<1>6. UNCHANGED <<pc, want, commands, up, down, device, sent>> /\ failures' > 0
  BY DEF WriteFails, script, fpga, Types, HostTypes
<1> HIDE DEF p
<1>7. WritingInv'
  BY <1>2, <1>5, <1>6, EmptySequence DEF OneCall, CallInv, WritingInv, Quiet
<1>8. AskedInv'
  <2> SUFFICES ASSUME want # <<>> PROVE Lost'
    BY <1>6 DEF AskedInv
  <2>1. Ahead(want[1], want[2])
    BY <1>1 DEF OneCall, CallInv, AskedInv, Answered, Lost
  <2>2. PICK w \in Seq(Writes) : up \o job[0].todo = Append(w, ReadCommand(want[1], want[2]))
    BY <2>1 DEF Ahead
  <2>3. up \in Seq(Writes)
    BY <1>1, <2>2, FirstJob, AllButLast
  <2> QED
    BY <1>5, <1>6, <2>1, <2>3 DEF Ahead, Lost, Quiet
<1> QED
  BY <1>2, <1>6, <1>7, <1>8 DEF CallInv, IdleInv, ReadingInv

(* Two sequences that are one element.                                     *)
LEMMA OnlyOne ==
    ASSUME NEW S, NEW a \in Seq(S), NEW b \in Seq(S), NEW e \in S, a # <<>>, a \o b = <<e>>
    PROVE  Head(a) = e /\ Tail(a) = <<>> /\ b = <<>>
<1>1. Len(a \o b) = Len(a) + Len(b) /\ Len(a) >= 1 /\ Len(a) \in Nat /\ Len(b) \in Nat
  OBVIOUS
<1>2. Len(<<e>>) = 1
  OBVIOUS
<1>3. Len(a) = 1 /\ Len(b) = 0
  <2>1. Len(a \o b) = 1
    BY <1>2
  <2>2. PICK m \in Nat, n \in Nat : m = Len(a) /\ n = Len(b) /\ m >= 1 /\ m + n = 1
    BY ONLY <1>1, <2>1
  <2> QED
    BY <2>2
<1>4. a[1] = (a \o b)[1] /\ <<e>>[1] = e
  BY <1>3
<1> QED
  BY <1>3, <1>4

(* A sequence of writes and a last command.                                *)
LEMMA Several ==
    ASSUME NEW S, NEW w \in Seq(S), w # <<>>, NEW T, NEW e \in T, S \subseteq T
    PROVE  /\ Head(Append(w, e)) \in S /\ Tail(w) \in Seq(S)
           /\ Tail(Append(w, e)) = Append(Tail(w), e)
<1>1. w \in Seq(T) /\ Tail(w) \in Seq(S) /\ Tail(w) \in Seq(T)
  <2>1. w \in Seq(T)
    BY SeqMonotonic
  <2> QED
    BY <2>1
<1>2. Head(Append(w, e)) = w[1] /\ w[1] \in S
  BY <1>1
<1>3. Tail(Append(w, e)) = Append(Tail(w), e)
  BY <1>1
<1> QED
  BY <1>1, <1>2, <1>3

(* The firmware carries out a write.                                       *)
LEMMA FirmwareWrites ==
    ASSUME Types, ~torn, Firmware, Head(up).write
    PROVE  down' = down /\ sent' = sent
  BY DEF Firmware, CarryOut

(* The firmware carries out a read.                                        *)
LEMMA FirmwareReads ==
    ASSUME Types, ~torn, Firmware, NEW r \in Register, NEW n \in Counts(r), Head(up) = ReadCommand(r, n)
    PROVE  /\ device' = device
           /\ down' = down \o Bytes(device, sent, r.address, r.increment, n)
           /\ sent' = IF r.fifo THEN (sent + n) % FifoWords ELSE sent
<1> DEFINE c == Head(up)
<1>1. /\ c.write = FALSE /\ c.address = r.address /\ c.increment = r.increment /\ c.length = n
  BY DEF ReadCommand
<1>2. device' = Do(device, c)
      /\ down' = (IF c.write THEN down
                  ELSE down \o Bytes(device, sent, c.address, c.increment, c.length))
      /\ sent' = (IF ~c.write /\ IsFifo(c.address) THEN (sent + c.length) % FifoWords ELSE sent)
  BY DEF Firmware, CarryOut
<1> HIDE DEF c
<1> QED
  BY <1>1, <1>2, FifoIs DEF Do

(* The words of a read follow those that were returned before.             *)
LEMMA BytesAfter ==
    ASSUME NEW r \in Register, NEW n \in Counts(r), NEW d, NEW s \in 0 .. FifoWords - 1,
           NEW t, t = IF r.fifo THEN (s + n) % FifoWords ELSE s
    PROVE  Bytes(d, s, r.address, r.increment, n) = Bytes(d, Back(t, n), r.address, r.increment, n)
<1>1. CASE r.fifo
  <2>1. Back(t, n) = s
    BY <1>1, BackAgain, Registers
  <2> QED
    BY <2>1
<1>2. CASE ~r.fifo
  BY <1>2, FifoIs DEF Bytes
<1> QED
  BY <1>1, <1>2

(* The firmware carries out a command and may answer it.                   *)
LEMMA CallServed ==
    ASSUME Types, OneCall, cancels = 0, ~torn, Firmware
    PROVE  CallInv'
<1>1. up # <<>> /\ up' = Tail(up)
      /\ UNCHANGED <<commands, pc, want, cancels, failures, job>>
  BY DEF Firmware, script
<1>2. Quiet => Quiet'
  <2> SUFFICES ASSUME Quiet PROVE Quiet'
    OBVIOUS
  <2>1. Head(up) \in Writes /\ Tail(up) \in Seq(Writes)
    BY <1>1 DEF Quiet
  <2>2. down' = down
    BY <2>1, FirmwareWrites DEF Writes
  <2> QED
    BY <1>1, <2>1, <2>2 DEF Quiet
<1>3. ASSUME NEW r \in Register, NEW n \in Counts(r), Ahead(r, n)
      PROVE  Ahead(r, n)' \/ Answered(r, n)'
  <2> DEFINE c == ReadCommand(r, n)
  <2>1. PICK w \in Seq(Writes) : up \o job[0].todo = Append(w, c)
    BY <1>3 DEF Ahead
  <2>2. down = <<>> /\ job[0].got = <<>>
    BY <1>3 DEF Ahead
  <2>3. c \in Wired /\ c.write = FALSE
    BY ReadCommandType DEF Buffered, Wired
  <2>4. /\ Tail(up) \o job[0].todo = Tail(up \o job[0].todo)
        /\ Head(up) = Head(up \o job[0].todo)
    BY <1>1, FirstJob, TakenOff
  <2>5. CASE w # <<>>
    <3>1. Writes \subseteq Wired
      BY DEF Writes
    <3> HIDE DEF c
    <3>2. /\ Head(Append(w, c)) \in Writes /\ Tail(w) \in Seq(Writes)
          /\ Tail(Append(w, c)) = Append(Tail(w), c)
      BY <2>3, <2>5, <3>1, Several
    <3>3. down' = down
      BY <2>1, <2>4, <3>2, FirmwareWrites DEF Writes
    <3>4. up' \o job'[0].todo = Append(Tail(w), c)
      BY <1>1, <2>1, <2>4, <3>2
    <3> QED
      BY <1>1, <2>2, <3>2, <3>3, <3>4 DEF Ahead, c
  <2>6. CASE w = <<>>
    <3> HIDE DEF c
    <3>1. up \o job[0].todo = <<c>>
      BY <2>1, <2>6
    <3>2. Head(up) = c /\ Tail(up) = <<>> /\ job[0].todo = <<>>
      BY <1>1, <2>3, <3>1, FirstJob, OnlyOne
    <3>3. /\ device' = device
          /\ down' = down \o Bytes(device, sent, r.address, r.increment, n)
          /\ sent' = IF r.fifo THEN (sent + n) % FifoWords ELSE sent
      BY <3>2, FirmwareReads DEF c
    <3>4. device \in Device /\ sent \in 0 .. FifoWords - 1 /\ sent \in Nat
      BY Constants DEF Types, PortTypes
    <3> DEFINE answer == Bytes(device, sent, r.address, r.increment, n)
    <3>5. answer \in Seq(Item)
      <4>1. n \in Nat /\ r.address \in Nat /\ r.increment \in BOOLEAN
        BY Registers, Addresses
      <4> QED
        BY <3>4, <4>1, BytesType
    <3>6. answer = Bytes(device, Back(sent', n), r.address, r.increment, n)
      BY <3>3, <3>4, BytesAfter, ZenonT(60)
    <3> HIDE DEF answer
    <3>7. job'[0].got \o down' = answer
      BY <1>1, <2>2, <3>3, <3>5 DEF answer
    <3>8. Answered(r, n)'
      BY <1>1, <3>2, <3>3, <3>6, <3>7 DEF Answered
    <3> QED
      BY <3>8
  <2> QED
    BY <2>5, <2>6
<1>4. AskedInv'
  <2> SUFFICES ASSUME want # <<>>
               PROVE  Ahead(want[1], want[2])' \/ Answered(want[1], want[2])' \/ Lost'
    BY <1>1 DEF AskedInv
  <2>1. PICK r \in Register : \E n \in Counts(r) : want[1] = r /\ want[2] = n
    BY WantIs
  <2>2. PICK n \in Counts(r) : want[1] = r /\ want[2] = n
    BY <2>1
  <2>3. Ahead(r, n) \/ Lost
    BY <1>1, <2>2 DEF OneCall, CallInv, AskedInv, Answered
  <2>4. Lost => Lost'
    BY <1>1, <1>2 DEF Lost
  <2>5. Ahead(r, n)' \/ Answered(r, n)' \/ Lost'
    BY <1>3, <2>3, <2>4
  <2> QED
    BY <1>1, <2>2, <2>5 DEF Ahead, Answered
<1> QED
  BY <1>1, <1>2, <1>4 DEF OneCall, CallInv, IdleInv, WritingInv, ReadingInv

(* A command that was torn stays so.                                       *)
LEMMA TornStays ==
    ASSUME [Next]_vars, ~torn'
    PROVE  ~torn
  BY DEF Next, Returns, Thread, addWrite, flush, syncRead, Flushed, ReadReturns, Cancel,
         writeBytesIO, readBytesIO, WriteFails, Firmware, vars, port

(* Every step keeps the invariant of the one call.                         *)
LEMMA CallKept == Types /\ OneCall /\ [Next]_vars => OneCall'
<1> SUFFICES ASSUME Types, OneCall, [Next]_vars, cancels' = 0, ~torn' PROVE CallInv'
  BY DEF OneCall
<1>1. cancels = 0 /\ ~torn /\ ~Cancel
  <2>1. cancels \in Nat
    BY Constants DEF Types, HostTypes
  <2>2. ~Cancel
    BY <2>1 DEF Cancel
  <2>3. UNCHANGED cancels
    BY <2>2 DEF Next, Returns, Thread, addWrite, flush, syncRead, Flushed, ReadReturns,
                writeBytesIO, readBytesIO, WriteFails, Firmware, vars, script
  <2> QED
    BY <2>2, <2>3, TornStays
<1>2. ASSUME NEW j \in Jobs, writeBytesIO(j) \/ readBytesIO(j) \/ WriteFails(j) PROVE CallInv'
  <2>1. j = 0
    BY <1>1, <1>2, OwnThread
  <2> QED
    BY <1>1, <1>2, <2>1, CallSends, CallTakes, CallFails
<1>3. CASE UNCHANGED vars
  BY <1>1, <1>3 DEF vars, script, port, fpga, OneCall, CallInv, AskedInv, IdleInv,
                    WritingInv, ReadingInv, Ahead, Answered, Lost, Quiet
<1> QED
  BY <1>1, <1>2, <1>3, CallWrites, CallFlushes, CallAsks, CallFlushed, CallReturned, CallServed
     DEF Next, Returns, Thread

(* When the call has been answered nothing else is pending.                *)
LEMMA ShownWhenDone ==
    ASSUME Types, up = <<>>, job[cancels].todo = <<>>, Kept = <<>>
    PROVE  Shown = device
<1>1. <<>> \o <<>> = <<>>
  OBVIOUS
<1>2. Fold(Fold(device, <<>>), <<>>) = device
  BY FoldNone
<1> QED
  BY <1>1, <1>2, ShownIs

(* A read of a register returns what that register holds when it returns,  *)
(* everything written before included (core.py:195-210).  Before any call  *)
(* was cancelled the answer that is awaited is the only one on its way,    *)
(* also after a write failed in the port.                                  *)
THEOREM AnswersAreOwn == Spec => AnswerIsOwn
<1> DEFINE Inv == Types /\ OneCall
           Own == ReadReturns /\ cancels = 0 /\ ~torn /\ ~want[1].fifo
                    => reply'[2] = Bytes(Shown, 0, want[1].address, want[1].increment, want[2])
<1>1. Init => Inv
  BY TypesAtStart, CallAtStart
<1>2. Inv /\ [Next]_vars => Inv'
  BY TypesKept, CallKept
<1>3. Inv /\ [Next]_vars => Own
  <2> SUFFICES ASSUME Types, OneCall, ReadReturns, cancels = 0, ~torn, ~want[1].fifo
               PROVE  reply'[2] = Bytes(Shown, 0, want[1].address, want[1].increment, want[2])
    OBVIOUS
  <2>1. /\ want # <<>> /\ up = <<>> /\ job[cancels].todo = <<>> /\ commands = <<>>
        /\ job[0].got = Bytes(device, Back(sent, want[2]), want[1].address,
                              want[1].increment, want[2])
    BY AnsweredInFull
  <2>2. Shown = device
    <3>1. Kept = <<>>
      BY <2>1 DEF Kept
    <3> QED
      BY <2>1, <3>1, ShownWhenDone
  <2>3. reply'[2] = job[0].got
    BY DEF ReadReturns
  <2>4. PICK r \in Register : want[1] = r
    BY <2>1, WantIs
  <2>5. ~IsFifo(r.address)
    BY <2>4, FifoIs
  <2> QED
    BY <2>1, <2>2, <2>3, <2>4, <2>5 DEF Bytes
<1>4. AnswerIsOwn <=> [][Own]_vars
  BY DEF AnswerIsOwn
<1> HIDE DEF Own
<1> QED
  BY <1>1, <1>2, <1>3, <1>4, PTL DEF Spec

-----------------------------------------------------------------------------
(* A session implements RegisterAccess.                                    *)
WholeInv == cancels = 0 /\ ~torn /\ pc = "idle" => commands \in Seq(Whole)

(* The buffer is empty at the start.                                       *)
LEMMA WholeAtStart == Init => WholeInv
  BY EmptySequence DEF Init, WholeInv

(* A write that is not extended is no wider than its register, and so fits *)
(* in a part.                                                              *)
LEMMA WholeKept == ~Repeats /\ Types /\ LastIsCurrent /\ OneCall /\ WholeInv /\ [Next]_vars => WholeInv'
<1> SUFFICES ASSUME ~Repeats, Types, LastIsCurrent, OneCall, WholeInv, [Next]_vars,
                    cancels' = 0, ~torn', pc' = "idle"
             PROVE  commands' \in Seq(Whole)
  BY DEF WholeInv
<1>1. cancels = 0 /\ ~torn /\ ~Cancel
  <2>1. cancels \in Nat
    BY Constants DEF Types, HostTypes
  <2>2. ~Cancel
    BY <2>1 DEF Cancel
  <2>3. UNCHANGED cancels
    BY <2>2 DEF Next, Returns, Thread, addWrite, flush, syncRead, Flushed, ReadReturns,
                writeBytesIO, readBytesIO, WriteFails, Firmware, vars, script
  <2> QED
    BY <2>2, <2>3, TornStays
<1>2. ASSUME NEW r \in Register, NEW v \in Value, addWrite(r, v) PROVE commands' \in Seq(Whole)
  <2> DEFINE bs == BytesOf(v, r.width)
  <2>1. bs \in Seq(Byte) /\ Len(bs) = r.width /\ Len(bs) >= 1 /\ WriteCommand(r, bs) \in Buffered
    BY WriteCommandType, Registers
  <2> HIDE DEF bs
  <2>2. commands \in Seq(Whole) /\ commands \in Seq(Buffered)
    BY <1>1, <1>2 DEF addWrite, Idle, WholeInv, Types, HostTypes
  <2>3. CASE Extends(r)
    <3>1. commands # <<>> /\ currentRegister = <<r.address>> /\ ~r.increment
      BY <1>2, <2>3 DEF addWrite, Extends
    <3>2. PICK c \in Whole : c = commands[Len(commands)]
      BY <2>2, <3>1
    <3>3. PICK q \in Register : currentRegister = <<q.address>> /\ c.increment = q.increment
      BY <3>1, <3>2 DEF LastIsCurrent
    <3>4. q.address = r.address
      BY <3>1, <3>3
    <3>5. q = r
      BY <3>4, RegisterMapAssumption
    <3>6. c \in Buffered /\ c.write /\ ~c.increment
      BY <3>1, <3>3, <3>5 DEF Whole
    <3>7. addValues(c, bs) \in Buffered
          /\ addValues(c, bs) = [write |-> c.write, address |-> c.address,
                                 increment |-> c.increment, values |-> c.values \o bs,
                                 length |-> Len(c.values) + Len(bs)]
      BY <2>1, <3>6, AddValuesType
    <3>8. addValues(c, bs) \in Whole
      BY <3>6, <3>7 DEF Whole
    <3>9. commands' = [commands EXCEPT ![Len(commands)] = addValues(c, bs)]
      BY <1>2, <2>3, <3>2 DEF addWrite, bs
    <3> QED
      BY <2>2, <3>1, <3>8, <3>9
  <2>4. CASE ~Extends(r)
    <3>1. WriteCommand(r, bs) \in Whole
      <4>1. WriteCommand(r, bs).write /\ WriteCommand(r, bs).increment = r.increment
            /\ WriteCommand(r, bs).values = bs
        BY DEF WriteCommand
      <4>2. r.increment => r.width <= PartLength
        BY HostAssumption
      <4> QED
        BY <2>1, <4>1, <4>2 DEF Whole
    <3>2. commands' = Append(commands, WriteCommand(r, bs))
      BY <1>2, <2>4 DEF addWrite, bs
    <3> QED
      BY <2>2, <3>1, <3>2
  <2> QED
    BY <2>3, <2>4
<1>3. CASE Flushed
  BY <1>3, EmptySequence DEF Flushed, resetCommands
<1>4. CASE ReadReturns
  <2>1. commands = <<>> /\ commands' = commands
    BY <1>1, <1>4, AnsweredInFull DEF ReadReturns
  <2> QED
    BY <2>1, EmptySequence
<1>5. CASE UNCHANGED <<commands, pc>>
  BY <1>1, <1>5 DEF WholeInv
<1>6. CASE Thread \/ Firmware \/ (\E j \in Jobs : WriteFails(j)) \/ UNCHANGED vars
  BY <1>5, <1>6 DEF Thread, Firmware, WriteFails, writeBytesIO, readBytesIO, vars, script
<1>7. ~flush /\ \A r \in Register, n \in Nat : ~syncRead(r, n)
  BY DEF flush, syncRead
<1> QED
  BY <1>1, <1>2, <1>3, <1>4, <1>6, <1>7, Registers DEF Next, Returns

(* The same after a step.                                                  *)
LEMMA ShownNext ==
    ASSUME Types'
    PROVE  Shown' = Fold(Fold(device', up' \o job'[cancels'].todo), Kept')
<1>1. device' \in Device /\ up' \in Seq(Wired) /\ Kept' \in Seq(Buffered)
  BY EmptySequence DEF Types, HostTypes, PortTypes, Kept
<1>2. job'[cancels'].todo \in Seq(Wired)
  <2>1. cancels' \in Jobs
    BY Constants DEF Types, HostTypes, Jobs
  <2> QED
    BY <2>1 DEF Types, JobTypes, Job
<1> QED
  BY <1>1, <1>2, Shows DEF Shown, Pending

(* One after the other what is on its way and what the thread has.         *)
LEMMA FoldUnderway ==
    ASSUME NEW d \in Device, NEW a \in Seq(Wired), NEW b \in Seq(Wired)
    PROVE  Fold(d, a \o b) = Fold(Fold(d, a), b) /\ Fold(d, a) \in Device
<1>1. a \in Seq(Buffered)
  BY WiredBuffered, SeqMonotonic
<1> QED
  BY <1>1, FoldConcat, FoldType

(* No step of the threads and the firmware, and no flush, is to be seen in *)
(* the registers.                                                          *)
LEMMA FlushShows ==
    ASSUME Types, Types', WholeInv, cancels = 0, ~torn, flush
    PROVE  Shown' = Shown
<1> DEFINE p == OnTheWire(commands)
<1>1. pc = "idle" /\ commands \in Seq(Whole) /\ job[cancels] = NoJob
  BY DEF flush, Idle, WholeInv, Types, JobTypes
<1>2. commands \in Seq(Buffered) /\ device \in Device /\ up \in Seq(Wired)
  BY DEF Types, HostTypes, PortTypes
<1>3. p \in Seq(Wired)
  BY <1>2, WireType
<1>4. job'[cancels'].todo = p /\ up' = up /\ device' = device /\ Kept' = <<>>
  <2>1. job'[0] = WriteJob(p) /\ cancels' = 0 /\ pc' = "writing" /\ up' = up /\ device' = device
    BY FirstJob DEF flush, port, fpga
  <2>2. WriteJob(p).todo = p
    BY <1>3, JobsAre
  <2> QED
    BY <2>1, <2>2 DEF Kept
<1> HIDE DEF p
<1>5. Shown' = Fold(device, up \o p)
  BY <1>4, ShownNext, FoldNone
<1>6. Shown = Fold(Fold(device, up), commands)
  <2>1. up \o <<>> = up /\ job[cancels].todo = <<>>
    BY <1>1, <1>2, Empty
  <2> QED
    BY <1>1, <2>1, ShownIs DEF Kept
<1>7. Fold(Fold(device, up), p) = Fold(Fold(device, up), commands)
  BY <1>1, <1>2, FoldUnderway, <1>3, WireFold DEF p
<1> QED
  BY <1>2, <1>3, <1>5, <1>6, <1>7, FoldUnderway

(* A read is not to be seen when it is asked.                              *)
LEMMA ReadShows ==
    ASSUME Types, Types', WholeInv, cancels = 0, ~torn,
           NEW r \in Register, NEW n \in Counts(r), syncRead(r, n)
    PROVE  Shown' = Shown
<1> DEFINE c == ReadCommand(r, n)
           p == OnTheWire(commands)
           q == OnTheWire(Append(commands, c))
<1>1. pc = "idle" /\ commands \in Seq(Whole) /\ job[cancels] = NoJob
  BY DEF syncRead, Idle, WholeInv, Types, JobTypes
<1>2. commands \in Seq(Buffered) /\ device \in Device /\ up \in Seq(Wired)
  BY DEF Types, HostTypes, PortTypes
<1>3. c \in Buffered /\ c.write = FALSE
  BY ReadCommandType
<1> HIDE DEF c
<1>4. p \in Seq(Wired) /\ q \in Seq(Wired) /\ q = p \o <<c>> /\ <<c>> \in Seq(Wired)
  <2>1. Append(commands, c) \in Seq(Buffered)
    BY <1>2, <1>3
  <2>2. PartsOf(c) = <<c>> /\ c \in Wired
    BY <1>3 DEF PartsOf, Buffered, Wired
  <2>3. q = p \o PartsOf(c)
    BY <1>2, <1>3, WireAppend
  <2>4. p \in Seq(Wired) /\ q \in Seq(Wired)
    BY <1>2, <2>1, WireType
  <2> HIDE DEF p, q
  <2> QED
    BY <2>2, <2>3, <2>4
<1>5. job'[cancels'].todo = q /\ up' = up /\ device' = device /\ Kept' = <<>>
  <2>1. job'[0] = WriteJob(q) /\ cancels' = 0 /\ pc' = "writing" /\ up' = up /\ device' = device
    BY FirstJob DEF syncRead, port, fpga, c
  <2>2. WriteJob(q).todo = q
    <3> HIDE DEF p, q
    <3>1. q \in Seq(Wired)
      BY <1>4
    <3> QED
      BY <3>1, JobsAre
  <2> QED
    BY <2>1, <2>2 DEF Kept
<1> DEFINE x == Fold(device, up)
<1>6. Fold(x, p) = Fold(x, commands) /\ x \in Device
  BY <1>1, <1>2, <1>4, FoldUnderway, WireFold
<1> HIDE DEF p, q
<1>7. Shown' = Fold(x, q)
  <2>1. Shown' = Fold(Fold(device, up \o q), <<>>)
    BY <1>5, ShownNext
  <2>2. Shown' = Fold(device, up \o q)
    BY <2>1, FoldNone
  <2> QED
    BY <1>2, <1>4, <2>2, FoldUnderway
<1>8. Shown = Fold(x, commands)
  <2>1. up \o <<>> = up /\ job[cancels].todo = <<>>
    BY <1>1, <1>2, Empty
  <2> QED
    BY <1>1, <2>1, ShownIs DEF Kept
<1> HIDE DEF x
<1>9. Fold(x, q) = Fold(x, p)
  <2>1. Fold(x, p \o <<c>>) = Fold(Fold(x, p), <<c>>)
    BY <1>4, <1>6, FoldUnderway
  <2>2. Fold(Fold(x, p), <<c>>) = Fold(x, p)
    BY <1>3, FoldOne DEF Do
  <2> QED
    BY <1>4, <2>1, <2>2
<1> QED
  BY <1>6, <1>7, <1>8, <1>9

(* The end of a flush.                                                     *)
LEMMA FlushedShows ==
    ASSUME Types, Types', cancels = 0, Flushed
    PROVE  Shown' = Shown
<1>1. /\ job[cancels].todo = <<>> /\ Kept = <<>> /\ Kept' = <<>>
      /\ up' = up /\ device' = device /\ cancels' = 0
  BY DEF Flushed, resetCommands, Kept, port, fpga
<1>2. job'[0].todo = <<>>
  <2>1. CASE want = <<>>
    BY <2>1, FirstJob, Empty DEF Flushed
  <2>2. CASE want # <<>>
    <3>1. want[2] \in Nat
      BY <2>2, WantIs
    <3>2. job'[0] = ReadJob(want[2])
      BY <2>2, FirstJob DEF Flushed
    <3> QED
      BY <3>1, <3>2, JobsAre
  <2> QED
    BY <2>1, <2>2
<1> QED
  BY <1>1, <1>2, ShownIs, ShownNext

(* A command is written to the port.                                       *)
LEMMA SendShows ==
    ASSUME Types, Types', cancels = 0, writeBytesIO(0)
    PROVE  Shown' = Shown
<1> DEFINE p == [job[0] EXCEPT !.todo = Tail(job[0].todo)]
<1>1. job[0].todo # <<>> /\ up' = Append(up, Head(job[0].todo))
      /\ UNCHANGED <<pc, commands, device, cancels>>
  BY DEF writeBytesIO, script, fpga
<1>2. job'[0] = p
  BY FirstJob DEF writeBytesIO
<1>3. p.todo = Tail(job[0].todo)
  BY FirstJob, JobTodo
<1> HIDE DEF p
<1>4. up' \o job'[0].todo = up \o job[0].todo
  BY <1>1, <1>2, <1>3, FirstJob, MovedOn
<1>5. Kept' = Kept
  BY <1>1 DEF Kept
<1> QED
  BY <1>1, <1>4, <1>5, ShownIs, ShownNext

(* Bytes are taken from the port.                                          *)
LEMMA TakeShows ==
    ASSUME Types, Types', cancels = 0, readBytesIO(0)
    PROVE  Shown' = Shown
<1> DEFINE p == [job[0] EXCEPT !.left = job[0].left - 1,
                               !.got = Append(job[0].got, Head(down))]
<1>1. UNCHANGED <<pc, commands, device, cancels, up>>
  BY DEF readBytesIO, script, fpga
<1>2. job'[0] = p
  BY FirstJob DEF readBytesIO
<1>3. p = [kind |-> job[0].kind, todo |-> job[0].todo, left |-> job[0].left - 1,
           got |-> Append(job[0].got, Head(down))]
  BY FirstJob, JobRead, Zenon
<1>4. job'[0].todo = job[0].todo
  BY <1>2, <1>3
<1>5. Kept' = Kept
  BY <1>1 DEF Kept
<1> QED
  BY <1>1, <1>4, <1>5, ShownIs, ShownNext

(* The firmware does what was going to be done.                            *)
LEMMA FirmwareShows ==
    ASSUME Types, Types', cancels = 0, ~torn, Firmware
    PROVE  Shown' = Shown
<1> DEFINE c == Head(up)
           b == job[0].todo
<1>1. up # <<>> /\ up' = Tail(up) /\ device' = Do(device, c)
      /\ UNCHANGED <<pc, commands, cancels, job>>
  BY DEF Firmware, CarryOut, script
<1>2. c \in Wired /\ Tail(up) \in Seq(Wired) /\ b \in Seq(Wired) /\ device \in Device
  BY <1>1, FirstJob DEF Types, PortTypes
<1>3. up \o b = <<c>> \o (Tail(up) \o b)
  <2>1. up = <<c>> \o Tail(up) /\ <<c>> \in Seq(Wired)
    BY <1>1, <1>2, FirstJob
  <2>2. (<<c>> \o Tail(up)) \o b = <<c>> \o (Tail(up) \o b)
    BY <1>2, <2>1, ConcatAssociative
  <2> QED
    BY <2>1, <2>2
<1> HIDE DEF c, b
<1>4. Fold(device, <<c>> \o (Tail(up) \o b)) = Fold(Do(device, c), Tail(up) \o b)
  <2>1. <<c>> \in Seq(Wired) /\ Tail(up) \o b \in Seq(Wired)
    BY <1>2
  <2> QED
    <3>1. PICK a \in Seq(Wired), t \in Seq(Wired) : a = <<c>> /\ t = Tail(up) \o b
      BY <2>1
    <3>2. Fold(device, a \o t) = Fold(Fold(device, a), t)
      BY <1>2, FoldUnderway
    <3>3. Fold(device, <<c>>) = Do(device, c)
      BY FoldOne
    <3> QED
      BY <3>1, <3>2, <3>3
<1>5. Fold(device', up' \o job'[cancels'].todo) = Fold(device, up \o job[cancels].todo)
  BY <1>1, <1>3, <1>4 DEF b
<1>6. Kept' = Kept
  BY <1>1 DEF Kept
<1> QED
  BY <1>5, <1>6, ShownIs, ShownNext

(* When a read returns, all that was written before is in the registers.   *)
LEMMA ReturnShows ==
    ASSUME Types, Types', OneCall, cancels = 0, ~torn, ReadReturns
    PROVE  Shown' = Shown /\ Shown = device
<1>1. up = <<>> /\ job[0].todo = <<>> /\ commands = <<>>
  BY AnsweredInFull
<1>2. Shown = device
  BY <1>1, ShownWhenDone DEF Kept
<1>3. job'[cancels'].todo = <<>> /\ up' = up /\ device' = device /\ Kept' = <<>>
  <2>1. job'[0] = NoJob /\ cancels' = 0 /\ up' = up /\ device' = device /\ pc' = "idle"
        /\ commands' = commands
    BY FirstJob DEF ReadReturns, port, fpga
  <2> QED
    BY <1>1, <2>1, Empty DEF Kept
<1>4. Shown' = Fold(Fold(device, <<>>), <<>>)
  <2>1. <<>> \o <<>> = <<>>
    OBVIOUS
  <2> QED
    BY <1>1, <1>3, <2>1, ShownNext
<1> QED
  BY <1>2, <1>4, FoldNone

-----------------------------------------------------------------------------
(* The definitions of RegisterAccess are those of RegisterMap.             *)
LEMMA SamePut == \A d, a, i, bs : Session!Put(d, a, i, bs) = Put(d, a, i, bs)
  BY DEF Session!Put, Put, Session!IsFifo, IsFifo

(* The bytes of a value.                                                   *)
LEMMA SameBytesOf == \A v, n : Session!BytesOf(v, n) = BytesOf(v, n)
  BY DEF Session!BytesOf, BytesOf

(* The bytes of an answer.                                                 *)
LEMMA SameBytes == \A d, f, a, i, n : Session!Bytes(d, f, a, i, n) = Bytes(d, f, a, i, n)
  BY DEF Session!Bytes, Bytes, Session!IsFifo, IsFifo

(* The registers at the start.                                             *)
LEMMA SameFresh == Session!Fresh = Fresh
  BY DEF Session!Fresh, Fresh, Session!IsFifo, IsFifo

(* What can be read, and how much of it at once.                           *)
LEMMA SameReads ==
    \A r : (Session!Readable(r) <=> Readable(r)) /\ Session!Counts(r) = Counts(r)
  BY DEF Session!Readable, Readable, Session!Counts, Counts

-----------------------------------------------------------------------------
(* What was returned.                                                      *)

(* Where the readout stands for the caller: what is underway is not his    *)
(* yet.                                                                    *)
LEMMA ReturnedIs == Returned = Back(sent, Underway)
  BY DEF Returned, Back

(* Nothing is underway.                                                    *)
LEMMA ReturnedBefore ==
    ASSUME Types, want = <<>> \/ Len(down) + Len(job[cancels].got) = 0
    PROVE  Returned = sent
<1>1. Underway = 0
  BY DEF Underway
<1> QED
  BY <1>1, ReturnedIs, BackNone DEF Types, PortTypes

(* The same after a step.                                                  *)
LEMMA ReturnedThen ==
    ASSUME Types', want' = <<>> \/ ~want'[1].fifo \/ Len(down') + Len(job'[cancels'].got) = 0
    PROVE  Returned' = sent'
<1>1. Underway' = 0
  BY DEF Underway
<1>2. Returned' = Back(sent', Underway')
  BY DEF Returned, Back
<1> QED
  BY <1>1, <1>2, BackNone DEF Types, PortTypes

(* It stands still while nothing is asked, sent or lost.                   *)
LEMMA ReturnedStays ==
    ASSUME UNCHANGED <<sent, want>>,
           Len(down') + Len(job'[cancels'].got) = Len(down) + Len(job[cancels].got)
    PROVE  Returned' = Returned
  BY DEF Returned, Underway

(* The firmware is given a write, or the read that is awaited.             *)
LEMMA NextCommand ==
    ASSUME Types, OneCall, cancels = 0, ~torn, Firmware
    PROVE  \/ Head(up).write
           \/ \E r \in Register : \E n \in Counts(r) :
                 /\ want # <<>> /\ want[1] = r /\ want[2] = n
                 /\ Head(up) = ReadCommand(r, n)
                 /\ down = <<>> /\ job[0].got = <<>>
<1>1. up # <<>>
  BY DEF Firmware
<1>2. Quiet => Head(up).write
  <2>1. Quiet => Head(up) \in Writes
    BY <1>1 DEF Quiet
  <2> QED
    BY <2>1 DEF Writes
<1>3. CASE want = <<>>
  <2>1. Quiet
    BY <1>3 DEF Types, HostTypes, OneCall, CallInv, IdleInv, WritingInv
  <2> QED
    BY <1>2, <2>1
<1>4. CASE want # <<>>
  <2>1. PICK r \in Register : \E n \in Counts(r) : want[1] = r /\ want[2] = n
    BY <1>4, WantIs
  <2>2. PICK n \in Counts(r) : want[1] = r /\ want[2] = n
    BY <2>1
  <2>3. Ahead(r, n) \/ Quiet
    BY <1>1, <1>4, <2>2 DEF OneCall, CallInv, AskedInv, Answered, Lost
  <2>4. CASE Ahead(r, n)
    <3> DEFINE c == ReadCommand(r, n)
    <3>1. PICK w \in Seq(Writes) : up \o job[0].todo = Append(w, c)
      BY <2>4 DEF Ahead
    <3>2. Head(up) = Head(up \o job[0].todo)
      BY <1>1, FirstJob, TakenOff
    <3>3. c \in Wired
      BY ReadCommandType DEF Buffered, Wired
    <3>4. Writes \subseteq Wired
      BY DEF Writes
    <3> HIDE DEF c
    <3>5. CASE w = <<>>
      <4>1. Head(Append(<<>>, c)) = c
        OBVIOUS
      <4>2. Head(up) = c
        BY <3>1, <3>2, <3>5, <4>1
      <4> QED
        BY <1>4, <2>2, <2>4, <4>2 DEF c, Ahead
    <3>6. CASE w # <<>>
      <4>1. Head(Append(w, c)) \in Writes
        BY <3>3, <3>4, <3>6, Several
      <4> QED
        BY <3>1, <3>2, <4>1 DEF Writes
    <3> QED
      BY <3>5, <3>6
  <2> QED
    BY <1>2, <2>3, <2>4
<1> QED
  BY <1>3, <1>4

(* The firmware does not move it.                                          *)
LEMMA FirmwareReturns ==
    ASSUME Types, Types', OneCall, cancels = 0, ~torn, Firmware
    PROVE  Returned' = Returned
<1>1. UNCHANGED <<want, job, cancels>>
  BY DEF Firmware, script
<1>2. CASE Head(up).write
  <2>1. down' = down /\ sent' = sent
    BY <1>2, FirmwareWrites
  <2> QED
    BY <1>1, <2>1, ReturnedStays
<1>3. CASE ~Head(up).write
  <2>1. PICK r \in Register : \E n \in Counts(r) :
                 /\ want # <<>> /\ want[1] = r /\ want[2] = n
                 /\ Head(up) = ReadCommand(r, n)
                 /\ down = <<>> /\ job[0].got = <<>>
    BY <1>3, NextCommand
  <2>2. PICK n \in Counts(r) :
                 /\ want # <<>> /\ want[1] = r /\ want[2] = n
                 /\ Head(up) = ReadCommand(r, n)
                 /\ down = <<>> /\ job[0].got = <<>>
    BY <2>1
  <2>3. /\ down' = down \o Bytes(device, sent, r.address, r.increment, n)
        /\ sent' = IF r.fifo THEN (sent + n) % FifoWords ELSE sent
    BY <2>2, FirmwareReads
  <2>4. Returned = sent
    <3>1. Len(<<>>) + Len(<<>>) = 0
      OBVIOUS
    <3> QED
      BY <2>2, <3>1, ReturnedBefore
  <2>5. CASE ~r.fifo
    BY <1>1, <2>2, <2>3, <2>4, <2>5, ReturnedThen
  <2>6. CASE r.fifo
    <3>1. n \in Nat /\ r.address \in Nat /\ r.increment \in BOOLEAN
          /\ sent \in 0 .. FifoWords - 1 /\ sent \in Nat /\ device \in Device
      BY Registers, Addresses, Constants DEF Types, PortTypes
    <3> DEFINE answer == Bytes(device, sent, r.address, r.increment, n)
    <3>2. answer \in Seq(Item) /\ Len(answer) = n
      BY <3>1, BytesType, ZenonT(60)
    <3> HIDE DEF answer
    <3>3. Len(<<>> \o answer) = n /\ Len(<<>>) = 0 /\ n + 0 = n
      BY <3>1, <3>2
    <3>4. Len(down') + Len(job'[cancels'].got) = n
      BY <1>1, <2>2, <2>3, <3>3 DEF answer
    <3>5. Underway' = n
      BY <1>1, <2>2, <2>6, <3>4 DEF Underway
    <3>6. Returned' = Back(sent', n)
      BY <3>5 DEF Returned, Back
    <3>7. Back((sent + n) % FifoWords, n) = sent
      BY <3>1, BackAgain
    <3> QED
      BY <2>3, <2>4, <2>6, <3>6, <3>7
  <2> QED
    BY <2>5, <2>6
<1> QED
  BY <1>2, <1>3

(* Nor does the thread.                                                    *)
LEMMA ThreadReturns ==
    ASSUME Types, cancels = 0, writeBytesIO(0) \/ readBytesIO(0)
    PROVE  Returned' = Returned
<1>1. UNCHANGED <<sent, want, cancels>>
  BY DEF writeBytesIO, readBytesIO, script, fpga
<1>2. CASE writeBytesIO(0)
  <2> DEFINE p == [job[0] EXCEPT !.todo = Tail(job[0].todo)]
  <2>1. job'[0] = p /\ down' = down
    BY <1>2, FirstJob DEF writeBytesIO
  <2>2. p.got = job[0].got
    BY FirstJob, JobTodo
  <2> HIDE DEF p
  <2> QED
    BY <1>1, <2>1, <2>2, ReturnedStays
<1>3. CASE readBytesIO(0)
  <2> DEFINE p == [job[0] EXCEPT !.left = job[0].left - 1,
                                 !.got = Append(job[0].got, Head(down))]
  <2>1. job'[0] = p /\ down' = Tail(down) /\ down # <<>>
    BY <1>3, FirstJob DEF readBytesIO
  <2>2. p = [kind |-> job[0].kind, todo |-> job[0].todo, left |-> job[0].left - 1,
             got |-> Append(job[0].got, Head(down))]
    BY FirstJob, JobRead, Zenon
  <2>3. p.got = Append(job[0].got, Head(down))
    BY <2>2
  <2> HIDE DEF p
  <2>4. PICK g \in Seq(Item), d \in Seq(Item) : g = job[0].got /\ d = down
    BY FirstJob
  <2>5. Len(Tail(d)) = Len(d) - 1 /\ Len(Append(g, Head(d))) = Len(g) + 1
        /\ Len(d) \in Nat /\ Len(g) \in Nat
    BY <2>1, <2>4
  <2>6. Len(Tail(d)) + Len(Append(g, Head(d))) = Len(d) + Len(g)
    <3>1. PICK x \in Nat, y \in Nat : x = Len(d) /\ y = Len(g)
      BY <2>5
    <3>2. x - 1 + (y + 1) = x + y
      OBVIOUS
    <3> QED
      BY <2>5, <3>1, <3>2
  <2> QED
    BY <1>1, <2>1, <2>3, <2>4, <2>6, ReturnedStays
<1> QED
  BY <1>2, <1>3

(* Nor does the end of a flush.                                            *)
LEMMA FlushedReturns ==
    ASSUME Types, OneCall, cancels = 0, ~torn, Flushed
    PROVE  Returned' = Returned
<1>1. UNCHANGED <<sent, want, cancels, down>>
  BY DEF Flushed, port, fpga
<1>2. job[0].got = <<>>
  BY DEF Flushed, OneCall, CallInv, WritingInv
<1>3. job'[0].got = <<>>
  <2>1. CASE want = <<>>
    BY <2>1, FirstJob, Empty DEF Flushed
  <2>2. CASE want # <<>>
    <3>1. want[2] \in Nat
      BY <2>2, WantIs
    <3>2. job'[0] = ReadJob(want[2])
      BY <2>2, FirstJob DEF Flushed
    <3> QED
      BY <3>1, <3>2, JobsAre
  <2> QED
    BY <2>1, <2>2
<1> QED
  BY <1>1, <1>2, <1>3, ReturnedStays

(* The initial states map to initial states.                               *)
LEMMA SessionStart == Init => Session!Init
<1> SUFFICES ASSUME Init PROVE Session!Init
  OBVIOUS
<1>1. Types
  BY TypesAtStart
<1>2. /\ up = <<>> /\ job[cancels].todo = <<>> /\ Kept = <<>> /\ want = <<>>
      /\ device = Fresh /\ sent = 0 /\ reply = <<>>
  <2>1. 0 \in Jobs
    BY FirstJob, <1>1
  <2> QED
    BY <2>1, Empty DEF Init, Kept
<1>3. Shown = Session!Fresh
  BY <1>1, <1>2, ShownWhenDone, SameFresh
<1>4. Returned = 0
  BY <1>1, <1>2, ReturnedBefore
<1> QED
  BY <1>2, <1>3, <1>4 DEF Session!Init

(* A buffered write is the write of RegisterAccess.                        *)
LEMMA WriteIsWrite ==
    ASSUME ~Repeats, Types, Types', LastIsCurrent, OneCall, WholeInv, cancels = 0, ~torn,
           NEW r \in Register, NEW v \in Value, addWrite(r, v)
    PROVE  Session!Write(r, v)
<1>1. pc = "idle" /\ want = <<>> /\ commands \in Seq(Whole)
  BY DEF addWrite, Idle, OneCall, CallInv, IdleInv, WholeInv
<1>2. UNCHANGED <<want, sent, reply>> /\ ~r.readonly
  BY DEF addWrite, fpga
<1>3. \A k \in 1 .. Len(commands) : commands[k].write
  BY <1>1 DEF Whole
<1>4. Shown' = Put(Shown, r.address, r.increment, BytesOf(v, r.width))
  BY <1>3, AddWriteShows
<1>5. Returned = sent /\ Returned' = sent'
  BY <1>1, <1>2, ReturnedBefore, ReturnedThen
<1> QED
  BY <1>2, <1>4, <1>5, SamePut, SameBytesOf DEF Session!Write

(* A read that returns is its read.                                        *)
LEMMA ReadIsRead ==
    ASSUME Types, Types', OneCall, cancels = 0, ~torn, ReadReturns
    PROVE  \E r \in Register : \E n \in Counts(r) : Session!Read(r, n)
<1>1. /\ want # <<>> /\ down = <<>>
      /\ job[0].got = Bytes(device, Back(sent, want[2]), want[1].address,
                            want[1].increment, want[2])
      /\ Answered(want[1], want[2])
  BY AnsweredInFull
<1>2. PICK r \in Register : \E n \in Counts(r) :
         want[1] = r /\ want[2] = n /\ Readable(r) /\ n \in Nat
  BY <1>1, WantIs
<1>3. PICK n \in Counts(r) : want[1] = r /\ want[2] = n /\ Readable(r) /\ n \in Nat
  BY <1>2
<1>4. Shown = device /\ Shown' = Shown
  BY ReturnShows
<1>5. sent \in 0 .. FifoWords - 1 /\ sent' = sent /\ want' = <<>>
      /\ reply' = <<want[1], job[0].got>>
  BY DEF ReadReturns, fpga, Types, PortTypes
<1>6. Returned' = sent
  BY <1>5, ReturnedThen
<1>7. Returned = IF r.fifo THEN Back(sent, n) ELSE sent
  <2>1. Len(job[0].got) + Len(down) = n
    BY <1>1, <1>3, AnswerLength
  <2>2. Len(down) + Len(job[0].got) = n
    BY <2>1, FirstJob
  <2>3. Underway = IF r.fifo THEN n ELSE 0
    BY <1>1, <1>3, <2>2 DEF Underway
  <2> QED
    BY <1>5, <2>3, ReturnedIs, BackNone
<1>8. job[0].got = Bytes(Shown, Returned, r.address, r.increment, n)
  <2>1. CASE r.fifo
    BY <1>1, <1>3, <1>4, <1>7, <2>1
  <2>2. CASE ~r.fifo
    BY <1>1, <1>3, <1>4, <2>2, FifoIs DEF Bytes
  <2> QED
    BY <2>1, <2>2
<1>9. Returned' = IF r.fifo THEN (Returned + n) % FifoWords ELSE Returned
  BY <1>3, <1>5, <1>6, <1>7, BackForth
<1>10. Session!Read(r, n)
  BY <1>3, <1>4, <1>5, <1>8, <1>9, SameBytes, SameReads DEF Session!Read
<1> QED
  BY <1>10

(* Every step maps to a step of RegisterAccess or to none.                 *)
LEMMA SessionStep ==
    ASSUME ~Repeats, Types, Types', LastIsCurrent, OneCall, OneCall', WholeInv, [Next]_vars,
           cancels' = 0, failures' = 0
    PROVE  [Session!Next]_(Session!vars)
<1> DEFINE Same == Shown' = Shown /\ Returned' = Returned /\ reply' = reply
<1>0. ~torn'
  <2>1. ~(failures' > 0)
    OBVIOUS
  <2> QED
    BY <2>1, Zenon DEF Types, HostTypes
<1>1. Same => UNCHANGED Session!vars
  BY DEF Session!vars
<1>2. cancels = 0 /\ ~torn /\ ~Cancel
  <2>1. cancels \in Nat
    BY Constants DEF Types, HostTypes
  <2>2. ~Cancel
    BY <2>1 DEF Cancel
  <2>3. UNCHANGED cancels
    BY <2>2 DEF Next, Returns, Thread, addWrite, flush, syncRead, Flushed, ReadReturns,
                writeBytesIO, readBytesIO, WriteFails, Firmware, vars, script
  <2> QED
    BY <1>0, <2>2, <2>3, TornStays
<1>3. ASSUME NEW r \in Register, NEW v \in Value, addWrite(r, v) PROVE Session!Next
  BY <1>2, <1>3, WriteIsWrite DEF Session!Next
<1>4. CASE flush
  <2>1. want = <<>> /\ want' = <<>> /\ sent' = sent /\ reply' = reply
    BY <1>2, <1>4 DEF flush, Idle, OneCall, CallInv, IdleInv, fpga
  <2>2. Returned' = Returned
    BY <2>1, ReturnedBefore, ReturnedThen
  <2> QED
    BY <1>1, <1>2, <1>4, <2>1, <2>2, FlushShows
<1>5. ASSUME NEW r \in Register, NEW n \in Counts(r), syncRead(r, n)
      PROVE  UNCHANGED Session!vars
  <2>1. want = <<>> /\ sent' = sent /\ reply' = reply /\ down' = down /\ Quiet
    BY <1>2, <1>5 DEF syncRead, Idle, OneCall, CallInv, IdleInv, fpga, port
  <2>2. job'[cancels'].got = <<>>
    <3>1. pc' = "writing"
      BY <1>5 DEF syncRead
    <3> QED
      BY <1>0, <3>1 DEF OneCall, CallInv, WritingInv
  <2>3. Len(down') + Len(job'[cancels'].got) = 0
    <3>1. Len(<<>>) + Len(<<>>) = 0
      OBVIOUS
    <3> QED
      BY <2>1, <2>2, <3>1 DEF Quiet
  <2>4. Returned' = Returned
    BY <2>1, <2>3, ReturnedBefore, ReturnedThen
  <2> QED
    BY <1>1, <1>2, <1>5, <2>1, <2>4, ReadShows
<1>6. CASE Flushed
  <2>1. reply' = reply
    BY <1>6 DEF Flushed
  <2> QED
    BY <1>1, <1>2, <1>6, <2>1, FlushedShows, FlushedReturns
<1>7. CASE ReadReturns
  <2>1. PICK r \in Register : \E n \in Counts(r) : Session!Read(r, n)
    BY <1>2, <1>7, ReadIsRead
  <2> QED
    BY <2>1, SameReads DEF Session!Next
<1>8. ASSUME NEW j \in Jobs, writeBytesIO(j) \/ readBytesIO(j) PROVE UNCHANGED Session!vars
  <2>1. j = 0
    BY <1>2, <1>8, OwnThread
  <2>2. reply' = reply
    BY <1>8 DEF writeBytesIO, readBytesIO, script
  <2> QED
    BY <1>1, <1>2, <1>8, <2>1, <2>2, SendShows, TakeShows, ThreadReturns
<1>9. ASSUME NEW j \in Jobs, WriteFails(j) PROVE FALSE
  <2>1. failures \in Nat
    BY Constants DEF Types, HostTypes
  <2> QED
    BY <1>9, <2>1 DEF WriteFails
<1>10. CASE Firmware
  <2>1. reply' = reply
    BY <1>10 DEF Firmware, script
  <2> QED
    BY <1>1, <1>2, <1>10, <2>1, FirmwareShows, FirmwareReturns
<1>11. CASE UNCHANGED vars
  <2>1. UNCHANGED <<reply, sent, want, device, up, down, job, cancels, pc, commands>>
    BY <1>11 DEF vars, script, port, fpga
  <2>2. Shown' = Shown
    BY <2>1 DEF Shown, Pending, Kept
  <2>3. Returned' = Returned
    BY <2>1 DEF Returned, Underway
  <2> QED
    BY <1>1, <2>1, <2>2, <2>3
<1> QED
  BY <1>2, <1>3, <1>4, <1>5, <1>6, <1>7, <1>8, <1>9, <1>10, <1>11 DEF Next, Returns, Thread

(* A session in which no call was cancelled and no write failed implements *)
(* RegisterAccess, where a write is carried out when it is called and a    *)
(* read returns the registers as they are: neither the buffer              *)
(* (core.py:78-180), nor the merging of commands, nor the parts on the     *)
(* wire, nor the threads are to be seen by the script.                     *)
THEOREM SessionImplements ==
    ASSUME ~Repeats
    PROVE  Spec => SessionIsRegisterAccess
<1> DEFINE Inv == Types /\ LastIsCurrent /\ OneCall /\ WholeInv
           Step == Undisturbed => [Session!Next]_(Session!vars)
<1>1. Init => Inv
  BY TypesAtStart, LastAtStart, CallAtStart, WholeAtStart
<1>2. Inv /\ [Next]_vars => Inv'
  BY TypesKept, LastKept, CallKept, WholeKept
<1>3. Inv /\ [Next]_vars => Step
  <2> SUFFICES ASSUME Inv, [Next]_vars, cancels' = 0, failures' = 0
               PROVE  [Session!Next]_(Session!vars)
    BY DEF Undisturbed
  <2>1. Inv'
    BY <1>2
  <2> QED
    BY <2>1, SessionStep
<1>4. Init => Session!Init
  BY SessionStart
<1>5. SessionIsRegisterAccess <=> Session!Init /\ [][Step]_vars
  BY DEF SessionIsRegisterAccess
<1> HIDE DEF Inv, Step
<1> QED
  BY <1>1, <1>2, <1>3, <1>4, <1>5, PTL DEF Spec

=============================================================================
