------------------------------- MODULE ReducerProofs -------------------------------
(***************************************************************************)
(* Proofs about the reducers of reducers.cpp, the parsers and the          *)
(* installers of load_file.cpp as functions of a document: each keeps all  *)
(* indices in step, and the parser reads the arcs that `toXml' wrote, for  *)
(* any document, file, name, number and colour.                            *)
(***************************************************************************)
EXTENDS NetFile, WellFoundedInduction, FiniteSetTheorems, TLAPS

(***************************************************************************)
(* Sequences: what one needs to know of each operator, element by element, *)
(* whatever the elements are.  A function from 1 .. n is a sequence.       *)
(***************************************************************************)
LEMMA SeqIntro ==
    ASSUME NEW n \in Nat, NEW s, s = [i \in 1 .. n |-> s[i]]
    PROVE  IsSeq(s) /\ Len(s) = n
<1> DEFINE A == {s[i] : i \in 1 .. n}
<1>1. s \in [1 .. n -> A]
    OBVIOUS
<1>2. s \in Seq(A) /\ Len(s) = n
    BY <1>1
<1>3. QED
    BY <1>2 DEF IsSeq

(***************************************************************************)
(* The length and the domain of a sequence.                                *)
(***************************************************************************)
LEMMA SeqElim ==
    ASSUME NEW s, IsSeq(s)
    PROVE  Len(s) \in Nat /\ DOMAIN s = 1 .. Len(s)
BY DEF IsSeq

(***************************************************************************)
(* A sequence is one over any set that holds its elements.                 *)
(***************************************************************************)
LEMMA SeqType ==
    ASSUME NEW s, IsSeq(s), NEW A, \A i \in 1 .. Len(s) : s[i] \in A
    PROVE  s \in Seq(A)
<1>1. s \in [1 .. Len(s) -> A]
    BY DEF IsSeq
<1>2. QED
    BY <1>1, SeqElim

(***************************************************************************)
(* Conversely for the sequences of TLA+.                                   *)
(***************************************************************************)
LEMMA SeqIs ==
    ASSUME NEW A, NEW s \in Seq(A)
    PROVE  IsSeq(s)
<1>1. Len(s) \in Nat /\ s \in [1 .. Len(s) -> A]
    <2>1. Len(s) \in Nat /\ DOMAIN s = 1 .. Len(s)
        OBVIOUS
    <2>2. \E n \in Nat : s \in [1 .. n -> A]
        OBVIOUS
    <2>3. QED
        BY <2>1, <2>2
<1>2. QED
    BY <1>1 DEF IsSeq

(***************************************************************************)
(* What `Append' returns.                                                  *)
(***************************************************************************)
LEMMA SeqAppend ==
    ASSUME NEW s, IsSeq(s), NEW x
    PROVE  /\ IsSeq(Append(s, x))
           /\ Len(Append(s, x)) = Len(s) + 1
           /\ \A i \in 1 .. Len(s) : Append(s, x)[i] = s[i]
           /\ Append(s, x)[Len(s) + 1] = x
<1> DEFINE A == {s[i] : i \in 1 .. Len(s)} \cup {x}
<1>1. s \in Seq(A) /\ x \in A
    BY SeqElim, SeqType
<1> HIDE DEF A
<1>2. Append(s, x) \in Seq(A)
    BY <1>1
<1>3. IsSeq(Append(s, x))
    BY <1>2, SeqIs
<1>4. QED
    BY <1>1, <1>3

(***************************************************************************)
(* What concatenation returns.                                             *)
(***************************************************************************)
LEMMA SeqConcat ==
    ASSUME NEW s, NEW t, IsSeq(s), IsSeq(t)
    PROVE  /\ IsSeq(s \o t)
           /\ Len(s \o t) = Len(s) + Len(t)
           /\ \A i \in 1 .. Len(s) : (s \o t)[i] = s[i]
           /\ \A i \in 1 .. Len(t) : (s \o t)[Len(s) + i] = t[i]
<1> DEFINE A == {s[i] : i \in 1 .. Len(s)} \cup {t[i] : i \in 1 .. Len(t)}
<1>1. s \in Seq(A) /\ t \in Seq(A)
    BY SeqElim, SeqType
<1> HIDE DEF A
<1>2. s \o t \in Seq(A)
    BY <1>1
<1>3. IsSeq(s \o t)
    BY <1>2, SeqIs
<1>4. QED
    BY <1>1, <1>3

(***************************************************************************)
(* What `RemoveAt' returns: everything behind the position moves up.       *)
(***************************************************************************)
LEMMA SeqRemove ==
    ASSUME NEW s, IsSeq(s), NEW k \in 1 .. Len(s)
    PROVE  /\ IsSeq(RemoveAt(s, k))
           /\ Len(RemoveAt(s, k)) = Len(s) - 1
           /\ \A i \in 1 .. Len(s) - 1 : RemoveAt(s, k)[i] = IF i < k THEN s[i] ELSE s[i + 1]
<1> DEFINE A == {s[i] : i \in 1 .. Len(s)}
<1>1. s \in Seq(A) /\ Len(s) \in Nat
    BY SeqElim, SeqType
<1> HIDE DEF A
<1> DEFINE a == SubSeq(s, 1, k - 1)
<1> DEFINE b == SubSeq(s, k + 1, Len(s))
<1>2. a \in Seq(A) /\ Len(a) = k - 1 /\ \A i \in 1 .. k - 1 : a[i] = s[i]
    BY <1>1
<1>3. b \in Seq(A) /\ Len(b) = Len(s) - k /\ \A i \in 1 .. Len(s) - k : b[i] = s[k + i]
    BY <1>1
<1>4. RemoveAt(s, k) = a \o b
    BY DEF RemoveAt
<1> HIDE DEF a, b
<1>5. IsSeq(a \o b) /\ Len(a \o b) = Len(s) - 1
    <2>1. IsSeq(a) /\ IsSeq(b)
        BY <1>2, <1>3, SeqIs
    <2>2. IsSeq(a \o b) /\ Len(a \o b) = Len(a) + Len(b)
        BY <2>1, SeqConcat
    <2>3. QED
        BY <2>2, <1>1, <1>2, <1>3
<1>6. ASSUME NEW i \in 1 .. Len(s) - 1
      PROVE  (a \o b)[i] = IF i < k THEN s[i] ELSE s[i + 1]
    <2>1. CASE i < k
        BY <2>1, <1>1, <1>2, <1>3
    <2>2. CASE i >= k
        <3>1. i - (k - 1) \in 1 .. Len(s) - k /\ k + (i - (k - 1)) = i + 1
            BY <2>2, <1>1
        <3>2. (a \o b)[i] = b[i - (k - 1)]
            BY <2>2, <1>1, <1>2, <1>3
        <3>3. QED
            BY <2>2, <3>1, <3>2, <1>3
    <2>3. i < k \/ i >= k
        BY <1>1
    <2>4. QED
        BY <2>1, <2>2, <2>3
<1>7. QED
    BY <1>4, <1>5, <1>6

(***************************************************************************)
(* A set of numbers has a least element.  The prover has no induction, but *)
(* the strict inclusion of the sets 1 .. n is well-founded.                *)
(***************************************************************************)
LEMMA LeastNat ==
    ASSUME NEW S \in SUBSET Nat, S # {}
    PROVE  \E n \in S : \A m \in S : n <= m
<1> DEFINE intervals == {1 .. n : n \in S}
<1>1. intervals # {} /\ intervals \subseteq FiniteSubsetsOf(Nat)
    <2>1. ASSUME NEW n \in Nat
          PROVE  1 .. n \in FiniteSubsetsOf(Nat)
        <3>1. IsFiniteSet(1 .. n)
            <4>1. 1 \in Int /\ n \in Int
                OBVIOUS
            <4>2. QED
                BY <4>1, FS_Interval
        <3>2. QED
            BY <3>1 DEF FiniteSubsetsOf
    <2>2. QED
        BY <2>1
<1> DEFINE R == StrictSubsetOrdering(Nat)
<1>2. IsWellFoundedOn(R, FiniteSubsetsOf(Nat))
    BY FS_StrictSubsetOrderingWellFounded
<1> HIDE DEF intervals, R
<1>3. PICK x \in intervals : \A y \in intervals : ~(<<y, x>> \in R)
    BY <1>1, <1>2, WFMin
<1>4. PICK n \in S : x = 1 .. n
    BY DEF intervals
<1>5. ASSUME NEW m \in S, m < n
      PROVE  FALSE
    <2>1. <<1 .. m, 1 .. n>> \notin R
        BY <1>3, <1>4 DEF intervals
    <2>2. 1 .. m \subseteq 1 .. n /\ n \in 1 .. n /\ n \notin 1 .. m
        BY <1>5
    <2>3. <<1 .. m, 1 .. n>> \in R
        BY <2>2 DEF R, StrictSubsetOrdering
    <2>4. QED
        BY <2>1, <2>3
<1>6. QED
    BY <1>5

(***************************************************************************)
(* The function through which FlattenSeq is defined: f[i] is the           *)
(* concatenation of the first i sequences.                                 *)
(***************************************************************************)
Concats(ss, n, f) == f = [i \in 1 .. n |-> IF i = 1 THEN ss[i] ELSE f[i - 1] \o ss[i]]

(***************************************************************************)
(* There is such a function: at the least n without one, the one for n - 1 *)
(* could be continued.                                                     *)
(***************************************************************************)
LEMMA ConcatsExist ==
    ASSUME NEW ss, NEW n \in Nat
    PROVE  \E f : Concats(ss, n, f)
<1> DEFINE S == {m \in Nat : ~ \E f : Concats(ss, m, f)}
<1>1. SUFFICES ASSUME S # {} PROVE FALSE
    OBVIOUS
<1>2. PICK m \in S : \A k \in S : m <= k
    BY <1>1, LeastNat
<1>3. CASE m = 0
    <2>1. Concats(ss, 0, [i \in 1 .. 0 |-> 0])
        BY DEF Concats
    <2>2. QED
        BY <2>1, <1>3
<1>4. CASE m # 0
    <2>1. m - 1 \in Nat /\ m - 1 \notin S
        BY <1>2, <1>4
    <2>2. PICK f : Concats(ss, m - 1, f)
        BY <2>1
    <2> DEFINE g == [i \in 1 .. m |-> IF i = m THEN IF i = 1 THEN ss[i] ELSE f[i - 1] \o ss[i] ELSE f[i]]
    <2>3. \A i \in 1 .. m - 1 : f[i] = IF i = 1 THEN ss[i] ELSE f[i - 1] \o ss[i]
        BY <2>2 DEF Concats
    <2>4. \A i \in 1 .. m : g[i] = IF i = 1 THEN ss[i] ELSE g[i - 1] \o ss[i]
        BY <2>3, <1>4
    <2>5. Concats(ss, m, g)
        BY <2>4 DEF Concats
    <2>6. QED
        BY <2>5
<1>5. QED
    BY <1>3, <1>4

(***************************************************************************)
(* An element of a concatenation comes from one of the two.                *)
(***************************************************************************)
LEMMA ConcatElements ==
    ASSUME NEW a, NEW b, IsSeq(a), IsSeq(b), NEW k \in 1 .. Len(a \o b)
    PROVE  \/ \E i \in 1 .. Len(a) : (a \o b)[k] = a[i]
           \/ \E i \in 1 .. Len(b) : (a \o b)[k] = b[i]
<1>1. Len(a) \in Nat /\ Len(b) \in Nat /\ Len(a \o b) = Len(a) + Len(b)
    BY SeqElim, SeqConcat
<1>2. CASE k <= Len(a)
    <2>1. k \in 1 .. Len(a)
        BY <1>1, <1>2
    <2>2. (a \o b)[k] = a[k]
        BY <2>1, SeqConcat
    <2>3. QED
        BY <2>1, <2>2
<1>3. CASE k > Len(a)
    <2>1. k - Len(a) \in 1 .. Len(b) /\ Len(a) + (k - Len(a)) = k
        BY <1>1, <1>3
    <2>2. (a \o b)[Len(a) + (k - Len(a))] = b[k - Len(a)]
        BY <2>1, SeqConcat
    <2>3. QED
        BY <2>1, <2>2
<1>4. QED
    BY <1>1, <1>2, <1>3

(***************************************************************************)
(* A sequence all of whose elements come from the sequences in ss.         *)
(***************************************************************************)
DrawnFrom(s, ss) ==
    /\ IsSeq(s)
    /\ \A k \in 1 .. Len(s) : \E i \in 1 .. Len(ss) : \E j \in 1 .. Len(ss[i]) : s[k] = ss[i][j]

(***************************************************************************)
(* It stays one when it is continued by one of them.                       *)
(***************************************************************************)
LEMMA DrawnConcat ==
    ASSUME NEW a, NEW ss, DrawnFrom(a, ss), NEW m \in 1 .. Len(ss), IsSeq(ss[m])
    PROVE  DrawnFrom(a \o ss[m], ss)
<1> DEFINE b == ss[m]
<1>1. IsSeq(a) /\ IsSeq(b)
    BY DEF DrawnFrom
<1> HIDE DEF b
<1>2. IsSeq(a \o b)
    BY <1>1, SeqConcat
<1>3. ASSUME NEW k \in 1 .. Len(a \o b)
      PROVE  \E i \in 1 .. Len(ss) : \E j \in 1 .. Len(ss[i]) : (a \o b)[k] = ss[i][j]
    <2>1. CASE \E i \in 1 .. Len(a) : (a \o b)[k] = a[i]
        BY <2>1 DEF DrawnFrom
    <2>2. CASE \E i \in 1 .. Len(b) : (a \o b)[k] = b[i]
        BY <2>2 DEF b
    <2>3. QED
        BY <2>1, <2>2, <1>1, ConcatElements
<1>4. QED
    BY <1>2, <1>3 DEF DrawnFrom, b

(***************************************************************************)
(* What FlattenSeq returns is a sequence of elements of its parts.         *)
(***************************************************************************)
LEMMA Flatten ==
    ASSUME NEW ss, IsSeq(ss), \A i \in 1 .. Len(ss) : IsSeq(ss[i])
    PROVE  DrawnFrom(FlattenSeq(ss), ss)
<1> DEFINE n == Len(ss)
<1>1. n \in Nat
    BY SeqElim
<1>2. CASE n = 0
    BY <1>2 DEF FlattenSeq, DrawnFrom
<1>3. CASE n # 0
    <2> DEFINE f == CHOOSE f : Concats(ss, n, f)
    <2>1. FlattenSeq(ss) = f[n]
        BY <1>3 DEF FlattenSeq, Concats
    <2>2. Concats(ss, n, f)
        BY <1>1, ConcatsExist
    <2> HIDE DEF f
    <2> DEFINE S == {m \in 1 .. n : ~ DrawnFrom(f[m], ss)}
    <2>3. CASE S # {}
        <3>1. S \in SUBSET Nat
            OBVIOUS
        <3>2. PICK m \in S : \A k \in S : m <= k
            BY <2>3, <3>1, LeastNat
        <3>3. f[m] = IF m = 1 THEN ss[m] ELSE f[m - 1] \o ss[m]
            BY <2>2 DEF Concats
        <3>4. IsSeq(ss[m]) /\ m \in 1 .. n
            OBVIOUS
        <3>5. CASE m = 1
            BY <3>3, <3>4, <3>5 DEF DrawnFrom
        <3>6. CASE m # 1
            <4>1. DrawnFrom(f[m - 1], ss)
                BY <3>2, <3>4, <3>6, <1>1
            <4>2. DrawnFrom(f[m - 1] \o ss[m], ss)
                BY <4>1, <3>4, DrawnConcat
            <4>3. QED
                BY <4>2, <3>3, <3>6
        <3>7. QED
            BY <3>5, <3>6
    <2>4. CASE S = {}
        BY <2>4, <2>1, <1>1, <1>3
    <2>5. QED
        BY <2>3, <2>4
<1>4. QED
    BY <1>2, <1>3

(***************************************************************************)
(* The values of a function on 1 .. n are finitely many.                   *)
(***************************************************************************)
LEMMA FiniteImage ==
    ASSUME NEW n \in Nat, NEW f
    PROVE  IsFiniteSet({f[i] : i \in 1 .. n})
<1> DEFINE S == {f[i] : i \in 1 .. n}
<1> DEFINE g == [i \in 1 .. n |-> f[i]]
<1>1. IsFiniteSet(1 .. n)
    <2>1. 1 \in Int /\ n \in Int
        OBVIOUS
    <2>2. QED
        BY <2>1, FS_Interval
<1>2. g \in Surjection(1 .. n, S)
    BY DEF Surjection
<1>3. QED
    BY <1>1, <1>2, FS_Surjection

(***************************************************************************)
(* SetToSeq lists a finite set, and all of it.                             *)
(***************************************************************************)
LEMMA SetAsSeq ==
    ASSUME NEW S, IsFiniteSet(S)
    PROVE  /\ IsSeq(SetToSeq(S))
           /\ \A x \in S : \E k \in 1 .. Len(SetToSeq(S)) : SetToSeq(S)[k] = x
<1>1. PICK n \in Nat : ExistsBijection(1 .. n, S)
    BY FS_NatBijection
<1>2. Cardinality(S) = n
    BY <1>1, FS_CountingElements
<1>3. \E f \in [1 .. n -> S] : IsInjective(f)
    BY <1>1 DEF ExistsBijection, Bijection, Injection, IsInjective
<1> DEFINE f == SetToSeq(S)
<1>4. f \in [1 .. n -> S] /\ IsInjective(f)
    BY <1>2, <1>3 DEF SetToSeq
<1> HIDE DEF f
<1>5. f \in Injection(1 .. n, S)
    BY <1>4 DEF Injection, IsInjective
<1>6. Cardinality(1 .. n) = n
    <2>1. 1 \in Int /\ n \in Int
        OBVIOUS
    <2>2. Cardinality(1 .. n) = IF 1 > n THEN 0 ELSE n - 1 + 1
        BY <2>1, FS_Interval
    <2>3. QED
        BY <2>2
<1>7. f \in Surjection(1 .. n, S)
    BY <1>2, <1>5, <1>6, FS_Injection
<1>8. f \in Seq(S) /\ Len(f) = n
    BY <1>4
<1>9. QED
    BY <1>7, <1>8, SeqIs DEF Surjection, f

(***************************************************************************)
(* `toIndex' finds a name that is there: the search ends within the list   *)
(* (petri_utilities.cpp).                                                  *)
(***************************************************************************)
LEMMA IndexFound ==
    ASSUME NEW names, IsSeq(names), NEW k \in 1 .. Len(names)
    PROVE  toIndex(names, names[k]) \in 1 .. Len(names)
<1> DEFINE S == {j \in 1 .. Len(names) : names[j] = names[k]}
<1>1. Len(names) \in Nat /\ DOMAIN names = 1 .. Len(names)
    BY SeqElim
<1>2. S \in SUBSET Nat /\ k \in S
    OBVIOUS
<1>3. PICK m \in S : \A j \in S : m <= j
    BY <1>2, LeastNat
<1>4. names[m] = names[k] /\ m \in 1 .. Len(names) /\ \A j \in 1 .. m - 1 : names[j] # names[k]
    BY <1>1, <1>3
<1>5. QED
    BY <1>1, <1>4 DEF toIndex

(***************************************************************************)
(* A function on the domain of a sequence is a sequence of the same        *)
(* length.                                                                 *)
(***************************************************************************)
LEMMA SeqOver ==
    ASSUME NEW s, IsSeq(s), NEW r, DOMAIN r = DOMAIN s, r = [i \in DOMAIN r |-> r[i]]
    PROVE  IsSeq(r) /\ Len(r) = Len(s)
BY SeqElim, SeqIntro

(***************************************************************************)
(* A list of arcs whose places are among the first n.                      *)
(***************************************************************************)
ArcsTo(arcs, n) ==
    /\ IsSeq(arcs)
    /\ \A i \in 1 .. Len(arcs) : arcs[i] = <<arcs[i][1], arcs[i][2]>> /\ arcs[i][1] \in 1 .. n

(***************************************************************************)
(* One entry for each place in everything that is kept per place.          *)
(***************************************************************************)
PerPlace(e) ==
    /\ IsSeq(e.place)
    /\ IsSeq(e.p_positions) /\ Len(e.p_positions) = Len(e.place)
    /\ IsSeq(e.p_to_ts_n) /\ Len(e.p_to_ts_n) = Len(e.place)

(***************************************************************************)
(* The same for transitions.                                               *)
(***************************************************************************)
PerTransition(e) ==
    /\ IsSeq(e.transition)
    /\ IsSeq(e.t_positions) /\ Len(e.t_positions) = Len(e.transition)
    /\ IsSeq(e.input_n) /\ Len(e.input_n) = Len(e.transition)
    /\ IsSeq(e.output_n) /\ Len(e.output_n) = Len(e.transition)
    /\ IsSeq(e.priority) /\ Len(e.priority) = Len(e.transition)
    /\ IsSeq(e.output) /\ Len(e.output) = Len(e.transition)

(***************************************************************************)
(* Arcs end at places.                                                     *)
(***************************************************************************)
ArcsSound(e) ==
    \A t \in 1 .. Len(e.transition) :
        ArcsTo(e.input_n[t], Len(e.place)) /\ ArcsTo(e.output_n[t], Len(e.place))

(***************************************************************************)
(* The reverse lookup holds transitions, and each of a place's consumers.  *)
(***************************************************************************)
LookupSound(e) ==
    /\ \A p \in 1 .. Len(e.place) : e.p_to_ts_n[p] \subseteq 1 .. Len(e.transition)
    /\ \A t \in 1 .. Len(e.transition) : \A i \in 1 .. Len(e.input_n[t]) :
            t \in e.p_to_ts_n[e.input_n[t][i][1]]

(***************************************************************************)
(* Priorities are of type int8_t.                                          *)
(***************************************************************************)
PrioritySound(e) == \A t \in 1 .. Len(e.transition) : e.priority[t] \in -128 .. 127

(***************************************************************************)
(* The inductive invariant of the document: DocumentIsSound without the    *)
(* tokens, and that every part is a sequence, without which no statement   *)
(* about an index can be carried through a removal.                        *)
(***************************************************************************)
Structure(e) ==
    /\ DOMAIN e = DOMAIN EmptyDocument
    /\ PerPlace(e)
    /\ PerTransition(e)
    /\ ArcsSound(e)
    /\ LookupSound(e)
    /\ PrioritySound(e)

(***************************************************************************)
(* It says what the property says.                                         *)
(***************************************************************************)
LEMMA StructureIs ==
    ASSUME NEW e, Structure(e)
    PROVE  /\ Aligned(e)
           /\ ArcsInRange(e)
           /\ LookupCovers(e)
           /\ \A t \in DOMAIN e.transition : e.priority[t] \in -128 .. 127
<1>1. /\ DOMAIN e.place = 1 .. Len(e.place)
      /\ DOMAIN e.transition = 1 .. Len(e.transition)
    BY SeqElim DEF Structure, PerPlace, PerTransition
<1>2. \A t \in DOMAIN e.transition :
        /\ DOMAIN e.input_n[t] = 1 .. Len(e.input_n[t])
        /\ DOMAIN e.output_n[t] = 1 .. Len(e.output_n[t])
    BY <1>1, SeqElim DEF Structure, ArcsSound, ArcsTo
<1>3. Aligned(e)
    BY DEF Structure, PerPlace, PerTransition, Aligned
<1>4. ArcsInRange(e)
    BY <1>1, <1>2 DEF Structure, ArcsSound, ArcsTo, ArcsInRange
<1>5. LookupCovers(e)
    BY <1>1, <1>2 DEF Structure, LookupSound, LookupCovers
<1>6. QED
    BY <1>1, <1>3, <1>4, <1>5 DEF Structure, PrioritySound

(***************************************************************************)
(* Two documents that differ in these fields at most.                      *)
(***************************************************************************)
SameBut(e, r, fields) ==
    DOMAIN r = DOMAIN EmptyDocument /\ \A f \in DOMAIN EmptyDocument \ fields : r[f] = e[f]

(***************************************************************************)
(* More places do no harm to an arc.                                       *)
(***************************************************************************)
LEMMA ArcsWiden ==
    ASSUME NEW arcs, NEW n \in Nat, NEW m \in Nat, n <= m, ArcsTo(arcs, n)
    PROVE  ArcsTo(arcs, m)
BY DEF ArcsTo

(***************************************************************************)
(* The common part of addArc, removeArc and updateArcColor: one list of    *)
(* arcs of one transition is replaced, and the lookup may grow.            *)
(***************************************************************************)
LEMMA ArcsReplaced ==
    ASSUME NEW e, Structure(e), NEW r, NEW field \in {"input_n", "output_n"},
           NEW t \in 1 .. Len(e.transition), NEW arcs, ArcsTo(arcs, Len(e.place)),
           SameBut(e, r, {field, "p_to_ts_n"}),
           r[field] = [e[field] EXCEPT ![t] = arcs],
           IsSeq(r.p_to_ts_n), Len(r.p_to_ts_n) = Len(e.place),
           \A p \in 1 .. Len(e.place) :
                r.p_to_ts_n[p] \subseteq 1 .. Len(e.transition) /\ e.p_to_ts_n[p] \subseteq r.p_to_ts_n[p],
           field = "input_n" => \A i \in 1 .. Len(arcs) : t \in r.p_to_ts_n[arcs[i][1]]
    PROVE  Structure(r) /\ (TokensInRange(e) => TokensInRange(r))
<1>1. /\ r.place = e.place /\ r.p_positions = e.p_positions
      /\ r.transition = e.transition /\ r.t_positions = e.t_positions
      /\ r.priority = e.priority /\ r.output = e.output /\ r.tokens = e.tokens
      /\ DOMAIN r = DOMAIN EmptyDocument
    BY DEF SameBut, EmptyDocument
<1>2. /\ field = "input_n" => r.output_n = e.output_n /\ r.input_n = [e.input_n EXCEPT ![t] = arcs]
      /\ field = "output_n" => r.input_n = e.input_n /\ r.output_n = [e.output_n EXCEPT ![t] = arcs]
    BY DEF SameBut, EmptyDocument
<1>3. /\ IsSeq(e.input_n) /\ Len(e.input_n) = Len(e.transition)
      /\ IsSeq(e.output_n) /\ Len(e.output_n) = Len(e.transition)
      /\ DOMAIN e.input_n = 1 .. Len(e.transition) /\ DOMAIN e.output_n = 1 .. Len(e.transition)
    BY SeqElim DEF Structure, PerTransition
<1>4. /\ IsSeq(r.input_n) /\ Len(r.input_n) = Len(e.transition)
      /\ IsSeq(r.output_n) /\ Len(r.output_n) = Len(e.transition)
    <2>1. /\ DOMAIN r.input_n = DOMAIN e.input_n /\ r.input_n = [i \in DOMAIN r.input_n |-> r.input_n[i]]
          /\ DOMAIN r.output_n = DOMAIN e.output_n /\ r.output_n = [i \in DOMAIN r.output_n |-> r.output_n[i]]
        BY <1>2, <1>3 DEF IsSeq
    <2>2. QED
        BY <2>1, <1>3, SeqOver
<1>5. PerPlace(r) /\ PerTransition(r) /\ PrioritySound(r)
    BY <1>1, <1>4 DEF Structure, PerPlace, PerTransition, PrioritySound
<1>6. \A u \in 1 .. Len(e.transition) :
        /\ r.input_n[u] = IF field = "input_n" /\ u = t THEN arcs ELSE e.input_n[u]
        /\ r.output_n[u] = IF field = "output_n" /\ u = t THEN arcs ELSE e.output_n[u]
    BY <1>2, <1>3
<1>7. ArcsSound(r)
    <2>1. \A u \in 1 .. Len(e.transition) :
            ArcsTo(e.input_n[u], Len(e.place)) /\ ArcsTo(e.output_n[u], Len(e.place))
        BY DEF Structure, ArcsSound
    <2>2. \A u \in 1 .. Len(e.transition) :
            ArcsTo(r.input_n[u], Len(e.place)) /\ ArcsTo(r.output_n[u], Len(e.place))
        BY <2>1, <1>6
    <2>3. QED
        BY <2>2, <1>1 DEF ArcsSound
<1>8. LookupSound(r)
    <2>1. \A u \in 1 .. Len(e.transition) : \A i \in 1 .. Len(e.input_n[u]) :
            e.input_n[u][i][1] \in 1 .. Len(e.place) /\ u \in e.p_to_ts_n[e.input_n[u][i][1]]
        BY DEF Structure, ArcsSound, ArcsTo, LookupSound
    <2>2. \A u \in 1 .. Len(e.transition) : \A i \in 1 .. Len(e.input_n[u]) :
            u \in r.p_to_ts_n[e.input_n[u][i][1]]
        BY <2>1
    <2>3. \A u \in 1 .. Len(e.transition) : \A i \in 1 .. Len(r.input_n[u]) :
            u \in r.p_to_ts_n[r.input_n[u][i][1]]
        BY <2>2, <1>6
    <2>4. QED
        BY <1>1, <2>3 DEF LookupSound
<1>9. TokensInRange(e) => TokensInRange(r)
    BY <1>1 DEF TokensInRange
<1>10. QED
    BY <1>1, <1>5, <1>7, <1>8, <1>9 DEF Structure

(***************************************************************************)
(* The common part of the reducers that add or remove no node and no arc.  *)
(***************************************************************************)
LEMMA ValuesReplaced ==
    ASSUME NEW e, Structure(e), NEW r, DOMAIN r = DOMAIN EmptyDocument,
           r.input_n = e.input_n, r.output_n = e.output_n, r.p_to_ts_n = e.p_to_ts_n,
           IsSeq(r.place), Len(r.place) = Len(e.place),
           IsSeq(r.p_positions), Len(r.p_positions) = Len(e.p_positions),
           IsSeq(r.transition), Len(r.transition) = Len(e.transition),
           IsSeq(r.t_positions), Len(r.t_positions) = Len(e.t_positions),
           IsSeq(r.output), Len(r.output) = Len(e.output),
           IsSeq(r.priority), Len(r.priority) = Len(e.priority),
           \A t \in 1 .. Len(e.transition) : r.priority[t] \in -128 .. 127,
           \A a \in DOMAIN r.tokens : a \in DOMAIN e.tokens \/ a[1] \in 1 .. Len(e.place)
    PROVE  Structure(r) /\ (TokensInRange(e) => TokensInRange(r))
<1>1. PerPlace(r) /\ PerTransition(r) /\ PrioritySound(r)
    BY DEF Structure, PerPlace, PerTransition, PrioritySound
<1>2. ArcsSound(r) /\ LookupSound(r)
    BY DEF Structure, ArcsSound, LookupSound
<1>3. TokensInRange(e) => TokensInRange(r)
    <2>1. DOMAIN e.place = 1 .. Len(e.place) /\ DOMAIN r.place = 1 .. Len(e.place)
        BY SeqElim DEF Structure, PerPlace
    <2>2. QED
        BY <2>1 DEF TokensInRange, BagToSet
<1>4. QED
    BY <1>1, <1>2, <1>3 DEF Structure

(***************************************************************************)
(* The reducers, one by one.  Each keeps the structure, and the tokens at  *)
(* places.  `addPlace' appends to all that is kept per place.              *)
(***************************************************************************)
LEMMA AddPlaceSound ==
    ASSUME NEW e, Structure(e)
    PROVE  /\ Structure(addPlace(e))
           /\ TokensInRange(e) => TokensInRange(addPlace(e))
<1> DEFINE r == addPlace(e)
<1> DEFINE x == [id |-> FreshId(e.place), name |-> uniqueName(e.place, "place")]
<1> DEFINE none == {}
<1>1. /\ DOMAIN r = DOMAIN EmptyDocument
      /\ r.place = Append(e.place, x)
      /\ r.p_to_ts_n = Append(e.p_to_ts_n, none)
      /\ r.p_positions = Append(e.p_positions, 0)
      /\ \A f \in DOMAIN EmptyDocument \ {"place", "p_to_ts_n", "p_positions"} : r[f] = e[f]
    BY DEF addPlace, Structure, EmptyDocument
<1>2. /\ r.transition = e.transition /\ r.t_positions = e.t_positions
      /\ r.input_n = e.input_n /\ r.output_n = e.output_n
      /\ r.priority = e.priority /\ r.output = e.output /\ r.tokens = e.tokens
    BY <1>1 DEF EmptyDocument
<1> HIDE DEF r, x, none
<1>3. PerPlace(r)
    <2>1. IsSeq(e.place) /\ IsSeq(e.p_to_ts_n) /\ IsSeq(e.p_positions)
        BY DEF Structure, PerPlace
    <2>2. IsSeq(r.place) /\ Len(r.place) = Len(e.place) + 1
        BY <1>1, <2>1, SeqAppend
    <2>3. IsSeq(r.p_to_ts_n) /\ Len(r.p_to_ts_n) = Len(e.p_to_ts_n) + 1
        BY <1>1, <2>1, SeqAppend
    <2>4. IsSeq(r.p_positions) /\ Len(r.p_positions) = Len(e.p_positions) + 1
        BY <1>1, <2>1, SeqAppend
    <2>5. QED
        BY <2>2, <2>3, <2>4 DEF Structure, PerPlace
<1>4. PerTransition(r)
    BY <1>2 DEF Structure, PerTransition
<1>5. Len(e.place) \in Nat /\ Len(r.place) = Len(e.place) + 1
    BY <1>1, SeqAppend, SeqElim DEF Structure, PerPlace
<1>6. ArcsSound(r)
    BY <1>2, <1>5, ArcsWiden DEF Structure, ArcsSound
<1>7. LookupSound(r)
    <2>1. \A p \in 1 .. Len(e.place) : r.p_to_ts_n[p] = e.p_to_ts_n[p]
        BY <1>1, SeqAppend DEF Structure, PerPlace
    <2>2. r.p_to_ts_n[Len(e.place) + 1] = none
        <3>1. Len(e.p_to_ts_n) = Len(e.place) /\ IsSeq(e.p_to_ts_n)
            BY DEF Structure, PerPlace
        <3>2. Append(e.p_to_ts_n, none)[Len(e.p_to_ts_n) + 1] = none
            BY <3>1, SeqAppend
        <3>3. QED
            BY <3>1, <3>2, <1>1
    <2>3. \A p \in 1 .. Len(r.place) : p \in 1 .. Len(e.place) \/ p = Len(e.place) + 1
        BY <1>5
    <2>4. \A t \in 1 .. Len(e.transition) : \A i \in 1 .. Len(e.input_n[t]) :
            e.input_n[t][i][1] \in 1 .. Len(e.place)
        BY DEF Structure, ArcsSound, ArcsTo
    <2>5. \A p \in 1 .. Len(r.place) : r.p_to_ts_n[p] \subseteq 1 .. Len(r.transition)
        BY <2>1, <2>2, <2>3, <1>2 DEF Structure, LookupSound, none
    <2>6. \A t \in 1 .. Len(r.transition) : \A i \in 1 .. Len(r.input_n[t]) :
            t \in r.p_to_ts_n[r.input_n[t][i][1]]
        BY <2>1, <2>4, <1>2 DEF Structure, LookupSound
    <2>7. QED
        BY <2>5, <2>6 DEF LookupSound
<1>8. PrioritySound(r)
    BY <1>2 DEF Structure, PrioritySound
<1>9. TokensInRange(e) => TokensInRange(r)
    <2>1. DOMAIN e.place = 1 .. Len(e.place) /\ DOMAIN r.place = 1 .. Len(r.place)
        BY <1>3, SeqElim DEF Structure, PerPlace
    <2>2. QED
        BY <2>1, <1>2, <1>5 DEF TokensInRange
<1>10. QED
    BY <1>1, <1>3, <1>4, <1>6, <1>7, <1>8, <1>9 DEF Structure, r

(***************************************************************************)
(* Removing an arc from a list leaves arcs of the list.                    *)
(***************************************************************************)
LEMMA ArcsRemove ==
    ASSUME NEW n, NEW arcs, ArcsTo(arcs, n), NEW k \in 1 .. Len(arcs)
    PROVE  /\ ArcsTo(RemoveAt(arcs, k), n)
           /\ \A i \in 1 .. Len(RemoveAt(arcs, k)) : \E j \in 1 .. Len(arcs) : RemoveAt(arcs, k)[i] = arcs[j]
<1>1. IsSeq(arcs) /\ Len(arcs) \in Nat
    BY SeqElim DEF ArcsTo
<1> DEFINE r == RemoveAt(arcs, k)
<1>2. /\ IsSeq(r)
      /\ Len(r) = Len(arcs) - 1
      /\ \A i \in 1 .. Len(arcs) - 1 : r[i] = IF i < k THEN arcs[i] ELSE arcs[i + 1]
    BY <1>1, SeqRemove
<1> HIDE DEF r
<1>3. \A i \in 1 .. Len(arcs) - 1 : i \in 1 .. Len(arcs) /\ i + 1 \in 1 .. Len(arcs)
    BY <1>1
<1>4. \A i \in 1 .. Len(r) : \E j \in 1 .. Len(arcs) : r[i] = arcs[j]
    BY <1>2, <1>3
<1>5. ArcsTo(r, n)
    BY <1>2, <1>4 DEF ArcsTo
<1>6. QED
    BY <1>4, <1>5 DEF r

(***************************************************************************)
(* Appending an arc to a place.                                            *)
(***************************************************************************)
LEMMA ArcsAppend ==
    ASSUME NEW n, NEW arcs, ArcsTo(arcs, n), NEW p \in 1 .. n, NEW c
    PROVE  /\ ArcsTo(Append(arcs, <<p, c>>), n)
           /\ \A i \in 1 .. Len(Append(arcs, <<p, c>>)) :
                \/ i \in 1 .. Len(arcs) /\ Append(arcs, <<p, c>>)[i] = arcs[i]
                \/ Append(arcs, <<p, c>>)[i] = <<p, c>>
<1> DEFINE x == <<p, c>>
<1> DEFINE r == Append(arcs, x)
<1>1. IsSeq(arcs) /\ Len(arcs) \in Nat
    BY SeqElim DEF ArcsTo
<1>2. x = <<x[1], x[2]>> /\ x[1] \in 1 .. n
    OBVIOUS
<1> HIDE DEF x
<1>3. /\ IsSeq(r)
      /\ Len(r) = Len(arcs) + 1
      /\ \A i \in 1 .. Len(arcs) : r[i] = arcs[i]
      /\ r[Len(arcs) + 1] = x
    BY <1>1, SeqAppend
<1> HIDE DEF r
<1>4. \A i \in 1 .. Len(r) : (i \in 1 .. Len(arcs) /\ r[i] = arcs[i]) \/ r[i] = x
    BY <1>1, <1>3
<1>5. ArcsTo(r, n)
    BY <1>2, <1>3, <1>4 DEF ArcsTo
<1>6. QED
    BY <1>4, <1>5 DEF r, x

(***************************************************************************)
(* `removeArc' leaves the lookup as it is, which may then list too much,   *)
(* never too little.                                                       *)
(***************************************************************************)
LEMMA RemoveArcSound ==
    ASSUME NEW e, Structure(e), NEW source, NEW t \in 1 .. Len(e.transition),
           NEW sub \in DOMAIN e[ArcField(source)][t]
    PROVE  LET r == removeArc(source, t, sub, e)
           IN  Structure(r) /\ (TokensInRange(e) => TokensInRange(r))
<1> DEFINE field == ArcField(source)
<1> DEFINE arcs == e[field][t]
<1> DEFINE r == removeArc(source, t, sub, e)
<1>1. field \in {"input_n", "output_n"}
    BY DEF ArcField
<1>2. r = [e EXCEPT ![field] = [e[field] EXCEPT ![t] = RemoveAt(arcs, sub)]]
    BY DEF removeArc
<1>3. SameBut(e, r, {field, "p_to_ts_n"}) /\ r.p_to_ts_n = e.p_to_ts_n
      /\ r[field] = [e[field] EXCEPT ![t] = RemoveAt(arcs, sub)]
    BY <1>1, <1>2 DEF SameBut, EmptyDocument, Structure
<1>4. ArcsTo(arcs, Len(e.place))
    BY <1>1 DEF Structure, ArcsSound
<1>5. sub \in 1 .. Len(arcs)
    BY <1>4, SeqElim DEF ArcsTo
<1> HIDE DEF r, arcs, field
<1>6. field = "input_n" => \A j \in 1 .. Len(arcs) : t \in e.p_to_ts_n[arcs[j][1]]
    BY DEF Structure, LookupSound, arcs
<1>7. field = "input_n" => \A i \in 1 .. Len(RemoveAt(arcs, sub)) : t \in r.p_to_ts_n[RemoveAt(arcs, sub)[i][1]]
    BY <1>3, <1>4, <1>5, <1>6, ArcsRemove
<1>8. ArcsTo(RemoveAt(arcs, sub), Len(e.place))
    BY <1>4, <1>5, ArcsRemove
<1>9. IsSeq(r.p_to_ts_n) /\ Len(r.p_to_ts_n) = Len(e.place)
      /\ \A p \in 1 .. Len(e.place) : r.p_to_ts_n[p] \subseteq 1 .. Len(e.transition)
    BY <1>3 DEF Structure, PerPlace, LookupSound
<1>10. Structure(r) /\ (TokensInRange(e) => TokensInRange(r))
    BY <1>1, <1>3, <1>7, <1>8, <1>9, ArcsReplaced
<1>11. QED
    BY <1>10 DEF r

(***************************************************************************)
(* `addArc' enters the consumer in the lookup.                             *)
(***************************************************************************)
LEMMA AddArcSound ==
    ASSUME NEW e, Structure(e), NEW source \in {"Place", "Transition"}, NEW t \in 1 .. Len(e.transition),
           NEW p \in 1 .. Len(e.place), NEW color
    PROVE  LET r == addArc(source, p, t, color, e)
           IN  Structure(r) /\ (TokensInRange(e) => TokensInRange(r))
<1> DEFINE field == ArcField(source)
<1> DEFINE arcs == e[field][t]
<1> DEFINE r == addArc(source, p, t, color, e)
<1> DEFINE new == Append(arcs, <<p, color>>)
<1> DEFINE fan == IF source = "Place" THEN e.p_to_ts_n[p] \cup {t} ELSE e.p_to_ts_n[p]
<1>1. field \in {"input_n", "output_n"} /\ (field = "input_n" => source = "Place")
    BY DEF ArcField
<1>2. r = [e EXCEPT ![field] = [e[field] EXCEPT ![t] = new],
                    !.p_to_ts_n = [e.p_to_ts_n EXCEPT ![p] = fan]]
    BY <1>1 DEF addArc
<1>4. ArcsTo(arcs, Len(e.place))
    BY <1>1 DEF Structure, ArcsSound
<1>5. field = "input_n" => \A j \in 1 .. Len(arcs) : arcs[j][1] \in 1 .. Len(e.place) /\ t \in e.p_to_ts_n[arcs[j][1]]
    BY <1>4 DEF Structure, LookupSound, ArcsTo
<1>6. /\ ArcsTo(new, Len(e.place))
      /\ \A i \in 1 .. Len(new) : (i \in 1 .. Len(arcs) /\ new[i] = arcs[i]) \/ new[i] = <<p, color>>
    BY <1>4, ArcsAppend
<1>7. IsSeq(e.p_to_ts_n) /\ DOMAIN e.p_to_ts_n = 1 .. Len(e.place) /\ Len(e.p_to_ts_n) = Len(e.place)
    BY SeqElim DEF Structure, PerPlace
<1> HIDE DEF arcs, new, fan, field
<1>3. SameBut(e, r, {field, "p_to_ts_n"}) /\ r.p_to_ts_n = [e.p_to_ts_n EXCEPT ![p] = fan]
      /\ r[field] = [e[field] EXCEPT ![t] = new]
    BY <1>1, <1>2 DEF SameBut, EmptyDocument, Structure
<1> HIDE DEF r
<1>8. /\ DOMAIN r.p_to_ts_n = DOMAIN e.p_to_ts_n
      /\ r.p_to_ts_n = [q \in DOMAIN r.p_to_ts_n |-> r.p_to_ts_n[q]]
      /\ \A q \in 1 .. Len(e.place) : r.p_to_ts_n[q] = IF q = p THEN fan ELSE e.p_to_ts_n[q]
    BY <1>3, <1>7
<1>9. IsSeq(r.p_to_ts_n) /\ Len(r.p_to_ts_n) = Len(e.place)
    BY <1>7, <1>8, SeqOver
<1>10. \A q \in 1 .. Len(e.place) :
        r.p_to_ts_n[q] \subseteq 1 .. Len(e.transition) /\ e.p_to_ts_n[q] \subseteq r.p_to_ts_n[q]
    BY <1>8 DEF Structure, LookupSound, fan
<1>11. field = "input_n" => t \in r.p_to_ts_n[p]
    BY <1>1, <1>8 DEF fan
<1>12. field = "input_n" => \A i \in 1 .. Len(new) : t \in r.p_to_ts_n[new[i][1]]
    BY <1>5, <1>6, <1>10, <1>11
<1>13. Structure(r) /\ (TokensInRange(e) => TokensInRange(r))
    BY <1>1, <1>3, <1>6, <1>9, <1>10, <1>12, ArcsReplaced
<1>14. QED
    BY <1>13 DEF r

(***************************************************************************)
(* `updateArcColor' replaces an arc by one to the same place.              *)
(***************************************************************************)
LEMMA UpdateArcColorSound ==
    ASSUME NEW e, Structure(e), NEW source, NEW t \in 1 .. Len(e.transition),
           NEW sub \in DOMAIN e[ArcField(source)][t], NEW color
    PROVE  LET r == updateArcColor(source, t, sub, color, e)
           IN  Structure(r) /\ (TokensInRange(e) => TokensInRange(r))
<1> DEFINE field == ArcField(source)
<1> DEFINE arcs == e[field][t]
<1> DEFINE new == [arcs EXCEPT ![sub] = [arcs[sub] EXCEPT ![2] = color]]
<1> DEFINE r == updateArcColor(source, t, sub, color, e)
<1>1. field \in {"input_n", "output_n"}
    BY DEF ArcField
<1>2. r = [e EXCEPT ![field] = [e[field] EXCEPT ![t] = new]]
    BY DEF updateArcColor
<1>3. SameBut(e, r, {field, "p_to_ts_n"}) /\ r.p_to_ts_n = e.p_to_ts_n
      /\ r[field] = [e[field] EXCEPT ![t] = new]
    BY <1>1, <1>2 DEF SameBut, EmptyDocument, Structure
<1>4. ArcsTo(arcs, Len(e.place))
    BY <1>1 DEF Structure, ArcsSound
<1>5. IsSeq(arcs) /\ DOMAIN arcs = 1 .. Len(arcs)
    BY <1>4, SeqElim DEF ArcsTo
<1> HIDE DEF r, arcs, field
<1>6. field = "input_n" => \A j \in 1 .. Len(arcs) : t \in e.p_to_ts_n[arcs[j][1]]
    BY DEF Structure, LookupSound, arcs
<1>7. DOMAIN new = DOMAIN arcs /\ new = [i \in DOMAIN new |-> new[i]]
    BY <1>5
<1>8. IsSeq(new) /\ Len(new) = Len(arcs)
    BY <1>5, <1>7, SeqOver
<1>9. \A i \in 1 .. Len(arcs) : new[i] = <<new[i][1], new[i][2]>> /\ new[i][1] = arcs[i][1]
    <2>1. \A i \in 1 .. Len(arcs) : arcs[i] = <<arcs[i][1], arcs[i][2]>>
        BY <1>4 DEF ArcsTo
    <2>2. \A x, y : [<<x, y>> EXCEPT ![2] = color] = <<x, color>>
        OBVIOUS
    <2>3. \A i \in 1 .. Len(arcs) : new[i] = IF i = sub THEN <<arcs[i][1], color>> ELSE arcs[i]
        BY <2>1, <2>2, <1>5
    <2>4. QED
        BY <2>1, <2>3
<1> HIDE DEF new
<1>10. ArcsTo(new, Len(e.place))
    BY <1>4, <1>8, <1>9 DEF ArcsTo
<1>11. field = "input_n" => \A i \in 1 .. Len(new) : t \in r.p_to_ts_n[new[i][1]]
    BY <1>3, <1>6, <1>8, <1>9
<1>12. IsSeq(r.p_to_ts_n) /\ Len(r.p_to_ts_n) = Len(e.place)
      /\ \A p \in 1 .. Len(e.place) : r.p_to_ts_n[p] \subseteq 1 .. Len(e.transition)
    BY <1>3 DEF Structure, PerPlace, LookupSound
<1>13. Structure(r) /\ (TokensInRange(e) => TokensInRange(r))
    BY <1>1, <1>3, <1>10, <1>11, <1>12, ArcsReplaced
<1>14. QED
    BY <1>13 DEF r, arcs, field

(***************************************************************************)
(* The common part of renaming, moving and recolouring: one field gets     *)
(* other values.                                                           *)
(***************************************************************************)
LEMMA FieldReplaced ==
    ASSUME NEW e, Structure(e), NEW r,
           NEW field \in {"place", "transition", "p_positions", "t_positions", "output"},
           SameBut(e, r, {field}), DOMAIN r[field] = DOMAIN e[field],
           r[field] = [i \in DOMAIN r[field] |-> r[field][i]]
    PROVE  Structure(r) /\ (TokensInRange(e) => TokensInRange(r))
<1>1. /\ DOMAIN r = DOMAIN EmptyDocument
      /\ r.input_n = e.input_n /\ r.output_n = e.output_n /\ r.p_to_ts_n = e.p_to_ts_n
      /\ r.priority = e.priority /\ r.tokens = e.tokens
      /\ \A f \in {"place", "transition", "p_positions", "t_positions", "output"} : f # field => r[f] = e[f]
    BY DEF SameBut, EmptyDocument
<1>2. \A f \in {"place", "transition", "p_positions", "t_positions", "output"} : IsSeq(e[f])
    BY DEF Structure, PerPlace, PerTransition
<1>3. \A f \in {"place", "transition", "p_positions", "t_positions", "output"} :
        IsSeq(r[f]) /\ Len(r[f]) = Len(e[f])
    BY <1>1, <1>2, SeqOver
<1>4. IsSeq(r.priority) /\ Len(r.priority) = Len(e.priority)
      /\ \A t \in 1 .. Len(e.transition) : r.priority[t] \in -128 .. 127
    BY <1>1 DEF Structure, PerTransition, PrioritySound
<1>5. /\ IsSeq(r.place) /\ Len(r.place) = Len(e.place)
      /\ IsSeq(r.p_positions) /\ Len(r.p_positions) = Len(e.p_positions)
      /\ IsSeq(r.transition) /\ Len(r.transition) = Len(e.transition)
      /\ IsSeq(r.t_positions) /\ Len(r.t_positions) = Len(e.t_positions)
      /\ IsSeq(r.output) /\ Len(r.output) = Len(e.output)
    BY <1>3
<1>6. QED
    BY <1>1, <1>4, <1>5, ValuesReplaced

(***************************************************************************)
(* The common part of what is done to tokens.                              *)
(***************************************************************************)
LEMMA TokensReplaced ==
    ASSUME NEW e, Structure(e), NEW r, SameBut(e, r, {"tokens", "log"}),
           \A a \in DOMAIN r.tokens : a \in DOMAIN e.tokens \/ a[1] \in 1 .. Len(e.place)
    PROVE  Structure(r) /\ (TokensInRange(e) => TokensInRange(r))
<1>1. /\ DOMAIN r = DOMAIN EmptyDocument
      /\ r.input_n = e.input_n /\ r.output_n = e.output_n /\ r.p_to_ts_n = e.p_to_ts_n
      /\ r.priority = e.priority /\ r.place = e.place /\ r.transition = e.transition
      /\ r.p_positions = e.p_positions /\ r.t_positions = e.t_positions /\ r.output = e.output
    BY DEF SameBut, EmptyDocument
<1>2. QED
    BY <1>1, ValuesReplaced DEF Structure, PerPlace, PerTransition, PrioritySound

(***************************************************************************)
(* `updatePriority' converts what was typed to 8 bits.                     *)
(***************************************************************************)
LEMMA UpdatePrioritySound ==
    ASSUME NEW e, Structure(e), NEW t, NEW typed \in Int
    PROVE  LET r == updatePriority(t, typed, e)
           IN  Structure(r) /\ (TokensInRange(e) => TokensInRange(r))
<1> DEFINE r == updatePriority(t, typed, e)
<1> DEFINE n == IF typed > 127 THEN 127 ELSE IF typed < -128 THEN -128 ELSE typed
<1>1. SameBut(e, r, {"priority"}) /\ r.priority = [e.priority EXCEPT ![t] = n]
    BY DEF updatePriority, SameBut, EmptyDocument, Structure
<1>2. n \in -128 .. 127
    OBVIOUS
<1> HIDE DEF n, r
<1>3. /\ DOMAIN r = DOMAIN EmptyDocument
      /\ r.input_n = e.input_n /\ r.output_n = e.output_n /\ r.p_to_ts_n = e.p_to_ts_n
      /\ r.tokens = e.tokens /\ r.place = e.place /\ r.transition = e.transition
      /\ r.p_positions = e.p_positions /\ r.t_positions = e.t_positions /\ r.output = e.output
    BY <1>1 DEF SameBut, EmptyDocument
<1>4. IsSeq(e.priority) /\ DOMAIN e.priority = 1 .. Len(e.transition)
    BY SeqElim DEF Structure, PerTransition
<1>5. DOMAIN r.priority = DOMAIN e.priority /\ r.priority = [i \in DOMAIN r.priority |-> r.priority[i]]
    BY <1>1, <1>4
<1>6. IsSeq(r.priority) /\ Len(r.priority) = Len(e.priority)
    BY <1>4, <1>5, SeqOver
<1>7. \A u \in 1 .. Len(e.transition) : r.priority[u] \in -128 .. 127
    BY <1>1, <1>2, <1>4 DEF Structure, PrioritySound
<1>8. Structure(r) /\ (TokensInRange(e) => TokensInRange(r))
    BY <1>3, <1>6, <1>7, ValuesReplaced DEF Structure, PerPlace, PerTransition
<1>9. QED
    BY <1>8 DEF r

(***************************************************************************)
(* `updateTransitionOutputColor' changes one colour.                       *)
(***************************************************************************)
LEMMA UpdateOutputColorSound ==
    ASSUME NEW e, Structure(e), NEW t, NEW color
    PROVE  LET r == updateTransitionOutputColor(t, color, e)
           IN  Structure(r) /\ (TokensInRange(e) => TokensInRange(r))
<1> DEFINE r == updateTransitionOutputColor(t, color, e)
<1>1. SameBut(e, r, {"output"}) /\ DOMAIN r.output = DOMAIN e.output
      /\ r.output = [i \in DOMAIN r.output |-> r.output[i]]
    BY DEF updateTransitionOutputColor, SameBut, EmptyDocument, Structure
<1> HIDE DEF r
<1>2. Structure(r) /\ (TokensInRange(e) => TokensInRange(r))
    BY <1>1, FieldReplaced
<1>3. QED
    BY <1>2 DEF r

(***************************************************************************)
(* `updatePlaceName' changes one name.                                     *)
(***************************************************************************)
LEMMA UpdatePlaceNameSound ==
    ASSUME NEW e, Structure(e), NEW p, NEW name
    PROVE  LET r == updatePlaceName(p, name, e)
           IN  Structure(r) /\ (TokensInRange(e) => TokensInRange(r))
<1> DEFINE r == updatePlaceName(p, name, e)
<1>1. SameBut(e, r, {"place"}) /\ DOMAIN r.place = DOMAIN e.place
      /\ r.place = [i \in DOMAIN r.place |-> r.place[i]]
    BY DEF updatePlaceName, SameBut, EmptyDocument, Structure
<1> HIDE DEF r
<1>2. Structure(r) /\ (TokensInRange(e) => TokensInRange(r))
    BY <1>1, FieldReplaced
<1>3. QED
    BY <1>2 DEF r

(***************************************************************************)
(* `updateTransitionName' changes one name.                                *)
(***************************************************************************)
LEMMA UpdateTransitionNameSound ==
    ASSUME NEW e, Structure(e), NEW t, NEW name
    PROVE  LET r == updateTransitionName(t, name, e)
           IN  Structure(r) /\ (TokensInRange(e) => TokensInRange(r))
<1> DEFINE r == updateTransitionName(t, name, e)
<1>1. SameBut(e, r, {"transition"}) /\ DOMAIN r.transition = DOMAIN e.transition
      /\ r.transition = [i \in DOMAIN r.transition |-> r.transition[i]]
    BY DEF updateTransitionName, SameBut, EmptyDocument, Structure
<1> HIDE DEF r
<1>2. Structure(r) /\ (TokensInRange(e) => TokensInRange(r))
    BY <1>1, FieldReplaced
<1>3. QED
    BY <1>2 DEF r

(***************************************************************************)
(* `updateActiveFile' touches nothing of the net.                          *)
(***************************************************************************)
LEMMA UpdateActiveFileSound ==
    ASSUME NEW e, Structure(e), NEW file
    PROVE  LET r == updateActiveFile(file, e)
           IN  Structure(r) /\ (TokensInRange(e) => TokensInRange(r))
<1> DEFINE r == updateActiveFile(file, e)
<1>1. /\ DOMAIN r = DOMAIN EmptyDocument
      /\ r.input_n = e.input_n /\ r.output_n = e.output_n /\ r.p_to_ts_n = e.p_to_ts_n
      /\ r.priority = e.priority /\ r.place = e.place /\ r.transition = e.transition
      /\ r.p_positions = e.p_positions /\ r.t_positions = e.t_positions /\ r.output = e.output
      /\ r.tokens = e.tokens
    BY DEF updateActiveFile, EmptyDocument, Structure
<1> HIDE DEF r
<1>2. Structure(r) /\ (TokensInRange(e) => TokensInRange(r))
    BY <1>1, ValuesReplaced DEF Structure, PerPlace, PerTransition, PrioritySound
<1>3. QED
    BY <1>2 DEF r

(***************************************************************************)
(* `moveNode' changes positions.                                           *)
(***************************************************************************)
LEMMA MoveNodeSound ==
    ASSUME NEW e, Structure(e), NEW ts, NEW ps
    PROVE  LET r == moveNode(ts, ps, e)
           IN  Structure(r) /\ (TokensInRange(e) => TokensInRange(r))
<1> DEFINE m == [e EXCEPT !.t_positions =
                    [t \in DOMAIN e.t_positions |-> IF t \in ts THEN Other(e.t_positions[t]) ELSE e.t_positions[t]]]
<1> DEFINE r == moveNode(ts, ps, e)
<1>1. SameBut(e, m, {"t_positions"}) /\ DOMAIN m.t_positions = DOMAIN e.t_positions
      /\ m.t_positions = [i \in DOMAIN m.t_positions |-> m.t_positions[i]]
    BY DEF SameBut, EmptyDocument, Structure
<1>2. SameBut(m, r, {"p_positions"}) /\ DOMAIN r.p_positions = DOMAIN m.p_positions
      /\ r.p_positions = [i \in DOMAIN r.p_positions |-> r.p_positions[i]]
    BY DEF moveNode, SameBut, EmptyDocument, Structure
<1> HIDE DEF m, r
<1>3. Structure(m) /\ (TokensInRange(e) => TokensInRange(m))
    BY <1>1, FieldReplaced
<1>4. Structure(r) /\ (TokensInRange(m) => TokensInRange(r))
    BY <1>2, <1>3, FieldReplaced
<1>5. QED
    BY <1>3, <1>4 DEF r

(***************************************************************************)
(* `addTokenToPlace' adds a token at a place.                              *)
(***************************************************************************)
LEMMA AddTokenSound ==
    ASSUME NEW e, Structure(e), NEW p \in 1 .. Len(e.place), NEW color
    PROVE  LET r == addTokenToPlace(p, color, e)
           IN  Structure(r) /\ (TokensInRange(e) => TokensInRange(r))
<1> DEFINE r == addTokenToPlace(p, color, e)
<1>1. SameBut(e, r, {"tokens", "log"}) /\ r.tokens = e.tokens (+) SetToBag({<<p, color>>})
    BY DEF addTokenToPlace, SameBut, EmptyDocument, Structure
<1>2. DOMAIN (e.tokens (+) SetToBag({<<p, color>>})) = DOMAIN e.tokens \cup {<<p, color>>}
    BY DEF (+), SetToBag
<1> HIDE DEF r
<1>3. \A a \in DOMAIN r.tokens : a \in DOMAIN e.tokens \/ a[1] \in 1 .. Len(e.place)
    BY <1>1, <1>2
<1>4. Structure(r) /\ (TokensInRange(e) => TokensInRange(r))
    BY <1>1, <1>3, TokensReplaced
<1>5. QED
    BY <1>4 DEF r

(***************************************************************************)
(* `removeTokenFromPlace' adds none.                                       *)
(***************************************************************************)
LEMMA RemoveTokenSound ==
    ASSUME NEW e, Structure(e), NEW p, NEW color
    PROVE  LET r == removeTokenFromPlace(p, color, e)
           IN  Structure(r) /\ (TokensInRange(e) => TokensInRange(r))
<1> DEFINE r == removeTokenFromPlace(p, color, e)
<1>1. SameBut(e, r, {"tokens", "log"}) /\ r.tokens = e.tokens (-) SetToBag({<<p, color>>})
    BY DEF removeTokenFromPlace, SameBut, EmptyDocument, Structure
<1>2. DOMAIN (e.tokens (-) SetToBag({<<p, color>>})) \subseteq DOMAIN e.tokens
    BY DEF (-)
<1> HIDE DEF r
<1>3. \A a \in DOMAIN r.tokens : a \in DOMAIN e.tokens \/ a[1] \in 1 .. Len(e.place)
    BY <1>1, <1>2
<1>4. Structure(r) /\ (TokensInRange(e) => TokensInRange(r))
    BY <1>1, <1>3, TokensReplaced
<1>5. QED
    BY <1>4 DEF r

(***************************************************************************)
(* `tryFire' takes tokens and produces them at the ends of arcs, which are *)
(* places.                                                                 *)
(***************************************************************************)
LEMMA TryFireSound ==
    ASSUME NEW e, Structure(e), NEW t \in 1 .. Len(e.transition)
    PROVE  LET r == tryFire(t, e)
           IN  Structure(r) /\ (TokensInRange(e) => TokensInRange(r))
<1> DEFINE produced == [i \in DOMAIN e.output_n[t] |-> <<e.output_n[t][i][1], e.output[t]>>]
<1> DEFINE fired == [e EXCEPT !.tokens = (@ (-) ArcBag(e.input_n[t])) (+) ArcBag(produced),
                              !.log = Append(@, <<t, e.output[t]>>)]
<1> DEFINE r == fired
<1>1. tryFire(t, e) = IF canFire(t, e) THEN fired ELSE e
    BY DEF tryFire
<1>2. SameBut(e, r, {"tokens", "log"}) /\ r.tokens = (e.tokens (-) ArcBag(e.input_n[t])) (+) ArcBag(produced)
    BY DEF SameBut, EmptyDocument, Structure
<1>3. \A a \in DOMAIN ArcBag(produced) : a[1] \in 1 .. Len(e.place)
    <2>1. DOMAIN e.output_n[t] = 1 .. Len(e.output_n[t])
        BY SeqElim DEF Structure, ArcsSound, ArcsTo
    <2>2. \A i \in DOMAIN produced : produced[i][1] \in 1 .. Len(e.place)
        BY <2>1 DEF Structure, ArcsSound, ArcsTo
    <2>3. QED
        BY <2>2 DEF ArcBag
<1>4. DOMAIN ((e.tokens (-) ArcBag(e.input_n[t])) (+) ArcBag(produced)) \subseteq DOMAIN e.tokens \cup DOMAIN ArcBag(produced)
    BY DEF (+), (-)
<1> HIDE DEF produced
<1>5. \A a \in DOMAIN r.tokens : a \in DOMAIN e.tokens \/ a[1] \in 1 .. Len(e.place)
    BY <1>2, <1>3, <1>4
<1> HIDE DEF r
<1>6. Structure(r) /\ (TokensInRange(e) => TokensInRange(r))
    BY <1>2, <1>5, TokensReplaced
<1>7. QED
    BY <1>1, <1>6 DEF r

(***************************************************************************)
(* `addTransition' appends to all that is kept per transition.             *)
(***************************************************************************)
LEMMA AddTransitionSound ==
    ASSUME NEW e, Structure(e)
    PROVE  LET r == addTransition(e)
           IN  Structure(r) /\ (TokensInRange(e) => TokensInRange(r))
<1> DEFINE r == addTransition(e)
<1> DEFINE n == Len(e.transition)
<1> DEFINE x == [id |-> FreshId(e.transition), name |-> uniqueName(e.transition, "transition")]
<1> DEFINE empty == << >>
<1>1. /\ DOMAIN r = DOMAIN EmptyDocument
      /\ r.place = e.place /\ r.p_positions = e.p_positions /\ r.p_to_ts_n = e.p_to_ts_n
      /\ r.tokens = e.tokens
      /\ r.transition = Append(e.transition, x)
      /\ r.t_positions = Append(e.t_positions, 0)
      /\ r.input_n = Append(e.input_n, empty)
      /\ r.output_n = Append(e.output_n, empty)
      /\ r.priority = Append(e.priority, 0)
      /\ r.output = Append(e.output, "Success")
    BY DEF addTransition, Structure, EmptyDocument
<1>2. IsSeq(empty) /\ Len(empty) = 0
    BY DEF IsSeq
<1> HIDE DEF r, x, empty
<1>3. /\ IsSeq(e.transition) /\ IsSeq(e.t_positions) /\ IsSeq(e.input_n)
      /\ IsSeq(e.output_n) /\ IsSeq(e.priority) /\ IsSeq(e.output)
      /\ Len(e.t_positions) = n /\ Len(e.input_n) = n
      /\ Len(e.output_n) = n /\ Len(e.priority) = n /\ Len(e.output) = n /\ n \in Nat
    BY SeqElim DEF Structure, PerTransition
<1>4. /\ IsSeq(r.transition) /\ Len(r.transition) = n + 1
      /\ IsSeq(r.t_positions) /\ Len(r.t_positions) = n + 1
      /\ IsSeq(r.output) /\ Len(r.output) = n + 1
    <2>1. \A s, v : IsSeq(s) => IsSeq(Append(s, v)) /\ Len(Append(s, v)) = Len(s) + 1
        BY SeqAppend
    <2>2. IsSeq(r.transition) /\ Len(r.transition) = Len(e.transition) + 1
        BY <1>1, <1>3, <2>1
    <2>3. IsSeq(r.t_positions) /\ Len(r.t_positions) = Len(e.t_positions) + 1
        BY <1>1, <1>3, <2>1
    <2>4. IsSeq(r.output) /\ Len(r.output) = Len(e.output) + 1
        BY <1>1, <1>3, <2>1
    <2>5. QED
        BY <2>2, <2>3, <2>4, <1>3
<1>5. /\ IsSeq(r.input_n) /\ Len(r.input_n) = n + 1
      /\ \A t \in 1 .. n : r.input_n[t] = e.input_n[t]
      /\ r.input_n[n + 1] = empty
    <2>1. /\ IsSeq(r.input_n) /\ Len(r.input_n) = Len(e.input_n) + 1
          /\ \A t \in 1 .. Len(e.input_n) : r.input_n[t] = e.input_n[t]
          /\ r.input_n[Len(e.input_n) + 1] = empty
        BY <1>1, <1>3, SeqAppend, SMTT(60), ZenonT(60)
    <2>2. QED
        BY <2>1, <1>3
<1>6. /\ IsSeq(r.output_n) /\ Len(r.output_n) = n + 1
      /\ \A t \in 1 .. n : r.output_n[t] = e.output_n[t]
      /\ r.output_n[n + 1] = empty
    <2>1. /\ IsSeq(r.output_n) /\ Len(r.output_n) = Len(e.output_n) + 1
          /\ \A t \in 1 .. Len(e.output_n) : r.output_n[t] = e.output_n[t]
          /\ r.output_n[Len(e.output_n) + 1] = empty
        BY <1>1, <1>3, SeqAppend
    <2>2. QED
        BY <2>1, <1>3
<1>7. /\ IsSeq(r.priority) /\ Len(r.priority) = n + 1
      /\ \A t \in 1 .. n : r.priority[t] = e.priority[t]
      /\ r.priority[n + 1] = 0
    <2>1. /\ IsSeq(r.priority) /\ Len(r.priority) = Len(e.priority) + 1
          /\ \A t \in 1 .. Len(e.priority) : r.priority[t] = e.priority[t]
          /\ r.priority[Len(e.priority) + 1] = 0
        BY <1>1, <1>3, SeqAppend
    <2>2. QED
        BY <2>1, <1>3
<1>8. PerTransition(r)
    BY <1>4, <1>5, <1>6, <1>7 DEF PerTransition
<1>9. PerPlace(r)
    BY <1>1 DEF Structure, PerPlace
<1>10. \A t \in 1 .. n + 1 : t \in 1 .. n \/ t = n + 1
    BY <1>3
<1>11. ArcsSound(r)
    <2>1. ArcsTo(empty, Len(e.place))
        BY <1>2 DEF ArcsTo
    <2>2. QED
        BY <2>1, <1>1, <1>4, <1>5, <1>6, <1>10 DEF Structure, ArcsSound
<1>12. LookupSound(r)
    <2>1. \A p \in 1 .. Len(r.place) : r.p_to_ts_n[p] \subseteq 1 .. Len(r.transition)
        <3>1. 1 .. n \subseteq 1 .. n + 1
            BY <1>3
        <3>2. QED
            BY <3>1, <1>1, <1>4 DEF Structure, LookupSound
    <2>2. \A t \in 1 .. n + 1 : \A i \in 1 .. Len(r.input_n[t]) : t \in 1 .. n /\ r.input_n[t] = e.input_n[t]
        BY <1>2, <1>5, <1>10
    <2>3. \A t \in 1 .. Len(r.transition) : \A i \in 1 .. Len(r.input_n[t]) :
            t \in r.p_to_ts_n[r.input_n[t][i][1]]
        BY <2>2, <1>1, <1>4 DEF Structure, LookupSound
    <2>4. QED
        BY <2>1, <2>3 DEF LookupSound
<1>13. PrioritySound(r)
    <2>1. \A t \in 1 .. n : r.priority[t] \in -128 .. 127
        BY <1>7 DEF Structure, PrioritySound
    <2>2. \A t \in 1 .. n + 1 : r.priority[t] \in -128 .. 127
        <3>1. 0 \in -128 .. 127
            OBVIOUS
        <3>2. ASSUME NEW t \in 1 .. n + 1
              PROVE  r.priority[t] \in -128 .. 127
            <4>1. CASE t \in 1 .. n
                BY <4>1, <2>1
            <4>2. CASE t = n + 1
                BY <4>2, <3>1, <1>7
            <4>3. QED
                BY <4>1, <4>2, <1>10
        <3>3. QED
            BY <3>2
    <2>3. QED
        BY <2>2, <1>4 DEF PrioritySound
<1>14. TokensInRange(e) => TokensInRange(r)
    BY <1>1 DEF TokensInRange
<1>15. QED
    BY <1>1, <1>8, <1>9, <1>11, <1>12, <1>13, <1>14 DEF Structure, r

(***************************************************************************)
(* What is left of a list of arcs when place p goes: the arcs to other     *)
(* places, with the places behind p moved up by one.                       *)
(***************************************************************************)
LEMMA ReindexArcsFacts ==
    ASSUME NEW n \in Nat, NEW arcs, ArcsTo(arcs, n), NEW p \in 1 .. n
    PROVE  /\ ArcsTo(ReindexArcs(arcs, p), n - 1)
           /\ \A k \in 1 .. Len(ReindexArcs(arcs, p)) : \E i \in 1 .. Len(arcs) :
                arcs[i][1] # p /\ ReindexArcs(arcs, p)[k][1] = Down(arcs[i][1], p)
<1> DEFINE one(i) == IF arcs[i][1] = p THEN << >> ELSE << <<Down(arcs[i][1], p), arcs[i][2]>> >>
<1> DEFINE ss == [i \in DOMAIN arcs |-> one(i)]
<1> DEFINE r == FlattenSeq(ss)
<1>1. IsSeq(arcs) /\ Len(arcs) \in Nat /\ DOMAIN arcs = 1 .. Len(arcs)
    BY SeqElim DEF ArcsTo
<1>2. DOMAIN ss = DOMAIN arcs /\ ss = [i \in DOMAIN ss |-> ss[i]]
    OBVIOUS
<1>3. IsSeq(ss) /\ Len(ss) = Len(arcs)
    BY <1>1, <1>2, SeqOver
<1>4. \A i \in 1 .. Len(arcs) : IsSeq(ss[i])
    <2>1. \A x : IsSeq(<<x>>)
        BY DEF IsSeq
    <2>2. IsSeq(<< >>)
        BY DEF IsSeq
    <2>3. QED
        BY <2>1, <2>2, <1>1
<1>5. \A i \in 1 .. Len(arcs) : \A j \in 1 .. Len(ss[i]) :
        arcs[i][1] # p /\ ss[i][j] = <<Down(arcs[i][1], p), arcs[i][2]>>
    BY <1>1
<1>6. ReindexArcs(arcs, p) = r
    BY DEF ReindexArcs
<1> HIDE DEF ss
<1>7. DrawnFrom(r, ss)
    BY <1>3, <1>4, Flatten
<1> HIDE DEF r
<1>8. IsSeq(r) /\ \A k \in 1 .. Len(r) : \E i \in 1 .. Len(arcs) :
        arcs[i][1] # p /\ r[k] = <<Down(arcs[i][1], p), arcs[i][2]>>
    <2>1. IsSeq(r) /\ \A k \in 1 .. Len(r) : \E i \in 1 .. Len(arcs) : \E j \in 1 .. Len(ss[i]) : r[k] = ss[i][j]
        BY <1>3, <1>7 DEF DrawnFrom
    <2>2. ASSUME NEW k \in 1 .. Len(r)
          PROVE  \E i \in 1 .. Len(arcs) : arcs[i][1] # p /\ r[k] = <<Down(arcs[i][1], p), arcs[i][2]>>
        <3>1. PICK i \in 1 .. Len(arcs) : \E j \in 1 .. Len(ss[i]) : r[k] = ss[i][j]
            BY <2>1
        <3>2. PICK j \in 1 .. Len(ss[i]) : r[k] = ss[i][j]
            BY <3>1
        <3>3. QED
            BY <1>5, <3>2
    <2>3. QED
        BY <2>1, <2>2
<1>9. \A k \in 1 .. Len(r) : \E i \in 1 .. Len(arcs) : arcs[i][1] # p /\ r[k][1] = Down(arcs[i][1], p)
    BY <1>8
<1>10. \A q \in 1 .. n : q # p => Down(q, p) \in 1 .. n - 1
    BY DEF Down
<1>11. \A i \in 1 .. Len(arcs) : arcs[i][1] \in 1 .. n
    BY DEF ArcsTo
<1>12. \A k \in 1 .. Len(r) : r[k] = <<r[k][1], r[k][2]>>
    BY <1>8
<1>13. ArcsTo(r, n - 1)
    BY <1>8, <1>9, <1>10, <1>11, <1>12 DEF ArcsTo
<1>14. QED
    BY <1>6, <1>9, <1>13

(***************************************************************************)
(* `removePlace': the entry of the place goes from everything that is kept *)
(* per place, arcs and tokens at it go too, and every index behind it      *)
(* moves up (reducers.cpp).                                                *)
(***************************************************************************)
LEMMA RemovePlaceSound ==
    ASSUME NEW e, Structure(e), NEW p \in 1 .. Len(e.place)
    PROVE  LET r == removePlace(p, e)
           IN  Structure(r) /\ (TokensInRange(e) => TokensInRange(r))
<1> DEFINE r == removePlace(p, e)
<1> DEFINE n == Len(e.place)
<1>1. /\ IsSeq(e.place) /\ IsSeq(e.p_positions) /\ IsSeq(e.p_to_ts_n)
      /\ Len(e.p_positions) = n /\ Len(e.p_to_ts_n) = n /\ n \in Nat /\ DOMAIN e.place = 1 .. n
    BY SeqElim DEF Structure, PerPlace
<1>2. /\ IsSeq(e.input_n) /\ DOMAIN e.input_n = 1 .. Len(e.transition) /\ Len(e.input_n) = Len(e.transition)
      /\ IsSeq(e.output_n) /\ DOMAIN e.output_n = 1 .. Len(e.transition) /\ Len(e.output_n) = Len(e.transition)
    BY SeqElim DEF Structure, PerTransition
<1>3. /\ DOMAIN r = DOMAIN EmptyDocument
      /\ r.place = RemoveAt(e.place, p)
      /\ r.p_positions = RemoveAt(e.p_positions, p)
      /\ r.p_to_ts_n = RemoveAt(e.p_to_ts_n, p)
      /\ r.tokens = ReindexTokens(e.tokens, p)
      /\ r.input_n = [t \in DOMAIN e.input_n |-> ReindexArcs(e.input_n[t], p)]
      /\ r.output_n = [t \in DOMAIN e.output_n |-> ReindexArcs(e.output_n[t], p)]
      /\ r.transition = e.transition /\ r.t_positions = e.t_positions
      /\ r.priority = e.priority /\ r.output = e.output
    BY <1>1 DEF removePlace, Structure, EmptyDocument
<1> HIDE DEF r
<1>4. \A f \in {"place", "p_positions", "p_to_ts_n"} :
        IsSeq(e[f]) /\ Len(e[f]) = n /\ r[f] = RemoveAt(e[f], p)
    BY <1>1, <1>3
<1>5. ASSUME NEW f \in {"place", "p_positions", "p_to_ts_n"}
      PROVE  /\ IsSeq(r[f]) /\ Len(r[f]) = n - 1
             /\ \A q \in 1 .. n - 1 : r[f][q] = IF q < p THEN e[f][q] ELSE e[f][q + 1]
    <2>1. IsSeq(e[f]) /\ Len(e[f]) = n /\ r[f] = RemoveAt(e[f], p)
        BY <1>4
    <2>2. p \in 1 .. Len(e[f])
        BY <2>1
    <2>3. /\ IsSeq(RemoveAt(e[f], p))
          /\ Len(RemoveAt(e[f], p)) = Len(e[f]) - 1
          /\ \A q \in 1 .. Len(e[f]) - 1 : RemoveAt(e[f], p)[q] = IF q < p THEN e[f][q] ELSE e[f][q + 1]
        BY <2>1, <2>2, SeqRemove
    <2>4. QED
        BY <2>1, <2>3
<1>14. Len(r.place) = n - 1
    BY <1>5
<1>6. PerPlace(r)
    BY <1>5 DEF PerPlace
<1>7. PerTransition(r) /\ PrioritySound(r)
    <2>1. /\ DOMAIN r.input_n = DOMAIN e.input_n /\ r.input_n = [i \in DOMAIN r.input_n |-> r.input_n[i]]
          /\ DOMAIN r.output_n = DOMAIN e.output_n /\ r.output_n = [i \in DOMAIN r.output_n |-> r.output_n[i]]
        BY <1>3
    <2>2. /\ IsSeq(r.input_n) /\ Len(r.input_n) = Len(e.transition)
          /\ IsSeq(r.output_n) /\ Len(r.output_n) = Len(e.transition)
        BY <2>1, <1>2, SeqOver
    <2>3. QED
        BY <2>2, <1>3 DEF Structure, PerTransition, PrioritySound
<1>8. \A t \in 1 .. Len(e.transition) :
        /\ ArcsTo(e.input_n[t], n) /\ ArcsTo(e.output_n[t], n)
        /\ r.input_n[t] = ReindexArcs(e.input_n[t], p)
        /\ r.output_n[t] = ReindexArcs(e.output_n[t], p)
    BY <1>2, <1>3 DEF Structure, ArcsSound
<1>9. \A t \in 1 .. Len(e.transition) :
        /\ ArcsTo(r.input_n[t], n - 1)
        /\ ArcsTo(r.output_n[t], n - 1)
        /\ \A k \in 1 .. Len(r.input_n[t]) : \E i \in 1 .. Len(e.input_n[t]) :
                e.input_n[t][i][1] # p /\ r.input_n[t][k][1] = Down(e.input_n[t][i][1], p)
    <2>1. ASSUME NEW t \in 1 .. Len(e.transition)
          PROVE  /\ ArcsTo(r.input_n[t], n - 1)
                 /\ ArcsTo(r.output_n[t], n - 1)
                 /\ \A k \in 1 .. Len(r.input_n[t]) : \E i \in 1 .. Len(e.input_n[t]) :
                        e.input_n[t][i][1] # p /\ r.input_n[t][k][1] = Down(e.input_n[t][i][1], p)
        <3> DEFINE arcs == e.input_n[t]
        <3> DEFINE kept == r.input_n[t]
        <3>1. ArcsTo(arcs, n) /\ ArcsTo(e.output_n[t], n) /\ n \in Nat /\ p \in 1 .. n
            BY <1>1, <1>8
        <3>2. kept = ReindexArcs(arcs, p) /\ r.output_n[t] = ReindexArcs(e.output_n[t], p)
            BY <1>8
        <3> HIDE DEF n, r, arcs, kept
        <3>3. ArcsTo(r.output_n[t], n - 1)
            BY <3>1, <3>2, ReindexArcsFacts
        <3>4. /\ ArcsTo(ReindexArcs(arcs, p), n - 1)
              /\ \A k \in 1 .. Len(ReindexArcs(arcs, p)) : \E i \in 1 .. Len(arcs) :
                    arcs[i][1] # p /\ ReindexArcs(arcs, p)[k][1] = Down(arcs[i][1], p)
            BY <3>1, ReindexArcsFacts
        <3>5. /\ ArcsTo(kept, n - 1)
              /\ \A k \in 1 .. Len(kept) : \E i \in 1 .. Len(arcs) :
                    arcs[i][1] # p /\ kept[k][1] = Down(arcs[i][1], p)
            BY <3>2, <3>4
        <3>6. QED
            BY <3>3, <3>5 DEF kept, arcs
    <2>2. QED
        BY <2>1
<1>10. ArcsSound(r)
    BY <1>3, <1>14, <1>9 DEF ArcsSound
<1>11. LookupSound(r)
    <2>1. \A q \in 1 .. n - 1 : q \in 1 .. n /\ q + 1 \in 1 .. n
        BY <1>1
    <2>2. \A q \in 1 .. Len(r.place) : r.p_to_ts_n[q] \subseteq 1 .. Len(r.transition)
        <3>1. \A q \in 1 .. n - 1 : r.p_to_ts_n[q] = IF q < p THEN e.p_to_ts_n[q] ELSE e.p_to_ts_n[q + 1]
            BY <1>5
        <3>2. \A q \in 1 .. n : e.p_to_ts_n[q] \subseteq 1 .. Len(e.transition)
            BY DEF Structure, LookupSound
        <3>3. \A q \in 1 .. n - 1 : r.p_to_ts_n[q] \subseteq 1 .. Len(e.transition)
            BY <2>1, <3>1, <3>2
        <3>4. QED
            BY <3>3, <1>3, <1>14
    <2>3. \A q \in 1 .. n : q # p => r.p_to_ts_n[Down(q, p)] = e.p_to_ts_n[q]
        BY <1>1, <1>5 DEF Down
    <2>4. \A t \in 1 .. Len(e.transition) : \A i \in 1 .. Len(e.input_n[t]) :
            e.input_n[t][i][1] \in 1 .. n /\ t \in e.p_to_ts_n[e.input_n[t][i][1]]
        BY DEF Structure, ArcsSound, ArcsTo, LookupSound
    <2>5. \A t \in 1 .. Len(e.transition) : \A k \in 1 .. Len(r.input_n[t]) :
            t \in r.p_to_ts_n[r.input_n[t][k][1]]
        <3>1. ASSUME NEW t \in 1 .. Len(e.transition), NEW k \in 1 .. Len(r.input_n[t])
              PROVE  t \in r.p_to_ts_n[r.input_n[t][k][1]]
            <4>1. PICK i \in 1 .. Len(e.input_n[t]) :
                    e.input_n[t][i][1] # p /\ r.input_n[t][k][1] = Down(e.input_n[t][i][1], p)
                BY <1>9
            <4>2. QED
                BY <4>1, <2>3, <2>4
        <3>2. QED
            BY <3>1
    <2>6. QED
        BY <2>2, <2>5, <1>3 DEF LookupSound
<1>12. TokensInRange(e) => TokensInRange(r)
    <2>1. DOMAIN r.place = 1 .. n - 1
        BY <1>5, SeqElim
    <2>2. DOMAIN r.tokens = {<<Down(b[1], p), b[2]>> : b \in {b \in DOMAIN e.tokens : b[1] # p}}
        BY <1>3 DEF ReindexTokens
    <2>3. \A q \in 1 .. n : q # p => Down(q, p) \in 1 .. n - 1
        BY <1>1 DEF Down
    <2>4. QED
        BY <2>1, <2>2, <2>3, <1>1 DEF TokensInRange, BagToSet
<1>13. QED
    BY <1>3, <1>6, <1>7, <1>10, <1>11, <1>12 DEF Structure, r

(***************************************************************************)
(* `removeTransition': its entries go, and in the lookup the transitions   *)
(* behind it move up.                                                      *)
(***************************************************************************)
LEMMA RemoveTransitionSound ==
    ASSUME NEW e, Structure(e), NEW t \in 1 .. Len(e.transition)
    PROVE  LET r == removeTransition(t, e)
           IN  Structure(r) /\ (TokensInRange(e) => TokensInRange(r))
<1> DEFINE r == removeTransition(t, e)
<1> DEFINE n == Len(e.transition)
<1>1. /\ IsSeq(e.transition) /\ IsSeq(e.t_positions) /\ IsSeq(e.input_n)
      /\ IsSeq(e.output_n) /\ IsSeq(e.priority) /\ IsSeq(e.output)
      /\ Len(e.t_positions) = n /\ Len(e.input_n) = n
      /\ Len(e.output_n) = n /\ Len(e.priority) = n /\ Len(e.output) = n /\ n \in Nat
      /\ DOMAIN e.transition = 1 .. n
    BY SeqElim DEF Structure, PerTransition
<1>2. IsSeq(e.p_to_ts_n) /\ DOMAIN e.p_to_ts_n = 1 .. Len(e.place) /\ Len(e.p_to_ts_n) = Len(e.place)
    BY SeqElim DEF Structure, PerPlace
<1>3. /\ DOMAIN r = DOMAIN EmptyDocument
      /\ r.place = e.place /\ r.p_positions = e.p_positions /\ r.tokens = e.tokens
      /\ r.p_to_ts_n = [p \in DOMAIN e.p_to_ts_n |-> {Down(u, t) : u \in e.p_to_ts_n[p] \ {t}}]
      /\ r.transition = RemoveAt(e.transition, t)
      /\ r.t_positions = RemoveAt(e.t_positions, t)
      /\ r.input_n = RemoveAt(e.input_n, t)
      /\ r.output_n = RemoveAt(e.output_n, t)
      /\ r.priority = RemoveAt(e.priority, t)
      /\ r.output = RemoveAt(e.output, t)
    BY <1>1 DEF removeTransition, Structure, EmptyDocument
<1> HIDE DEF r
<1> DEFINE Fields == {"transition", "t_positions", "input_n", "output_n", "priority", "output"}
<1>4. \A f \in Fields : IsSeq(e[f]) /\ Len(e[f]) = n /\ r[f] = RemoveAt(e[f], t)
    BY <1>1, <1>3
<1>5. ASSUME NEW f \in Fields
      PROVE  /\ IsSeq(r[f]) /\ Len(r[f]) = n - 1
             /\ \A u \in 1 .. n - 1 : r[f][u] = IF u < t THEN e[f][u] ELSE e[f][u + 1]
    <2>1. IsSeq(e[f]) /\ Len(e[f]) = n /\ r[f] = RemoveAt(e[f], t)
        BY <1>4
    <2>2. t \in 1 .. Len(e[f])
        BY <2>1
    <2>3. /\ IsSeq(RemoveAt(e[f], t))
          /\ Len(RemoveAt(e[f], t)) = Len(e[f]) - 1
          /\ \A u \in 1 .. Len(e[f]) - 1 : RemoveAt(e[f], t)[u] = IF u < t THEN e[f][u] ELSE e[f][u + 1]
        BY <2>1, <2>2, SeqRemove
    <2>4. QED
        BY <2>1, <2>3
<1>6. Len(r.transition) = n - 1
    BY <1>5
<1>8. PerTransition(r)
    BY <1>5 DEF PerTransition
<1>9. PerPlace(r)
    <2>1. DOMAIN r.p_to_ts_n = DOMAIN e.p_to_ts_n /\ r.p_to_ts_n = [p \in DOMAIN r.p_to_ts_n |-> r.p_to_ts_n[p]]
        BY <1>3
    <2>2. IsSeq(r.p_to_ts_n) /\ Len(r.p_to_ts_n) = Len(e.place)
        BY <2>1, <1>2, SeqOver
    <2>3. QED
        BY <2>2, <1>3 DEF Structure, PerPlace
<1>10. \A u \in 1 .. n - 1 : /\ Up(u, t) \in 1 .. n /\ Up(u, t) # t /\ Down(Up(u, t), t) = u
                            /\ r.input_n[u] = e.input_n[Up(u, t)]
                            /\ r.output_n[u] = e.output_n[Up(u, t)]
                            /\ r.priority[u] = e.priority[Up(u, t)]
    <2>1. ASSUME NEW u \in 1 .. n - 1
          PROVE  Up(u, t) \in 1 .. n /\ Up(u, t) # t /\ Down(Up(u, t), t) = u
        BY <1>1 DEF Up, Down
    <2>2. ASSUME NEW u \in 1 .. n - 1, NEW f \in Fields
          PROVE  r[f][u] = e[f][Up(u, t)]
        <3>1. r[f][u] = IF u < t THEN e[f][u] ELSE e[f][u + 1]
            BY <1>5
        <3>2. Up(u, t) = IF u < t THEN u ELSE u + 1
            BY <1>1 DEF Up
        <3>3. QED
            BY <3>1, <3>2
    <2>3. QED
        BY <2>1, <2>2
<1>11. ArcsSound(r)
    BY <1>3, <1>6, <1>10 DEF Structure, ArcsSound
<1>12. PrioritySound(r)
    BY <1>6, <1>10 DEF Structure, PrioritySound
<1>13. LookupSound(r)
    <2>1. \A u \in 1 .. n : u # t => Down(u, t) \in 1 .. n - 1
        BY <1>1 DEF Down
    <2>2. \A p \in 1 .. Len(e.place) : r.p_to_ts_n[p] = {Down(u, t) : u \in e.p_to_ts_n[p] \ {t}}
        BY <1>2, <1>3
    <2>3. \A p \in 1 .. Len(r.place) : r.p_to_ts_n[p] \subseteq 1 .. Len(r.transition)
        BY <2>1, <2>2, <1>3, <1>6 DEF Structure, LookupSound
    <2>4. \A u \in 1 .. n : \A i \in 1 .. Len(e.input_n[u]) :
            e.input_n[u][i][1] \in 1 .. Len(e.place) /\ u \in e.p_to_ts_n[e.input_n[u][i][1]]
        BY DEF Structure, ArcsSound, ArcsTo, LookupSound
    <2>5. ASSUME NEW u \in 1 .. n - 1, NEW i \in 1 .. Len(r.input_n[u])
          PROVE  u \in r.p_to_ts_n[r.input_n[u][i][1]]
        <3> DEFINE w == Up(u, t)
        <3> DEFINE q == e.input_n[w][i][1]
        <3>1. w \in 1 .. n /\ w # t /\ Down(w, t) = u /\ r.input_n[u] = e.input_n[w]
            BY <1>10
        <3>2. q \in 1 .. Len(e.place) /\ w \in e.p_to_ts_n[q]
            BY <3>1, <2>4
        <3> HIDE DEF w
        <3>3. Down(w, t) \in r.p_to_ts_n[q]
            BY <3>1, <3>2, <2>2
        <3>4. QED
            BY <3>1, <3>3
    <2>6. QED
        BY <2>3, <2>5, <1>6 DEF LookupSound
<1>14. TokensInRange(e) => TokensInRange(r)
    BY <1>3 DEF TokensInRange
<1>15. QED
    BY <1>3, <1>8, <1>9, <1>11, <1>12, <1>13, <1>14 DEF Structure, r

(***************************************************************************)
(* What a parsed net must be for the installers: as a document, but with   *)
(* names for nodes and without a lookup.                                   *)
(***************************************************************************)
ParsedSound(p) ==
    /\ IsSeq(p.place)
    /\ IsSeq(p.p_positions) /\ Len(p.p_positions) = Len(p.place)
    /\ IsSeq(p.transition)
    /\ IsSeq(p.t_positions) /\ Len(p.t_positions) = Len(p.transition)
    /\ IsSeq(p.input_n) /\ Len(p.input_n) = Len(p.transition)
    /\ IsSeq(p.output_n) /\ Len(p.output_n) = Len(p.transition)
    /\ IsSeq(p.priority) /\ Len(p.priority) = Len(p.transition)
    /\ IsSeq(p.output) /\ Len(p.output) = Len(p.transition)
    /\ ArcsSound(p)
    /\ PrioritySound(p)

(***************************************************************************)
(* Its tokens are at its places.                                           *)
(***************************************************************************)
MarksInRange(p) == \A a \in DOMAIN p.tokens : a[1] \in 1 .. Len(p.place)

(***************************************************************************)
(* The arcs that are read are arcs of the file.                            *)
(***************************************************************************)
LEMMA ArcsFacts ==
    ASSUME NEW file, WellFormed(file)
    PROVE  /\ IsSeq(Arcs(file))
           /\ \A k \in 1 .. Len(Arcs(file)) : \E i \in 1 .. Len(file.arcs) : Arcs(file)[k] = file.arcs[i]
<1> DEFINE ss == [i \in DOMAIN file.arcs |-> [k \in 1 .. file.arcs[i].times |-> file.arcs[i]]]
<1>1. IsSeq(file.arcs) /\ DOMAIN file.arcs = 1 .. Len(file.arcs)
    BY SeqElim DEF WellFormed
<1>2. DOMAIN ss = DOMAIN file.arcs /\ ss = [i \in DOMAIN ss |-> ss[i]]
    OBVIOUS
<1>3. IsSeq(ss) /\ Len(ss) = Len(file.arcs)
    BY <1>1, <1>2, SeqOver
<1>4. ASSUME NEW i \in 1 .. Len(ss)
      PROVE  IsSeq(ss[i]) /\ \A j \in 1 .. Len(ss[i]) : ss[i][j] = file.arcs[i]
    <2> DEFINE times == file.arcs[i].times
    <2> DEFINE n == IF times > 0 THEN times ELSE 0
    <2>0. times \in Int /\ ss[i] = [k \in 1 .. times |-> file.arcs[i]]
        BY <1>1, <1>3 DEF WellFormed
    <2> HIDE DEF times, ss
    <2>1. n \in Nat /\ ss[i] = [k \in 1 .. n |-> file.arcs[i]]
        <3>1. n \in Nat /\ 1 .. times = 1 .. n
            BY <2>0
        <3> HIDE DEF n
        <3>2. QED
            BY <2>0, <3>1
    <2> HIDE DEF n
    <2>2. ss[i] = [k \in 1 .. n |-> ss[i][k]]
        BY <2>1
    <2>3. IsSeq(ss[i]) /\ Len(ss[i]) = n
        BY <2>1, <2>2, SeqIntro
    <2>4. QED
        BY <2>1, <2>3
<1>5. Arcs(file) = FlattenSeq(ss)
    BY DEF Arcs
<1> HIDE DEF ss
<1>6. DrawnFrom(FlattenSeq(ss), ss)
    BY <1>3, <1>4, Flatten
<1>7. QED
    BY <1>3, <1>4, <1>5, <1>6 DEF DrawnFrom

(***************************************************************************)
(* Finitely many transitions are read, with lists of arcs whose places are *)
(* the ends of arcs of the file.                                           *)
(***************************************************************************)
LEMMA NetInFacts ==
    ASSUME NEW file, WellFormed(file)
    PROVE  /\ IsFiniteSet(DOMAIN NetIn(file))
           /\ \A t \in DOMAIN NetIn(file) : \A side \in {"first", "second"} :
                /\ IsSeq(NetIn(file)[t][side])
                /\ \A k \in 1 .. Len(NetIn(file)[t][side]) : \E i \in 1 .. Len(Arcs(file)) :
                        NetIn(file)[t][side][k] = <<PlaceEnd(file, Arcs(file)[i]), Arcs(file)[i].color>>
<1> DEFINE arcs == Arcs(file)
<1> DEFINE parts(t, consumes) == [i \in DOMAIN arcs |->
            IF Owner(file, arcs[i]) = t /\ (Consumes(file, arcs[i]) <=> consumes)
            THEN << <<PlaceEnd(file, arcs[i]), arcs[i].color>> >> ELSE << >>]
<1>1. /\ IsSeq(arcs) /\ DOMAIN arcs = 1 .. Len(arcs) /\ Len(arcs) \in Nat
    BY ArcsFacts, SeqElim
<1>2. /\ DOMAIN NetIn(file) = {Owner(file, arcs[i]) : i \in DOMAIN arcs}
      /\ \A t \in DOMAIN NetIn(file) :
            /\ NetIn(file)[t]["first"] = FlattenSeq(parts(t, TRUE))
            /\ NetIn(file)[t]["second"] = FlattenSeq(parts(t, FALSE))
    BY DEF NetIn
<1> HIDE DEF arcs
<1>3. IsFiniteSet(DOMAIN NetIn(file))
    <2> DEFINE f == [i \in 1 .. Len(arcs) |-> Owner(file, arcs[i])]
    <2>1. IsFiniteSet({f[i] : i \in 1 .. Len(arcs)})
        <3> HIDE DEF f
        <3>1. QED
            BY <1>1, FiniteImage
    <2>2. {f[i] : i \in 1 .. Len(arcs)} = DOMAIN NetIn(file)
        BY <1>1, <1>2
    <2>3. QED
        BY <2>1, <2>2
<1> DEFINE End(i) == <<PlaceEnd(file, arcs[i]), arcs[i].color>>
<1>4. ASSUME NEW t, NEW consumes \in BOOLEAN
      PROVE  /\ IsSeq(FlattenSeq(parts(t, consumes)))
             /\ \A k \in 1 .. Len(FlattenSeq(parts(t, consumes))) : \E i \in 1 .. Len(arcs) :
                    FlattenSeq(parts(t, consumes))[k] = End(i)
    <2> DEFINE ss == parts(t, consumes)
    <2>1. DOMAIN ss = DOMAIN arcs /\ ss = [i \in DOMAIN ss |-> ss[i]]
        OBVIOUS
    <2>2. IsSeq(ss) /\ Len(ss) = Len(arcs)
        BY <1>1, <2>1, SeqOver
    <2>3. \A i \in 1 .. Len(ss) : IsSeq(ss[i])
        <3>1. \A x : IsSeq(<<x>>)
            BY DEF IsSeq
        <3>2. IsSeq(<< >>)
            BY DEF IsSeq
        <3>3. QED
            BY <3>1, <3>2, <2>2, <1>1
    <2>4. \A i \in 1 .. Len(ss) : \A j \in 1 .. Len(ss[i]) : ss[i][j] = End(i)
        BY <1>1, <2>2
    <2> HIDE DEF ss, End
    <2>5. DrawnFrom(FlattenSeq(ss), ss)
        BY <2>2, <2>3, Flatten
    <2>6. \A k \in 1 .. Len(FlattenSeq(ss)) : \E i \in 1 .. Len(arcs) : FlattenSeq(ss)[k] = End(i)
        <3>1. ASSUME NEW k \in 1 .. Len(FlattenSeq(ss))
              PROVE  \E i \in 1 .. Len(arcs) : FlattenSeq(ss)[k] = End(i)
            <4>1. PICK i \in 1 .. Len(ss) : \E j \in 1 .. Len(ss[i]) : FlattenSeq(ss)[k] = ss[i][j]
                BY <2>5 DEF DrawnFrom
            <4>2. FlattenSeq(ss)[k] = End(i)
                BY <4>1, <2>4
            <4>3. QED
                BY <4>2, <2>2
        <3>2. QED
            BY <3>1
    <2>7. QED
        BY <2>5, <2>6 DEF DrawnFrom, ss
<1> DEFINE Sound(s) ==
        /\ IsSeq(s)
        /\ \A k \in 1 .. Len(s) : \E i \in 1 .. Len(arcs) : s[k] = End(i)
<1> HIDE DEF parts, End
<1>5. \A t : Sound(FlattenSeq(parts(t, TRUE))) /\ Sound(FlattenSeq(parts(t, FALSE)))
    <2>1. ASSUME NEW t, NEW consumes \in BOOLEAN
          PROVE  Sound(FlattenSeq(parts(t, consumes)))
        BY <1>4
    <2>2. QED
        BY <2>1
<1> HIDE DEF Sound
<1>6. \A t \in DOMAIN NetIn(file) : Sound(NetIn(file)[t]["first"]) /\ Sound(NetIn(file)[t]["second"])
    BY <1>2, <1>5
<1>7. \A t \in DOMAIN NetIn(file) : \A side \in {"first", "second"} : Sound(NetIn(file)[t][side])
    BY <1>6
<1>8. QED
    BY <1>3, <1>7 DEF Sound, End, arcs

(***************************************************************************)
(* The list of places has every place at which an arc ends, so that        *)
(* `toIndex' finds it.                                                     *)
(***************************************************************************)
LEMMA PlacesFacts ==
    ASSUME NEW file, WellFormed(file)
    PROVE  /\ IsSeq(PlacesIn(file))
           /\ \A i \in 1 .. Len(Arcs(file)) :
                toIndex(PlacesIn(file), PlaceEnd(file, Arcs(file)[i])) \in 1 .. Len(PlacesIn(file))
<1> DEFINE arcs == Arcs(file)
<1>1. DOMAIN arcs = 1 .. Len(arcs) /\ Len(arcs) \in Nat
    BY ArcsFacts, SeqElim
<1> DEFINE f == [i \in 1 .. Len(arcs) |-> PlaceEnd(file, arcs[i])]
<1> DEFINE S == {f[i] : i \in 1 .. Len(arcs)}
<1>2. PlacesIn(file) = SetToSeq(S)
    BY <1>1 DEF PlacesIn
<1>3. \A i \in 1 .. Len(arcs) : PlaceEnd(file, arcs[i]) \in S
    OBVIOUS
<1> HIDE DEF f, arcs
<1>4. IsFiniteSet(S)
    BY <1>1, FiniteImage
<1> HIDE DEF S
<1>5. IsSeq(SetToSeq(S)) /\ \A x \in S : \E k \in 1 .. Len(SetToSeq(S)) : SetToSeq(S)[k] = x
    BY <1>4, SetAsSeq
<1>6. ASSUME NEW i \in 1 .. Len(arcs)
      PROVE  toIndex(PlacesIn(file), PlaceEnd(file, arcs[i])) \in 1 .. Len(PlacesIn(file))
    <2>1. PICK k \in 1 .. Len(PlacesIn(file)) : PlacesIn(file)[k] = PlaceEnd(file, arcs[i])
        BY <1>2, <1>3, <1>5
    <2>2. toIndex(PlacesIn(file), PlacesIn(file)[k]) \in 1 .. Len(PlacesIn(file))
        BY <1>2, <1>5, IndexFound
    <2>3. QED
        BY <2>1, <2>2
<1>7. QED
    BY <1>2, <1>5, <1>6 DEF arcs

(***************************************************************************)
(* Arcs by name become arcs by index.                                      *)
(***************************************************************************)
LEMMA LookupFacts ==
    ASSUME NEW place, NEW arcs, IsSeq(arcs),
           \A k \in 1 .. Len(arcs) : toIndex(place, arcs[k][1]) \in 1 .. Len(place)
    PROVE  ArcsTo(LookupIn(place, arcs), Len(place))
<1> DEFINE r == LookupIn(place, arcs)
<1>1. DOMAIN arcs = 1 .. Len(arcs)
    BY SeqElim
<1>2. DOMAIN r = DOMAIN arcs /\ r = [i \in DOMAIN r |-> r[i]]
      /\ \A i \in 1 .. Len(arcs) : r[i] = <<toIndex(place, arcs[i][1]), arcs[i][2]>>
    BY <1>1 DEF LookupIn
<1> HIDE DEF r
<1>3. IsSeq(r) /\ Len(r) = Len(arcs)
    BY <1>2, SeqOver
<1>4. ArcsTo(r, Len(place))
    BY <1>2, <1>3 DEF ArcsTo
<1>5. QED
    BY <1>4 DEF r

(***************************************************************************)
(* Whichever of several priorities is read, it has 8 bits.                 *)
(***************************************************************************)
LEMMA PriorityFacts ==
    ASSUME NEW file, WellFormed(file), NEW t
    PROVE  PriorityIn(file, t) \in -128 .. 127
<1> DEFINE n == file.transitions
<1> DEFINE kept == {i \in DOMAIN n : n[i].name = t /\ file.kind = "grml" /\ ToInt8(n[i].priority) # 0}
<1>1. PriorityIn(file, t) = IF kept = {} THEN 0 ELSE ToInt8(n[Min(kept)].priority)
    BY DEF PriorityIn
<1>2. DOMAIN n = 1 .. Len(n)
    BY SeqElim DEF WellFormed
<1>3. kept \in SUBSET Nat /\ kept \subseteq 1 .. Len(n)
    BY <1>2
<1> HIDE DEF kept
<1>4. CASE kept = {}
    BY <1>1, <1>4
<1>5. CASE kept # {}
    <2>1. \E i \in kept : \A j \in kept : i <= j
        BY <1>3, <1>5, LeastNat
    <2>2. Min(kept) \in kept
        BY <2>1 DEF Min
    <2>3. n[Min(kept)].priority \in Int
        BY <2>2, <1>2, <1>3 DEF WellFormed
    <2>4. \A i \in Int : ToInt8(i) \in -128 .. 127
        BY DEF ToInt8
    <2>5. QED
        BY <1>1, <1>5, <2>3, <2>4
<1>6. QED
    BY <1>4, <1>5

(***************************************************************************)
(* Without strays each token of the file is at a place of the net.         *)
(***************************************************************************)
LEMMA TokensFacts ==
    ASSUME NEW file, WellFormed(file), NoStrays(file)
    PROVE  \A a \in DOMAIN TokensIn(file, PlacesIn(file)) : a[1] \in 1 .. Len(PlacesIn(file))
<1> DEFINE n == file.places
<1> DEFINE place == PlacesIn(file)
<1> DEFINE marks == [i \in DOMAIN n |-> {toIndex(place, n[i].name)} \X DOMAIN n[i].marks]
<1>1. DOMAIN TokensIn(file, place) = UNION {marks[i] : i \in DOMAIN n}
    BY DEF TokensIn
<1> DEFINE arcs == Arcs(file)
<1>2. DOMAIN arcs = 1 .. Len(arcs)
    BY ArcsFacts, SeqElim
<1>3. ASSUME NEW i \in DOMAIN n, NEW a \in marks[i]
      PROVE  a[1] \in 1 .. Len(place)
    <2>1. a[1] = toIndex(place, n[i].name) /\ a[2] \in DOMAIN n[i].marks
        OBVIOUS
    <2>2. PICK k \in DOMAIN arcs : PlaceEnd(file, arcs[k]) = n[i].name
        BY <2>1 DEF NoStrays
    <2>3. toIndex(place, PlaceEnd(file, arcs[k])) \in 1 .. Len(place)
        BY <1>2, PlacesFacts
    <2>4. QED
        BY <2>1, <2>2, <2>3
<1>4. QED
    BY <1>1, <1>3

(***************************************************************************)
(* The parsers: what comes from a well-formed file can be installed.       *)
(***************************************************************************)
LEMMA ParseSound ==
    ASSUME NEW file, WellFormed(file), NEW p \in parseNet(file)
    PROVE  ParsedSound(p) /\ (NoStrays(file) => MarksInRange(p))
<1> DEFINE net == NetIn(file)
<1> DEFINE place == PlacesIn(file)
<1>1. PICK order \in SetToSeqs(DOMAIN net) :
        p = [place |-> place, transition |-> order,
             input_n |-> [t \in DOMAIN order |-> LookupIn(place, net[order[t]].first)],
             output_n |-> [t \in DOMAIN order |-> LookupIn(place, net[order[t]].second)],
             priority |-> [t \in DOMAIN order |-> PriorityIn(file, order[t])],
             output |-> [t \in DOMAIN order |-> "Success"],
             t_positions |-> [t \in DOMAIN order |-> PositionIn(file, order[t])],
             p_positions |-> [i \in DOMAIN place |-> PositionIn(file, place[i])],
             tokens |-> TokensIn(file, place)]
    BY DEF parseNet
<1>2. p.place = place /\ p.transition = order /\ p.tokens = TokensIn(file, place)
    BY <1>1
<1>3. DOMAIN p.p_positions = DOMAIN place /\ p.p_positions = [i \in DOMAIN p.p_positions |-> p.p_positions[i]]
    BY <1>1
<1> DEFINE Fields == {"input_n", "output_n", "priority", "output", "t_positions"}
<1>4. \A f \in Fields : DOMAIN p[f] = DOMAIN order /\ p[f] = [i \in DOMAIN p[f] |-> p[f][i]]
    BY <1>1
<1>5. \A t \in DOMAIN order :
        /\ p.input_n[t] = LookupIn(place, net[order[t]]["first"])
        /\ p.output_n[t] = LookupIn(place, net[order[t]]["second"])
        /\ p.priority[t] = PriorityIn(file, order[t])
    BY <1>1
<1>6. order \in Seq(DOMAIN net)
    <2>1. Cardinality(DOMAIN net) \in Nat
        BY NetInFacts, FS_CardinalityType
    <2>2. order \in [1 .. Cardinality(DOMAIN net) -> DOMAIN net]
        BY DEF SetToSeqs
    <2> HIDE DEF net
    <2>3. QED
        BY <2>1, <2>2
<1>7. IsSeq(order) /\ DOMAIN order = 1 .. Len(order) /\ \A t \in 1 .. Len(order) : order[t] \in DOMAIN net
    BY <1>6, SeqIs, SeqElim
<1>8. IsSeq(place)
    BY PlacesFacts
<1>9. IsSeq(p.p_positions) /\ Len(p.p_positions) = Len(place)
    BY <1>3, <1>8, SeqOver
<1>10. \A f \in Fields : IsSeq(p[f]) /\ Len(p[f]) = Len(order)
    BY <1>4, <1>7, SeqOver
<1>11. ASSUME NEW t \in 1 .. Len(order), NEW side \in {"first", "second"}
       PROVE  ArcsTo(LookupIn(place, net[order[t]][side]), Len(place))
    <2> DEFINE arcs == net[order[t]][side]
    <2>1. IsSeq(arcs) /\ \A k \in 1 .. Len(arcs) : \E i \in 1 .. Len(Arcs(file)) :
                arcs[k] = <<PlaceEnd(file, Arcs(file)[i]), Arcs(file)[i].color>>
        BY <1>7, NetInFacts
    <2>2. \A i \in 1 .. Len(Arcs(file)) : toIndex(place, PlaceEnd(file, Arcs(file)[i])) \in 1 .. Len(place)
        BY PlacesFacts
    <2> HIDE DEF arcs, place
    <2>3. \A k \in 1 .. Len(arcs) : toIndex(place, arcs[k][1]) \in 1 .. Len(place)
        BY <2>1, <2>2
    <2>4. ArcsTo(LookupIn(place, arcs), Len(place))
        BY <2>1, <2>3, LookupFacts
    <2>5. QED
        BY <2>4 DEF arcs
<1>12. ArcsSound(p)
    BY <1>2, <1>5, <1>7, <1>11 DEF ArcsSound
<1>13. PrioritySound(p)
    <2>1. \A t \in 1 .. Len(order) : PriorityIn(file, order[t]) \in -128 .. 127
        BY PriorityFacts
    <2>2. \A t \in 1 .. Len(order) : p.priority[t] \in -128 .. 127
        BY <2>1, <1>5, <1>7
    <2>3. QED
        BY <2>2, <1>2 DEF PrioritySound
<1>14. NoStrays(file) => MarksInRange(p)
    <2>1. SUFFICES ASSUME NoStrays(file) PROVE MarksInRange(p)
        OBVIOUS
    <2>2. \A a \in DOMAIN TokensIn(file, place) : a[1] \in 1 .. Len(place)
        BY <2>1, TokensFacts
    <2>3. QED
        BY <2>2, <1>2 DEF MarksInRange
<1> HIDE DEF place
<1>15. ParsedSound(p)
    <2>1. /\ IsSeq(p.input_n) /\ Len(p.input_n) = Len(order)
          /\ IsSeq(p.output_n) /\ Len(p.output_n) = Len(order)
          /\ IsSeq(p.priority) /\ Len(p.priority) = Len(order)
          /\ IsSeq(p.output) /\ Len(p.output) = Len(order)
          /\ IsSeq(p.t_positions) /\ Len(p.t_positions) = Len(order)
        BY <1>10
    <2>2. QED
        BY <2>1, <1>2, <1>7, <1>8, <1>9, <1>12, <1>13 DEF ParsedSound
<1>16. QED
    BY <1>14, <1>15

(***************************************************************************)
(* The lookup that is computed from the arcs is complete.                  *)
(***************************************************************************)
LEMMA ReverseFacts ==
    ASSUME NEW n \in Nat, NEW input_n, IsSeq(input_n), \A t \in 1 .. Len(input_n) : ArcsTo(input_n[t], n)
    PROVE  LET r == createReversePlaceToTransitionLookup(n, input_n)
           IN  /\ IsSeq(r) /\ Len(r) = n
               /\ \A p \in 1 .. n : r[p] \subseteq 1 .. Len(input_n)
               /\ \A t \in 1 .. Len(input_n) : \A i \in 1 .. Len(input_n[t]) : t \in r[input_n[t][i][1]]
<1> DEFINE r == createReversePlaceToTransitionLookup(n, input_n)
<1>1. DOMAIN input_n = 1 .. Len(input_n)
    BY SeqElim
<1>2. \A t \in 1 .. Len(input_n) : DOMAIN input_n[t] = 1 .. Len(input_n[t])
    BY SeqElim DEF ArcsTo
<1>3. r = [p \in 1 .. n |-> {t \in DOMAIN input_n : \E i \in DOMAIN input_n[t] : input_n[t][i][1] = p}]
    BY DEF createReversePlaceToTransitionLookup
<1> HIDE DEF r
<1>4. r = [p \in 1 .. n |-> r[p]]
    BY <1>3
<1>5. IsSeq(r) /\ Len(r) = n
    BY <1>4, SeqIntro
<1>6. \A p \in 1 .. n : r[p] \subseteq 1 .. Len(input_n)
    BY <1>1, <1>3
<1>7. ASSUME NEW t \in 1 .. Len(input_n), NEW i \in 1 .. Len(input_n[t])
      PROVE  t \in r[input_n[t][i][1]]
    <2>1. input_n[t][i][1] \in 1 .. n
        BY DEF ArcsTo
    <2>2. QED
        BY <2>1, <1>1, <1>2, <1>3
<1>8. QED
    BY <1>5, <1>6, <1>7 DEF r

(***************************************************************************)
(* The names of a parsed net become as many nodes.                         *)
(***************************************************************************)
LEMMA ArrivingFacts ==
    ASSUME NEW names, IsSeq(names), NEW nodes
    PROVE  IsSeq(Arriving(names, nodes)) /\ Len(Arriving(names, nodes)) = Len(names)
<1> DEFINE r == Arriving(names, nodes)
<1>1. DOMAIN r = DOMAIN names /\ r = [k \in DOMAIN r |-> r[k]]
    BY DEF Arriving
<1> HIDE DEF r
<1>2. IsSeq(r) /\ Len(r) = Len(names)
    BY <1>1, SeqOver
<1>3. QED
    BY <1>2 DEF r

(***************************************************************************)
(* `clearInstaller' replaces the document by the parsed net.               *)
(***************************************************************************)
LEMMA ClearInstallerSound ==
    ASSUME NEW e, Structure(e), NEW p, ParsedSound(p), NEW file
    PROVE  LET r == clearInstaller(p, file, e)
           IN  Structure(r) /\ (MarksInRange(p) => TokensInRange(r))
<1> DEFINE r == clearInstaller(p, file, e)
<1>1. /\ DOMAIN r = DOMAIN EmptyDocument
      /\ r.place = Arriving(p.place, e.place)
      /\ r.transition = Arriving(p.transition, e.transition)
      /\ r.input_n = p.input_n /\ r.output_n = p.output_n
      /\ r.priority = p.priority /\ r.output = p.output
      /\ r.p_to_ts_n = createReversePlaceToTransitionLookup(Len(p.place), p.input_n)
      /\ r.t_positions = p.t_positions /\ r.p_positions = p.p_positions
      /\ r.tokens = p.tokens
    BY DEF clearInstaller, Structure, EmptyDocument
<1> HIDE DEF r
<1>2. IsSeq(r.place) /\ Len(r.place) = Len(p.place) /\ IsSeq(r.transition) /\ Len(r.transition) = Len(p.transition)
    BY <1>1, ArrivingFacts DEF ParsedSound
<1>3. Len(p.place) \in Nat /\ IsSeq(p.input_n) /\ Len(p.input_n) = Len(p.transition)
      /\ \A t \in 1 .. Len(p.input_n) : ArcsTo(p.input_n[t], Len(p.place))
    BY SeqElim DEF ParsedSound, ArcsSound
<1>4. /\ IsSeq(r.p_to_ts_n) /\ Len(r.p_to_ts_n) = Len(p.place)
      /\ \A q \in 1 .. Len(p.place) : r.p_to_ts_n[q] \subseteq 1 .. Len(p.input_n)
      /\ \A t \in 1 .. Len(p.input_n) : \A i \in 1 .. Len(p.input_n[t]) : t \in r.p_to_ts_n[p.input_n[t][i][1]]
    BY <1>1, <1>3, ReverseFacts
<1>5. PerPlace(r) /\ PerTransition(r)
    BY <1>1, <1>2, <1>4 DEF ParsedSound, PerPlace, PerTransition
<1>6. ArcsSound(r) /\ PrioritySound(r)
    BY <1>1, <1>2 DEF ParsedSound, ArcsSound, PrioritySound
<1>7. LookupSound(r)
    BY <1>1, <1>2, <1>3, <1>4 DEF LookupSound
<1>8. MarksInRange(p) => TokensInRange(r)
    <2>1. DOMAIN r.place = 1 .. Len(p.place)
        BY <1>2, SeqElim
    <2>2. QED
        BY <2>1, <1>1 DEF MarksInRange, TokensInRange, BagToSet
<1>9. QED
    BY <1>1, <1>5, <1>6, <1>7, <1>8 DEF Structure, r

(***************************************************************************)
(* Arcs moved behind the places that are there.                            *)
(***************************************************************************)
LEMMA OffsetFacts ==
    ASSUME NEW n \in Nat, NEW base \in Nat, NEW arcs, ArcsTo(arcs, n)
    PROVE  ArcsTo([i \in DOMAIN arcs |-> <<arcs[i][1] + base, arcs[i][2]>>], base + n)
<1> DEFINE r == [i \in DOMAIN arcs |-> <<arcs[i][1] + base, arcs[i][2]>>]
<1>1. IsSeq(arcs) /\ DOMAIN arcs = 1 .. Len(arcs)
    BY SeqElim DEF ArcsTo
<1>2. DOMAIN r = DOMAIN arcs /\ r = [i \in DOMAIN r |-> r[i]]
      /\ \A i \in 1 .. Len(arcs) : r[i] = <<arcs[i][1] + base, arcs[i][2]>>
    BY <1>1
<1>3. \A i \in 1 .. Len(arcs) : arcs[i][1] + base \in 1 .. base + n
    BY DEF ArcsTo
<1> HIDE DEF r
<1>4. IsSeq(r) /\ Len(r) = Len(arcs)
    BY <1>1, <1>2, SeqOver
<1>5. ArcsTo(r, base + n)
    BY <1>2, <1>3, <1>4 DEF ArcsTo
<1>6. QED
    BY <1>5 DEF r

(***************************************************************************)
(* Elements of s are elements of a or of b.                                *)
(***************************************************************************)
FromEither(s, a, b) ==
    \A k \in 1 .. Len(s) : (\E i \in 1 .. Len(a) : s[k] = a[i]) \/ (\E i \in 1 .. Len(b) : s[k] = b[i])

(***************************************************************************)
(* So are those of a concatenation.                                        *)
(***************************************************************************)
LEMMA ConcatFrom ==
    ASSUME NEW a, NEW b, IsSeq(a), IsSeq(b)
    PROVE  IsSeq(a \o b) /\ Len(a \o b) = Len(a) + Len(b) /\ FromEither(a \o b, a, b)
<1>1. IsSeq(a \o b) /\ Len(a \o b) = Len(a) + Len(b)
    BY SeqConcat
<1>2. FromEither(a \o b, a, b)
    BY ConcatElements DEF FromEither
<1>3. QED
    BY <1>1, <1>2

(***************************************************************************)
(* `appendInstaller' puts the parsed net behind the one that is there, its *)
(* indices moved by the number of places or of transitions that were       *)
(* (load_file.cpp).                                                        *)
(***************************************************************************)
LEMMA AppendInstallerSound ==
    ASSUME NEW e, Structure(e), NEW p, ParsedSound(p), NEW file
    PROVE  LET r == appendInstaller(p, file, e)
           IN  Structure(r) /\ (TokensInRange(e) /\ MarksInRange(p) => TokensInRange(r))
<1> DEFINE r == appendInstaller(p, file, e)
<1> DEFINE base == Len(e.place)
<1> DEFINE all == base + Len(p.place)
<1> DEFINE n == Len(e.transition)
<1> DEFINE m == Len(p.transition)
<1> DEFINE offset(arcs) == [i \in DOMAIN arcs |-> <<arcs[i][1] + base, arcs[i][2]>>]
<1> DEFINE ins == [t \in DOMAIN p.input_n |-> offset(p.input_n[t])]
<1> DEFINE outs == [t \in DOMAIN p.output_n |-> offset(p.output_n[t])]
<1>1. /\ DOMAIN r = DOMAIN EmptyDocument
      /\ r.place = e.place \o Arriving(p.place, e.place)
      /\ r.transition = e.transition \o Arriving(p.transition, e.transition)
      /\ r.priority = e.priority \o p.priority
      /\ r.output = e.output \o p.output
      /\ r.input_n = e.input_n \o ins
      /\ r.output_n = e.output_n \o outs
      /\ r.p_to_ts_n = createReversePlaceToTransitionLookup(all, r.input_n)
      /\ r.t_positions = e.t_positions \o p.t_positions
      /\ r.p_positions = e.p_positions \o p.p_positions
      /\ r.tokens = e.tokens (+) OffsetTokens(p.tokens, base)
    BY DEF appendInstaller, Structure, EmptyDocument
<1> HIDE DEF r
<1>2. /\ IsSeq(e.place) /\ IsSeq(e.p_positions) /\ Len(e.p_positions) = base /\ base \in Nat
      /\ IsSeq(e.transition) /\ n \in Nat
      /\ IsSeq(e.t_positions) /\ Len(e.t_positions) = n
      /\ IsSeq(e.input_n) /\ Len(e.input_n) = n
      /\ IsSeq(e.output_n) /\ Len(e.output_n) = n
      /\ IsSeq(e.priority) /\ Len(e.priority) = n
      /\ IsSeq(e.output) /\ Len(e.output) = n
    BY SeqElim DEF Structure, PerPlace, PerTransition
<1>3. /\ IsSeq(p.place) /\ IsSeq(p.p_positions) /\ Len(p.p_positions) = Len(p.place) /\ Len(p.place) \in Nat
      /\ IsSeq(p.transition) /\ m \in Nat
      /\ IsSeq(p.t_positions) /\ Len(p.t_positions) = m
      /\ IsSeq(p.input_n) /\ Len(p.input_n) = m /\ DOMAIN p.input_n = 1 .. m
      /\ IsSeq(p.output_n) /\ Len(p.output_n) = m /\ DOMAIN p.output_n = 1 .. m
      /\ IsSeq(p.priority) /\ Len(p.priority) = m
      /\ IsSeq(p.output) /\ Len(p.output) = m
    BY SeqElim DEF ParsedSound
<1>4. /\ IsSeq(Arriving(p.place, e.place)) /\ Len(Arriving(p.place, e.place)) = Len(p.place)
      /\ IsSeq(Arriving(p.transition, e.transition)) /\ Len(Arriving(p.transition, e.transition)) = m
    BY <1>3, ArrivingFacts
<1>5. \A t \in 1 .. m : ins[t] = offset(p.input_n[t]) /\ outs[t] = offset(p.output_n[t])
    BY <1>3
<1>6. \A t \in 1 .. m : ArcsTo(ins[t], all) /\ ArcsTo(outs[t], all)
    <2>1. \A t \in 1 .. m : ArcsTo(p.input_n[t], Len(p.place)) /\ ArcsTo(p.output_n[t], Len(p.place))
        BY DEF ParsedSound, ArcsSound
    <2>2. \A t \in 1 .. m : ArcsTo(offset(p.input_n[t]), all) /\ ArcsTo(offset(p.output_n[t]), all)
        BY <2>1, <1>2, <1>3, OffsetFacts
    <2> HIDE DEF offset
    <2>3. QED
        BY <2>2, <1>5
<1>7. IsSeq(ins) /\ Len(ins) = m /\ IsSeq(outs) /\ Len(outs) = m
    <2>1. /\ DOMAIN ins = DOMAIN p.input_n /\ ins = [i \in DOMAIN ins |-> ins[i]]
          /\ DOMAIN outs = DOMAIN p.output_n /\ outs = [i \in DOMAIN outs |-> outs[i]]
        OBVIOUS
    <2> HIDE DEF ins, outs
    <2>2. QED
        BY <2>1, <1>3, SeqOver
<1> HIDE DEF ins, outs
<1> DEFINE q == [place |-> Arriving(p.place, e.place), p_positions |-> p.p_positions,
                  transition |-> Arriving(p.transition, e.transition), t_positions |-> p.t_positions,
                  input_n |-> ins, output_n |-> outs, priority |-> p.priority, output |-> p.output]
<1> DEFINE Fields == {"place", "p_positions", "transition", "t_positions",
                       "input_n", "output_n", "priority", "output"}
<1>8. \A f \in Fields : r[f] = e[f] \o q[f] /\ IsSeq(e[f]) /\ IsSeq(q[f])
    <2>1. \A f \in Fields : r[f] = e[f] \o q[f]
        <3>1. /\ r.place = e.place \o q.place /\ r.p_positions = e.p_positions \o q.p_positions
              /\ r.transition = e.transition \o q.transition /\ r.t_positions = e.t_positions \o q.t_positions
              /\ r.input_n = e.input_n \o q.input_n /\ r.output_n = e.output_n \o q.output_n
              /\ r.priority = e.priority \o q.priority /\ r.output = e.output \o q.output
            BY <1>1
        <3> HIDE DEF q
        <3>2. QED
            BY <3>1
    <2>2. \A f \in Fields : IsSeq(e[f])
        BY <1>2
    <2>3. \A f \in Fields : IsSeq(q[f])
        BY <1>3, <1>4, <1>7
    <2>4. QED
        BY <2>1, <2>2, <2>3
<1>9. /\ Len(q.place) = Len(p.place) /\ Len(q.p_positions) = Len(p.place)
      /\ Len(q.transition) = m /\ Len(q.t_positions) = m /\ Len(q.input_n) = m
      /\ Len(q.output_n) = m /\ Len(q.priority) = m /\ Len(q.output) = m
    BY <1>3, <1>4, <1>7
<1>10. ASSUME NEW f \in Fields
       PROVE  IsSeq(r[f]) /\ Len(r[f]) = Len(e[f]) + Len(q[f]) /\ FromEither(r[f], e[f], q[f])
    <2>1. r[f] = e[f] \o q[f] /\ IsSeq(e[f]) /\ IsSeq(q[f])
        BY <1>8
    <2> HIDE DEF q
    <2>2. QED
        BY <2>1, ConcatFrom
<1>11. Len(e.p_positions) = base /\ Len(e.t_positions) = n /\ Len(e.input_n) = n
       /\ Len(e.output_n) = n /\ Len(e.priority) = n /\ Len(e.output) = n
    BY <1>2
<1>12. base \in Nat /\ n \in Nat /\ Len(p.place) \in Nat /\ m \in Nat
    BY <1>2, <1>3
<1>13. all \in Nat /\ base <= all /\ (\A i \in 1 .. base : i \in 1 .. all)
       /\ \A i \in 1 .. Len(p.place) : i + base \in 1 .. all
    <2>1. \A a, b \in Nat : /\ a + b \in Nat /\ a <= a + b
                            /\ \A i \in 1 .. a : i \in 1 .. a + b
                            /\ \A i \in 1 .. b : i + a \in 1 .. a + b
        OBVIOUS
    <2>2. QED
        BY <2>1, <1>12
<1>14. /\ IsSeq(r.place) /\ Len(r.place) = all
       /\ IsSeq(r.p_positions) /\ Len(r.p_positions) = all
       /\ IsSeq(r.transition) /\ Len(r.transition) = n + m
       /\ IsSeq(r.t_positions) /\ Len(r.t_positions) = n + m
    BY <1>9, <1>10, <1>11
<1>15. /\ IsSeq(r.input_n) /\ Len(r.input_n) = n + m
       /\ IsSeq(r.output_n) /\ Len(r.output_n) = n + m
       /\ IsSeq(r.priority) /\ Len(r.priority) = n + m
       /\ IsSeq(r.output) /\ Len(r.output) = n + m
    BY <1>9, <1>10, <1>11
<1>25. /\ FromEither(r.input_n, e.input_n, ins)
       /\ FromEither(r.output_n, e.output_n, outs)
       /\ FromEither(r.priority, e.priority, p.priority)
    BY <1>10
<1>16. \A t \in 1 .. n + m : ArcsTo(r.input_n[t], all)
    <2>1. \A t \in 1 .. n : ArcsTo(e.input_n[t], all)
        <3>1. \A t \in 1 .. n : ArcsTo(e.input_n[t], base)
            BY DEF Structure, ArcsSound
        <3> HIDE DEF all, base
        <3>2. QED
            BY <3>1, <1>12, <1>13, ArcsWiden
    <2>2. ASSUME NEW t \in 1 .. n + m
          PROVE  ArcsTo(r.input_n[t], all)
        <3>1. \/ \E i \in 1 .. n : r.input_n[t] = e.input_n[i]
              \/ \E i \in 1 .. m : r.input_n[t] = ins[i]
            BY <1>3, <1>7, <1>11, <1>15, <1>25 DEF FromEither
        <3>2. QED
            BY <3>1, <2>1, <1>6
    <2>3. QED
        BY <2>2
<1>17. \A t \in 1 .. n + m : ArcsTo(r.output_n[t], all)
    <2>1. \A t \in 1 .. n : ArcsTo(e.output_n[t], all)
        <3>1. \A t \in 1 .. n : ArcsTo(e.output_n[t], base)
            BY DEF Structure, ArcsSound
        <3> HIDE DEF all, base
        <3>2. QED
            BY <3>1, <1>12, <1>13, ArcsWiden
    <2>2. ASSUME NEW t \in 1 .. n + m
          PROVE  ArcsTo(r.output_n[t], all)
        <3>1. \/ \E i \in 1 .. n : r.output_n[t] = e.output_n[i]
              \/ \E i \in 1 .. m : r.output_n[t] = outs[i]
            BY <1>3, <1>7, <1>11, <1>15, <1>25 DEF FromEither
        <3>2. QED
            BY <3>1, <2>1, <1>6
    <2>3. QED
        BY <2>2
<1>18. ArcsSound(r)
    BY <1>14, <1>16, <1>17 DEF ArcsSound
<1>19. PrioritySound(r)
    <2>1. ASSUME NEW t \in 1 .. n + m
          PROVE  r.priority[t] \in -128 .. 127
        <3>1. \/ \E i \in 1 .. n : r.priority[t] = e.priority[i]
              \/ \E i \in 1 .. m : r.priority[t] = p.priority[i]
            BY <1>3, <1>7, <1>11, <1>15, <1>25 DEF FromEither
        <3>2. QED
            BY <3>1 DEF Structure, ParsedSound, PrioritySound
    <2>2. QED
        BY <2>1, <1>14 DEF PrioritySound
<1>20. /\ IsSeq(r.p_to_ts_n) /\ Len(r.p_to_ts_n) = all
       /\ \A k \in 1 .. all : r.p_to_ts_n[k] \subseteq 1 .. Len(r.input_n)
       /\ \A t \in 1 .. Len(r.input_n) : \A i \in 1 .. Len(r.input_n[t]) : t \in r.p_to_ts_n[r.input_n[t][i][1]]
    <2>1. all \in Nat /\ \A t \in 1 .. Len(r.input_n) : ArcsTo(r.input_n[t], all)
        BY <1>13, <1>15, <1>16
    <2>2. r.p_to_ts_n = createReversePlaceToTransitionLookup(all, r.input_n)
        BY <1>1
    <2> HIDE DEF all
    <2>3. QED
        BY <2>1, <2>2, <1>15, ReverseFacts
<1>21. LookupSound(r)
    BY <1>14, <1>15, <1>20 DEF LookupSound
<1>22. PerPlace(r)
    BY <1>14, <1>20 DEF PerPlace
<1>23. PerTransition(r)
    BY <1>14, <1>15 DEF PerTransition
<1>24. TokensInRange(e) /\ MarksInRange(p) => TokensInRange(r)
    <2>1. DOMAIN r.place = 1 .. all /\ DOMAIN e.place = 1 .. base
        BY <1>2, <1>14, SeqElim
    <2>2. DOMAIN r.tokens = DOMAIN e.tokens \cup {<<b[1] + base, b[2]>> : b \in DOMAIN p.tokens}
        BY <1>1 DEF (+), OffsetTokens
    <2>3. SUFFICES ASSUME TokensInRange(e), MarksInRange(p)
                   PROVE  \A a \in DOMAIN r.tokens : a[1] \in 1 .. all
        BY <2>1 DEF TokensInRange, BagToSet
    <2>4. \A a \in DOMAIN e.tokens : a[1] \in 1 .. base
        BY <2>1, <2>3 DEF TokensInRange, BagToSet
    <2>5. \A a \in DOMAIN p.tokens : a[1] \in 1 .. Len(p.place)
        BY <2>3 DEF MarksInRange
    <2> HIDE DEF all, base
    <2>6. QED
        BY <2>2, <2>4, <2>5, <1>13
<1>26. QED
    BY <1>1, <1>18, <1>19, <1>21, <1>22, <1>23, <1>24 DEF Structure, r

(***************************************************************************)
(* What is saved is well-formed, so it can be loaded.                      *)
(***************************************************************************)
LEMMA ToXmlWellFormed ==
    ASSUME NEW e, Structure(e)
    PROVE  WellFormed(toXml(e))
<1> DEFINE x == toXml(e)
<1> DEFINE ins(t) == [i \in DOMAIN e.input_n[t] |->
            [source |-> e.place[e.input_n[t][i][1]].name, target |-> e.transition[t].name,
             color |-> e.input_n[t][i][2], times |-> 1]]
<1> DEFINE outs(t) == [i \in DOMAIN e.output_n[t] |->
            [source |-> e.transition[t].name, target |-> e.place[e.output_n[t][i][1]].name,
             color |-> e.output_n[t][i][2], times |-> 1]]
<1> DEFINE ss == [t \in DOMAIN e.transition |-> ins(t) \o outs(t)]
<1>1. IsSeq(e.place) /\ IsSeq(e.transition) /\ DOMAIN e.transition = 1 .. Len(e.transition)
    BY SeqElim DEF Structure, PerPlace, PerTransition
<1>2. /\ DOMAIN x.places = DOMAIN e.place /\ x.places = [i \in DOMAIN x.places |-> x.places[i]]
      /\ DOMAIN x.transitions = DOMAIN e.transition
      /\ x.transitions = [i \in DOMAIN x.transitions |-> x.transitions[i]]
      /\ \A i \in DOMAIN e.transition : x.transitions[i].priority = 0
      /\ x.arcs = FlattenSeq(ss)
    BY DEF toXml
<1> HIDE DEF x
<1>3. IsSeq(x.places) /\ IsSeq(x.transitions) /\ Len(x.transitions) = Len(e.transition)
    BY <1>1, <1>2, SeqOver
<1>4. ASSUME NEW t \in 1 .. Len(e.transition)
      PROVE  IsSeq(ss[t]) /\ \A j \in 1 .. Len(ss[t]) : ss[t][j].times = 1
    <2> DEFINE a == ins(t)
    <2> DEFINE b == outs(t)
    <2>1. IsSeq(e.input_n[t]) /\ IsSeq(e.output_n[t])
        BY DEF Structure, ArcsSound, ArcsTo
    <2>2. /\ DOMAIN a = DOMAIN e.input_n[t] /\ a = [i \in DOMAIN a |-> a[i]]
          /\ DOMAIN b = DOMAIN e.output_n[t] /\ b = [i \in DOMAIN b |-> b[i]]
          /\ \A i \in DOMAIN a : a[i].times = 1
          /\ \A i \in DOMAIN b : b[i].times = 1
        OBVIOUS
    <2>3. ss[t] = a \o b
        BY <1>1
    <2> HIDE DEF a, b, ss
    <2>4. IsSeq(a) /\ IsSeq(b)
        BY <2>1, <2>2, SeqOver
    <2>5. DOMAIN a = 1 .. Len(a) /\ DOMAIN b = 1 .. Len(b)
        BY <2>4, SeqElim
    <2>6. IsSeq(a \o b)
        BY <2>4, SeqConcat
    <2>7. \A j \in 1 .. Len(a \o b) : (\E i \in 1 .. Len(a) : (a \o b)[j] = a[i]) \/ (\E i \in 1 .. Len(b) : (a \o b)[j] = b[i])
        BY <2>4, ConcatElements
    <2>8. QED
        BY <2>2, <2>3, <2>5, <2>6, <2>7
<1>5. IsSeq(ss) /\ Len(ss) = Len(e.transition)
    <2>1. DOMAIN ss = DOMAIN e.transition /\ ss = [t \in DOMAIN ss |-> ss[t]]
        OBVIOUS
    <2> HIDE DEF ss
    <2>2. QED
        BY <2>1, <1>1, SeqOver
<1> HIDE DEF ss
<1>6. DrawnFrom(FlattenSeq(ss), ss)
    BY <1>4, <1>5, Flatten
<1>7. IsSeq(x.arcs) /\ \A k \in 1 .. Len(x.arcs) : x.arcs[k].times = 1
    BY <1>2, <1>4, <1>5, <1>6 DEF DrawnFrom
<1>8. WellFormed(x)
    BY <1>1, <1>2, <1>3, <1>7 DEF WellFormed
<1>9. QED
    BY <1>8 DEF x

(***************************************************************************)
(* The document the program starts with.                                   *)
(***************************************************************************)
LEMMA EmptyDocumentSound == Structure(EmptyDocument) /\ TokensInRange(EmptyDocument)
<1> DEFINE e == EmptyDocument
<1>1. IsSeq(<< >>) /\ Len(<< >>) = 0
    BY DEF IsSeq
<1>2. /\ e.place = << >> /\ e.transition = << >> /\ e.p_positions = << >> /\ e.t_positions = << >>
      /\ e.input_n = << >> /\ e.output_n = << >> /\ e.p_to_ts_n = << >> /\ e.priority = << >>
      /\ e.output = << >> /\ DOMAIN e.tokens = {}
    BY DEF EmptyDocument, EmptyBag, SetToBag
<1> HIDE DEF e
<1>3. PerPlace(e) /\ PerTransition(e)
    BY <1>1, <1>2 DEF PerPlace, PerTransition
<1>4. ArcsSound(e) /\ LookupSound(e) /\ PrioritySound(e)
    BY <1>1, <1>2 DEF ArcsSound, LookupSound, PrioritySound
<1>5. TokensInRange(e)
    BY <1>2 DEF TokensInRange, BagToSet
<1>6. QED
    BY <1>3, <1>4, <1>5 DEF Structure, e

(***************************************************************************)
(* Where a sequence has x.                                                 *)
(***************************************************************************)
Positions(s, x) == {i \in DOMAIN s : s[i] = x}

(***************************************************************************)
(* They are finitely many.                                                 *)
(***************************************************************************)
LEMMA FinitePositions ==
    ASSUME NEW s, IsSeq(s), NEW x
    PROVE  /\ IsFiniteSet(Positions(s, x))
           /\ IsFiniteSet(DOMAIN s) /\ Cardinality(DOMAIN s) = Len(s)
<1>1. DOMAIN s = 1 .. Len(s) /\ Len(s) \in Nat
    BY SeqElim
<1>2. IsFiniteSet(1 .. Len(s)) /\ Cardinality(1 .. Len(s)) = Len(s)
    <2>1. 1 \in Int /\ Len(s) \in Int
        BY <1>1
    <2>2. /\ IsFiniteSet(1 .. Len(s))
          /\ Cardinality(1 .. Len(s)) = IF 1 > Len(s) THEN 0 ELSE Len(s) - 1 + 1
        BY <2>1, FS_Interval
    <2>3. QED
        BY <2>2, <1>1
<1>3. Positions(s, x) \subseteq 1 .. Len(s)
    BY <1>1 DEF Positions
<1>4. QED
    BY <1>1, <1>2, <1>3, FS_Subset

(***************************************************************************)
(* If a sequence has each of its elements as often as another one has it,  *)
(* its positions go one to one to positions of the other with the same     *)
(* element: the places of each element do, and together they make a        *)
(* function.  (No induction is needed to count.)                           *)
(***************************************************************************)
LEMMA Rearranged ==
    ASSUME NEW a, NEW b, IsSeq(a), IsSeq(b),
           \A i \in DOMAIN a : Cardinality(Positions(a, a[i])) = Cardinality(Positions(b, a[i]))
    PROVE  \E g \in Injection(DOMAIN a, DOMAIN b) : \A i \in DOMAIN a : b[g[i]] = a[i]
<1> DEFINE f(x) == CHOOSE h : h \in Bijection(Positions(a, x), Positions(b, x))
<1> DEFINE g == [i \in DOMAIN a |-> f(a[i])[i]]
<1>1. ASSUME NEW i \in DOMAIN a
      PROVE  f(a[i]) \in Bijection(Positions(a, a[i]), Positions(b, a[i]))
    <2> DEFINE A == Positions(a, a[i])
    <2> DEFINE B == Positions(b, a[i])
    <2>1. IsFiniteSet(A) /\ IsFiniteSet(B) /\ Cardinality(A) = Cardinality(B)
        BY FinitePositions
    <2> HIDE DEF A, B
    <2>2. \E h : h \in Bijection(A, B)
        <3>1. ExistsBijection(A, B)
            BY <2>1, FS_SameCardinalityBij
        <3>2. QED
            BY <3>1 DEF ExistsBijection
    <2>3. QED
        BY <2>2 DEF A, B
<1> HIDE DEF f
<1>2. \A i \in DOMAIN a : i \in Positions(a, a[i])
    BY DEF Positions
<1>3. \A i \in DOMAIN a : g[i] \in Positions(b, a[i])
    BY <1>1, <1>2 DEF Bijection, Injection
<1>4. ASSUME NEW i \in DOMAIN a, NEW j \in DOMAIN a, g[i] = g[j]
      PROVE  i = j
    <2>1. a[i] = a[j]
        BY <1>3, <1>4 DEF Positions
    <2>2. i \in Positions(a, a[i]) /\ j \in Positions(a, a[i])
        BY <1>2, <2>1
    <2>3. f(a[i])[i] = f(a[i])[j]
        BY <1>4, <2>1
    <2>4. QED
        BY <1>1, <2>2, <2>3 DEF Bijection, Injection, IsInjective
<1>5. \A i \in DOMAIN a : g[i] \in DOMAIN b /\ b[g[i]] = a[i]
    BY <1>3 DEF Positions
<1>6. g \in [DOMAIN a -> DOMAIN b]
    BY <1>5
<1>7. g \in Injection(DOMAIN a, DOMAIN b)
    BY <1>4, <1>6 DEF Injection, IsInjective
<1>8. QED
    BY <1>5, <1>7

(***************************************************************************)
(* What the loop of `stateNetEquality' finds out of two lists of arcs:     *)
(* that the bags are equal, except that it looks at nothing when the first *)
(* one is empty.  With equal lengths no element of the second is left      *)
(* over.                                                                   *)
(***************************************************************************)
LEMMA SameArcsIs ==
    ASSUME NEW a, NEW b, IsSeq(a), IsSeq(b)
    PROVE  SameArcs(a, b) <=> (a # << >> => ArcBag(a) = ArcBag(b))
<1> DEFINE Counted == \A i \in DOMAIN a : Cardinality(Positions(a, a[i])) = Cardinality(Positions(b, a[i]))
<1>1. SameArcs(a, b) <=> (DOMAIN a # {} => Len(a) = Len(b) /\ Counted)
    BY DEF SameArcs, Copies, Positions
<1>2. a # << >> <=> DOMAIN a # {}
    <2>1. DOMAIN a = 1 .. Len(a) /\ Len(a) \in Nat
        BY SeqElim
    <2>2. a = [i \in DOMAIN a |-> a[i]]
        BY <2>1 DEF IsSeq
    <2>3. DOMAIN << >> = {}
        OBVIOUS
    <2>4. DOMAIN a = {} => a = << >>
        BY <2>2
    <2>5. QED
        BY <2>3, <2>4
<1>3. /\ DOMAIN ArcBag(a) = {a[i] : i \in DOMAIN a}
      /\ DOMAIN ArcBag(b) = {b[i] : i \in DOMAIN b}
      /\ \A x \in DOMAIN ArcBag(a) : ArcBag(a)[x] = Cardinality(Positions(a, x))
      /\ \A x \in DOMAIN ArcBag(b) : ArcBag(b)[x] = Cardinality(Positions(b, x))
      /\ ArcBag(a) = [x \in DOMAIN ArcBag(a) |-> ArcBag(a)[x]]
      /\ ArcBag(b) = [x \in DOMAIN ArcBag(b) |-> ArcBag(b)[x]]
    BY DEF ArcBag, Positions
<1> HIDE DEF Counted
<1>4. ASSUME Len(a) = Len(b), Counted
      PROVE  ArcBag(a) = ArcBag(b)
    <2>1. PICK g \in Injection(DOMAIN a, DOMAIN b) : \A i \in DOMAIN a : b[g[i]] = a[i]
        BY <1>4, Rearranged DEF Counted
    <2>2. /\ IsFiniteSet(DOMAIN a) /\ IsFiniteSet(DOMAIN b)
          /\ Cardinality(DOMAIN a) = Cardinality(DOMAIN b)
        BY <1>4, FinitePositions
    <2>3. g \in Surjection(DOMAIN a, DOMAIN b)
        BY <2>2, FS_Injection
    <2>4. g \in [DOMAIN a -> DOMAIN b] /\ \A k \in DOMAIN b : \E i \in DOMAIN a : g[i] = k
        BY <2>3 DEF Surjection
    <2>5. \A k \in DOMAIN b : \E i \in DOMAIN a : a[i] = b[k]
        BY <2>1, <2>4
    <2>6. \A i \in DOMAIN a : \E k \in DOMAIN b : a[i] = b[k]
        BY <2>1, <2>4
    <2>7. {a[i] : i \in DOMAIN a} = {b[i] : i \in DOMAIN b}
        BY <2>5, <2>6
    <2>8. DOMAIN ArcBag(a) = DOMAIN ArcBag(b)
        BY <2>7, <1>3
    <2>9. \A x \in DOMAIN ArcBag(a) : ArcBag(a)[x] = ArcBag(b)[x]
        <3>1. \A x \in DOMAIN ArcBag(a) : Cardinality(Positions(a, x)) = Cardinality(Positions(b, x))
            BY <1>3, <1>4 DEF Counted
        <3>2. QED
            BY <3>1, <2>8, <1>3
    <2>10. QED
        BY <2>8, <2>9, <1>3
<1>5. ASSUME ArcBag(a) = ArcBag(b)
      PROVE  Len(a) = Len(b) /\ Counted
    <2>1. {a[i] : i \in DOMAIN a} = {b[i] : i \in DOMAIN b}
        BY <1>3, <1>5
    <2>2. \A x \in {a[i] : i \in DOMAIN a} : Cardinality(Positions(a, x)) = Cardinality(Positions(b, x))
        BY <1>3, <1>5, <2>1
    <2>3. Counted
        BY <2>2 DEF Counted
    <2>4. \A i \in DOMAIN b : Cardinality(Positions(b, b[i])) = Cardinality(Positions(a, b[i]))
        BY <2>1, <2>2
    <2>5. PICK g \in Injection(DOMAIN a, DOMAIN b) : \A i \in DOMAIN a : b[g[i]] = a[i]
        BY <2>3, Rearranged DEF Counted
    <2>6. PICK h \in Injection(DOMAIN b, DOMAIN a) : \A i \in DOMAIN b : a[h[i]] = b[i]
        BY <2>4, Rearranged
    <2>7. /\ IsFiniteSet(DOMAIN a) /\ Cardinality(DOMAIN a) = Len(a)
          /\ IsFiniteSet(DOMAIN b) /\ Cardinality(DOMAIN b) = Len(b)
        BY FinitePositions
    <2>8. Len(a) <= Len(b) /\ Len(b) <= Len(a)
        BY <2>5, <2>6, <2>7, FS_Injection
    <2>9. Len(a) = Len(b)
        BY <2>8, SeqElim
    <2>10. QED
        BY <2>3, <2>9
<1>6. QED
    BY <1>1, <1>2, <1>4, <1>5

(***************************************************************************)
(* The same for nets.  It is enough that there are as many transitions,    *)
(* and each of the first in the second.                                    *)
(***************************************************************************)
LEMMA EqualityIs ==
    ASSUME NEW f, NEW g, WellFormed(f), WellFormed(g)
    PROVE  LET net1 == NetIn(f)
               net2 == NetIn(g)
           IN  stateNetEquality(net1, net2) <=>
                /\ DOMAIN net1 = DOMAIN net2
                /\ \A t \in DOMAIN net1, side \in {"first", "second"} :
                    net1[t][side] # <<>> => ArcBag(net1[t][side]) = ArcBag(net2[t][side])
<1> DEFINE net1 == NetIn(f)
<1> DEFINE net2 == NetIn(g)
<1>1. /\ IsFiniteSet(DOMAIN net1) /\ IsFiniteSet(DOMAIN net2)
      /\ \A t \in DOMAIN net1 : IsSeq(net1[t]["first"]) /\ IsSeq(net1[t]["second"])
      /\ \A t \in DOMAIN net2 : IsSeq(net2[t]["first"]) /\ IsSeq(net2[t]["second"])
    BY NetInFacts
<1> HIDE DEF net1, net2
<1>2. (Cardinality(DOMAIN net1) = Cardinality(DOMAIN net2) /\ \A t \in DOMAIN net1 : t \in DOMAIN net2)
      <=> DOMAIN net1 = DOMAIN net2
    <2>1. ASSUME Cardinality(DOMAIN net1) = Cardinality(DOMAIN net2), \A t \in DOMAIN net1 : t \in DOMAIN net2
          PROVE  DOMAIN net1 = DOMAIN net2
        BY <1>1, <2>1, FS_Subset
    <2>2. QED
        BY <2>1
<1> DEFINE Alike(side) == \A t \in DOMAIN net1 : SameArcs(net1[t][side], net2[t][side])
<1>3. ASSUME DOMAIN net1 = DOMAIN net2, NEW side \in {"first", "second"}
      PROVE  Alike(side) <=>
                \A t \in DOMAIN net1 : net1[t][side] # <<>> => ArcBag(net1[t][side]) = ArcBag(net2[t][side])
    BY <1>1, <1>3, SameArcsIs
<1>4. stateNetEquality(net1, net2) <=> DOMAIN net1 = DOMAIN net2 /\ Alike("first") /\ Alike("second")
    BY <1>2 DEF stateNetEquality
<1> HIDE DEF Alike
<1>5. stateNetEquality(net1, net2) <=>
        /\ DOMAIN net1 = DOMAIN net2
        /\ \A t \in DOMAIN net1, side \in {"first", "second"} :
            net1[t][side] # <<>> => ArcBag(net1[t][side]) = ArcBag(net2[t][side])
    BY <1>3, <1>4
<1>6. QED
    BY <1>5 DEF net1, net2

-----------------------------------------------------------------------------
(***************************************************************************)
(* How often something is in a sequence, and bags.                         *)
(***************************************************************************)

(***************************************************************************)
(* How often x is in a sequence.                                           *)
(***************************************************************************)
Times(s, x) == Cardinality(Positions(s, x))

(***************************************************************************)
(* It is a number, and positive for the elements.                          *)
(***************************************************************************)
LEMMA TimesIs ==
    ASSUME NEW s, IsSeq(s), NEW x
    PROVE  /\ Times(s, x) \in Nat
           /\ Times(s, x) = 0 <=> Positions(s, x) = {}
           /\ Times(s, x) = 0 <=> x \notin {s[i] : i \in 1 .. Len(s)}
<1>1. IsFiniteSet(Positions(s, x))
    BY FinitePositions
<1>2. Times(s, x) \in Nat
    BY <1>1, FS_CardinalityType DEF Times
<1>3. Times(s, x) = 0 <=> Positions(s, x) = {}
    BY <1>1, FS_EmptySet DEF Times
<1>4. Positions(s, x) = {} <=> x \notin {s[i] : i \in 1 .. Len(s)}
    BY SeqElim DEF Positions
<1>5. QED
    BY <1>2, <1>3, <1>4

(***************************************************************************)
(* Appending y makes one more of it.                                       *)
(***************************************************************************)
LEMMA TimesAppend ==
    ASSUME NEW s, IsSeq(s), NEW x, NEW y
    PROVE  Times(Append(s, y), x) = Times(s, x) + IF x = y THEN 1 ELSE 0
<1> DEFINE n == Len(s) + 1
<1> DEFINE r == Append(s, y)
<1>1. Len(s) \in Nat /\ DOMAIN s = 1 .. Len(s)
    BY SeqElim
<1>2. IsSeq(r) /\ Len(r) = n /\ (\A i \in 1 .. Len(s) : r[i] = s[i]) /\ r[n] = y
    BY SeqAppend
<1>3. DOMAIN r = 1 .. n
    BY <1>2, SeqElim
<1> HIDE DEF r
<1>4. IsFiniteSet(Positions(s, x)) /\ n \notin Positions(s, x)
    <2>1. IsFiniteSet(Positions(s, x))
        BY FinitePositions
    <2>2. n \notin 1 .. Len(s)
        BY <1>1
    <2>3. n \notin Positions(s, x)
        BY <2>2, <1>1 DEF Positions
    <2>4. QED
        BY <2>1, <2>3
<1>5. Times(s, x) \in Nat
    BY TimesIs
<1>6. CASE x = y
    <2>1. Positions(r, x) = Positions(s, x) \cup {n}
        BY <1>1, <1>2, <1>3, <1>6 DEF Positions
    <2>2. Cardinality(Positions(s, x) \cup {n}) = Cardinality(Positions(s, x)) + 1
        BY <1>4, FS_AddElement
    <2>3. Times(r, x) = Times(s, x) + 1
        BY <2>1, <2>2 DEF Times
    <2>4. QED
        BY <2>3, <1>5, <1>6 DEF r
<1>7. CASE x # y
    <2>1. Positions(r, x) = Positions(s, x)
        BY <1>1, <1>2, <1>3, <1>7 DEF Positions
    <2>2. Times(r, x) = Times(s, x)
        BY <2>1 DEF Times
    <2>3. QED
        BY <2>2, <1>5, <1>7 DEF r
<1>8. QED
    BY <1>6, <1>7

(***************************************************************************)
(* Replacing an element makes one more of the new one and one less of the  *)
(* old one.                                                                *)
(***************************************************************************)
LEMMA TimesReplaced ==
    ASSUME NEW s, IsSeq(s), NEW k \in 1 .. Len(s), NEW y, NEW x
    PROVE  Times([s EXCEPT ![k] = y], x) + (IF x = s[k] THEN 1 ELSE 0) = Times(s, x) + IF x = y THEN 1 ELSE 0
<1> DEFINE r == [s EXCEPT ![k] = y]
<1> DEFINE rest == Positions(s, x) \ {k}
<1>1. Len(s) \in Nat /\ DOMAIN s = 1 .. Len(s)
    BY SeqElim
<1>2. DOMAIN r = DOMAIN s /\ r[k] = y /\ \A i \in DOMAIN s : i # k => r[i] = s[i]
    BY <1>1
<1> HIDE DEF r
<1>3. IsFiniteSet(Positions(s, x)) /\ IsFiniteSet(rest) /\ k \notin rest
    BY FinitePositions, FS_RemoveElement
<1>4. Cardinality(rest) \in Nat
    BY <1>3, FS_CardinalityType
<1>5. Positions(s, x) = IF x = s[k] THEN rest \cup {k} ELSE rest
    BY <1>1 DEF Positions
<1>6. Positions(r, x) = IF x = y THEN rest \cup {k} ELSE rest
    BY <1>1, <1>2 DEF Positions
<1>7. Cardinality(rest \cup {k}) = Cardinality(rest) + 1
    BY <1>3, FS_AddElement
<1> HIDE DEF rest
<1>8. Times(s, x) = IF x = s[k] THEN Cardinality(rest) + 1 ELSE Cardinality(rest)
    BY <1>5, <1>7 DEF Times
<1>9. Times(r, x) = IF x = y THEN Cardinality(rest) + 1 ELSE Cardinality(rest)
    BY <1>6, <1>7 DEF Times
<1>10. QED
    BY <1>4, <1>8, <1>9 DEF r

(***************************************************************************)
(* Removing an element makes one less of it.                               *)
(***************************************************************************)
LEMMA TimesRemoved ==
    ASSUME NEW s, IsSeq(s), NEW k \in 1 .. Len(s), NEW x
    PROVE  Times(RemoveAt(s, k), x) + (IF x = s[k] THEN 1 ELSE 0) = Times(s, x)
<1> DEFINE r == RemoveAt(s, k)
<1> DEFINE rest == Positions(s, x) \ {k}
<1> DEFINE f == [i \in Positions(r, x) |-> IF i < k THEN i ELSE i + 1]
<1>1. Len(s) \in Nat /\ DOMAIN s = 1 .. Len(s)
    BY SeqElim
<1>2. IsSeq(r) /\ Len(r) = Len(s) - 1 /\ \A i \in 1 .. Len(s) - 1 : r[i] = IF i < k THEN s[i] ELSE s[i + 1]
    BY SeqRemove
<1>3. DOMAIN r = 1 .. Len(s) - 1
    BY <1>2, SeqElim
<1> HIDE DEF r
<1>4. IsFiniteSet(Positions(s, x)) /\ IsFiniteSet(rest) /\ k \notin rest
    BY FinitePositions, FS_RemoveElement
<1>5. Cardinality(rest) \in Nat
    BY <1>4, FS_CardinalityType
<1>6. Positions(s, x) = IF x = s[k] THEN rest \cup {k} ELSE rest
    BY <1>1 DEF Positions
<1>7. Cardinality(rest \cup {k}) = Cardinality(rest) + 1
    BY <1>4, FS_AddElement
<1>8. f \in Bijection(Positions(r, x), rest)
    <2>1. \A i \in Positions(r, x) : i \in 1 .. Len(s) - 1 /\ r[i] = x
        BY <1>3 DEF Positions
    <2>2. \A i \in Positions(r, x) : f[i] \in rest
        BY <2>1, <1>1, <1>2 DEF Positions
    <2>3. \A i, j \in Positions(r, x) : f[i] = f[j] => i = j
        BY <2>1, <1>1
    <2>4. ASSUME NEW m \in rest
          PROVE  \E i \in Positions(r, x) : f[i] = m
        <3>1. m \in 1 .. Len(s) /\ m # k /\ s[m] = x
            BY <1>1 DEF Positions
        <3>2. CASE m < k
            <4>1. m \in 1 .. Len(s) - 1 /\ r[m] = x
                BY <3>1, <3>2, <1>1, <1>2
            <4>2. m \in Positions(r, x) /\ f[m] = m
                BY <4>1, <3>2, <1>3 DEF Positions
            <4>3. QED
                BY <4>2
        <3>3. CASE m > k
            <4>1. m - 1 \in 1 .. Len(s) - 1 /\ ~(m - 1 < k) /\ (m - 1) + 1 = m
                BY <3>1, <3>3, <1>1
            <4>2. r[m - 1] = x
                BY <4>1, <3>1, <1>2
            <4>3. m - 1 \in Positions(r, x)
                BY <4>1, <4>2, <1>3 DEF Positions
            <4>4. f[m - 1] = m
                BY <4>1, <4>3
            <4>5. QED
                BY <4>3, <4>4
        <3>4. QED
            BY <3>1, <3>2, <3>3, <1>1
    <2>5. f \in [Positions(r, x) -> rest]
        BY <2>2
    <2> HIDE DEF f, rest
    <2>6. QED
        BY <2>3, <2>4, <2>5 DEF Bijection, Injection, Surjection, IsInjective
<1>9. IsFiniteSet(Positions(r, x))
    BY <1>2, FinitePositions
<1>10. ExistsBijection(Positions(r, x), rest)
    BY <1>8 DEF ExistsBijection
<1> HIDE DEF f, rest
<1>11. Times(r, x) = Cardinality(rest)
    BY <1>9, <1>10, FS_Bijection DEF Times
<1>12. Times(s, x) = IF x = s[k] THEN Cardinality(rest) + 1 ELSE Cardinality(rest)
    BY <1>6, <1>7 DEF Times
<1>13. QED
    BY <1>5, <1>11, <1>12 DEF r

(***************************************************************************)
(* A function.                                                             *)
(***************************************************************************)
IsFcn(f) == f = [a \in DOMAIN f |-> f[a]]

(***************************************************************************)
(* Two with the same domain and the same values are the same.              *)
(***************************************************************************)
LEMMA SameFcn ==
    ASSUME NEW f, NEW g, IsFcn(f), IsFcn(g), DOMAIN f = DOMAIN g, \A a \in DOMAIN f : f[a] = g[a]
    PROVE  f = g
BY DEF IsFcn

(***************************************************************************)
(* The operators on bags, element by element.                              *)
(***************************************************************************)
LEMMA PlusIs ==
    ASSUME NEW A, NEW B
    PROVE  /\ IsFcn(A (+) B)
           /\ DOMAIN (A (+) B) = DOMAIN A \cup DOMAIN B
           /\ \A a \in DOMAIN A \cup DOMAIN B :
                (A (+) B)[a] = (IF a \in DOMAIN A THEN A[a] ELSE 0) + (IF a \in DOMAIN B THEN B[a] ELSE 0)
BY DEF (+), IsFcn

(***************************************************************************)
(* Likewise.                                                               *)
(***************************************************************************)
LEMMA MinusIs ==
    ASSUME NEW A, NEW B
    PROVE  /\ IsFcn(A (-) B)
           /\ \A a : a \in DOMAIN (A (-) B) <=>
                    a \in DOMAIN A /\ (IF a \in DOMAIN B THEN A[a] - B[a] ELSE A[a]) > 0
           /\ \A a \in DOMAIN (A (-) B) :
                (A (-) B)[a] = IF a \in DOMAIN B THEN A[a] - B[a] ELSE A[a]
BY DEF (-), IsFcn

(***************************************************************************)
(* One element more.                                                       *)
(***************************************************************************)
LEMMA PlusOne ==
    ASSUME NEW A, NEW y
    PROVE  LET N == A (+) SetToBag({y})
           IN  /\ IsFcn(N)
               /\ DOMAIN N = DOMAIN A \cup {y}
               /\ \A a \in DOMAIN N : N[a] = (IF a \in DOMAIN A THEN A[a] ELSE 0) + (IF a = y THEN 1 ELSE 0)
<1> DEFINE O == SetToBag({y})
<1>1. DOMAIN O = {y} /\ O[y] = 1
    BY DEF SetToBag
<1> HIDE DEF O
<1> DEFINE N == A (+) O
<1>2. IsFcn(N)
    BY PlusIs
<1>3. DOMAIN N = DOMAIN A \cup DOMAIN O
    BY PlusIs
<1>4. \A a \in DOMAIN A \cup DOMAIN O :
        N[a] = (IF a \in DOMAIN A THEN A[a] ELSE 0) + (IF a \in DOMAIN O THEN O[a] ELSE 0)
    BY PlusIs
<1> HIDE DEF N
<1>5. DOMAIN N = DOMAIN A \cup {y}
    BY <1>1, <1>3
<1>6. \A a \in DOMAIN N : N[a] = (IF a \in DOMAIN A THEN A[a] ELSE 0) + (IF a = y THEN 1 ELSE 0)
    BY <1>1, <1>4, <1>5
<1>7. QED
    BY <1>2, <1>5, <1>6 DEF N, O

(***************************************************************************)
(* One element less.                                                       *)
(***************************************************************************)
LEMMA MinusOne ==
    ASSUME NEW A, NEW y
    PROVE  LET N == A (-) SetToBag({y})
           IN  /\ IsFcn(N)
               /\ \A a : a \in DOMAIN N <=> a \in DOMAIN A /\ (IF a = y THEN A[a] - 1 ELSE A[a]) > 0
               /\ \A a \in DOMAIN N : N[a] = IF a = y THEN A[a] - 1 ELSE A[a]
<1> DEFINE O == SetToBag({y})
<1>1. DOMAIN O = {y} /\ O[y] = 1
    BY DEF SetToBag
<1> HIDE DEF O
<1> DEFINE N == A (-) O
<1>2. IsFcn(N)
    BY MinusIs
<1>3. \A a : a \in DOMAIN N <=> a \in DOMAIN A /\ (IF a \in DOMAIN O THEN A[a] - O[a] ELSE A[a]) > 0
    BY MinusIs
<1>4. \A a \in DOMAIN N : N[a] = IF a \in DOMAIN O THEN A[a] - O[a] ELSE A[a]
    BY MinusIs
<1> HIDE DEF N
<1>5. \A a : a \in DOMAIN N <=> a \in DOMAIN A /\ (IF a = y THEN A[a] - 1 ELSE A[a]) > 0
    BY <1>1, <1>3
<1>6. \A a \in DOMAIN N : N[a] = IF a = y THEN A[a] - 1 ELSE A[a]
    BY <1>1, <1>4
<1>7. QED
    BY <1>2, <1>5, <1>6 DEF N, O

(***************************************************************************)
(* The bag of a list of arcs counts them.                                  *)
(***************************************************************************)
LEMMA ArcBagIs ==
    ASSUME NEW s, IsSeq(s)
    PROVE  /\ IsFcn(ArcBag(s))
           /\ DOMAIN ArcBag(s) = {s[i] : i \in 1 .. Len(s)}
           /\ \A a : Times(s, a) \in Nat
           /\ \A a : a \in DOMAIN ArcBag(s) <=> Times(s, a) # 0
           /\ \A a \in DOMAIN ArcBag(s) : ArcBag(s)[a] = Times(s, a)
<1>1. DOMAIN s = 1 .. Len(s)
    BY SeqElim
<1>2. /\ IsFcn(ArcBag(s))
      /\ DOMAIN ArcBag(s) = {s[i] : i \in 1 .. Len(s)}
      /\ \A a \in DOMAIN ArcBag(s) : ArcBag(s)[a] = Times(s, a)
    BY <1>1 DEF ArcBag, Times, Positions, IsFcn
<1>3. \A a : Times(s, a) \in Nat /\ (Times(s, a) = 0 <=> a \notin {s[i] : i \in 1 .. Len(s)})
    BY TimesIs
<1>4. QED
    BY <1>2, <1>3

(***************************************************************************)
(* One more arc.                                                           *)
(***************************************************************************)
LEMMA ArcBagAppend ==
    ASSUME NEW s, IsSeq(s), NEW y
    PROVE  ArcBag(Append(s, y)) = ArcBag(s) (+) SetToBag({y})
<1> DEFINE r == Append(s, y)
<1> DEFINE B == ArcBag(s)
<1> DEFINE R == ArcBag(r)
<1>1. \A a : Times(r, a) = Times(s, a) + IF a = y THEN 1 ELSE 0
    BY TimesAppend
<1>2. IsSeq(r)
    BY SeqAppend
<1> HIDE DEF r
<1>3. /\ IsFcn(B)
      /\ \A a : Times(s, a) \in Nat
      /\ \A a : a \in DOMAIN B <=> Times(s, a) # 0
      /\ \A a \in DOMAIN B : B[a] = Times(s, a)
    BY ArcBagIs
<1>4. /\ IsFcn(R)
      /\ \A a : a \in DOMAIN R <=> Times(r, a) # 0
      /\ \A a \in DOMAIN R : R[a] = Times(r, a)
    BY <1>2, ArcBagIs
<1> HIDE DEF B, R
<1>5. DOMAIN R = DOMAIN B \cup {y}
    <2>1. ASSUME NEW a
          PROVE  a \in DOMAIN R <=> a \in DOMAIN B \/ a = y
        <3>1. Times(s, a) \in Nat /\ Times(r, a) = Times(s, a) + IF a = y THEN 1 ELSE 0
            BY <1>1, <1>3
        <3>2. Times(r, a) # 0 <=> Times(s, a) # 0 \/ a = y
            BY <3>1
        <3>3. QED
            BY <3>2, <1>3, <1>4
    <2>2. QED
        BY <2>1
<1>6. \A a \in DOMAIN R : R[a] = (IF a \in DOMAIN B THEN B[a] ELSE 0) + (IF a \in {y} THEN 1 ELSE 0)
    BY <1>1, <1>3, <1>4
<1>7. R = B (+) SetToBag({y})
    <2> DEFINE N == B (+) SetToBag({y})
    <2>1. /\ IsFcn(N)
          /\ DOMAIN N = DOMAIN B \cup {y}
          /\ \A a \in DOMAIN N : N[a] = (IF a \in DOMAIN B THEN B[a] ELSE 0) + (IF a = y THEN 1 ELSE 0)
        BY PlusOne
    <2> HIDE DEF N
    <2>2. R = N
        BY <1>4, <1>5, <1>6, <2>1, SameFcn
    <2>3. QED
        BY <2>2 DEF N
<1>8. QED
    BY <1>7 DEF B, R, r

(***************************************************************************)
(* One arc less.                                                           *)
(***************************************************************************)
LEMMA ArcBagRemoved ==
    ASSUME NEW s, IsSeq(s), NEW k \in 1 .. Len(s)
    PROVE  ArcBag(RemoveAt(s, k)) = ArcBag(s) (-) SetToBag({s[k]})
<1> DEFINE r == RemoveAt(s, k)
<1> DEFINE y == s[k]
<1> DEFINE B == ArcBag(s)
<1> DEFINE R == ArcBag(r)
<1>1. \A a : Times(r, a) + (IF a = y THEN 1 ELSE 0) = Times(s, a)
    BY TimesRemoved
<1>2. IsSeq(r)
    BY SeqRemove
<1> HIDE DEF r, y
<1>3. /\ IsFcn(B)
      /\ \A a : Times(s, a) \in Nat
      /\ \A a : a \in DOMAIN B <=> Times(s, a) # 0
      /\ \A a \in DOMAIN B : B[a] = Times(s, a)
    BY ArcBagIs
<1>4. /\ IsFcn(R)
      /\ \A a : Times(r, a) \in Nat
      /\ \A a : a \in DOMAIN R <=> Times(r, a) # 0
      /\ \A a \in DOMAIN R : R[a] = Times(r, a)
    BY <1>2, ArcBagIs
<1> HIDE DEF B, R
<1> DEFINE M == B (-) SetToBag({y})
<1>5. /\ IsFcn(M)
      /\ \A a : a \in DOMAIN M <=> a \in DOMAIN B /\ (IF a = y THEN B[a] - 1 ELSE B[a]) > 0
      /\ \A a \in DOMAIN M : M[a] = IF a = y THEN B[a] - 1 ELSE B[a]
    BY MinusOne
<1> HIDE DEF M
<1>6. DOMAIN R = DOMAIN M
    <2>1. ASSUME NEW a
          PROVE  a \in DOMAIN R <=> a \in DOMAIN M
        <3>1. Times(s, a) \in Nat /\ Times(r, a) \in Nat /\ Times(r, a) + (IF a = y THEN 1 ELSE 0) = Times(s, a)
            BY <1>1, <1>3, <1>4
        <3>2. a \in DOMAIN R <=> Times(s, a) # 0 /\ (IF a = y THEN Times(s, a) - 1 ELSE Times(s, a)) > 0
            BY <3>1, <1>4
        <3>3. QED
            BY <3>2, <1>3, <1>5
    <2>2. QED
        BY <2>1
<1>7. \A a \in DOMAIN R : R[a] = M[a]
    BY <1>1, <1>3, <1>4, <1>5
<1>8. R = M
    BY <1>4, <1>5, <1>6, <1>7, SameFcn
<1>9. QED
    BY <1>8 DEF B, R, M, r, y

(***************************************************************************)
(* One arc replaced by another one.                                        *)
(***************************************************************************)
LEMMA ArcBagReplaced ==
    ASSUME NEW s, IsSeq(s), NEW k \in 1 .. Len(s), NEW y
    PROVE  ArcBag([s EXCEPT ![k] = y]) = (ArcBag(s) (-) SetToBag({s[k]})) (+) SetToBag({y})
<1> DEFINE r == [s EXCEPT ![k] = y]
<1> DEFINE z == s[k]
<1> DEFINE B == ArcBag(s)
<1> DEFINE R == ArcBag(r)
<1>1. \A a : Times(r, a) + (IF a = z THEN 1 ELSE 0) = Times(s, a) + IF a = y THEN 1 ELSE 0
    BY TimesReplaced
<1>2. IsSeq(r)
    <2>1. DOMAIN r = DOMAIN s /\ r = [i \in DOMAIN r |-> r[i]]
        OBVIOUS
    <2>2. QED
        BY <2>1, SeqOver
<1>3. Times(s, z) # 0
    <2>1. z \in {s[i] : i \in 1 .. Len(s)}
        OBVIOUS
    <2>2. QED
        BY <2>1, TimesIs
<1> HIDE DEF r, z
<1>4. /\ IsFcn(B)
      /\ \A a : Times(s, a) \in Nat
      /\ \A a : a \in DOMAIN B <=> Times(s, a) # 0
      /\ \A a \in DOMAIN B : B[a] = Times(s, a)
    BY ArcBagIs
<1>5. /\ IsFcn(R)
      /\ \A a : Times(r, a) \in Nat
      /\ \A a : a \in DOMAIN R <=> Times(r, a) # 0
      /\ \A a \in DOMAIN R : R[a] = Times(r, a)
    BY <1>2, ArcBagIs
<1> HIDE DEF B, R
<1> DEFINE M == B (-) SetToBag({z})
<1>6. /\ \A a : a \in DOMAIN M <=> a \in DOMAIN B /\ (IF a = z THEN B[a] - 1 ELSE B[a]) > 0
      /\ \A a \in DOMAIN M : M[a] = IF a = z THEN B[a] - 1 ELSE B[a]
    BY MinusOne
<1> HIDE DEF M
<1>7. \A a : a \in DOMAIN M <=> Times(s, a) > (IF a = z THEN 1 ELSE 0)
    BY <1>3, <1>4, <1>6
<1>8. \A a \in DOMAIN M : M[a] = Times(s, a) - IF a = z THEN 1 ELSE 0
    BY <1>4, <1>6
<1> DEFINE N == M (+) SetToBag({y})
<1>9. /\ IsFcn(N)
      /\ DOMAIN N = DOMAIN M \cup {y}
      /\ \A a \in DOMAIN N : N[a] = (IF a \in DOMAIN M THEN M[a] ELSE 0) + (IF a = y THEN 1 ELSE 0)
    BY PlusOne
<1> HIDE DEF N
<1>10. DOMAIN R = DOMAIN N
    <2>1. ASSUME NEW a
          PROVE  a \in DOMAIN R <=> a \in DOMAIN M \/ a = y
        <3>1. /\ Times(s, a) \in Nat /\ Times(r, a) \in Nat
              /\ Times(r, a) + (IF a = z THEN 1 ELSE 0) = Times(s, a) + IF a = y THEN 1 ELSE 0
              /\ a = z => Times(s, a) # 0
            BY <1>1, <1>3, <1>4, <1>5
        <3>2. Times(r, a) # 0 <=> Times(s, a) > (IF a = z THEN 1 ELSE 0) \/ a = y
            BY <3>1
        <3>3. QED
            BY <3>2, <1>5, <1>7
    <2>2. QED
        BY <2>1, <1>9
<1>11. \A a \in DOMAIN R : R[a] = N[a]
    BY <1>1, <1>3, <1>4, <1>5, <1>7, <1>8, <1>9, <1>10
<1>12. R = N
    BY <1>5, <1>9, <1>10, <1>11, SameFcn
<1>13. QED
    BY <1>12 DEF B, R, M, N, r, z

(***************************************************************************)
(* Nodes that are told apart by their identities.                          *)
(***************************************************************************)
Distinct(nodes) ==
    /\ IsSeq(nodes)
    /\ \A k \in 1 .. Len(nodes) : DOMAIN nodes[k] = {"id", "name"} /\ nodes[k].id \in Nat
    /\ \A j, k \in 1 .. Len(nodes) : nodes[j].id = nodes[k].id => j = k

(***************************************************************************)
(* A node is found by its identity.                                        *)
(***************************************************************************)
LEMMA NodeFound ==
    ASSUME NEW nodes, Distinct(nodes)
    PROVE  /\ Ids(nodes) = {nodes[k].id : k \in 1 .. Len(nodes)}
           /\ \A k \in 1 .. Len(nodes) : IndexOf(nodes, nodes[k].id) = k
<1>1. DOMAIN nodes = 1 .. Len(nodes)
    BY SeqElim DEF Distinct
<1>2. ASSUME NEW k \in 1 .. Len(nodes)
      PROVE  IndexOf(nodes, nodes[k].id) = k
    <2>1. \A j \in DOMAIN nodes : nodes[j].id = nodes[k].id <=> j = k
        BY <1>1 DEF Distinct
    <2>2. QED
        BY <1>1, <2>1 DEF IndexOf
<1>3. QED
    BY <1>1, <1>2 DEF Ids

(***************************************************************************)
(* A bag of tokens, or of arcs, at the first n places.                     *)
(***************************************************************************)
Marks(bag, n) ==
    /\ IsFcn(bag)
    /\ \A a \in DOMAIN bag : a \in (1 .. n) \X Token /\ bag[a] \in Nat

(***************************************************************************)
(* An element of such a bag, as the net has it.                            *)
(***************************************************************************)
Label(place, a) == <<place[a[1]].id, a[2]>>

(***************************************************************************)
(* Told by identities it is the same bag under other names.                *)
(***************************************************************************)
LEMMA ByIdIs ==
    ASSUME NEW place, Distinct(place), NEW bag, Marks(bag, Len(place))
    PROVE  LET B == ById(place, bag)
           IN  /\ IsFcn(B)
               /\ \A x \in DOMAIN B : \E a \in DOMAIN bag : x = Label(place, a)
               /\ \A a \in DOMAIN bag : Label(place, a) \in DOMAIN B
               /\ \A a \in DOMAIN bag : B[Label(place, a)] = bag[a]
               /\ \A a \in (1 .. Len(place)) \X Token : Label(place, a) \in DOMAIN B <=> a \in DOMAIN bag
<1> DEFINE B == ById(place, bag)
<1>1. IsFcn(B) /\ DOMAIN B = {Label(place, a) : a \in DOMAIN bag}
    BY DEF ById, BagToSet, Label, IsFcn
<1>2. ASSUME NEW a \in DOMAIN bag
      PROVE  B[Label(place, a)] = bag[a]
    <2>1. a \in (1 .. Len(place)) \X Token
        BY DEF Marks
    <2>2. IndexOf(place, place[a[1]].id) = a[1] /\ a = <<a[1], a[2]>>
        BY <2>1, NodeFound
    <2>3. Label(place, a) \in DOMAIN B
        BY <1>1
    <2>4. B[Label(place, a)] = bag[<<IndexOf(place, Label(place, a)[1]), Label(place, a)[2]>>]
        BY <2>3 DEF ById, BagToSet, Label
    <2>5. QED
        BY <2>2, <2>4 DEF Label
<1>3. ASSUME NEW a \in (1 .. Len(place)) \X Token, Label(place, a) \in DOMAIN B
      PROVE  a \in DOMAIN bag
    <2>1. PICK b \in DOMAIN bag : Label(place, a) = Label(place, b)
        BY <1>1, <1>3
    <2>2. b \in (1 .. Len(place)) \X Token
        BY DEF Marks
    <2>3. a[1] = b[1] /\ a[2] = b[2]
        BY <2>1, <2>2 DEF Label, Distinct
    <2>4. a = b
        BY <2>2, <2>3
    <2>5. QED
        BY <2>4
<1>4. QED
    BY <1>1, <1>2, <1>3

(***************************************************************************)
(* Two bags that are the same at every labelled element are the same.      *)
(***************************************************************************)
LEMMA ByIdSame ==
    ASSUME NEW place, Distinct(place), NEW bag, Marks(bag, Len(place)), NEW R, IsFcn(R),
           \A x \in DOMAIN R : \E a \in DOMAIN bag : x = Label(place, a),
           \A a \in DOMAIN bag : Label(place, a) \in DOMAIN R /\ R[Label(place, a)] = bag[a]
    PROVE  ById(place, bag) = R
<1> DEFINE B == ById(place, bag)
<1>1. /\ IsFcn(B)
      /\ \A x \in DOMAIN B : \E a \in DOMAIN bag : x = Label(place, a)
      /\ \A a \in DOMAIN bag : Label(place, a) \in DOMAIN B
      /\ \A a \in DOMAIN bag : B[Label(place, a)] = bag[a]
    BY ByIdIs
<1> HIDE DEF B
<1>2. DOMAIN B = DOMAIN R
    BY <1>1
<1>3. \A x \in DOMAIN B : B[x] = R[x]
    BY <1>1
<1>4. B = R
    BY <1>1, <1>2, <1>3, SameFcn
<1>5. QED
    BY <1>4 DEF B

(***************************************************************************)
(* Adding tokens.                                                          *)
(***************************************************************************)
LEMMA ByIdPlus ==
    ASSUME NEW place, Distinct(place), NEW A, NEW C, Marks(A, Len(place)), Marks(C, Len(place))
    PROVE  /\ Marks(A (+) C, Len(place))
           /\ ById(place, A (+) C) = ById(place, A) (+) ById(place, C)
<1> DEFINE n == Len(place)
<1> DEFINE S == A (+) C
<1> DEFINE X == ById(place, A)
<1> DEFINE Y == ById(place, C)
<1> DEFINE R == X (+) Y
<1>1. /\ IsFcn(S)
      /\ DOMAIN S = DOMAIN A \cup DOMAIN C
      /\ \A a \in DOMAIN A \cup DOMAIN C :
            S[a] = (IF a \in DOMAIN A THEN A[a] ELSE 0) + (IF a \in DOMAIN C THEN C[a] ELSE 0)
    BY PlusIs
<1> HIDE DEF S
<1>2. /\ \A a \in DOMAIN A : a \in (1 .. n) \X Token /\ A[a] \in Nat
      /\ \A a \in DOMAIN C : a \in (1 .. n) \X Token /\ C[a] \in Nat
    BY DEF Marks
<1>3. Marks(S, n)
    <2>1. \A a \in DOMAIN S : a \in (1 .. n) \X Token
        BY <1>1, <1>2
    <2>2. \A a \in DOMAIN S : S[a] \in Nat
        BY <1>1, <1>2
    <2>3. QED
        BY <2>1, <2>2, <1>1 DEF Marks
<1>4. /\ \A x \in DOMAIN X : \E a \in DOMAIN A : x = Label(place, a)
      /\ \A a \in DOMAIN A : Label(place, a) \in DOMAIN X
      /\ \A a \in DOMAIN A : X[Label(place, a)] = A[a]
      /\ \A a \in (1 .. n) \X Token : Label(place, a) \in DOMAIN X <=> a \in DOMAIN A
    BY ByIdIs
<1>5. /\ \A x \in DOMAIN Y : \E a \in DOMAIN C : x = Label(place, a)
      /\ \A a \in DOMAIN C : Label(place, a) \in DOMAIN Y
      /\ \A a \in DOMAIN C : Y[Label(place, a)] = C[a]
      /\ \A a \in (1 .. n) \X Token : Label(place, a) \in DOMAIN Y <=> a \in DOMAIN C
    BY ByIdIs
<1>6. IsFcn(R)
    BY PlusIs
<1>7. DOMAIN R = DOMAIN X \cup DOMAIN Y
    BY PlusIs
<1>8. \A x \in DOMAIN X \cup DOMAIN Y :
            R[x] = (IF x \in DOMAIN X THEN X[x] ELSE 0) + (IF x \in DOMAIN Y THEN Y[x] ELSE 0)
    BY PlusIs
<1> HIDE DEF X, Y, R
<1>9. \A x \in DOMAIN R : \E a \in DOMAIN S : x = Label(place, a)
    BY <1>1, <1>4, <1>5, <1>7
<1>10. ASSUME NEW a \in DOMAIN S
       PROVE  Label(place, a) \in DOMAIN R /\ R[Label(place, a)] = S[a]
    <2>1. a \in (1 .. n) \X Token
        BY <1>3 DEF Marks
    <2>2. Label(place, a) \in DOMAIN X \cup DOMAIN Y
        BY <1>1, <1>4, <1>5
    <2>3. /\ Label(place, a) \in DOMAIN X <=> a \in DOMAIN A
          /\ Label(place, a) \in DOMAIN Y <=> a \in DOMAIN C
        BY <2>1, <1>4, <1>5
    <2>4. R[Label(place, a)] = (IF a \in DOMAIN A THEN X[Label(place, a)] ELSE 0)
                             + (IF a \in DOMAIN C THEN Y[Label(place, a)] ELSE 0)
        BY <2>2, <2>3, <1>8
    <2>5. QED
        BY <2>2, <2>4, <1>1, <1>4, <1>5, <1>7
<1>11. ById(place, S) = R
    BY <1>3, <1>6, <1>9, <1>10, ByIdSame
<1>12. QED
    BY <1>3, <1>11 DEF S, R, X, Y

(***************************************************************************)
(* Taking tokens.                                                          *)
(***************************************************************************)
LEMMA ByIdMinus ==
    ASSUME NEW place, Distinct(place), NEW A, NEW C, Marks(A, Len(place)), Marks(C, Len(place))
    PROVE  /\ Marks(A (-) C, Len(place))
           /\ ById(place, A (-) C) = ById(place, A) (-) ById(place, C)
<1> DEFINE n == Len(place)
<1> DEFINE S == A (-) C
<1> DEFINE X == ById(place, A)
<1> DEFINE Y == ById(place, C)
<1> DEFINE R == X (-) Y
<1>1. /\ IsFcn(S)
      /\ \A a : a \in DOMAIN S <=>
            a \in DOMAIN A /\ (IF a \in DOMAIN C THEN A[a] - C[a] ELSE A[a]) > 0
      /\ \A a \in DOMAIN S : S[a] = IF a \in DOMAIN C THEN A[a] - C[a] ELSE A[a]
    BY MinusIs
<1> HIDE DEF S
<1>2. /\ \A a \in DOMAIN A : a \in (1 .. n) \X Token /\ A[a] \in Nat
      /\ \A a \in DOMAIN C : a \in (1 .. n) \X Token /\ C[a] \in Nat
    BY DEF Marks
<1>3. Marks(S, n)
    <2>1. \A a \in DOMAIN S : a \in (1 .. n) \X Token
        BY <1>1, <1>2
    <2>2. \A a \in DOMAIN S : S[a] \in Nat
        BY <1>1, <1>2
    <2>3. QED
        BY <2>1, <2>2, <1>1 DEF Marks
<1>4. /\ \A x \in DOMAIN X : \E a \in DOMAIN A : x = Label(place, a)
      /\ \A a \in DOMAIN A : Label(place, a) \in DOMAIN X
      /\ \A a \in DOMAIN A : X[Label(place, a)] = A[a]
      /\ \A a \in (1 .. n) \X Token : Label(place, a) \in DOMAIN X <=> a \in DOMAIN A
    BY ByIdIs
<1>5. /\ \A x \in DOMAIN Y : \E a \in DOMAIN C : x = Label(place, a)
      /\ \A a \in DOMAIN C : Label(place, a) \in DOMAIN Y
      /\ \A a \in DOMAIN C : Y[Label(place, a)] = C[a]
      /\ \A a \in (1 .. n) \X Token : Label(place, a) \in DOMAIN Y <=> a \in DOMAIN C
    BY ByIdIs
<1>6. IsFcn(R)
    BY MinusIs
<1>7. \A x : x \in DOMAIN R <=> x \in DOMAIN X /\ (IF x \in DOMAIN Y THEN X[x] - Y[x] ELSE X[x]) > 0
    BY MinusIs
<1>8. \A x \in DOMAIN R : R[x] = IF x \in DOMAIN Y THEN X[x] - Y[x] ELSE X[x]
    BY MinusIs
<1> HIDE DEF X, Y, R
<1>9. ASSUME NEW a \in DOMAIN A
      PROVE  /\ (IF Label(place, a) \in DOMAIN Y THEN X[Label(place, a)] - Y[Label(place, a)] ELSE X[Label(place, a)])
                 = (IF a \in DOMAIN C THEN A[a] - C[a] ELSE A[a])
             /\ Label(place, a) \in DOMAIN X
    <2>1. a \in (1 .. n) \X Token
        BY <1>2
    <2>2. Label(place, a) \in DOMAIN Y <=> a \in DOMAIN C
        BY <2>1, <1>5
    <2>3. QED
        BY <2>2, <1>4, <1>5
<1>10. ASSUME NEW x \in DOMAIN R
       PROVE  \E a \in DOMAIN S : x = Label(place, a)
    <2>1. PICK a \in DOMAIN A : x = Label(place, a)
        BY <1>4, <1>7
    <2>2. (IF a \in DOMAIN C THEN A[a] - C[a] ELSE A[a]) > 0
        BY <2>1, <1>7, <1>9
    <2>3. QED
        BY <2>1, <2>2, <1>1
<1>11. ASSUME NEW a \in DOMAIN S
       PROVE  Label(place, a) \in DOMAIN R /\ R[Label(place, a)] = S[a]
    <2>1. a \in DOMAIN A /\ (IF a \in DOMAIN C THEN A[a] - C[a] ELSE A[a]) > 0
        BY <1>1
    <2>2. Label(place, a) \in DOMAIN R
        BY <2>1, <1>7, <1>9
    <2>3. QED
        BY <2>1, <2>2, <1>1, <1>8, <1>9
<1>12. ById(place, S) = R
    BY <1>3, <1>6, <1>10, <1>11, ByIdSame
<1>13. QED
    BY <1>3, <1>12 DEF S, R, X, Y

(***************************************************************************)
(* A token at one place.                                                   *)
(***************************************************************************)
LEMMA ByIdOne ==
    ASSUME NEW place, Distinct(place), NEW p \in 1 .. Len(place), NEW c \in Token
    PROVE  /\ Marks(SetToBag({<<p, c>>}), Len(place))
           /\ ById(place, SetToBag({<<p, c>>})) = SetToBag({<<place[p].id, c>>})
<1> DEFINE O == SetToBag({<<p, c>>})
<1> DEFINE R == SetToBag({<<place[p].id, c>>})
<1>1. IsFcn(O) /\ DOMAIN O = {<<p, c>>} /\ O[<<p, c>>] = 1
    BY DEF SetToBag, IsFcn
<1>2. IsFcn(R) /\ DOMAIN R = {<<place[p].id, c>>} /\ R[<<place[p].id, c>>] = 1
    BY DEF SetToBag, IsFcn
<1> HIDE DEF O, R
<1>3. Marks(O, Len(place))
    BY <1>1 DEF Marks
<1>4. Label(place, <<p, c>>) = <<place[p].id, c>>
    BY DEF Label
<1>5. ById(place, O) = R
    BY <1>1, <1>2, <1>3, <1>4, ByIdSame
<1>6. QED
    BY <1>3, <1>5 DEF O, R

-----------------------------------------------------------------------------
(***************************************************************************)
(* Parsing a file.                                                         *)
(***************************************************************************)

(***************************************************************************)
(* All of the sequences in ss is in s.                                     *)
(***************************************************************************)
Covers(s, ss, n) ==
    /\ IsSeq(s)
    /\ \A i \in 1 .. n : \A j \in 1 .. Len(ss[i]) : \E k \in 1 .. Len(s) : s[k] = ss[i][j]

(***************************************************************************)
(* FlattenSeq loses nothing.                                               *)
(***************************************************************************)
LEMMA FlattenCovers ==
    ASSUME NEW ss, IsSeq(ss), \A i \in 1 .. Len(ss) : IsSeq(ss[i])
    PROVE  Covers(FlattenSeq(ss), ss, Len(ss))
<1> DEFINE n == Len(ss)
<1>1. n \in Nat
    BY SeqElim
<1>2. CASE n = 0
    <2>1. IsSeq(<< >>)
        BY DEF IsSeq
    <2>2. FlattenSeq(ss) = << >>
        BY <1>2 DEF FlattenSeq
    <2>3. QED
        BY <1>2, <2>1, <2>2 DEF Covers
<1>3. CASE n # 0
    <2> DEFINE f == CHOOSE f : Concats(ss, n, f)
    <2>1. FlattenSeq(ss) = f[n]
        BY <1>3 DEF FlattenSeq, Concats
    <2>2. Concats(ss, n, f)
        BY <1>1, ConcatsExist
    <2> HIDE DEF f
    <2> DEFINE S == {m \in 1 .. n : ~ Covers(f[m], ss, m)}
    <2>3. CASE S # {}
        <3>1. S \in SUBSET Nat
            OBVIOUS
        <3>2. PICK m \in S : \A k \in S : m <= k
            BY <2>3, <3>1, LeastNat
        <3>3. f[m] = IF m = 1 THEN ss[m] ELSE f[m - 1] \o ss[m]
            BY <2>2 DEF Concats
        <3>4. IsSeq(ss[m]) /\ m \in 1 .. n /\ ~ Covers(f[m], ss, m)
            OBVIOUS
        <3>5. CASE m = 1
            BY <3>3, <3>4, <3>5 DEF Covers
        <3>6. CASE m # 1
            <4> DEFINE a == f[m - 1]
            <4> DEFINE b == ss[m]
            <4>1. Covers(a, ss, m - 1)
                BY <3>2, <3>4, <3>6, <1>1
            <4>2. f[m] = a \o b /\ IsSeq(b)
                BY <3>3, <3>4, <3>6
            <4> HIDE DEF a
            <4>3. IsSeq(a)
                BY <4>1 DEF Covers
            <4>4. /\ IsSeq(a \o b) /\ Len(a \o b) = Len(a) + Len(b) /\ Len(a) \in Nat /\ Len(b) \in Nat
                  /\ \A i \in 1 .. Len(a) : i \in 1 .. Len(a \o b) /\ (a \o b)[i] = a[i]
                  /\ \A i \in 1 .. Len(b) : Len(a) + i \in 1 .. Len(a \o b) /\ (a \o b)[Len(a) + i] = b[i]
                BY <4>2, <4>3, SeqConcat, SeqElim
            <4>5. ASSUME NEW i \in 1 .. m, NEW j \in 1 .. Len(ss[i])
                  PROVE  \E k \in 1 .. Len(a \o b) : (a \o b)[k] = ss[i][j]
                <5>1. CASE i = m
                    BY <5>1, <4>4
                <5>2. CASE i # m
                    <6>1. i \in 1 .. m - 1
                        BY <5>2, <3>4
                    <6>2. PICK k \in 1 .. Len(a) : a[k] = ss[i][j]
                        BY <6>1, <4>1 DEF Covers
                    <6>3. QED
                        BY <6>2, <4>4
                <5>3. QED
                    BY <5>1, <5>2
            <4>6. Covers(f[m], ss, m)
                <5> DEFINE c == a \o b
                <5>1. \A i \in 1 .. m : \A j \in 1 .. Len(ss[i]) : \E k \in 1 .. Len(c) : c[k] = ss[i][j]
                    BY <4>5
                <5>2. IsSeq(c)
                    BY <4>4
                <5>3. f[m] = c
                    BY <4>2
                <5> HIDE DEF c
                <5>4. QED
                    BY <5>1, <5>2, <5>3 DEF Covers
            <4>7. QED
                BY <4>6, <3>4
        <3>7. QED
            BY <3>5, <3>6
    <2>4. CASE S = {}
        BY <2>4, <2>1, <1>1, <1>3
    <2>5. QED
        BY <2>3, <2>4
<1>4. QED
    BY <1>2, <1>3

(***************************************************************************)
(* SetToSeq lists each element once, and nothing else.                     *)
(***************************************************************************)
LEMMA ListedOnce ==
    ASSUME NEW S, IsFiniteSet(S)
    PROVE  /\ \A k \in 1 .. Len(SetToSeq(S)) : SetToSeq(S)[k] \in S
           /\ \A j, k \in 1 .. Len(SetToSeq(S)) : SetToSeq(S)[j] = SetToSeq(S)[k] => j = k
<1>1. PICK n \in Nat : ExistsBijection(1 .. n, S)
    BY FS_NatBijection
<1>2. Cardinality(S) = n
    BY <1>1, FS_CountingElements
<1>3. \E f \in [1 .. n -> S] : IsInjective(f)
    BY <1>1 DEF ExistsBijection, Bijection, Injection, IsInjective
<1> DEFINE f == SetToSeq(S)
<1>4. f \in [1 .. n -> S] /\ IsInjective(f)
    BY <1>2, <1>3 DEF SetToSeq
<1> HIDE DEF f
<1>5. Len(f) = n
    BY <1>4
<1>6. QED
    BY <1>4, <1>5 DEF IsInjective, f

(***************************************************************************)
(* A list of all of a finite set in some order has all of it.              *)
(***************************************************************************)
LEMMA OrderCovers ==
    ASSUME NEW S, IsFiniteSet(S), NEW order \in SetToSeqs(S)
    PROVE  \A x \in S : \E k \in 1 .. Len(order) : order[k] = x
<1> DEFINE n == Cardinality(S)
<1>1. n \in Nat
    BY FS_CardinalityType
<1>2. order \in [1 .. n -> S] /\ \A i, j \in 1 .. n : i # j => order[i] # order[j]
    BY DEF SetToSeqs
<1>3. IsFiniteSet(1 .. n) /\ Cardinality(1 .. n) = n
    <2> HIDE DEF n
    <2>1. 1 \in Int /\ n \in Int
        BY <1>1
    <2>2. IsFiniteSet(1 .. n) /\ Cardinality(1 .. n) = IF 1 > n THEN 0 ELSE n - 1 + 1
        BY <2>1, FS_Interval
    <2>3. QED
        BY <2>2, <1>1
<1>4. order \in Injection(1 .. n, S)
    BY <1>2 DEF Injection, IsInjective
<1>5. order \in Surjection(1 .. n, S)
    BY <1>3, <1>4, FS_Injection
<1> HIDE DEF n
<1>6. Len(order) = n
    BY <1>1, <1>2
<1>7. QED
    BY <1>5, <1>6 DEF Surjection

(***************************************************************************)
(* The places that are read have an arc each, and are found at their       *)
(* index.                                                                  *)
(***************************************************************************)
LEMMA PlacesDrawn ==
    ASSUME NEW file, WellFormed(file), NEW q \in 1 .. Len(PlacesIn(file))
    PROVE  /\ \E i \in 1 .. Len(Arcs(file)) : PlaceEnd(file, Arcs(file)[i]) = PlacesIn(file)[q]
           /\ toIndex(PlacesIn(file), PlacesIn(file)[q]) = q
<1> DEFINE arcs == Arcs(file)
<1>1. DOMAIN arcs = 1 .. Len(arcs) /\ Len(arcs) \in Nat
    BY ArcsFacts, SeqElim
<1> DEFINE f == [i \in 1 .. Len(arcs) |-> PlaceEnd(file, arcs[i])]
<1> DEFINE S == {f[i] : i \in 1 .. Len(arcs)}
<1> DEFINE place == PlacesIn(file)
<1>2. place = SetToSeq(S)
    BY <1>1 DEF PlacesIn
<1>3. \A x \in S : \E i \in 1 .. Len(arcs) : PlaceEnd(file, arcs[i]) = x
    OBVIOUS
<1> HIDE DEF f, arcs
<1>4. IsFiniteSet(S)
    BY <1>1, FiniteImage
<1> HIDE DEF S
<1>5. /\ \A k \in 1 .. Len(SetToSeq(S)) : SetToSeq(S)[k] \in S
      /\ \A j, k \in 1 .. Len(SetToSeq(S)) : SetToSeq(S)[j] = SetToSeq(S)[k] => j = k
    BY <1>4, ListedOnce
<1>6. DOMAIN place = 1 .. Len(place)
    BY PlacesFacts, SeqElim
<1>7. /\ place[q] \in S
      /\ \A j \in 1 .. Len(place) : place[j] = place[q] => j = q
    BY <1>2, <1>5
<1>8. \E i \in 1 .. Len(arcs) : PlaceEnd(file, arcs[i]) = place[q]
    BY <1>3, <1>7
<1> HIDE DEF place
<1>9. toIndex(place, place[q]) \in 1 .. Len(place) /\ place[toIndex(place, place[q])] = place[q]
    <2>1. IsSeq(place)
        BY PlacesFacts DEF place
    <2>2. q \in 1 .. Len(place)
        BY DEF place
    <2>3. toIndex(place, place[q]) \in 1 .. Len(place)
        BY <2>1, <2>2, IndexFound
    <2>4. \A j \in 1 .. q - 1 : place[j] # place[q]
        <3>1. ASSUME NEW j \in 1 .. q - 1
              PROVE  j \in 1 .. Len(place) /\ j # q
            BY <2>1, <2>2, SeqElim
        <3>2. QED
            BY <3>1, <1>7
    <2>5. q \in DOMAIN place /\ place[q] = place[q] /\ \A j \in 1 .. q - 1 : place[j] # place[q]
        BY <1>6, <2>2, <2>4
    <2>6. place[toIndex(place, place[q])] = place[q]
        BY <2>5 DEF toIndex
    <2>7. QED
        BY <2>3, <2>6
<1>10. toIndex(place, place[q]) = q
    BY <1>7, <1>9
<1>11. QED
    BY <1>8, <1>10 DEF place, arcs

(***************************************************************************)
(* Each arc of the file is in the net, at the transition it belongs to.    *)
(***************************************************************************)
LEMMA NetInDrawn ==
    ASSUME NEW file, WellFormed(file)
    PROVE  /\ \A i \in 1 .. Len(Arcs(file)) : LET a == Arcs(file)[i] IN
                /\ Owner(file, a) \in DOMAIN NetIn(file)
                /\ \E side \in {"first", "second"} : \E k \in 1 .. Len(NetIn(file)[Owner(file, a)][side]) :
                        NetIn(file)[Owner(file, a)][side][k] = <<PlaceEnd(file, a), a.color>>
           /\ \A t \in DOMAIN NetIn(file) : \E i \in 1 .. Len(Arcs(file)) : t = Owner(file, Arcs(file)[i])
<1> DEFINE arcs == Arcs(file)
<1> DEFINE net == NetIn(file)
<1> DEFINE End(i) == <<PlaceEnd(file, arcs[i]), arcs[i].color>>
<1> DEFINE parts(t, consumes) == [i \in DOMAIN arcs |->
            IF Owner(file, arcs[i]) = t /\ (Consumes(file, arcs[i]) <=> consumes)
            THEN << <<PlaceEnd(file, arcs[i]), arcs[i].color>> >> ELSE << >>]
<1>1. IsSeq(arcs) /\ DOMAIN arcs = 1 .. Len(arcs) /\ Len(arcs) \in Nat
    BY ArcsFacts, SeqElim
<1>2. /\ DOMAIN net = {Owner(file, arcs[i]) : i \in DOMAIN arcs}
      /\ \A t \in DOMAIN net :
            /\ net[t]["first"] = FlattenSeq(parts(t, TRUE))
            /\ net[t]["second"] = FlattenSeq(parts(t, FALSE))
    BY DEF NetIn
<1> HIDE DEF arcs, net
<1>3. ASSUME NEW consumes \in BOOLEAN, NEW i \in 1 .. Len(arcs), Consumes(file, arcs[i]) <=> consumes
      PROVE  LET s == FlattenSeq(parts(Owner(file, arcs[i]), consumes))
             IN  \E k \in 1 .. Len(s) : s[k] = End(i)
    <2> DEFINE t == Owner(file, arcs[i])
    <2> DEFINE ss == parts(t, consumes)
    <2>1. DOMAIN ss = DOMAIN arcs /\ ss = [j \in DOMAIN ss |-> ss[j]]
        OBVIOUS
    <2>2. IsSeq(ss) /\ Len(ss) = Len(arcs)
        <3> HIDE DEF ss
        <3>1. QED
            BY <1>1, <2>1, SeqOver
    <2>3. \A j \in 1 .. Len(ss) : IsSeq(ss[j])
        <3>1. \A x : IsSeq(<<x>>)
            BY DEF IsSeq
        <3>2. IsSeq(<< >>)
            BY DEF IsSeq
        <3>3. QED
            BY <3>1, <3>2, <2>2, <1>1
    <2>4. ss[i] = <<End(i)>>
        BY <1>1, <1>3
    <2> HIDE DEF ss, End
    <2>5. Covers(FlattenSeq(ss), ss, Len(ss))
        BY <2>2, <2>3, FlattenCovers
    <2>6. 1 \in 1 .. Len(ss[i]) /\ ss[i][1] = End(i) /\ i \in 1 .. Len(ss)
        <3>1. Len(<<End(i)>>) = 1 /\ <<End(i)>>[1] = End(i)
            OBVIOUS
        <3>2. QED
            BY <3>1, <2>2, <2>4
    <2>7. \E k \in 1 .. Len(FlattenSeq(ss)) : FlattenSeq(ss)[k] = End(i)
        BY <2>5, <2>6 DEF Covers
    <2>8. QED
        BY <2>7 DEF ss
<1> HIDE DEF parts
<1>4. ASSUME NEW i \in 1 .. Len(arcs)
      PROVE  /\ Owner(file, arcs[i]) \in DOMAIN net
             /\ \E side \in {"first", "second"} : \E k \in 1 .. Len(net[Owner(file, arcs[i])][side]) :
                    net[Owner(file, arcs[i])][side][k] = End(i)
    <2> DEFINE t == Owner(file, arcs[i])
    <2> HIDE DEF End
    <2>1. t \in DOMAIN net
        BY <1>1, <1>2
    <2>2. CASE Consumes(file, arcs[i])
        <3>1. \E k \in 1 .. Len(FlattenSeq(parts(t, TRUE))) : FlattenSeq(parts(t, TRUE))[k] = End(i)
            BY <2>2, <1>3
        <3>2. \E k \in 1 .. Len(net[t]["first"]) : net[t]["first"][k] = End(i)
            BY <3>1, <2>1, <1>2
        <3>3. QED
            BY <3>2, <2>1
    <2>3. CASE ~ Consumes(file, arcs[i])
        <3>1. \E k \in 1 .. Len(FlattenSeq(parts(t, FALSE))) : FlattenSeq(parts(t, FALSE))[k] = End(i)
            BY <2>3, <1>3
        <3>2. \E k \in 1 .. Len(net[t]["second"]) : net[t]["second"][k] = End(i)
            BY <3>1, <2>1, <1>2
        <3>3. QED
            BY <3>2, <2>1
    <2>4. QED
        BY <2>2, <2>3
<1>5. \A t \in DOMAIN net : \E i \in 1 .. Len(arcs) : t = Owner(file, arcs[i])
    BY <1>1, <1>2
<1>6. QED
    BY <1>4, <1>5 DEF arcs, net

(***************************************************************************)
(* The tokens of a file are as many as it says, in its colours.            *)
(***************************************************************************)
LEMMA TokensTold ==
    ASSUME NEW file, WellFormed(file), Colored(file), NoStrays(file)
    PROVE  Marks(TokensIn(file, PlacesIn(file)), Len(PlacesIn(file)))
<1> DEFINE n == file.places
<1> DEFINE place == PlacesIn(file)
<1> DEFINE marks == [i \in DOMAIN n |-> {toIndex(place, n[i].name)} \X DOMAIN n[i].marks]
<1> DEFINE Of(a, i) == {i} \X (1 .. n[i].marks[a[2]])
<1> DEFINE B == TokensIn(file, place)
<1>1. /\ IsFcn(B) /\ DOMAIN B = UNION {marks[i] : i \in DOMAIN n}
      /\ \A a \in DOMAIN B : B[a] = Cardinality(UNION {Of(a, i) : i \in {i \in DOMAIN n : a \in marks[i]}})
    BY DEF TokensIn, IsFcn
<1>2. DOMAIN n = 1 .. Len(n) /\ Len(n) \in Nat
    BY SeqElim DEF WellFormed
<1>3. ASSUME NEW a \in DOMAIN B
      PROVE  a[1] \in 1 .. Len(place) /\ a = <<a[1], a[2]>> /\ a[2] \in Token
    <2>1. a[1] \in 1 .. Len(place)
        BY TokensFacts
    <2>2. PICK i \in DOMAIN n : a \in marks[i]
        BY <1>1
    <2>3. a = <<a[1], a[2]>> /\ a[2] \in DOMAIN n[i].marks
        BY <2>2
    <2>4. QED
        BY <2>1, <2>3 DEF Colored
<1>4. ASSUME NEW a, NEW i \in DOMAIN n, a \in marks[i]
      PROVE  IsFiniteSet(Of(a, i))
    <2> DEFINE k == n[i].marks[a[2]]
    <2>1. a[2] \in DOMAIN n[i].marks
        BY <1>4
    <2>2. k \in Nat
        BY <2>1 DEF Colored
    <2> HIDE DEF k
    <2>3. 1 \in Int /\ k \in Int
        BY <2>2
    <2>4. IsFiniteSet(1 .. k) /\ IsFiniteSet({i})
        BY <2>3, FS_Interval, FS_Singleton
    <2>5. IsFiniteSet({i} \X (1 .. k))
        BY <2>4, FS_Product
    <2>6. QED
        BY <2>5 DEF k
<1>5. ASSUME NEW a \in DOMAIN B
      PROVE  B[a] \in Nat
    <2> HIDE DEF Of, marks, n, B
    <2> DEFINE f == [i \in 1 .. Len(n) |-> IF a \in marks[i] THEN Of(a, i) ELSE {}]
    <2> DEFINE S == {f[i] : i \in 1 .. Len(n)}
    <2> DEFINE U == UNION {Of(a, i) : i \in {i \in DOMAIN n : a \in marks[i]}}
    <2>1. IsFiniteSet(S)
        <3> HIDE DEF f
        <3>1. QED
            BY <1>2, FiniteImage
    <2>2. \A s \in S : IsFiniteSet(s)
        <3>1. IsFiniteSet({})
            BY FS_EmptySet
        <3>2. \A i \in 1 .. Len(n) : IsFiniteSet(f[i])
            BY <3>1, <1>2, <1>4
        <3> HIDE DEF f
        <3>3. QED
            BY <3>2
    <2>3. U \subseteq UNION S
        <3>1. ASSUME NEW x \in U
              PROVE  x \in UNION S
            <4>1. PICK i \in DOMAIN n : a \in marks[i] /\ x \in Of(a, i)
                OBVIOUS
            <4>2. i \in 1 .. Len(n) /\ f[i] = Of(a, i)
                BY <4>1, <1>2
            <4> HIDE DEF f
            <4>3. QED
                BY <4>1, <4>2
        <3> HIDE DEF U, S
        <3>2. QED
            BY <3>1
    <2> HIDE DEF S
    <2>4. IsFiniteSet(UNION S)
        BY <2>1, <2>2, FS_UNION
    <2> HIDE DEF f
    <2>5. B[a] = Cardinality(U)
        BY <1>1
    <2> HIDE DEF U
    <2>6. QED
        BY <2>3, <2>4, <2>5, FS_Subset, FS_CardinalityType
<1> HIDE DEF B
<1>6. ASSUME NEW a \in DOMAIN B
      PROVE  a \in (1 .. Len(place)) \X Token
    <2>1. <<a[1], a[2]>> \in (1 .. Len(place)) \X Token
        BY <1>3
    <2>2. QED
        BY <2>1, <1>3
<1>7. Marks(B, Len(place))
    BY <1>1, <1>5, <1>6 DEF Marks
<1>8. QED
    BY <1>7 DEF B

(***************************************************************************)
(* Arcs whose colours are tokens.                                          *)
(***************************************************************************)
Coloured(arcs) == \A i \in 1 .. Len(arcs) : arcs[i][2] \in Token

(***************************************************************************)
(* A parsed net whose colours are tokens and in which no node is isolated. *)
(***************************************************************************)
ParsedTold(p) ==
    /\ ParsedSound(p)
    /\ \A t \in 1 .. Len(p.transition) :
            /\ Coloured(p.input_n[t]) /\ Coloured(p.output_n[t]) /\ p.output[t] \in Token
            /\ Len(p.input_n[t]) # 0 \/ Len(p.output_n[t]) # 0
    /\ \A q \in 1 .. Len(p.place) : \E t \in 1 .. Len(p.transition), field \in {"input_n", "output_n"} :
            \E i \in 1 .. Len(p[field][t]) : p[field][t][i][1] = q
    /\ Marks(p.tokens, Len(p.place))

(***************************************************************************)
(* The sides of a transition in the parser and in the document.            *)
(***************************************************************************)
FieldOf(side) == IF side = "first" THEN "input_n" ELSE "output_n"

(***************************************************************************)
(* What the parsers return is such a net.                                  *)
(***************************************************************************)
LEMMA ParseTold ==
    ASSUME NEW file, WellFormed(file), Colored(file), NoStrays(file), NEW p \in parseNet(file)
    PROVE  ParsedTold(p)
<1> DEFINE net == NetIn(file)
<1> DEFINE place == PlacesIn(file)
<1> DEFINE arcs == Arcs(file)
<1>1. PICK order \in SetToSeqs(DOMAIN net) :
        p = [place |-> place, transition |-> order,
             input_n |-> [t \in DOMAIN order |-> LookupIn(place, net[order[t]].first)],
             output_n |-> [t \in DOMAIN order |-> LookupIn(place, net[order[t]].second)],
             priority |-> [t \in DOMAIN order |-> PriorityIn(file, order[t])],
             output |-> [t \in DOMAIN order |-> "Success"],
             t_positions |-> [t \in DOMAIN order |-> PositionIn(file, order[t])],
             p_positions |-> [i \in DOMAIN place |-> PositionIn(file, place[i])],
             tokens |-> TokensIn(file, place)]
    BY DEF parseNet
<1>2. p.place = place /\ p.transition = order /\ p.tokens = TokensIn(file, place)
    BY <1>1
<1>3. ParsedSound(p)
    BY ParseSound
<1>4. DOMAIN order = 1 .. Len(order)
    BY <1>2, <1>3, SeqElim DEF ParsedSound
<1>5. ASSUME NEW t \in 1 .. Len(order), NEW side \in {"first", "second"}
      PROVE  p[FieldOf(side)][t] = LookupIn(place, net[order[t]][side])
    <2>1. /\ p.input_n[t] = LookupIn(place, net[order[t]]["first"])
          /\ p.output_n[t] = LookupIn(place, net[order[t]]["second"])
        BY <1>1, <1>4
    <2>2. QED
        BY <2>1 DEF FieldOf
<1>6. \A t \in 1 .. Len(order) : p.output[t] = "Success"
    BY <1>1, <1>4
<1>7. IsFiniteSet(DOMAIN net)
    BY NetInFacts
<1>8. order \in [1 .. Cardinality(DOMAIN net) -> DOMAIN net]
    BY DEF SetToSeqs
<1>9. \A t \in 1 .. Len(order) : order[t] \in DOMAIN net
    BY <1>4, <1>8
<1>10. \A x \in DOMAIN net : \E t \in 1 .. Len(order) : order[t] = x
    BY <1>7, OrderCovers
<1>11. \A i \in 1 .. Len(arcs) : arcs[i].color \in Token
    <2>1. \A i \in 1 .. Len(arcs) : \E k \in 1 .. Len(file.arcs) : arcs[i] = file.arcs[k]
        BY ArcsFacts
    <2>2. \A k \in 1 .. Len(file.arcs) : file.arcs[k].color \in Token
        BY SeqElim DEF WellFormed, Colored
    <2>3. QED
        BY <2>1, <2>2
<1>12. \A t \in DOMAIN net : \A side \in {"first", "second"} :
            /\ IsSeq(net[t][side])
            /\ \A k \in 1 .. Len(net[t][side]) : \E i \in 1 .. Len(arcs) :
                    net[t][side][k] = <<PlaceEnd(file, arcs[i]), arcs[i].color>>
    BY NetInFacts
<1>13. /\ \A i \in 1 .. Len(arcs) :
            /\ Owner(file, arcs[i]) \in DOMAIN net
            /\ \E side \in {"first", "second"} : \E k \in 1 .. Len(net[Owner(file, arcs[i])][side]) :
                    net[Owner(file, arcs[i])][side][k] = <<PlaceEnd(file, arcs[i]), arcs[i].color>>
       /\ \A t \in DOMAIN net : \E i \in 1 .. Len(arcs) : t = Owner(file, arcs[i])
    BY NetInDrawn
<1>14. \A q \in 1 .. Len(place) :
            /\ \E i \in 1 .. Len(arcs) : PlaceEnd(file, arcs[i]) = place[q]
            /\ toIndex(place, place[q]) = q
    BY PlacesDrawn
<1>15. Marks(p.tokens, Len(p.place))
    BY <1>2, TokensTold
<1> HIDE DEF net, place, arcs
<1>16. ASSUME NEW t \in 1 .. Len(order), NEW side \in {"first", "second"}
       PROVE  /\ Len(p[FieldOf(side)][t]) = Len(net[order[t]][side])
              /\ \A k \in 1 .. Len(net[order[t]][side]) :
                    /\ p[FieldOf(side)][t][k][1] = toIndex(place, net[order[t]][side][k][1])
                    /\ p[FieldOf(side)][t][k][2] = net[order[t]][side][k][2]
    <2> DEFINE a == net[order[t]][side]
    <2> DEFINE r == LookupIn(place, a)
    <2>1. IsSeq(a)
        BY <1>9, <1>12
    <2>2. DOMAIN a = 1 .. Len(a)
        BY <2>1, SeqElim
    <2> HIDE DEF a
    <2>3. DOMAIN r = DOMAIN a /\ r = [i \in DOMAIN r |-> r[i]]
          /\ \A i \in 1 .. Len(a) : r[i] = <<toIndex(place, a[i][1]), a[i][2]>>
        BY <2>2 DEF LookupIn
    <2>4. p[FieldOf(side)][t] = r
        BY <1>5 DEF a
    <2> HIDE DEF r
    <2>5. Len(r) = Len(a)
        BY <2>1, <2>3, SeqOver
    <2>6. QED
        BY <2>3, <2>4, <2>5 DEF a
<1>17. ASSUME NEW t \in 1 .. Len(order), NEW side \in {"first", "second"}
       PROVE  Coloured(p[FieldOf(side)][t])
    <2>1. \A k \in 1 .. Len(net[order[t]][side]) : net[order[t]][side][k][2] \in Token
        <3>1. ASSUME NEW k \in 1 .. Len(net[order[t]][side])
              PROVE  net[order[t]][side][k][2] \in Token
            <4>1. PICK i \in 1 .. Len(arcs) : net[order[t]][side][k] = <<PlaceEnd(file, arcs[i]), arcs[i].color>>
                BY <1>9, <1>12
            <4>2. QED
                BY <4>1, <1>11
        <3>2. QED
            BY <3>1
    <2> DEFINE a == net[order[t]][side]
    <2> DEFINE r == p[FieldOf(side)][t]
    <2>2. Len(r) = Len(a) /\ \A k \in 1 .. Len(a) : r[k][2] = a[k][2]
        BY <1>16
    <2>3. \A k \in 1 .. Len(a) : a[k][2] \in Token
        BY <2>1
    <2> HIDE DEF a, r
    <2>4. \A k \in 1 .. Len(r) : r[k][2] \in Token
        BY <2>2, <2>3
    <2>5. Coloured(r)
        BY <2>4 DEF Coloured
    <2>6. QED
        BY <2>5 DEF r
<1>18. FieldOf("first") = "input_n" /\ FieldOf("second") = "output_n"
    BY DEF FieldOf
<1>19. ASSUME NEW i \in 1 .. Len(arcs)
       PROVE  \E t \in 1 .. Len(order), side \in {"first", "second"} :
                /\ order[t] = Owner(file, arcs[i])
                /\ \E k \in 1 .. Len(p[FieldOf(side)][t]) :
                        p[FieldOf(side)][t][k][1] = toIndex(place, PlaceEnd(file, arcs[i]))
    <2>1. PICK t \in 1 .. Len(order) : order[t] = Owner(file, arcs[i])
        BY <1>10, <1>13
    <2>2. PICK side \in {"first", "second"} : \E k \in 1 .. Len(net[order[t]][side]) :
                    net[order[t]][side][k] = <<PlaceEnd(file, arcs[i]), arcs[i].color>>
        BY <2>1, <1>13
    <2>3. PICK k \in 1 .. Len(net[order[t]][side]) : net[order[t]][side][k] = <<PlaceEnd(file, arcs[i]), arcs[i].color>>
        BY <2>2
    <2>4. net[order[t]][side][k][1] = PlaceEnd(file, arcs[i])
        BY <2>3
    <2>5. k \in 1 .. Len(p[FieldOf(side)][t]) /\ p[FieldOf(side)][t][k][1] = toIndex(place, PlaceEnd(file, arcs[i]))
        BY <2>4, <1>16
    <2>6. QED
        BY <2>1, <2>5
<1>20. ASSUME NEW t \in 1 .. Len(order)
       PROVE  Len(p.input_n[t]) # 0 \/ Len(p.output_n[t]) # 0
    <2>1. PICK i \in 1 .. Len(arcs) : order[t] = Owner(file, arcs[i])
        BY <1>9, <1>13
    <2>2. PICK side \in {"first", "second"} : \E k \in 1 .. Len(net[order[t]][side]) :
                    net[order[t]][side][k] = <<PlaceEnd(file, arcs[i]), arcs[i].color>>
        BY <2>1, <1>13
    <2>3. PICK k \in 1 .. Len(net[order[t]][side]) : TRUE
        BY <2>2
    <2>4. Len(net[order[t]][side]) # 0
        BY <2>3
    <2>5. Len(p[FieldOf(side)][t]) # 0
        BY <2>4, <1>16
    <2>6. QED
        BY <2>5, <1>18
<1>21. ASSUME NEW q \in 1 .. Len(p.place)
       PROVE  \E t \in 1 .. Len(p.transition), field \in {"input_n", "output_n"} :
                \E i \in 1 .. Len(p[field][t]) : p[field][t][i][1] = q
    <2>1. PICK i \in 1 .. Len(arcs) : PlaceEnd(file, arcs[i]) = place[q]
        BY <1>2, <1>14
    <2>2. toIndex(place, PlaceEnd(file, arcs[i])) = q
        BY <2>1, <1>2, <1>14
    <2>3. PICK t \in 1 .. Len(order), side \in {"first", "second"} :
            \E k \in 1 .. Len(p[FieldOf(side)][t]) : p[FieldOf(side)][t][k][1] = q
        BY <2>2, <1>19
    <2>4. FieldOf(side) \in {"input_n", "output_n"}
        BY <1>18
    <2>5. QED
        BY <2>3, <2>4, <1>2
<1>22. \A t \in 1 .. Len(p.transition) :
            /\ Coloured(p.input_n[t]) /\ Coloured(p.output_n[t]) /\ p.output[t] \in Token
            /\ Len(p.input_n[t]) # 0 \/ Len(p.output_n[t]) # 0
    <2>1. ASSUME NEW t \in 1 .. Len(order)
          PROVE  Coloured(p.input_n[t]) /\ Coloured(p.output_n[t])
        <3>1. Coloured(p[FieldOf("first")][t]) /\ Coloured(p[FieldOf("second")][t])
            BY <1>17
        <3>2. QED
            BY <3>1, <1>18
    <2>2. QED
        BY <2>1, <1>2, <1>6, <1>20, TokenAssumption DEF TokenAssumption
<1>23. QED
    BY <1>3, <1>15, <1>21, <1>22 DEF ParsedTold

-----------------------------------------------------------------------------
(***************************************************************************)
(* Saving and loading.                                                     *)
(***************************************************************************)

(***************************************************************************)
(* The positions in the first n of the sequences in ss.                    *)
(***************************************************************************)
Cells(ss, n) == {x \in (1 .. n) \X Nat : x[2] \in 1 .. Len(ss[x[1]])}

(***************************************************************************)
(* The positions of s go one to one to them, with the same element.        *)
(***************************************************************************)
Lists(s, ss, n) ==
    /\ IsSeq(s)
    /\ \E g \in Bijection(1 .. Len(s), Cells(ss, n)) : \A k \in 1 .. Len(s) : s[k] = ss[g[k][1]][g[k][2]]

(***************************************************************************)
(* How a bijection is recognised.                                          *)
(***************************************************************************)
LEMMA IsBijection ==
    ASSUME NEW A, NEW B, NEW g, g \in [A -> B],
           \A i, j \in A : g[i] = g[j] => i = j,
           \A y \in B : \E i \in A : g[i] = y
    PROVE  g \in Bijection(A, B)
BY DEF Bijection, Injection, IsInjective, Surjection

(***************************************************************************)
(* And what it is good for.                                                *)
(***************************************************************************)
LEMMA BijectionIs ==
    ASSUME NEW A, NEW B, NEW g \in Bijection(A, B)
    PROVE  /\ g \in [A -> B]
           /\ \A i \in A : g[i] \in B
           /\ \A i, j \in A : g[i] = g[j] => i = j
           /\ \A y \in B : \E i \in A : g[i] = y
BY DEF Bijection, Injection, IsInjective, Surjection

(***************************************************************************)
(* The first sequence lists itself.                                        *)
(***************************************************************************)
LEMMA ListsFirst ==
    ASSUME NEW ss, IsSeq(ss[1])
    PROVE  Lists(ss[1], ss, 1)
<1> DEFINE s == ss[1]
<1> DEFINE g == [k \in 1 .. Len(s) |-> <<1, k>>]
<1>1. Len(s) \in Nat
    BY SeqElim
<1>2. ASSUME NEW k \in 1 .. Len(s)
      PROVE  <<1, k>> \in Cells(ss, 1)
    BY <1>1 DEF Cells
<1>3. g \in [1 .. Len(s) -> Cells(ss, 1)]
    BY <1>2
<1>4. \A i, j \in 1 .. Len(s) : g[i] = g[j] => i = j
    OBVIOUS
<1>5. ASSUME NEW y \in Cells(ss, 1)
      PROVE  \E i \in 1 .. Len(s) : g[i] = y
    <2>1. y = <<1, y[2]>> /\ y[2] \in 1 .. Len(s)
        BY DEF Cells
    <2>2. QED
        BY <2>1
<1>6. g \in Bijection(1 .. Len(s), Cells(ss, 1))
    <2> HIDE DEF g
    <2>1. QED
        BY <1>3, <1>4, <1>5, IsBijection
<1>7. \A k \in 1 .. Len(s) : s[k] = ss[g[k][1]][g[k][2]]
    OBVIOUS
<1>8. QED
    BY <1>6, <1>7 DEF Lists

(***************************************************************************)
(* And the next one behind it lists one more.                              *)
(***************************************************************************)
LEMMA ListsNext ==
    ASSUME NEW ss, NEW m \in Nat, m > 1, NEW a, Lists(a, ss, m - 1), IsSeq(ss[m])
    PROVE  Lists(a \o ss[m], ss, m)
<1> DEFINE b == ss[m]
<1> DEFINE c == a \o b
<1>1. PICK f \in Bijection(1 .. Len(a), Cells(ss, m - 1)) : \A k \in 1 .. Len(a) : a[k] = ss[f[k][1]][f[k][2]]
    BY DEF Lists
<1>2. IsSeq(a) /\ IsSeq(b)
    BY DEF Lists
<1>3. /\ IsSeq(c) /\ Len(c) = Len(a) + Len(b) /\ Len(a) \in Nat /\ Len(b) \in Nat
      /\ \A i \in 1 .. Len(a) : c[i] = a[i]
      /\ \A i \in 1 .. Len(b) : c[Len(a) + i] = b[i]
    BY <1>2, SeqConcat, SeqElim
<1>4. /\ \A i \in 1 .. Len(a) : f[i] \in Cells(ss, m - 1)
      /\ \A i, j \in 1 .. Len(a) : f[i] = f[j] => i = j
      /\ \A y \in Cells(ss, m - 1) : \E i \in 1 .. Len(a) : f[i] = y
    BY <1>1, BijectionIs
<1>5. \A y : y \in Cells(ss, m) <=> y \in Cells(ss, m - 1) \/ \E i \in 1 .. Len(b) : y = <<m, i>>
    <2>1. \A y : y \in Cells(ss, m) <=> y = <<y[1], y[2]>> /\ y[1] \in 1 .. m /\ y[2] \in Nat /\ y[2] \in 1 .. Len(ss[y[1]])
        BY DEF Cells
    <2>2. \A y : y \in Cells(ss, m - 1) <=> y = <<y[1], y[2]>> /\ y[1] \in 1 .. m - 1 /\ y[2] \in Nat /\ y[2] \in 1 .. Len(ss[y[1]])
        BY DEF Cells
    <2>3. \A x : x \in 1 .. m <=> x \in 1 .. m - 1 \/ x = m
        OBVIOUS
    <2>4. ASSUME NEW y, y \in Cells(ss, m)
          PROVE  y \in Cells(ss, m - 1) \/ \E i \in 1 .. Len(b) : y = <<m, i>>
        BY <2>1, <2>2, <2>3, <2>4
    <2>5. ASSUME NEW y, y \in Cells(ss, m - 1)
          PROVE  y \in Cells(ss, m)
        BY <2>1, <2>2, <2>3, <2>5
    <2>6. ASSUME NEW i \in 1 .. Len(b)
          PROVE  <<m, i>> \in Cells(ss, m)
        BY <1>3 DEF Cells
    <2>7. QED
        BY <2>4, <2>5, <2>6
<1>6. \A y \in Cells(ss, m - 1) : y[1] # m
    BY DEF Cells
<1> HIDE DEF c
<1> DEFINE g == [k \in 1 .. Len(c) |-> IF k <= Len(a) THEN f[k] ELSE <<m, k - Len(a)>>]
<1>7. \A k \in 1 .. Len(c) : k \in 1 .. Len(a) \/ (k > Len(a) /\ k - Len(a) \in 1 .. Len(b))
    BY <1>3
<1>8. \A k \in 1 .. Len(a) : k \in 1 .. Len(c) /\ g[k] = f[k]
    BY <1>3
<1>9. \A k \in 1 .. Len(b) : Len(a) + k \in 1 .. Len(c) /\ g[Len(a) + k] = <<m, k>>
    <2>1. ASSUME NEW k \in 1 .. Len(b)
          PROVE  Len(a) + k \in 1 .. Len(c) /\ ~(Len(a) + k <= Len(a)) /\ Len(a) + k - Len(a) = k
        BY <1>3
    <2>2. QED
        BY <2>1
<1>10. \A k \in 1 .. Len(c) : k > Len(a) => g[k] = <<m, k - Len(a)>>
    BY <1>3
<1> HIDE DEF b
<1>11. g \in [1 .. Len(c) -> Cells(ss, m)]
    <2>1. ASSUME NEW k \in 1 .. Len(c)
          PROVE  g[k] \in Cells(ss, m)
        <3>1. CASE k \in 1 .. Len(a)
            BY <3>1, <1>4, <1>5, <1>8
        <3>2. CASE k > Len(a) /\ k - Len(a) \in 1 .. Len(b)
            BY <3>2, <1>5, <1>10
        <3>3. QED
            BY <3>1, <3>2, <1>7
    <2>2. QED
        BY <2>1
<1> HIDE DEF g
<1>12. ASSUME NEW i \in 1 .. Len(c), NEW j \in 1 .. Len(c), g[i] = g[j]
       PROVE  i = j
    <2>1. CASE i \in 1 .. Len(a) /\ j \in 1 .. Len(a)
        BY <2>1, <1>4, <1>8, <1>12
    <2>2. CASE i > Len(a) /\ j > Len(a)
        <3>1. <<m, i - Len(a)>> = <<m, j - Len(a)>>
            BY <2>2, <1>10, <1>12
        <3>2. i - Len(a) = j - Len(a)
            BY <3>1
        <3>3. QED
            BY <3>2, <1>3
    <2>3. CASE i \in 1 .. Len(a) /\ j > Len(a)
        <3>1. g[i][1] # m /\ g[j][1] = m
            BY <2>3, <1>4, <1>6, <1>8, <1>10
        <3>2. QED
            BY <3>1, <1>12
    <2>4. CASE j \in 1 .. Len(a) /\ i > Len(a)
        <3>1. g[j][1] # m /\ g[i][1] = m
            BY <2>4, <1>4, <1>6, <1>8, <1>10
        <3>2. QED
            BY <3>1, <1>12
    <2>5. QED
        BY <2>1, <2>2, <2>3, <2>4, <1>7
<1>13. ASSUME NEW y \in Cells(ss, m)
       PROVE  \E k \in 1 .. Len(c) : g[k] = y
    <2>1. CASE y \in Cells(ss, m - 1)
        BY <2>1, <1>4, <1>8
    <2>2. CASE \E i \in 1 .. Len(b) : y = <<m, i>>
        BY <2>2, <1>9
    <2>3. QED
        BY <2>1, <2>2, <1>5
<1>14. g \in Bijection(1 .. Len(c), Cells(ss, m))
    BY <1>11, <1>12, <1>13, IsBijection
<1>15. ASSUME NEW k \in 1 .. Len(c)
       PROVE  c[k] = ss[g[k][1]][g[k][2]]
    <2>1. CASE k \in 1 .. Len(a)
        BY <2>1, <1>1, <1>3, <1>8
    <2>2. CASE k > Len(a) /\ k - Len(a) \in 1 .. Len(b)
        <3>1. c[Len(a) + (k - Len(a))] = b[k - Len(a)] /\ Len(a) + (k - Len(a)) = k
            BY <2>2, <1>3
        <3>2. g[k][1] = m /\ g[k][2] = k - Len(a)
            BY <2>2, <1>10
        <3>3. QED
            BY <3>1, <3>2 DEF b
    <2>3. QED
        BY <2>1, <2>2, <1>7
<1>16. IsSeq(c)
    BY <1>3
<1>17. QED
    BY <1>14, <1>15, <1>16 DEF Lists, c, b

(***************************************************************************)
(* FlattenSeq lists all of the sequences, each position once.              *)
(***************************************************************************)
LEMMA FlattenLists ==
    ASSUME NEW ss, IsSeq(ss), \A i \in 1 .. Len(ss) : IsSeq(ss[i])
    PROVE  Lists(FlattenSeq(ss), ss, Len(ss))
<1> DEFINE n == Len(ss)
<1>1. n \in Nat
    BY SeqElim
<1>2. CASE n = 0
    <2> DEFINE s == << >>
    <2>1. IsSeq(s) /\ Len(s) = 0
        BY DEF IsSeq
    <2>2. FlattenSeq(ss) = s
        <3>1. DOMAIN ss = {} /\ ss = [i \in {} |-> ss[i]]
            BY <1>2 DEF IsSeq
        <3>2. ss = s
            BY <3>1
        <3>3. QED
            BY <3>2, <1>2 DEF FlattenSeq
    <2> HIDE DEF s
    <2> DEFINE g == [k \in 1 .. Len(s) |-> <<1, k>>]
    <2>3. 1 .. Len(s) = {} /\ Cells(ss, 0) = {}
        BY <2>1 DEF Cells
    <2>4. g \in [1 .. Len(s) -> Cells(ss, 0)]
        BY <2>3
    <2> HIDE DEF g
    <2>5. g \in Bijection(1 .. Len(s), Cells(ss, 0))
        BY <2>3, <2>4, IsBijection
    <2>6. QED
        BY <1>2, <2>1, <2>2, <2>3, <2>5 DEF Lists
<1>3. CASE n # 0
    <2> DEFINE f == CHOOSE f : Concats(ss, n, f)
    <2>1. FlattenSeq(ss) = f[n]
        BY <1>3 DEF FlattenSeq, Concats
    <2>2. Concats(ss, n, f)
        BY <1>1, ConcatsExist
    <2> HIDE DEF f
    <2> DEFINE S == {m \in 1 .. n : ~ Lists(f[m], ss, m)}
    <2>3. CASE S # {}
        <3>1. S \in SUBSET Nat
            OBVIOUS
        <3>2. PICK m \in S : \A k \in S : m <= k
            BY <2>3, <3>1, LeastNat
        <3>3. f[m] = IF m = 1 THEN ss[m] ELSE f[m - 1] \o ss[m]
            BY <2>2 DEF Concats
        <3>4. IsSeq(ss[m]) /\ m \in 1 .. n /\ m \in Nat /\ ~ Lists(f[m], ss, m)
            OBVIOUS
        <3>5. CASE m = 1
            BY <3>3, <3>4, <3>5, ListsFirst
        <3>6. CASE m # 1
            <4>1. Lists(f[m - 1], ss, m - 1)
                BY <3>2, <3>4, <3>6, <1>1
            <4>2. m > 1
                BY <3>4, <3>6
            <4>3. Lists(f[m - 1] \o ss[m], ss, m)
                BY <4>1, <4>2, <3>4, ListsNext
            <4>4. QED
                BY <4>3, <3>3, <3>4, <3>6
        <3>7. QED
            BY <3>5, <3>6
    <2>4. CASE S = {}
        BY <2>4, <2>1, <1>1, <1>3
    <2>5. QED
        BY <2>3, <2>4
<1>4. QED
    BY <1>2, <1>3

(***************************************************************************)
(* Lists of the same arcs, however ordered, are the same bag.              *)
(***************************************************************************)
LEMMA SameBags ==
    ASSUME NEW s, IsSeq(s), NEW r, IsSeq(r), NEW h \in Bijection(1 .. Len(s), 1 .. Len(r)),
           \A k \in 1 .. Len(s) : s[k] = r[h[k]]
    PROVE  ArcBag(s) = ArcBag(r)
<1>1. /\ DOMAIN s = 1 .. Len(s) /\ DOMAIN r = 1 .. Len(r)
    BY SeqElim
<1>2. /\ \A i \in 1 .. Len(s) : h[i] \in 1 .. Len(r)
      /\ \A i, j \in 1 .. Len(s) : h[i] = h[j] => i = j
      /\ \A y \in 1 .. Len(r) : \E i \in 1 .. Len(s) : h[i] = y
    <2> DEFINE A == 1 .. Len(s)
    <2> DEFINE B == 1 .. Len(r)
    <2>1. h \in Bijection(A, B)
        OBVIOUS
    <2> HIDE DEF A, B
    <2>2. /\ \A i \in A : h[i] \in B
          /\ \A i, j \in A : h[i] = h[j] => i = j
          /\ \A y \in B : \E i \in A : h[i] = y
        BY <2>1, BijectionIs
    <2>3. QED
        BY <2>2 DEF A, B
<1>3. ASSUME NEW x
      PROVE  Times(s, x) = Times(r, x)
    <2> DEFINE A == Positions(s, x)
    <2> DEFINE B == Positions(r, x)
    <2> DEFINE g == [i \in A |-> h[i]]
    <2>1. /\ \A i : i \in A <=> i \in 1 .. Len(s) /\ s[i] = x
          /\ \A i : i \in B <=> i \in 1 .. Len(r) /\ r[i] = x
        BY <1>1 DEF Positions
    <2>2. IsFiniteSet(A)
        BY FinitePositions
    <2> HIDE DEF A, B
    <2>3. g \in [A -> B]
        BY <2>1, <1>2
    <2>4. \A i, j \in A : g[i] = g[j] => i = j
        BY <2>1, <1>2
    <2>5. ASSUME NEW y \in B
          PROVE  \E i \in A : g[i] = y
        <3>1. y \in 1 .. Len(r) /\ r[y] = x
            BY <2>1
        <3>2. PICK i \in 1 .. Len(s) : h[i] = y
            BY <3>1, <1>2
        <3>3. i \in A /\ g[i] = y
            BY <2>1, <3>1, <3>2
        <3>4. QED
            BY <3>3
    <2> HIDE DEF g
    <2>6. g \in Bijection(A, B)
        BY <2>3, <2>4, <2>5, IsBijection
    <2>7. Cardinality(A) = Cardinality(B)
        <3>1. ExistsBijection(A, B)
            BY <2>6 DEF ExistsBijection
        <3>2. QED
            BY <3>1, <2>2, FS_Bijection
    <2>8. QED
        BY <2>7 DEF Times, A, B
<1> DEFINE S == ArcBag(s)
<1> DEFINE R == ArcBag(r)
<1>4. IsFcn(S) /\ (\A a : a \in DOMAIN S <=> Times(s, a) # 0) /\ \A a \in DOMAIN S : S[a] = Times(s, a)
    BY ArcBagIs
<1>5. IsFcn(R) /\ (\A a : a \in DOMAIN R <=> Times(r, a) # 0) /\ \A a \in DOMAIN R : R[a] = Times(r, a)
    BY ArcBagIs
<1> HIDE DEF S, R
<1>6. DOMAIN S = DOMAIN R
    <2>1. \A a : a \in DOMAIN S <=> a \in DOMAIN R
        BY <1>3, <1>4, <1>5
    <2>2. QED
        BY <2>1
<1>7. \A a \in DOMAIN S : S[a] = R[a]
    BY <1>3, <1>4, <1>5, <1>6
<1>8. S = R
    BY <1>4, <1>5, <1>6, <1>7, SameFcn
<1>9. QED
    BY <1>8 DEF S, R

(***************************************************************************)
(* No two nodes of the document have the same name.                        *)
(***************************************************************************)
OwnNames(e) ==
    /\ \A p, q \in 1 .. Len(e.place) : e.place[p].name = e.place[q].name => p = q
    /\ \A t, u \in 1 .. Len(e.transition) : e.transition[t].name = e.transition[u].name => t = u
    /\ \A p \in 1 .. Len(e.place), t \in 1 .. Len(e.transition) : e.place[p].name # e.transition[t].name

(***************************************************************************)
(* The arcs of each transition, as toXml writes them.                      *)
(***************************************************************************)
Written(e) ==
    [t \in DOMAIN e.transition |->
        [i \in DOMAIN e.input_n[t] |->
            [source |-> e.place[e.input_n[t][i][1]].name, target |-> e.transition[t].name,
             color |-> e.input_n[t][i][2], times |-> 1]] \o
        [i \in DOMAIN e.output_n[t] |->
            [source |-> e.transition[t].name, target |-> e.place[e.output_n[t][i][1]].name,
             color |-> e.output_n[t][i][2], times |-> 1]]]

(***************************************************************************)
(* They are the inputs, and behind them the outputs.                       *)
(***************************************************************************)
LEMMA WrittenAre ==
    ASSUME NEW e, Structure(e)
    PROVE  /\ IsSeq(Written(e)) /\ Len(Written(e)) = Len(e.transition)
           /\ toXml(e).arcs = FlattenSeq(Written(e))
           /\ \A t \in 1 .. Len(e.transition) :
                /\ IsSeq(Written(e)[t])
                /\ Len(e.input_n[t]) \in Nat /\ Len(e.output_n[t]) \in Nat
                /\ Len(Written(e)[t]) = Len(e.input_n[t]) + Len(e.output_n[t])
                /\ \A i \in 1 .. Len(e.input_n[t]) : Written(e)[t][i] =
                        [source |-> e.place[e.input_n[t][i][1]].name, target |-> e.transition[t].name,
                         color |-> e.input_n[t][i][2], times |-> 1]
                /\ \A i \in 1 .. Len(e.output_n[t]) : Written(e)[t][Len(e.input_n[t]) + i] =
                        [source |-> e.transition[t].name, target |-> e.place[e.output_n[t][i][1]].name,
                         color |-> e.output_n[t][i][2], times |-> 1]
<1> DEFINE ss == Written(e)
<1> DEFINE ins(t) == [i \in DOMAIN e.input_n[t] |->
            [source |-> e.place[e.input_n[t][i][1]].name, target |-> e.transition[t].name,
             color |-> e.input_n[t][i][2], times |-> 1]]
<1> DEFINE outs(t) == [i \in DOMAIN e.output_n[t] |->
            [source |-> e.transition[t].name, target |-> e.place[e.output_n[t][i][1]].name,
             color |-> e.output_n[t][i][2], times |-> 1]]
<1>1. IsSeq(e.transition) /\ DOMAIN e.transition = 1 .. Len(e.transition)
    BY SeqElim DEF Structure, PerTransition
<1>2. /\ DOMAIN ss = DOMAIN e.transition /\ ss = [t \in DOMAIN ss |-> ss[t]]
      /\ \A t \in DOMAIN e.transition : ss[t] = ins(t) \o outs(t)
    BY DEF Written
<1>3. toXml(e).arcs = FlattenSeq(ss)
    BY DEF toXml, Written
<1> HIDE DEF ss
<1>4. IsSeq(ss) /\ Len(ss) = Len(e.transition)
    BY <1>1, <1>2, SeqOver
<1>5. ASSUME NEW t \in 1 .. Len(e.transition)
      PROVE  /\ IsSeq(ss[t])
             /\ Len(e.input_n[t]) \in Nat /\ Len(e.output_n[t]) \in Nat
             /\ Len(ss[t]) = Len(e.input_n[t]) + Len(e.output_n[t])
             /\ \A i \in 1 .. Len(e.input_n[t]) : ss[t][i] = ins(t)[i]
             /\ \A i \in 1 .. Len(e.output_n[t]) : ss[t][Len(e.input_n[t]) + i] = outs(t)[i]
             /\ DOMAIN e.input_n[t] = 1 .. Len(e.input_n[t])
             /\ DOMAIN e.output_n[t] = 1 .. Len(e.output_n[t])
    <2> DEFINE a == ins(t)
    <2> DEFINE b == outs(t)
    <2>1. IsSeq(e.input_n[t]) /\ IsSeq(e.output_n[t])
        BY DEF Structure, ArcsSound, ArcsTo
    <2>2. /\ DOMAIN a = DOMAIN e.input_n[t] /\ a = [i \in DOMAIN a |-> a[i]]
          /\ DOMAIN b = DOMAIN e.output_n[t] /\ b = [i \in DOMAIN b |-> b[i]]
        OBVIOUS
    <2>3. ss[t] = a \o b
        BY <1>1, <1>2
    <2> HIDE DEF a, b
    <2>4. IsSeq(a) /\ IsSeq(b) /\ Len(a) = Len(e.input_n[t]) /\ Len(b) = Len(e.output_n[t])
        BY <2>1, <2>2, SeqOver
    <2>5. /\ IsSeq(a \o b) /\ Len(a \o b) = Len(a) + Len(b)
          /\ \A i \in 1 .. Len(a) : (a \o b)[i] = a[i]
          /\ \A i \in 1 .. Len(b) : (a \o b)[Len(a) + i] = b[i]
        <3>1. IsSeq(a \o b) /\ Len(a \o b) = Len(a) + Len(b)
            BY <2>4, SeqConcat
        <3>2. \A i \in 1 .. Len(a) : (a \o b)[i] = a[i]
            BY <2>4, SeqConcat
        <3>3. \A i \in 1 .. Len(b) : (a \o b)[Len(a) + i] = b[i]
            BY <2>4, SeqConcat, SMTT(60)
        <3>4. QED
            BY <3>1, <3>2, <3>3
    <2>6. QED
        BY <2>1, <2>3, <2>4, <2>5, SeqElim DEF a, b
<1>6. ASSUME NEW t \in 1 .. Len(e.transition)
      PROVE  /\ \A i \in 1 .. Len(e.input_n[t]) : ss[t][i] =
                    [source |-> e.place[e.input_n[t][i][1]].name, target |-> e.transition[t].name,
                     color |-> e.input_n[t][i][2], times |-> 1]
             /\ \A i \in 1 .. Len(e.output_n[t]) : ss[t][Len(e.input_n[t]) + i] =
                    [source |-> e.transition[t].name, target |-> e.place[e.output_n[t][i][1]].name,
                     color |-> e.output_n[t][i][2], times |-> 1]
    BY <1>5
<1> HIDE DEF ins, outs
<1>7. QED
    BY <1>3, <1>4, <1>5, <1>6 DEF ss

(***************************************************************************)
(* Each arc that is written is read, once.                                 *)
(***************************************************************************)
LEMMA ArcsSaved ==
    ASSUME NEW e, Structure(e)
    PROVE  Lists(Arcs(toXml(e)), Written(e), Len(e.transition))
<1> DEFINE x == toXml(e)
<1> DEFINE n == Len(e.transition)
<1> DEFINE w == Written(e)
<1> DEFINE list == x.arcs
<1> DEFINE s == Arcs(x)
<1> DEFINE ss == [i \in DOMAIN list |-> [k \in 1 .. list[i].times |-> list[i]]]
<1>1. IsSeq(w) /\ Len(w) = n /\ list = FlattenSeq(w) /\ \A t \in 1 .. n : IsSeq(w[t])
    BY WrittenAre
<1>2. s = FlattenSeq(ss)
    BY DEF Arcs
<1> HIDE DEF w, x, s
<1>3. Lists(list, w, n)
    BY <1>1, FlattenLists
<1>4. PICK g \in Bijection(1 .. Len(list), Cells(w, n)) : \A k \in 1 .. Len(list) : list[k] = w[g[k][1]][g[k][2]]
    BY <1>3 DEF Lists
<1>5. IsSeq(list) /\ DOMAIN list = 1 .. Len(list) /\ Len(list) \in Nat
    BY <1>3, SeqElim DEF Lists
<1>6. \A t \in 1 .. n : \A j \in 1 .. Len(w[t]) : w[t][j].times = 1
    <2>1. ASSUME NEW t \in 1 .. n, NEW j \in 1 .. Len(w[t])
          PROVE  w[t][j].times = 1
        <3> DEFINE a == Len(e.input_n[t])
        <3> DEFINE b == Len(e.output_n[t])
        <3>1. /\ a \in Nat /\ b \in Nat /\ Len(w[t]) = a + b
              /\ \A i \in 1 .. a : w[t][i].times = 1
              /\ \A i \in 1 .. b : w[t][a + i].times = 1
            <4>1. a \in Nat /\ b \in Nat /\ Len(w[t]) = a + b
                BY WrittenAre DEF w
            <4>2. \A i \in 1 .. a : w[t][i].times = 1
                <5>1. \A i \in 1 .. a : w[t][i] =
                        [source |-> e.place[e.input_n[t][i][1]].name, target |-> e.transition[t].name,
                         color |-> e.input_n[t][i][2], times |-> 1]
                    BY WrittenAre DEF w
                <5>2. ASSUME NEW i \in 1 .. a
                      PROVE  w[t][i].times = 1
                    <6>1. w[t][i] =
                                [source |-> e.place[e.input_n[t][i][1]].name, target |-> e.transition[t].name,
                                 color |-> e.input_n[t][i][2], times |-> 1]
                        BY <5>1
                    <6>2. QED
                        BY <6>1
                <5>3. QED
                    BY <5>2
            <4>3. \A i \in 1 .. b : w[t][a + i].times = 1
                <5>1. \A i \in 1 .. b : w[t][a + i] =
                        [source |-> e.transition[t].name, target |-> e.place[e.output_n[t][i][1]].name,
                         color |-> e.output_n[t][i][2], times |-> 1]
                    BY WrittenAre DEF w
                <5>2. ASSUME NEW i \in 1 .. b
                      PROVE  w[t][a + i].times = 1
                    <6>1. w[t][a + i] =
                                [source |-> e.transition[t].name, target |-> e.place[e.output_n[t][i][1]].name,
                                 color |-> e.output_n[t][i][2], times |-> 1]
                        BY <5>1
                    <6>2. QED
                        BY <6>1
                <5>3. QED
                    BY <5>2
            <4>4. QED
                BY <4>1, <4>2, <4>3
        <3> HIDE DEF a, b, n
        <3>2. CASE j <= a
            BY <3>1, <3>2
        <3>3. CASE j > a
            <4>1. j - a \in 1 .. b /\ a + (j - a) = j
                BY <3>1, <3>3
            <4>2. QED
                BY <4>1, <3>1
        <3>4. QED
            BY <3>1, <3>2, <3>3
    <2>2. QED
        BY <2>1
<1>7. \A k \in 1 .. Len(list) : g[k] \in Cells(w, n)
    BY <1>4, BijectionIs
<1>8. \A k \in 1 .. Len(list) : list[k].times = 1
    <2>1. \A y \in Cells(w, n) : y[1] \in 1 .. n /\ y[2] \in 1 .. Len(w[y[1]])
        BY DEF Cells
    <2>2. ASSUME NEW k \in 1 .. Len(list)
          PROVE  list[k].times = 1
        <3> DEFINE y == g[k]
        <3>1. y[1] \in 1 .. n /\ y[2] \in 1 .. Len(w[y[1]])
            BY <2>1, <1>7
        <3>2. w[y[1]][y[2]].times = 1
            BY <3>1, <1>6
        <3>3. QED
            BY <3>2, <1>4
    <2>3. QED
        BY <2>2
<1> HIDE DEF n
<1>9. /\ DOMAIN ss = DOMAIN list /\ ss = [i \in DOMAIN ss |-> ss[i]]
      /\ \A i \in 1 .. Len(list) : ss[i] = [k \in 1 .. 1 |-> list[i]]
    BY <1>5, <1>8
<1> HIDE DEF ss
<1>10. IsSeq(ss) /\ Len(ss) = Len(list)
    BY <1>5, <1>9, SeqOver
<1>11. \A i \in 1 .. Len(list) : IsSeq(ss[i]) /\ Len(ss[i]) = 1 /\ ss[i][1] = list[i]
    <2>1. ASSUME NEW i \in 1 .. Len(list)
          PROVE  IsSeq(ss[i]) /\ Len(ss[i]) = 1 /\ ss[i][1] = list[i]
        <3>1. ss[i] = [k \in 1 .. 1 |-> ss[i][k]] /\ ss[i][1] = list[i]
            <4> DEFINE c == ss[i]
            <4> DEFINE y == list[i]
            <4>1. c = [k \in 1 .. 1 |-> y]
                BY <1>9
            <4> HIDE DEF c, y
            <4>2. c = [k \in 1 .. 1 |-> c[k]] /\ c[1] = y
                BY <4>1
            <4>3. QED
                BY <4>2 DEF c, y
        <3>2. QED
            BY <3>1, SeqIntro
    <2>2. QED
        BY <2>1
<1> HIDE DEF list
<1>12. Lists(s, ss, Len(list))
    BY <1>2, <1>10, <1>11, FlattenLists
<1>13. PICK f \in Bijection(1 .. Len(s), Cells(ss, Len(list))) : \A k \in 1 .. Len(s) : s[k] = ss[f[k][1]][f[k][2]]
    BY <1>12 DEF Lists
<1>14. \A y : y \in Cells(ss, Len(list)) <=> \E i \in 1 .. Len(list) : y = <<i, 1>>
    <2>1. \A y \in Cells(ss, Len(list)) : y = <<y[1], y[2]>> /\ y[1] \in 1 .. Len(list) /\ y[2] \in 1 .. Len(ss[y[1]])
        BY DEF Cells
    <2>2. ASSUME NEW i \in 1 .. Len(list)
          PROVE  <<i, 1>> \in Cells(ss, Len(list))
        BY <1>11 DEF Cells
    <2>3. \A k \in 1 .. 1 : k = 1
        OBVIOUS
    <2>4. \A y \in Cells(ss, Len(list)) : y[2] = 1
        BY <2>1, <2>3, <1>11
    <2>5. QED
        BY <2>1, <2>2, <2>4
<1> DEFINE A == 1 .. Len(s)
<1> DEFINE B == 1 .. Len(list)
<1> DEFINE C == Cells(ss, Len(list))
<1> DEFINE D == Cells(w, n)
<1>15. /\ \A i \in A : f[i] \in C
       /\ \A i, j \in A : f[i] = f[j] => i = j
       /\ \A y \in C : \E i \in A : f[i] = y
    <2>1. f \in Bijection(A, C)
        OBVIOUS
    <2> HIDE DEF A, C
    <2>2. QED
        BY <2>1, BijectionIs
<1>16. /\ \A i \in B : g[i] \in D
       /\ \A i, j \in B : g[i] = g[j] => i = j
       /\ \A y \in D : \E i \in B : g[i] = y
    <2>1. g \in Bijection(B, D)
        BY DEF list
    <2> HIDE DEF B, D
    <2>2. QED
        BY <2>1, BijectionIs
<1>17. \A y : y \in C <=> \E i \in B : y = <<i, 1>>
    BY <1>14
<1>18. /\ \A k \in A : s[k] = ss[f[k][1]][f[k][2]]
       /\ \A k \in B : list[k] = w[g[k][1]][g[k][2]]
       /\ \A i \in B : ss[i][1] = list[i]
    BY <1>4, <1>11, <1>13 DEF list
<1> HIDE DEF A, B, C, D
<1> DEFINE h == [k \in A |-> g[f[k][1]]]
<1>19. \A k \in A : f[k] = <<f[k][1], 1>> /\ f[k][1] \in B
    <2>1. ASSUME NEW k \in A
          PROVE  f[k] = <<f[k][1], 1>> /\ f[k][1] \in B
        <3>1. PICK i \in B : f[k] = <<i, 1>>
            BY <1>15, <1>17
        <3>2. QED
            BY <3>1
    <2>2. QED
        BY <2>1
<1>20. h \in [A -> D]
    BY <1>16, <1>19
<1>21. \A k \in A : h[k] = g[f[k][1]]
    OBVIOUS
<1> HIDE DEF h
<1>22. ASSUME NEW i \in A, NEW j \in A, h[i] = h[j]
       PROVE  i = j
    <2>1. f[i][1] = f[j][1]
        BY <1>16, <1>19, <1>21, <1>22
    <2>2. f[i] = f[j]
        BY <2>1, <1>19
    <2>3. QED
        BY <2>2, <1>15
<1>23. ASSUME NEW y \in D
       PROVE  \E k \in A : h[k] = y
    <2>1. PICK i \in B : g[i] = y
        BY <1>16
    <2>2. PICK k \in A : f[k] = <<i, 1>>
        BY <1>15, <1>17
    <2>3. f[k][1] = i
        BY <2>2
    <2>4. QED
        BY <2>1, <2>3, <1>21
<1>24. h \in Bijection(A, D)
    BY <1>20, <1>22, <1>23, IsBijection
<1>25. \A k \in A : s[k] = w[h[k][1]][h[k][2]]
    <2>1. ASSUME NEW k \in A
          PROVE  s[k] = w[h[k][1]][h[k][2]]
        <3> DEFINE i == f[k][1]
        <3>1. f[k] = <<i, 1>> /\ i \in B
            BY <1>19
        <3>2. f[k][2] = 1
            BY <3>1
        <3> HIDE DEF i
        <3>3. s[k] = list[i]
            BY <3>1, <3>2, <1>18
        <3>4. h[k] = g[i]
            BY <1>21 DEF i
        <3>5. QED
            BY <3>1, <3>3, <3>4, <1>18
    <2>2. QED
        BY <2>1
<1>26. IsSeq(s)
    BY <1>12 DEF Lists
<1>27. Lists(s, w, n)
    BY <1>24, <1>25, <1>26 DEF Lists, A, D
<1>28. QED
    BY <1>27 DEF s, x, w, n

(***************************************************************************)
(* The arcs that are read: each goes back to the transition and the side   *)
(* that it was written for.                                                *)
(***************************************************************************)
ReadBack(e, a, t, j) ==
    LET x == toXml(e)
        in == Len(e.input_n[t])
        end == IF j <= in THEN e.input_n[t][j] ELSE e.output_n[t][j - in]
    IN  /\ Consumes(x, a) <=> j <= in
        /\ Owner(x, a) = e.transition[t].name
        /\ PlaceEnd(x, a) = e.place[end[1]].name
        /\ a.color = end[2]

(***************************************************************************)
(* Because no place has the name of a transition.                          *)
(***************************************************************************)
LEMMA WrittenReadBack ==
    ASSUME NEW e, Structure(e), OwnNames(e), NEW t \in 1 .. Len(e.transition), NEW j \in 1 .. Len(Written(e)[t])
    PROVE  ReadBack(e, Written(e)[t][j], t, j)
<1> DEFINE x == toXml(e)
<1> DEFINE w == Written(e)
<1> DEFINE in == Len(e.input_n[t])
<1> DEFINE out == Len(e.output_n[t])
<1> DEFINE name == e.transition[t].name
<1> DEFINE At(p) == e.place[p].name
<1>1. in \in Nat /\ out \in Nat /\ Len(w[t]) = in + out
    BY WrittenAre
<1>2. \A i \in 1 .. in : w[t][i] = [source |-> At(e.input_n[t][i][1]), target |-> name,
                                    color |-> e.input_n[t][i][2], times |-> 1]
    BY WrittenAre
<1>3. \A i \in 1 .. out : w[t][in + i] = [source |-> name, target |-> At(e.output_n[t][i][1]),
                                          color |-> e.output_n[t][i][2], times |-> 1]
    BY WrittenAre
<1>4. /\ \A i \in 1 .. in : e.input_n[t][i][1] \in 1 .. Len(e.place)
      /\ \A i \in 1 .. out : e.output_n[t][i][1] \in 1 .. Len(e.place)
    BY DEF Structure, ArcsSound, ArcsTo
<1>5. \A y : y \in NamesOf(x.places) <=> \E p \in 1 .. Len(e.place) : y = At(p)
    <2>1. DOMAIN e.place = 1 .. Len(e.place)
        BY SeqElim DEF Structure, PerPlace
    <2>2. DOMAIN x.places = DOMAIN e.place /\ \A p \in DOMAIN e.place : x.places[p].name = At(p)
        BY DEF toXml
    <2> HIDE DEF x, At
    <2>3. QED
        BY <2>1, <2>2 DEF NamesOf
<1>6. name \notin NamesOf(x.places)
    BY <1>5 DEF OwnNames
<1>7. \A p \in 1 .. Len(e.place) : At(p) \in NamesOf(x.places)
    BY <1>5
<1>8. CASE j <= in
    <2> DEFINE a == w[t][j]
    <2>1. j \in 1 .. in
        BY <1>1, <1>8
    <2>2. a = [source |-> At(e.input_n[t][j][1]), target |-> name, color |-> e.input_n[t][j][2], times |-> 1]
        BY <2>1, <1>2
    <2> HIDE DEF At
    <2>3. a.source = At(e.input_n[t][j][1]) /\ a.target = name /\ a.color = e.input_n[t][j][2]
        BY <2>2
    <2> HIDE DEF a, x, name, in
    <2>4. Consumes(x, a)
        BY <2>1, <2>3, <1>4, <1>7 DEF Consumes
    <2>5. Owner(x, a) = name /\ PlaceEnd(x, a) = At(e.input_n[t][j][1])
        BY <2>3, <2>4 DEF Owner, PlaceEnd
    <2>6. ReadBack(e, a, t, j)
        BY <2>3, <2>4, <2>5, <1>8 DEF ReadBack, x, in, name, At
    <2>7. QED
        BY <2>6 DEF a
<1>9. CASE j > in
    <2> DEFINE a == w[t][j]
    <2> DEFINE i == j - in
    <2>1. i \in 1 .. out /\ in + i = j /\ ~(j <= in)
        <3>1. j \in 1 .. in + out
            BY <1>1
        <3> HIDE DEF in, out
        <3>2. QED
            BY <3>1, <1>1, <1>9
    <2> HIDE DEF i
    <2>2. a = [source |-> name, target |-> At(e.output_n[t][i][1]), color |-> e.output_n[t][i][2], times |-> 1]
        BY <2>1, <1>3
    <2> HIDE DEF At
    <2>3. a.source = name /\ a.target = At(e.output_n[t][i][1]) /\ a.color = e.output_n[t][i][2]
        BY <2>2
    <2> HIDE DEF a, x, name, in
    <2>4. ~ Consumes(x, a)
        BY <2>3, <1>6 DEF Consumes
    <2>5. Owner(x, a) = name /\ PlaceEnd(x, a) = At(e.output_n[t][i][1])
        BY <2>3, <2>4 DEF Owner, PlaceEnd
    <2>6. ReadBack(e, a, t, j)
        BY <2>1, <2>3, <2>4, <2>5 DEF ReadBack, x, in, name, At, i
    <2>7. QED
        BY <2>6 DEF a
<1>10. QED
    BY <1>1, <1>8, <1>9

(***************************************************************************)
(* The arcs of a transition, told by the names of the places.              *)
(***************************************************************************)
ByName(e, arcs) == [i \in DOMAIN arcs |-> <<e.place[arcs[i][1]].name, arcs[i][2]>>]

(***************************************************************************)
(* The ends that the parser collects for a transition and a side of it.    *)
(***************************************************************************)
EndsIn(file, t, consumes) ==
    LET arcs == Arcs(file)
    IN  FlattenSeq([i \in DOMAIN arcs |->
            IF Owner(file, arcs[i]) = t /\ (Consumes(file, arcs[i]) <=> consumes)
            THEN << <<PlaceEnd(file, arcs[i]), arcs[i].color>> >> ELSE <<>>])

(***************************************************************************)
(* They are the arcs that the transition had on that side.                 *)
(***************************************************************************)
LEMMA EndsSaved ==
    ASSUME NEW e, Structure(e), OwnNames(e), NEW t \in 1 .. Len(e.transition), NEW consumes \in BOOLEAN
    PROVE  LET list == ByName(e, IF consumes THEN e.input_n[t] ELSE e.output_n[t])
               ends == EndsIn(toXml(e), e.transition[t].name, consumes)
           IN  IsSeq(list) /\ IsSeq(ends) /\ ArcBag(ends) = ArcBag(list)
<1> DEFINE x == toXml(e)
<1> DEFINE w == Written(e)
<1> DEFINE m == Len(e.transition)
<1> DEFINE name == e.transition[t].name
<1> DEFINE old == IF consumes THEN e.input_n[t] ELSE e.output_n[t]
<1> DEFINE list == ByName(e, old)
<1> DEFINE base == IF consumes THEN 0 ELSE Len(e.input_n[t])
<1> DEFINE arcs == Arcs(x)
<1> DEFINE ends == EndsIn(x, name, consumes)
<1> DEFINE Here(i) == Owner(x, arcs[i]) = name /\ (Consumes(x, arcs[i]) <=> consumes)
<1> DEFINE End(i) == <<PlaceEnd(x, arcs[i]), arcs[i].color>>
<1> DEFINE ss == [i \in DOMAIN arcs |-> IF Here(i) THEN << End(i) >> ELSE <<>>]
<1>1. PICK g \in Bijection(1 .. Len(arcs), Cells(w, m)) : \A k \in 1 .. Len(arcs) : arcs[k] = w[g[k][1]][g[k][2]]
    BY ArcsSaved DEF Lists
<1>2. IsSeq(arcs) /\ DOMAIN arcs = 1 .. Len(arcs)
    BY ArcsSaved, SeqElim DEF Lists
<1>3. /\ \A i \in 1 .. Len(arcs) : g[i] \in Cells(w, m)
      /\ \A i, j \in 1 .. Len(arcs) : g[i] = g[j] => i = j
      /\ \A y \in Cells(w, m) : \E i \in 1 .. Len(arcs) : g[i] = y
    <2> DEFINE A == 1 .. Len(arcs)
    <2> DEFINE B == Cells(w, m)
    <2>1. g \in Bijection(A, B)
        OBVIOUS
    <2> HIDE DEF A, B
    <2>2. /\ \A i \in A : g[i] \in B
          /\ \A i, j \in A : g[i] = g[j] => i = j
          /\ \A y \in B : \E i \in A : g[i] = y
        BY <2>1, BijectionIs
    <2>3. QED
        BY <2>2 DEF A, B
<1>4. \A i \in 1 .. Len(arcs) : /\ g[i] = <<g[i][1], g[i][2]>>
                                /\ g[i][1] \in 1 .. m /\ g[i][2] \in 1 .. Len(w[g[i][1]])
                                /\ ReadBack(e, arcs[i], g[i][1], g[i][2])
    <2>1. \A y \in Cells(w, m) : y = <<y[1], y[2]>> /\ y[1] \in 1 .. m /\ y[2] \in 1 .. Len(w[y[1]])
        BY DEF Cells
    <2>2. ASSUME NEW i \in 1 .. Len(arcs)
          PROVE  /\ g[i] = <<g[i][1], g[i][2]>>
                 /\ g[i][1] \in 1 .. m /\ g[i][2] \in 1 .. Len(w[g[i][1]])
                 /\ ReadBack(e, arcs[i], g[i][1], g[i][2])
        <3> DEFINE u == g[i][1]
        <3> DEFINE v == g[i][2]
        <3>1. g[i] = <<u, v>> /\ u \in 1 .. m /\ v \in 1 .. Len(w[u])
            BY <2>1, <1>3
        <3>2. arcs[i] = w[u][v]
            BY <1>1
        <3> HIDE DEF u, v, arcs
        <3>3. ReadBack(e, w[u][v], u, v)
            BY <3>1, WrittenReadBack
        <3>4. QED
            BY <3>1, <3>2, <3>3 DEF u, v
    <2>3. QED
        BY <2>2
<1>5. /\ Len(e.input_n[t]) \in Nat /\ Len(e.output_n[t]) \in Nat
      /\ Len(w[t]) = Len(e.input_n[t]) + Len(e.output_n[t])
    BY WrittenAre
<1>6. ends = FlattenSeq(ss)
    BY DEF EndsIn
<1>7. IsSeq(old) /\ Len(old) \in Nat /\ DOMAIN old = 1 .. Len(old)
    <2>1. IsSeq(old)
        BY DEF Structure, ArcsSound, ArcsTo
    <2>2. QED
        BY <2>1, SeqElim
<1>8. IsSeq(list) /\ Len(list) = Len(old) /\ \A i \in 1 .. Len(old) : list[i] = <<e.place[old[i][1]].name, old[i][2]>>
    <2>1. DOMAIN list = DOMAIN old /\ list = [i \in DOMAIN list |-> list[i]]
          /\ \A i \in DOMAIN old : list[i] = <<e.place[old[i][1]].name, old[i][2]>>
        BY DEF ByName
    <2> HIDE DEF old, list
    <2>2. QED
        BY <2>1, <1>7, SeqOver
<1>9. base \in Nat /\ (\A v \in 1 .. Len(w[t]) : (v <= Len(e.input_n[t]) <=> consumes) => v - base \in 1 .. Len(old))
      /\ \A v \in 1 .. Len(old) : base + v \in 1 .. Len(w[t]) /\ (base + v <= Len(e.input_n[t]) <=> consumes)
                                  /\ base + v - base = v
    <2> DEFINE a == Len(e.input_n[t])
    <2> DEFINE b == Len(e.output_n[t])
    <2>0. a \in Nat /\ b \in Nat /\ Len(w[t]) = a + b
        BY <1>5
    <2> HIDE DEF w
    <2>1. CASE consumes
        <3>1. base = 0 /\ Len(old) = a
            BY <2>1
        <3> HIDE DEF base, old, a, b
        <3>2. QED
            BY <2>1, <3>1, <2>0 DEF a
    <2>2. CASE ~consumes
        <3>1. base = a /\ Len(old) = b
            BY <2>2
        <3> HIDE DEF base, old, a, b
        <3>2. base \in Nat
            BY <2>0, <3>1
        <3>3. \A v \in 1 .. Len(w[t]) : ~(v <= a) => v - base \in 1 .. Len(old)
            BY <2>0, <3>1
        <3>4. \A v \in 1 .. Len(old) : base + v \in 1 .. Len(w[t]) /\ ~(base + v <= a) /\ base + v - base = v
            BY <2>0, <3>1
        <3>5. QED
            BY <2>2, <3>2, <3>3, <3>4 DEF a
    <2>3. QED
        BY <2>1, <2>2
<1>10. ASSUME NEW i \in 1 .. Len(arcs), Here(i)
       PROVE  g[i][1] = t /\ g[i][2] - base \in 1 .. Len(old) /\ End(i) = list[g[i][2] - base]
    <2> DEFINE u == g[i][1]
    <2> DEFINE v == g[i][2]
    <2>1. u \in 1 .. m /\ v \in 1 .. Len(w[u]) /\ ReadBack(e, arcs[i], u, v)
        BY <1>4
    <2> HIDE DEF u, v
    <2>2. Owner(x, arcs[i]) = e.transition[u].name /\ (Consumes(x, arcs[i]) <=> v <= Len(e.input_n[u]))
        BY <2>1 DEF ReadBack
    <2>3. u = t
        BY <2>1, <2>2, <1>10 DEF OwnNames
    <2>4. v <= Len(e.input_n[t]) <=> consumes
        BY <2>2, <2>3, <1>10
    <2>5. v - base \in 1 .. Len(old)
        BY <2>1, <2>3, <2>4, <1>9
    <2>6. End(i) = <<e.place[old[v - base][1]].name, old[v - base][2]>>
        <3> DEFINE a == arcs[i]
        <3>1. ReadBack(e, a, t, v)
            BY <2>1, <2>3
        <3> HIDE DEF a, x
        <3>2. CASE consumes
            <4>1. v - base = v /\ v <= Len(e.input_n[t]) /\ old = e.input_n[t]
                BY <3>2, <2>1, <2>3, <2>4, <1>5
            <4>2. PlaceEnd(x, a) = e.place[e.input_n[t][v][1]].name /\ a.color = e.input_n[t][v][2]
                BY <3>1, <4>1 DEF ReadBack, x
            <4> HIDE DEF base, old
            <4>3. QED
                BY <4>1, <4>2 DEF a
        <3>3. CASE ~consumes
            <4>1. base = Len(e.input_n[t]) /\ ~(v <= Len(e.input_n[t])) /\ old = e.output_n[t]
                BY <3>3, <2>4
            <4>2. /\ PlaceEnd(x, a) = e.place[e.output_n[t][v - Len(e.input_n[t])][1]].name
                  /\ a.color = e.output_n[t][v - Len(e.input_n[t])][2]
                BY <3>1, <4>1 DEF ReadBack, x
            <4> HIDE DEF base, old
            <4>3. QED
                BY <4>1, <4>2 DEF a
        <3>4. QED
            BY <3>2, <3>3
    <2> HIDE DEF End, base, old, list
    <2>7. QED
        BY <2>3, <2>5, <2>6, <1>8 DEF u, v
<1>11. ASSUME NEW y \in 1 .. Len(old)
       PROVE  \E i \in 1 .. Len(arcs) : Here(i) /\ g[i][2] - base = y
    <2> DEFINE v == base + y
    <2>1. v \in 1 .. Len(w[t]) /\ (v <= Len(e.input_n[t]) <=> consumes) /\ v - base = y
        BY <1>9
    <2> HIDE DEF v, base, old
    <2>2. <<t, v>> \in Cells(w, m)
        <3>1. v \in Nat
            BY <2>1, <1>5
        <3> HIDE DEF w
        <3>2. QED
            BY <3>1, <2>1 DEF Cells
    <2>3. PICK i \in 1 .. Len(arcs) : g[i] = <<t, v>>
        BY <2>2, <1>3
    <2>4. g[i][1] = t /\ g[i][2] = v
        BY <2>3
    <2>5. ReadBack(e, arcs[i], t, v)
        BY <2>4, <1>4
    <2>6. Here(i)
        BY <2>1, <2>5 DEF ReadBack
    <2> HIDE DEF Here
    <2>7. QED
        BY <2>1, <2>4, <2>6
<1> HIDE DEF Here, End, base, old, list, arcs
<1>12. /\ DOMAIN ss = DOMAIN arcs /\ ss = [i \in DOMAIN ss |-> ss[i]]
       /\ \A i \in 1 .. Len(arcs) : ss[i] = IF Here(i) THEN <<End(i)>> ELSE << >>
    BY <1>2
<1> HIDE DEF ss
<1>13. IsSeq(ss) /\ Len(ss) = Len(arcs)
    BY <1>2, <1>12, SeqOver
<1>14. \A z : IsSeq(<<z>>) /\ Len(<<z>>) = 1 /\ <<z>>[1] = z
    BY DEF IsSeq
<1>15. IsSeq(<< >>) /\ Len(<< >>) = 0
    BY DEF IsSeq
<1>16. \A i \in 1 .. Len(arcs) : /\ IsSeq(ss[i])
                                 /\ Here(i) => Len(ss[i]) = 1 /\ ss[i][1] = End(i)
                                 /\ ~Here(i) => Len(ss[i]) = 0
    BY <1>12, <1>14, <1>15
<1>17. Lists(ends, ss, Len(arcs))
    <2> HIDE DEF ends
    <2>1. QED
        BY <1>6, <1>13, <1>16, FlattenLists
<1> HIDE DEF ends
<1> DEFINE C == Cells(ss, Len(arcs))
<1> DEFINE A == 1 .. Len(ends)
<1> DEFINE B == 1 .. Len(list)
<1>18. \A y : y \in C <=> \E i \in 1 .. Len(arcs) : Here(i) /\ y = <<i, 1>>
    <2>1. \A y \in C : y = <<y[1], y[2]>> /\ y[1] \in 1 .. Len(arcs) /\ y[2] \in 1 .. Len(ss[y[1]])
        BY DEF Cells
    <2>2. ASSUME NEW i \in 1 .. Len(arcs), Here(i)
          PROVE  <<i, 1>> \in C
        BY <2>2, <1>16 DEF Cells
    <2>3. (\A k \in 1 .. 1 : k = 1) /\ 1 .. 0 = {}
        OBVIOUS
    <2>4. \A y \in C : y[2] = 1 /\ Here(y[1])
        BY <2>1, <2>3, <1>16
    <2> HIDE DEF C
    <2>5. QED
        BY <2>1, <2>2, <2>4
<1>19. PICK f \in Bijection(A, C) : \A k \in A : ends[k] = ss[f[k][1]][f[k][2]]
    BY <1>17 DEF Lists
<1> HIDE DEF A, C
<1>20. /\ \A i \in A : f[i] \in C
       /\ \A i, j \in A : f[i] = f[j] => i = j
       /\ \A y \in C : \E i \in A : f[i] = y
    BY <1>19, BijectionIs
<1> DEFINE h == [k \in A |-> g[f[k][1]][2] - base]
<1>21. \A k \in A : h[k] = g[f[k][1]][2] - base
    OBVIOUS
<1>22. ASSUME NEW k \in A
       PROVE  f[k] = <<f[k][1], 1>> /\ f[k][1] \in 1 .. Len(arcs) /\ Here(f[k][1])
    <2>1. PICK i \in 1 .. Len(arcs) : Here(i) /\ f[k] = <<i, 1>>
        BY <1>18, <1>20
    <2>2. QED
        BY <2>1
<1>23. h \in [A -> B]
    <2>1. ASSUME NEW k \in A
          PROVE  g[f[k][1]][2] - base \in B
        BY <1>8, <1>10, <1>22 DEF B
    <2>2. QED
        BY <2>1
<1> HIDE DEF h
<1>24. ASSUME NEW i \in A, NEW j \in A, h[i] = h[j]
       PROVE  i = j
    <2> DEFINE p == f[i][1]
    <2> DEFINE q == f[j][1]
    <2>1. /\ f[i] = <<p, 1>> /\ p \in 1 .. Len(arcs) /\ Here(p)
          /\ f[j] = <<q, 1>> /\ q \in 1 .. Len(arcs) /\ Here(q)
        BY <1>22
    <2>2. g[p][2] - base = g[q][2] - base
        BY <1>21, <1>24
    <2> HIDE DEF p, q
    <2>3. /\ g[p] = <<t, g[p][2]>> /\ g[q] = <<t, g[q][2]>>
          /\ g[p][2] \in 1 .. Len(w[t]) /\ g[q][2] \in 1 .. Len(w[t])
        BY <2>1, <1>4, <1>10
    <2>4. g[p][2] = g[q][2]
        <3>1. base \in Nat
            BY <1>9
        <3>2. g[p][2] \in Nat /\ g[q][2] \in Nat
            BY <2>3, <1>5
        <3>3. QED
            BY <3>1, <3>2, <2>2
    <2>5. p = q
        <3>1. g[p] = g[q]
            BY <2>3, <2>4, Zenon
        <3>2. QED
            BY <3>1, <2>1, <1>3
    <2>6. QED
        BY <2>1, <2>5, <1>20
<1>25. ASSUME NEW y \in B
       PROVE  \E k \in A : h[k] = y
    <2>1. PICK i \in 1 .. Len(arcs) : Here(i) /\ g[i][2] - base = y
        BY <1>8, <1>11 DEF B
    <2>2. PICK k \in A : f[k] = <<i, 1>>
        BY <2>1, <1>18, <1>20
    <2>3. f[k][1] = i
        BY <2>2
    <2>4. QED
        BY <2>1, <2>3, <1>21
<1>26. h \in Bijection(A, B)
    BY <1>23, <1>24, <1>25, IsBijection
<1>27. ASSUME NEW k \in A
       PROVE  ends[k] = list[h[k]]
    <2> DEFINE i == f[k][1]
    <2>1. f[k] = <<i, 1>> /\ i \in 1 .. Len(arcs) /\ Here(i)
        BY <1>22
    <2>2. f[k][2] = 1
        BY <2>1
    <2> HIDE DEF i
    <2>3. ends[k] = End(i)
        BY <2>1, <2>2, <1>16, <1>19 DEF i
    <2>4. End(i) = list[g[i][2] - base]
        BY <2>1, <1>10
    <2>5. h[k] = g[i][2] - base
        BY <1>21 DEF i
    <2>6. QED
        BY <2>3, <2>4, <2>5
<1>28. IsSeq(ends) /\ IsSeq(list)
    BY <1>8, <1>17 DEF Lists
<1>29. ArcBag(ends) = ArcBag(list)
    BY <1>26, <1>27, <1>28, SameBags DEF A, B
<1>30. QED
    BY <1>28, <1>29 DEF ends, list, name, x, old

(***************************************************************************)
(* The arcs that are read are those that were written.                     *)
(***************************************************************************)
LEMMA ArcsReadBack ==
    ASSUME NEW e, Structure(e), OwnNames(e)
    PROVE  LET arcs == Arcs(toXml(e))
           IN  /\ \A i \in 1 .. Len(arcs) : \E t \in 1 .. Len(e.transition) : \E j \in 1 .. Len(Written(e)[t]) :
                        ReadBack(e, arcs[i], t, j)
               /\ \A t \in 1 .. Len(e.transition) : \A j \in 1 .. Len(Written(e)[t]) :
                        \E i \in 1 .. Len(arcs) : ReadBack(e, arcs[i], t, j)
<1> DEFINE arcs == Arcs(toXml(e))
<1> DEFINE w == Written(e)
<1> DEFINE m == Len(e.transition)
<1> DEFINE A == 1 .. Len(arcs)
<1> DEFINE C == Cells(w, m)
<1>1. PICK g \in Bijection(A, C) : \A k \in A : arcs[k] = w[g[k][1]][g[k][2]]
    BY ArcsSaved DEF Lists
<1>2. \A y \in C : y = <<y[1], y[2]>> /\ y[1] \in 1 .. m /\ y[2] \in 1 .. Len(w[y[1]])
    BY DEF Cells
<1>3. \A t \in 1 .. m : \A j \in 1 .. Len(w[t]) : <<t, j>> \in C
    <2>1. ASSUME NEW t \in 1 .. m, NEW j \in 1 .. Len(w[t])
          PROVE  <<t, j>> \in C
        <3>1. IsSeq(w[t])
            BY WrittenAre
        <3> HIDE DEF w
        <3>2. j \in Nat
            BY <3>1, SeqElim
        <3>3. QED
            BY <3>2 DEF Cells
    <2>2. QED
        BY <2>1
<1>4. \A t \in 1 .. m : \A j \in 1 .. Len(w[t]) : ReadBack(e, w[t][j], t, j)
    BY WrittenReadBack
<1> HIDE DEF A, C, w, m, arcs
<1>5. /\ \A i \in A : g[i] \in C
      /\ \A y \in C : \E i \in A : g[i] = y
    BY <1>1, BijectionIs
<1>6. ASSUME NEW i \in A
      PROVE  \E t \in 1 .. m : \E j \in 1 .. Len(w[t]) : ReadBack(e, arcs[i], t, j)
    <2> DEFINE t == g[i][1]
    <2> DEFINE j == g[i][2]
    <2>1. t \in 1 .. m /\ j \in 1 .. Len(w[t]) /\ arcs[i] = w[t][j]
        BY <1>1, <1>2, <1>5
    <2> HIDE DEF t, j
    <2>2. QED
        BY <2>1, <1>4
<1>7. ASSUME NEW t \in 1 .. m, NEW j \in 1 .. Len(w[t])
      PROVE  \E i \in A : ReadBack(e, arcs[i], t, j)
    <2>1. PICK i \in A : g[i] = <<t, j>>
        BY <1>3, <1>5
    <2>2. g[i][1] = t /\ g[i][2] = j
        BY <2>1
    <2>3. arcs[i] = w[t][j]
        BY <2>2, <1>1
    <2>4. QED
        BY <2>3, <1>4
<1>8. QED
    BY <1>6, <1>7 DEF A, w, m, arcs

(***************************************************************************)
(* A transition that is in the net that is read.                           *)
(***************************************************************************)
HasArcs(e, t) == Len(e.input_n[t]) # 0 \/ Len(e.output_n[t]) # 0

(***************************************************************************)
(* It is those with arcs, with the ends that were collected for each.      *)
(***************************************************************************)
LEMMA NetInSaved ==
    ASSUME NEW e, Structure(e), OwnNames(e)
    PROVE  LET net == NetIn(toXml(e))
           IN  /\ \A y \in DOMAIN net : \E t \in 1 .. Len(e.transition) : y = e.transition[t].name
               /\ \A t \in 1 .. Len(e.transition) : e.transition[t].name \in DOMAIN net <=> HasArcs(e, t)
               /\ \A y \in DOMAIN net : /\ net[y].first = EndsIn(toXml(e), y, TRUE)
                                        /\ net[y].second = EndsIn(toXml(e), y, FALSE)
<1> DEFINE x == toXml(e)
<1> DEFINE arcs == Arcs(x)
<1> DEFINE net == NetIn(x)
<1> DEFINE m == Len(e.transition)
<1>1. IsSeq(arcs) /\ DOMAIN arcs = 1 .. Len(arcs)
    BY ArcsSaved, SeqElim DEF Lists
<1>2. /\ DOMAIN net = {Owner(x, arcs[i]) : i \in DOMAIN arcs}
      /\ \A y \in DOMAIN net : net[y].first = EndsIn(x, y, TRUE) /\ net[y].second = EndsIn(x, y, FALSE)
    BY DEF NetIn, EndsIn
<1>3. /\ \A i \in 1 .. Len(arcs) : \E t \in 1 .. m : \E j \in 1 .. Len(Written(e)[t]) : ReadBack(e, arcs[i], t, j)
      /\ \A t \in 1 .. m : \A j \in 1 .. Len(Written(e)[t]) : \E i \in 1 .. Len(arcs) : ReadBack(e, arcs[i], t, j)
    BY ArcsReadBack
<1>4. \A a, t, j : ReadBack(e, a, t, j) => Owner(x, a) = e.transition[t].name
    BY DEF ReadBack
<1>5. \A t \in 1 .. m : HasArcs(e, t) <=> \E j \in 1 .. Len(Written(e)[t]) : TRUE
    <2>1. ASSUME NEW t \in 1 .. m
          PROVE  HasArcs(e, t) <=> \E j \in 1 .. Len(Written(e)[t]) : TRUE
        <3> DEFINE a == Len(e.input_n[t])
        <3> DEFINE b == Len(e.output_n[t])
        <3> DEFINE c == Len(Written(e)[t])
        <3>1. a \in Nat /\ b \in Nat /\ c = a + b
            BY WrittenAre
        <3> HIDE DEF a, b, c
        <3>2. (a # 0 \/ b # 0) <=> \E j \in 1 .. c : TRUE
            <4>1. (a # 0 \/ b # 0) <=> 1 \in 1 .. c
                BY <3>1
            <4>2. (\E j \in 1 .. c : TRUE) => 1 \in 1 .. c
                BY <3>1
            <4>3. QED
                BY <4>1, <4>2
        <3>3. QED
            BY <3>2 DEF HasArcs, a, b, c
    <2>2. QED
        BY <2>1
<1> HIDE DEF x, arcs, net, m
<1>6. ASSUME NEW y \in DOMAIN net
      PROVE  \E t \in 1 .. m : y = e.transition[t].name
    <2>1. PICK i \in 1 .. Len(arcs) : y = Owner(x, arcs[i])
        BY <1>1, <1>2
    <2>2. PICK t \in 1 .. m : \E j \in 1 .. Len(Written(e)[t]) : ReadBack(e, arcs[i], t, j)
        BY <1>3
    <2>3. QED
        BY <2>1, <2>2, <1>4
<1>7. ASSUME NEW t \in 1 .. m
      PROVE  e.transition[t].name \in DOMAIN net <=> HasArcs(e, t)
    <2>1. ASSUME e.transition[t].name \in DOMAIN net
          PROVE  HasArcs(e, t)
        <3>1. PICK i \in 1 .. Len(arcs) : e.transition[t].name = Owner(x, arcs[i])
            BY <2>1, <1>1, <1>2
        <3>2. PICK u \in 1 .. m : \E j \in 1 .. Len(Written(e)[u]) : ReadBack(e, arcs[i], u, j)
            BY <1>3
        <3>3. u = t
            BY <3>1, <3>2, <1>4 DEF OwnNames, m
        <3>4. QED
            BY <3>2, <3>3, <1>5
    <2>2. ASSUME HasArcs(e, t)
          PROVE  e.transition[t].name \in DOMAIN net
        <3>1. PICK j \in 1 .. Len(Written(e)[t]) : TRUE
            BY <2>2, <1>5
        <3>2. PICK i \in 1 .. Len(arcs) : ReadBack(e, arcs[i], t, j)
            BY <3>1, <1>3
        <3>3. QED
            BY <3>2, <1>1, <1>2, <1>4
    <2>3. QED
        BY <2>1, <2>2
<1>8. QED
    BY <1>2, <1>6, <1>7 DEF x, net, m

(***************************************************************************)
(* A place at which an arc ends.                                           *)
(***************************************************************************)
Used(e, p) ==
    \E t \in 1 .. Len(e.transition) :
        \/ \E i \in 1 .. Len(e.input_n[t]) : e.input_n[t][i][1] = p
        \/ \E i \in 1 .. Len(e.output_n[t]) : e.output_n[t][i][1] = p

(***************************************************************************)
(* The places that are read are those.                                     *)
(***************************************************************************)
LEMMA PlacesSaved ==
    ASSUME NEW e, Structure(e), OwnNames(e)
    PROVE  LET place == PlacesIn(toXml(e))
           IN  /\ IsSeq(place)
               /\ \A q \in 1 .. Len(place) : toIndex(place, place[q]) = q
               /\ \A i \in 1 .. Len(Arcs(toXml(e))) : \E q \in 1 .. Len(place) : place[q] = PlaceEnd(toXml(e), Arcs(toXml(e))[i])
               /\ \A q \in 1 .. Len(place) : \E p \in 1 .. Len(e.place) : Used(e, p) /\ place[q] = e.place[p].name
               /\ \A p \in 1 .. Len(e.place) : Used(e, p) => \E q \in 1 .. Len(place) : place[q] = e.place[p].name
<1> DEFINE x == toXml(e)
<1> DEFINE arcs == Arcs(x)
<1> DEFINE place == PlacesIn(x)
<1> DEFINE m == Len(e.transition)
<1>1. WellFormed(x)
    BY ToXmlWellFormed
<1>2. IsSeq(arcs) /\ DOMAIN arcs = 1 .. Len(arcs) /\ Len(arcs) \in Nat
    BY ArcsSaved, SeqElim DEF Lists
<1>3. /\ \A i \in 1 .. Len(arcs) : \E t \in 1 .. m : \E j \in 1 .. Len(Written(e)[t]) : ReadBack(e, arcs[i], t, j)
      /\ \A t \in 1 .. m : \A j \in 1 .. Len(Written(e)[t]) : \E i \in 1 .. Len(arcs) : ReadBack(e, arcs[i], t, j)
    BY ArcsReadBack
<1>4. IsSeq(place) /\ \A q \in 1 .. Len(place) : toIndex(place, place[q]) = q
    <2>1. \A q \in 1 .. Len(PlacesIn(x)) : toIndex(PlacesIn(x), PlacesIn(x)[q]) = q
        <3> HIDE DEF x
        <3>1. QED
            BY <1>1, PlacesDrawn
    <2>2. IsSeq(place)
        BY <1>1, PlacesFacts
    <2>3. QED
        BY <2>1, <2>2
<1>5. \A i \in 1 .. Len(arcs) : \E q \in 1 .. Len(place) : place[q] = PlaceEnd(x, arcs[i])
    <2> DEFINE f == [i \in 1 .. Len(arcs) |-> PlaceEnd(x, arcs[i])]
    <2> DEFINE S == {f[i] : i \in 1 .. Len(arcs)}
    <2>1. place = SetToSeq(S)
        BY <1>2 DEF PlacesIn
    <2>2. \A i \in 1 .. Len(arcs) : PlaceEnd(x, arcs[i]) \in S
        OBVIOUS
    <2> HIDE DEF f, arcs, place
    <2>3. IsFiniteSet(S)
        BY <1>2, FiniteImage
    <2> HIDE DEF S
    <2>4. \A y \in S : \E k \in 1 .. Len(SetToSeq(S)) : SetToSeq(S)[k] = y
        BY <2>3, SetAsSeq
    <2>5. QED
        BY <2>1, <2>2, <2>4
<1>6. \A q \in 1 .. Len(place) : \E i \in 1 .. Len(arcs) : PlaceEnd(x, arcs[i]) = place[q]
    <2> HIDE DEF x
    <2>1. QED
        BY <1>1, PlacesDrawn
<1>7. ASSUME NEW t \in 1 .. m
      PROVE  /\ \A j \in 1 .. Len(Written(e)[t]) : \A a : ReadBack(e, a, t, j) =>
                    \E p \in 1 .. Len(e.place) : Used(e, p) /\ PlaceEnd(x, a) = e.place[p].name
             /\ \A i \in 1 .. Len(e.input_n[t]) : \E j \in 1 .. Len(Written(e)[t]) : \A a :
                    ReadBack(e, a, t, j) => PlaceEnd(x, a) = e.place[e.input_n[t][i][1]].name
             /\ \A i \in 1 .. Len(e.output_n[t]) : \E j \in 1 .. Len(Written(e)[t]) : \A a :
                    ReadBack(e, a, t, j) => PlaceEnd(x, a) = e.place[e.output_n[t][i][1]].name
    <2> DEFINE in == Len(e.input_n[t])
    <2> DEFINE out == Len(e.output_n[t])
    <2> DEFINE len == Len(Written(e)[t])
    <2>1. in \in Nat /\ out \in Nat /\ len = in + out
        BY WrittenAre
    <2>2. /\ \A i \in 1 .. in : e.input_n[t][i][1] \in 1 .. Len(e.place)
          /\ \A i \in 1 .. out : e.output_n[t][i][1] \in 1 .. Len(e.place)
        BY DEF Structure, ArcsSound, ArcsTo
    <2>3. /\ \A i \in 1 .. in : Used(e, e.input_n[t][i][1])
          /\ \A i \in 1 .. out : Used(e, e.output_n[t][i][1])
        BY DEF Used
    <2>4. \A a, j : ReadBack(e, a, t, j) =>
                PlaceEnd(x, a) = IF j <= in THEN e.place[e.input_n[t][j][1]].name
                                            ELSE e.place[e.output_n[t][j - in][1]].name
        BY DEF ReadBack
    <2> HIDE DEF in, out, len, x, m
    <2>5. \A i \in 1 .. in : i \in 1 .. len /\ i <= in
        BY <2>1
    <2>6. \A i \in 1 .. out : \E j \in 1 .. len : ~(j <= in) /\ j - in = i
        <3>1. ASSUME NEW i \in 1 .. out
              PROVE  \E j \in 1 .. len : ~(j <= in) /\ j - in = i
            <4>1. in + i \in 1 .. len
                BY <2>1
            <4> WITNESS in + i \in 1 .. len
            <4>2. QED
                BY <2>1
        <3>2. QED
            BY <3>1
    <2>7. \A j \in 1 .. len : (j <= in => j \in 1 .. in) /\ (~(j <= in) => j - in \in 1 .. out)
        BY <2>1
    <2>8. ASSUME NEW j \in 1 .. len, NEW a, ReadBack(e, a, t, j)
          PROVE  \E p \in 1 .. Len(e.place) : Used(e, p) /\ PlaceEnd(x, a) = e.place[p].name
        <3>1. CASE j <= in
            BY <3>1, <2>2, <2>3, <2>4, <2>7, <2>8
        <3>2. CASE ~(j <= in)
            BY <3>2, <2>2, <2>3, <2>4, <2>7, <2>8
        <3>3. QED
            BY <3>1, <3>2
    <2>9. ASSUME NEW i \in 1 .. in
          PROVE  \E j \in 1 .. len : \A a : ReadBack(e, a, t, j) => PlaceEnd(x, a) = e.place[e.input_n[t][i][1]].name
        BY <2>4, <2>5
    <2>10. ASSUME NEW i \in 1 .. out
           PROVE  \E j \in 1 .. len : \A a : ReadBack(e, a, t, j) => PlaceEnd(x, a) = e.place[e.output_n[t][i][1]].name
        <3>1. PICK j \in 1 .. len : ~(j <= in) /\ j - in = i
            BY <2>6
        <3>2. \A a : ReadBack(e, a, t, j) => PlaceEnd(x, a) = e.place[e.output_n[t][j - in][1]].name
            BY <3>1, <2>4
        <3>3. QED
            BY <3>1, <3>2
    <2>11. QED
        BY <2>8, <2>9, <2>10 DEF in, out, len
<1> HIDE DEF arcs, place, x
<1>8. ASSUME NEW q \in 1 .. Len(place)
      PROVE  \E p \in 1 .. Len(e.place) : Used(e, p) /\ place[q] = e.place[p].name
    <2>1. PICK i \in 1 .. Len(arcs) : PlaceEnd(x, arcs[i]) = place[q]
        BY <1>6
    <2>2. PICK t \in 1 .. m : \E j \in 1 .. Len(Written(e)[t]) : ReadBack(e, arcs[i], t, j)
        BY <1>3
    <2> HIDE DEF m
    <2>3. PICK j \in 1 .. Len(Written(e)[t]) : ReadBack(e, arcs[i], t, j)
        BY <2>2
    <2>4. \A a : ReadBack(e, a, t, j) => \E p \in 1 .. Len(e.place) : Used(e, p) /\ PlaceEnd(x, a) = e.place[p].name
        BY <1>7
    <2>5. \E p \in 1 .. Len(e.place) : Used(e, p) /\ PlaceEnd(x, arcs[i]) = e.place[p].name
        BY <2>3, <2>4
    <2>6. QED
        BY <2>1, <2>5
<1>9. ASSUME NEW p \in 1 .. Len(e.place), Used(e, p)
      PROVE  \E q \in 1 .. Len(place) : place[q] = e.place[p].name
    <2>1. PICK t \in 1 .. m : \/ \E i \in 1 .. Len(e.input_n[t]) : e.input_n[t][i][1] = p
                              \/ \E i \in 1 .. Len(e.output_n[t]) : e.output_n[t][i][1] = p
        BY <1>9 DEF Used
    <2>2. PICK j \in 1 .. Len(Written(e)[t]) : \A a : ReadBack(e, a, t, j) => PlaceEnd(x, a) = e.place[p].name
        <3>1. CASE \E i \in 1 .. Len(e.input_n[t]) : e.input_n[t][i][1] = p
            <4>1. PICK i \in 1 .. Len(e.input_n[t]) : e.input_n[t][i][1] = p
                BY <3>1
            <4>2. \E j \in 1 .. Len(Written(e)[t]) : \A a :
                    ReadBack(e, a, t, j) => PlaceEnd(x, a) = e.place[e.input_n[t][i][1]].name
                BY <1>7
            <4>3. QED
                BY <4>1, <4>2
        <3>2. CASE \E i \in 1 .. Len(e.output_n[t]) : e.output_n[t][i][1] = p
            <4>1. PICK i \in 1 .. Len(e.output_n[t]) : e.output_n[t][i][1] = p
                BY <3>2
            <4>2. \E j \in 1 .. Len(Written(e)[t]) : \A a :
                    ReadBack(e, a, t, j) => PlaceEnd(x, a) = e.place[e.output_n[t][i][1]].name
                BY <1>7
            <4>3. QED
                BY <4>1, <4>2
        <3>3. QED
            BY <2>1, <3>1, <3>2
    <2>3. PICK i \in 1 .. Len(arcs) : ReadBack(e, arcs[i], t, j)
        BY <1>3
    <2>4. QED
        BY <2>2, <2>3, <1>5
<1>10. QED
    BY <1>4, <1>5, <1>8, <1>9 DEF place, x, arcs

(***************************************************************************)
(* The position of a node that shares its name with no other.              *)
(***************************************************************************)
LEMMA PositionFound ==
    ASSUME NEW file, NEW name, NEW k \in 1 .. Len(file.places \o file.transitions),
           \A i \in 1 .. Len(file.places \o file.transitions) : (file.places \o file.transitions)[i].name = name <=> i = k
    PROVE  PositionIn(file, name) = (file.places \o file.transitions)[k].at
<1> DEFINE nodes == file.places \o file.transitions
<1> DEFINE I == {i \in 1 .. Len(nodes) : nodes[i].name = name}
<1>1. PositionIn(file, name) = nodes[IF I # {} THEN Max(I) ELSE 0].at
    BY DEF PositionIn, SelectLastInSeq
<1>2. I = {k}
    OBVIOUS
<1> HIDE DEF I
<1>3. Max(I) = k
    <2>1. k >= k
        OBVIOUS
    <2>2. QED
        BY <1>2, <2>1 DEF Max
<1>4. QED
    BY <1>1, <1>2, <1>3

(***************************************************************************)
(* A node is read at the position where it was written.                    *)
(***************************************************************************)
LEMMA PositionsSaved ==
    ASSUME NEW e, Structure(e), OwnNames(e)
    PROVE  /\ \A p \in 1 .. Len(e.place) : PositionIn(toXml(e), e.place[p].name) = e.p_positions[p]
           /\ \A t \in 1 .. Len(e.transition) : PositionIn(toXml(e), e.transition[t].name) = e.t_positions[t]
<1> DEFINE x == toXml(e)
<1> DEFINE a == x.places
<1> DEFINE b == x.transitions
<1> DEFINE nodes == a \o b
<1> DEFINE n == Len(e.place)
<1> DEFINE m == Len(e.transition)
<1>1. /\ IsSeq(e.place) /\ DOMAIN e.place = 1 .. n /\ n \in Nat
      /\ IsSeq(e.transition) /\ DOMAIN e.transition = 1 .. m /\ m \in Nat
    BY SeqElim DEF Structure, PerPlace, PerTransition
<1>2. /\ DOMAIN a = DOMAIN e.place /\ a = [p \in DOMAIN a |-> a[p]]
      /\ \A p \in DOMAIN e.place : a[p].name = e.place[p].name /\ a[p].at = e.p_positions[p]
    BY DEF toXml
<1>3. /\ DOMAIN b = DOMAIN e.transition /\ b = [t \in DOMAIN b |-> b[t]]
      /\ \A t \in DOMAIN e.transition : b[t].name = e.transition[t].name /\ b[t].at = e.t_positions[t]
    BY DEF toXml
<1>4. ASSUME NEW name, NEW k \in 1 .. Len(nodes), \A i \in 1 .. Len(nodes) : nodes[i].name = name <=> i = k
      PROVE  PositionIn(x, name) = nodes[k].at
    <2> HIDE DEF x
    <2>1. QED
        BY <1>4, PositionFound
<1> HIDE DEF x, a, b
<1>5. IsSeq(a) /\ Len(a) = n /\ IsSeq(b) /\ Len(b) = m
    BY <1>1, <1>2, <1>3, SeqOver
<1>6. Len(nodes) = Len(a) + Len(b)
    BY <1>5, SeqConcat
<1>7. \A i \in 1 .. Len(a) : nodes[i] = a[i]
    BY <1>5, SeqConcat
<1>8. \A i \in 1 .. Len(b) : nodes[Len(a) + i] = b[i]
    BY <1>5, SeqConcat
<1> HIDE DEF nodes, n, m
<1>9. \A i \in 1 .. Len(nodes) : i \in 1 .. n \/ \E t \in 1 .. m : i = n + t
    <2>1. ASSUME NEW i \in 1 .. Len(nodes), i \notin 1 .. n
          PROVE  \E t \in 1 .. m : i = n + t
        <3>1. i - n \in 1 .. m /\ i = n + (i - n)
            BY <2>1, <1>1, <1>5, <1>6
        <3>2. QED
            BY <3>1
    <2>2. QED
        BY <2>1
<1>10. \A p \in 1 .. n : p \in 1 .. Len(nodes) /\ nodes[p].name = e.place[p].name /\ nodes[p].at = e.p_positions[p]
    BY <1>1, <1>2, <1>5, <1>6, <1>7
<1>11. \A t \in 1 .. m : /\ n + t \in 1 .. Len(nodes)
                         /\ nodes[n + t].name = e.transition[t].name /\ nodes[n + t].at = e.t_positions[t]
    BY <1>1, <1>3, <1>5, <1>6, <1>8
<1>12. ASSUME NEW p \in 1 .. n
       PROVE  PositionIn(x, e.place[p].name) = e.p_positions[p]
    <2> DEFINE name == e.place[p].name
    <2>1. ASSUME NEW i \in 1 .. Len(nodes), nodes[i].name = name
          PROVE  i = p
        <3>1. CASE i \in 1 .. n
            BY <3>1, <2>1, <1>10 DEF OwnNames, n
        <3>2. CASE \E t \in 1 .. m : i = n + t
            BY <3>2, <2>1, <1>11 DEF OwnNames, n, m
        <3>3. QED
            BY <3>1, <3>2, <1>9
    <2>2. p \in 1 .. Len(nodes) /\ nodes[p].name = name
        BY <1>10
    <2> HIDE DEF name
    <2>3. \A i \in 1 .. Len(nodes) : nodes[i].name = name <=> i = p
        BY <2>1, <2>2
    <2>4. PositionIn(x, name) = nodes[p].at
        BY <2>2, <2>3, <1>4
    <2>5. QED
        BY <2>4, <1>10 DEF name
<1>13. ASSUME NEW t \in 1 .. m
       PROVE  PositionIn(x, e.transition[t].name) = e.t_positions[t]
    <2> DEFINE name == e.transition[t].name
    <2> DEFINE k == n + t
    <2>1. ASSUME NEW i \in 1 .. Len(nodes), nodes[i].name = name
          PROVE  i = k
        <3>1. CASE i \in 1 .. n
            BY <3>1, <2>1, <1>10 DEF OwnNames, n, m
        <3>2. CASE \E u \in 1 .. m : i = n + u
            BY <3>2, <2>1, <1>11 DEF OwnNames, m
        <3>3. QED
            BY <3>1, <3>2, <1>9
    <2>2. k \in 1 .. Len(nodes) /\ nodes[k].name = name /\ nodes[k].at = e.t_positions[t]
        BY <1>11
    <2> HIDE DEF name, k
    <2>3. \A i \in 1 .. Len(nodes) : nodes[i].name = name <=> i = k
        BY <2>1, <2>2
    <2>4. PositionIn(x, name) = nodes[k].at
        BY <2>2, <2>3, <1>4
    <2>5. QED
        BY <2>2, <2>4 DEF name
<1>14. QED
    BY <1>12, <1>13 DEF x, n, m

(***************************************************************************)
(* And without a priority.                                                 *)
(***************************************************************************)
LEMMA PrioritySaved ==
    ASSUME NEW e, NEW t
    PROVE  PriorityIn(toXml(e), t) = 0
<1> DEFINE x == toXml(e)
<1>1. x.kind # "grml"
    BY DEF toXml
<1> HIDE DEF x
<1>2. {i \in DOMAIN x.transitions : x.transitions[i].name = t /\ x.kind = "grml" /\ ToInt8(x.transitions[i].priority) # 0} = {}
    BY <1>1
<1>3. PriorityIn(x, t) = 0
    BY <1>2 DEF PriorityIn
<1>4. QED
    BY <1>3 DEF x

(***************************************************************************)
(* A place that is in the net that is read is found there.                 *)
(***************************************************************************)
LEMMA PlaceFound ==
    ASSUME NEW e, Structure(e), OwnNames(e), NEW p \in 1 .. Len(e.place), Used(e, p)
    PROVE  LET place == PlacesIn(toXml(e))
           IN  /\ toIndex(place, e.place[p].name) \in 1 .. Len(place)
               /\ place[toIndex(place, e.place[p].name)] = e.place[p].name
<1> DEFINE place == PlacesIn(toXml(e))
<1>1. /\ \A q \in 1 .. Len(place) : toIndex(place, place[q]) = q
      /\ \E q \in 1 .. Len(place) : place[q] = e.place[p].name
    BY PlacesSaved
<1> HIDE DEF place
<1>2. QED
    BY <1>1 DEF place

(***************************************************************************)
(* The tokens that are read are those that were written.                   *)
(***************************************************************************)
LEMMA TokensSaved ==
    ASSUME NEW e, Structure(e), OwnNames(e), Marks(e.tokens, Len(e.place)),
           \A a \in DOMAIN e.tokens : Used(e, a[1])
    PROVE  LET place == PlacesIn(toXml(e))
               B == TokensIn(toXml(e), place)
               Read(a) == <<toIndex(place, e.place[a[1]].name), a[2]>>
           IN  /\ Marks(B, Len(place))
               /\ \A b \in DOMAIN B : \E a \in DOMAIN e.tokens : b = Read(a)
               /\ \A a \in DOMAIN e.tokens : Read(a) \in DOMAIN B /\ B[Read(a)] = e.tokens[a]
<1> DEFINE x == toXml(e)
<1> DEFINE n == x.places
<1> DEFINE N == Len(e.place)
<1> DEFINE place == PlacesIn(x)
<1> DEFINE B == TokensIn(x, place)
<1> DEFINE At(p) == toIndex(place, e.place[p].name)
<1> DEFINE Read(a) == <<At(a[1]), a[2]>>
<1> DEFINE marks == [i \in DOMAIN n |-> {toIndex(place, n[i].name)} \X DOMAIN n[i].marks]
<1> DEFINE Here(b) == {i \in DOMAIN n : b \in marks[i]}
<1> DEFINE Of(b, i) == {i} \X (1 .. n[i].marks[b[2]])
<1>1. /\ IsFcn(B) /\ DOMAIN B = UNION {marks[i] : i \in DOMAIN n}
      /\ \A b \in DOMAIN B : B[b] = Cardinality(UNION {Of(b, i) : i \in Here(b)})
    BY DEF TokensIn, IsFcn
<1>2. DOMAIN e.place = 1 .. N
    BY SeqElim DEF Structure, PerPlace
<1>3. DOMAIN n = 1 .. N /\ \A p \in 1 .. N : n[p].name = e.place[p].name /\ n[p].marks = MarksOf(p, e.tokens)
    BY <1>2 DEF toXml
<1>4. \A a \in DOMAIN e.tokens : /\ a = <<a[1], a[2]>> /\ a[1] \in 1 .. N /\ a[2] \in Token
                                 /\ e.tokens[a] \in Nat
    BY DEF Marks
<1>5. \A p : /\ \A c : c \in DOMAIN MarksOf(p, e.tokens) <=> \E a \in DOMAIN e.tokens : a[1] = p /\ a[2] = c
             /\ \A c \in DOMAIN MarksOf(p, e.tokens) : MarksOf(p, e.tokens)[c] = e.tokens[<<p, c>>]
    BY DEF MarksOf, BagToSet
<1>6. \A p, c : c \in DOMAIN MarksOf(p, e.tokens) <=> <<p, c>> \in DOMAIN e.tokens
    <2>1. \A a \in DOMAIN e.tokens : a = <<a[1], a[2]>>
        BY <1>4
    <2>2. ASSUME NEW p, NEW c, <<p, c>> \in DOMAIN e.tokens
          PROVE  c \in DOMAIN MarksOf(p, e.tokens)
        <3>1. <<p, c>>[1] = p /\ <<p, c>>[2] = c
            OBVIOUS
        <3>2. QED
            BY <3>1, <2>2, <1>5
    <2>3. ASSUME NEW p, NEW c, c \in DOMAIN MarksOf(p, e.tokens)
          PROVE  <<p, c>> \in DOMAIN e.tokens
        BY <2>1, <2>3, <1>5
    <2>4. QED
        BY <2>2, <2>3
<1>7. \A p \in 1 .. N : Used(e, p) => At(p) \in 1 .. Len(place) /\ place[At(p)] = e.place[p].name
    BY PlaceFound
<1>8. \A p, q \in 1 .. N : Used(e, p) /\ Used(e, q) /\ At(p) = At(q) => p = q
    <2> HIDE DEF At, place
    <2>1. QED
        BY <1>7 DEF OwnNames
<1>9. \A i \in 1 .. N : marks[i] = {At(i)} \X DOMAIN MarksOf(i, e.tokens)
    BY <1>3
<1> HIDE DEF x, n, place, B, marks, At
<1>10. ASSUME NEW b, NEW i \in 1 .. N
       PROVE  b \in marks[i] <=> \E a \in DOMAIN e.tokens : a[1] = i /\ b = Read(a)
    <2>1. ASSUME b \in marks[i]
          PROVE  \E a \in DOMAIN e.tokens : a[1] = i /\ b = Read(a)
        <3>1. b = <<At(i), b[2]>> /\ b[2] \in DOMAIN MarksOf(i, e.tokens)
            BY <2>1, <1>9
        <3>2. <<i, b[2]>> \in DOMAIN e.tokens
            BY <3>1, <1>6
        <3>3. <<i, b[2]>>[1] = i /\ Read(<<i, b[2]>>) = <<At(i), b[2]>>
            OBVIOUS
        <3>4. QED
            BY <3>1, <3>2, <3>3
    <2>2. ASSUME NEW a \in DOMAIN e.tokens, a[1] = i, b = Read(a)
          PROVE  b \in marks[i]
        <3>1. a[2] \in DOMAIN MarksOf(i, e.tokens)
            BY <2>2, <1>5
        <3>2. b = <<At(i), a[2]>>
            BY <2>2
        <3>3. QED
            BY <3>1, <3>2, <1>9
    <2>3. QED
        BY <2>1, <2>2
<1> HIDE DEF Read
<1>11. ASSUME NEW b \in DOMAIN B
       PROVE  \E a \in DOMAIN e.tokens : b = Read(a)
    BY <1>1, <1>3, <1>10
<1>12. ASSUME NEW a \in DOMAIN e.tokens
       PROVE  Read(a) \in DOMAIN B /\ B[Read(a)] = e.tokens[a]
    <2> DEFINE p == a[1]
    <2> DEFINE b == Read(a)
    <2>1. p \in 1 .. N /\ Used(e, p) /\ a = <<p, a[2]>>
        BY <1>4
    <2>2. b \in marks[p]
        BY <2>1, <1>10
    <2>3. b \in DOMAIN B
        BY <2>1, <2>2, <1>1, <1>3
    <2>4. ASSUME NEW i \in Here(b)
          PROVE  i = p
        <3>1. i \in 1 .. N /\ b \in marks[i]
            BY <1>3
        <3>2. PICK c \in DOMAIN e.tokens : c[1] = i /\ b = Read(c)
            BY <3>1, <1>10
        <3>3. At(i) = At(p)
            BY <3>2 DEF Read
        <3>4. QED
            BY <3>1, <3>2, <3>3, <2>1, <1>8
    <2>5. Here(b) = {p}
        BY <2>1, <2>2, <2>4, <1>3
    <2>6. UNION {Of(b, i) : i \in Here(b)} = Of(b, p)
        <3> HIDE DEF Of, Here
        <3>1. QED
            BY <2>5
    <2> DEFINE k == e.tokens[a]
    <2>7. n[p].marks[b[2]] = k
        <3>1. b[2] = a[2]
            BY DEF Read
        <3>2. a[2] \in DOMAIN MarksOf(p, e.tokens)
            BY <1>5
        <3>3. MarksOf(p, e.tokens)[a[2]] = e.tokens[<<p, a[2]>>]
            BY <3>2, <1>5
        <3>4. QED
            BY <3>1, <3>3, <2>1, <1>3
    <2>8. Of(b, p) = {p} \X (1 .. k)
        BY <2>7
    <2>9. B[b] = Cardinality({p} \X (1 .. k))
        BY <2>3, <2>6, <2>8, <1>1
    <2>10. k \in Nat
        BY <1>4
    <2> HIDE DEF p, b, k, Of, Here
    <2>11. 1 \in Int /\ k \in Int
        BY <2>10
    <2>12. IsFiniteSet(1 .. k) /\ Cardinality(1 .. k) = IF 1 > k THEN 0 ELSE k - 1 + 1
        BY <2>11, FS_Interval
    <2>13. IsFiniteSet({p}) /\ Cardinality({p}) = 1
        BY FS_Singleton
    <2>14. Cardinality({p} \X (1 .. k)) = Cardinality({p}) * Cardinality(1 .. k)
        BY <2>12, <2>13, FS_Product
    <2>15. (IF 1 > k THEN 0 ELSE k - 1 + 1) = k
        BY <2>10
    <2>16. Cardinality(1 .. k) = k
        BY <2>12, <2>15
    <2>17. B[b] = k
        BY <2>9, <2>10, <2>13, <2>14, <2>16
    <2>18. QED
        BY <2>3, <2>17 DEF b, k
<1>13. Marks(B, Len(place))
    <2>1. ASSUME NEW b \in DOMAIN B
          PROVE  b \in (1 .. Len(place)) \X Token /\ B[b] \in Nat
        <3>1. PICK a \in DOMAIN e.tokens : b = Read(a)
            BY <1>11
        <3>2. B[b] = e.tokens[a] /\ e.tokens[a] \in Nat
            BY <3>1, <1>4, <1>12
        <3>3. At(a[1]) \in 1 .. Len(place) /\ a[2] \in Token
            BY <1>4, <1>7
        <3>4. QED
            BY <3>1, <3>2, <3>3 DEF Read
    <2>2. QED
        BY <2>1, <1>1 DEF Marks
<1>14. QED
    BY <1>11, <1>12, <1>13 DEF Read, At, B, place, x

(***************************************************************************)
(* The ends of an arc in a file, with the index of the place looked up.    *)
(***************************************************************************)
LEMMA EndsByName ==
    ASSUME NEW e, Structure(e), OwnNames(e), NEW r,
           \A q \in 1 .. Len(PlacesIn(toXml(e))) : r.place[q].name = PlacesIn(toXml(e))[q],
           NEW y \in DOMAIN NetIn(toXml(e)), NEW consumes \in BOOLEAN
    PROVE  ByName(r, LookupIn(PlacesIn(toXml(e)), EndsIn(toXml(e), y, consumes))) = EndsIn(toXml(e), y, consumes)
<1> DEFINE x == toXml(e)
<1> DEFINE place == PlacesIn(x)
<1> DEFINE net == NetIn(x)
<1> DEFINE arcs == Arcs(x)
<1> DEFINE s == EndsIn(x, y, consumes)
<1> DEFINE look == LookupIn(place, s)
<1> DEFINE list == ByName(r, look)
<1> DEFINE side == IF consumes THEN "first" ELSE "second"
<1>1. WellFormed(x)
    BY ToXmlWellFormed
<1>2. /\ net[y].first = EndsIn(x, y, TRUE)
      /\ net[y].second = EndsIn(x, y, FALSE)
    BY NetInSaved
<1>3. /\ \A q \in 1 .. Len(place) : toIndex(place, place[q]) = q
      /\ \A i \in 1 .. Len(arcs) : \E q \in 1 .. Len(place) : place[q] = PlaceEnd(x, arcs[i])
    BY PlacesSaved
<1>4. \A q \in 1 .. Len(place) : r.place[q].name = place[q]
    OBVIOUS
<1>5. y \in DOMAIN net
    OBVIOUS
<1>6. DOMAIN look = DOMAIN s /\ \A i \in DOMAIN s : look[i] = <<toIndex(place, s[i][1]), s[i][2]>>
    BY DEF LookupIn
<1>7. /\ list = [i \in DOMAIN list |-> list[i]] /\ DOMAIN list = DOMAIN look
      /\ \A i \in DOMAIN look : list[i] = <<r.place[look[i][1]].name, look[i][2]>>
    BY DEF ByName
<1> HIDE DEF x
<1>8. /\ IsSeq(net[y][side])
      /\ \A k \in 1 .. Len(net[y][side]) : \E i \in 1 .. Len(arcs) :
            net[y][side][k] = <<PlaceEnd(x, arcs[i]), arcs[i].color>>
    BY <1>1, <1>5, NetInFacts
<1>9. net[y][side] = s
    BY <1>2
<1> HIDE DEF side, s, net, arcs, place, look, list
<1>10. IsSeq(s) /\ DOMAIN s = 1 .. Len(s) /\ s = [i \in DOMAIN s |-> s[i]]
    <2>1. IsSeq(s)
        BY <1>8, <1>9
    <2>2. s = [i \in 1 .. Len(s) |-> s[i]]
        BY <2>1 DEF IsSeq
    <2>3. QED
        BY <2>1, <2>2, SeqElim
<1>11. ASSUME NEW k \in DOMAIN s
       PROVE  list[k] = s[k]
    <2>1. PICK i \in 1 .. Len(arcs) : s[k] = <<PlaceEnd(x, arcs[i]), arcs[i].color>>
        BY <1>8, <1>9, <1>10
    <2>2. PICK q \in 1 .. Len(place) : place[q] = PlaceEnd(x, arcs[i])
        BY <1>3
    <2>3. s[k] = <<s[k][1], s[k][2]>> /\ s[k][1] = place[q]
        BY <2>1, <2>2
    <2>4. look[k] = <<q, s[k][2]>>
        BY <2>3, <1>3, <1>6
    <2>5. look[k][1] = q /\ look[k][2] = s[k][2]
        BY <2>4
    <2>6. list[k] = <<place[q], s[k][2]>>
        BY <2>5, <1>4, <1>6, <1>7
    <2>7. QED
        BY <2>3, <2>6
<1>12. list = s
    <2>1. IsFcn(list) /\ IsFcn(s) /\ DOMAIN list = DOMAIN s
        BY <1>6, <1>7, <1>10 DEF IsFcn
    <2>2. QED
        BY <2>1, <1>11, SameFcn
<1>13. QED
    BY <1>12 DEF list, look, s, place, x

(***************************************************************************)
(* What a parsed net has of a file that was written.                       *)
(***************************************************************************)
ParsedFrom(p, x) ==
    /\ p.place = PlacesIn(x) /\ p.tokens = TokensIn(x, PlacesIn(x))
    /\ IsSeq(p.place) /\ IsSeq(p.transition) /\ DOMAIN p.priority = 1 .. Len(p.transition)
    /\ \A q \in 1 .. Len(p.place) : p.p_positions[q] = PositionIn(x, p.place[q])
    /\ \A y \in DOMAIN NetIn(x) : \E t \in 1 .. Len(p.transition) : p.transition[t] = y
    /\ \A t \in 1 .. Len(p.transition) :
            /\ p.transition[t] \in DOMAIN NetIn(x)
            /\ p.t_positions[t] = PositionIn(x, p.transition[t])
            /\ p.input_n[t] = LookupIn(PlacesIn(x), EndsIn(x, p.transition[t], TRUE))
            /\ p.output_n[t] = LookupIn(PlacesIn(x), EndsIn(x, p.transition[t], FALSE))
            /\ p.priority[t] = 0 /\ p.output[t] = "Success"

(***************************************************************************)
(* Each net that the parser may return has that.                           *)
(***************************************************************************)
LEMMA ParsedBack ==
    ASSUME NEW e, Structure(e), NEW p \in parseNet(toXml(e))
    PROVE  ParsedFrom(p, toXml(e))
<1> DEFINE x == toXml(e)
<1> DEFINE net == NetIn(x)
<1> DEFINE place == PlacesIn(x)
<1>1. WellFormed(x)
    BY ToXmlWellFormed
<1>2. PICK order \in SetToSeqs(DOMAIN net) :
        p = [place |-> place, transition |-> order,
             input_n |-> [t \in DOMAIN order |-> LookupIn(place, net[order[t]].first)],
             output_n |-> [t \in DOMAIN order |-> LookupIn(place, net[order[t]].second)],
             priority |-> [t \in DOMAIN order |-> PriorityIn(x, order[t])],
             output |-> [t \in DOMAIN order |-> "Success"],
             t_positions |-> [t \in DOMAIN order |-> PositionIn(x, order[t])],
             p_positions |-> [i \in DOMAIN place |-> PositionIn(x, place[i])],
             tokens |-> TokensIn(x, place)]
    BY DEF parseNet
<1>3. \A t : PriorityIn(x, t) = 0
    BY PrioritySaved
<1>4. \A y \in DOMAIN net : net[y].first = EndsIn(x, y, TRUE) /\ net[y].second = EndsIn(x, y, FALSE)
    BY DEF NetIn, EndsIn
<1> HIDE DEF x
<1>5. ParsedSound(p)
    BY <1>1, ParseSound DEF x
<1>6. IsFiniteSet(DOMAIN net)
    BY <1>1, NetInFacts
<1> HIDE DEF net, place
<1>7. p.place = place /\ p.transition = order /\ p.tokens = TokensIn(x, place)
    BY <1>2
<1>8. IsSeq(place) /\ IsSeq(order) /\ DOMAIN place = 1 .. Len(place) /\ DOMAIN order = 1 .. Len(order)
    BY <1>5, <1>7, SeqElim DEF ParsedSound
<1>9. order \in [1 .. Cardinality(DOMAIN net) -> DOMAIN net]
    BY DEF SetToSeqs
<1>10. \A t \in 1 .. Len(order) : order[t] \in DOMAIN net
    BY <1>8, <1>9
<1>11. \A y \in DOMAIN net : \E t \in 1 .. Len(order) : order[t] = y
    BY <1>6, OrderCovers
<1>12. \A q \in 1 .. Len(place) : p.p_positions[q] = PositionIn(x, place[q])
    BY <1>2, <1>8
<1>13. DOMAIN p.priority = 1 .. Len(order)
    BY <1>2, <1>8
<1>14. ASSUME NEW t \in 1 .. Len(order)
       PROVE  /\ p.t_positions[t] = PositionIn(x, order[t])
              /\ p.input_n[t] = LookupIn(place, EndsIn(x, order[t], TRUE))
              /\ p.output_n[t] = LookupIn(place, EndsIn(x, order[t], FALSE))
              /\ p.priority[t] = 0 /\ p.output[t] = "Success"
    <2>1. /\ p.t_positions[t] = PositionIn(x, order[t])
          /\ p.input_n[t] = LookupIn(place, net[order[t]].first)
          /\ p.output_n[t] = LookupIn(place, net[order[t]].second)
          /\ p.priority[t] = PriorityIn(x, order[t]) /\ p.output[t] = "Success"
        BY <1>2, <1>8
    <2>2. net[order[t]].first = EndsIn(x, order[t], TRUE) /\ net[order[t]].second = EndsIn(x, order[t], FALSE)
        BY <1>4, <1>10
    <2>3. QED
        BY <2>1, <2>2, <1>3
<1>15. QED
    <2> HIDE DEF x
    <2>1. ParsedFrom(p, x)
        BY <1>7, <1>8, <1>10, <1>11, <1>12, <1>13, <1>14 DEF ParsedFrom, net, place
    <2>2. QED
        BY <2>1 DEF x
=============================================================================
