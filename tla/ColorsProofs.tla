------------------------------- MODULE ColorsProofs -------------------------------
(***************************************************************************)
(* Proofs about the table of colours, for every number of threads, every   *)
(* size of the table and names of any length.                              *)
(***************************************************************************)
EXTENDS Colors, TLAPS, SequenceTheorems

Location == {"out", "find", "findSlot", "constructor", "strcpy", "copying"}

Called == Name \cup {<<"empty">>}

(***************************************************************************)
(* The last slot of a name that begins in slot s.                          *)
(***************************************************************************)
LastSlot(s, name) == s + Len(name) - 1

ColorsTypeOK ==
    /\ colors \in [Slot -> Piece \cup {"torn"}]
    /\ pc \in [Thread -> Location]
    /\ i \in [Thread -> 1 .. Size + 1]
    /\ _id \in [Thread -> Called]
    /\ piece \in [Thread -> Nat]
    /\ clean \in [Thread -> BOOLEAN]
    /\ made \in SUBSET [name : Called, id : Slot, clean : BOOLEAN]
    /\ count \in Nat
    /\ asserts \in BOOLEAN
    /\ overruns \in BOOLEAN
    /\ freed \in BOOLEAN

(***************************************************************************)
(* The slots before this one are in use.                                   *)
(***************************************************************************)
Used(s) == \A r \in Slot : r < s => colors[r] # "empty"

UsedFirst == ~freed => \A s \in Slot : colors[s] # "empty" => Used(s)

(***************************************************************************)
(* What a thread knows of the slots that it has passed, wherever the       *)
(* others are.                                                             *)
(***************************************************************************)
Passed(where, index, name, p) ==
    /\ p \in 1 .. Len(name)
    /\ where \in {"find", "findSlot", "constructor"} => p = 1
    /\ where \in {"strcpy", "copying"} => index \in Slot /\ (LastSlot(index, name) <= Size \/ overruns)
    /\ ~freed =>
        /\ where = "find" /\ name[1] = "empty" => Used(index)
        /\ where = "findSlot" => Used(index)
        /\ where = "constructor" => Used(index) \/ (index \in Slot /\ colors[index] # "empty")
        /\ where \in {"strcpy", "copying"} => Used(index + p - 1)
        /\ where = "copying" /\ name[p] # "empty" => colors[index + p - 1] # "empty"

AllPassed == \A t \in Thread : Passed(pc[t], i[t], _id[t], piece[t])

(***************************************************************************)
(* A thread that has run alone so far is the only one that runs.           *)
(***************************************************************************)
CleanIsAlone == \A t \in Thread : pc[t] # "out" /\ clean[t] => Others(t) = {}

Unlike(s, name) == \A r \in Slot : r < s => ~Holds(r, name)

(***************************************************************************)
(* What such a thread knows besides: the name that it looks for begins in  *)
(* none of the slots that it has passed, and what it has copied is there.  *)
(***************************************************************************)
Knows(where, index, name, p) ==
    /\ where \in {"find", "constructor"} => Unlike(index, name)
    /\ where = "findSlot" => Unlike(Size + 1, name)
    /\ where = "constructor" /\ index \in Slot => colors[index] = "empty" \/ Holds(index, name)
    /\ where \in {"strcpy", "copying"} =>
        /\ \A r \in Slot : LastSlot(r, name) < index => ~Holds(r, name)
        /\ \A j \in 1 .. Len(name) : j < p => colors[index + j - 1] = name[j]

CleanKnows == \A t \in Thread : clean[t] => Knows(pc[t], i[t], _id[t], piece[t])

(***************************************************************************)
(* No thread writes to the slots of a token that was made alone, and a     *)
(* thread that looks for its name finds it there.                          *)
(***************************************************************************)
Clear(where, index, name, a) ==
    /\ where \in {"strcpy", "copying"} => index # a.id /\ (NamesFit \/ LastSlot(a.id, a.name) < index)
    /\ where # "out" /\ name = a.name =>
        \/ where = "find" /\ index <= a.id
        \/ where = "constructor" /\ index = a.id

Settled(a) == Holds(a.id, a.name) /\ Unlike(a.id, a.name)

CertainAreSettled ==
    InOrder => \A a \in Certain : /\ Settled(a)
                                 /\ \A t \in Thread : Clear(pc[t], i[t], _id[t], a)

ColorsInv ==
    /\ ColorsTypeOK
    /\ UsedFirst
    /\ AllPassed
    /\ CleanIsAlone
    /\ CleanKnows
    /\ CertainAreSettled
    /\ AssertsWhenFull
-----------------------------------------------------------------------------
(***************************************************************************)
(* The pieces of a name: all but the last fill their slots.                *)
(***************************************************************************)
LEMMA NameShape ==
    ASSUME NEW name \in Called
    PROVE  /\ name \in Seq(Piece)
           /\ Len(name) \in Nat /\ 1 <= Len(name)
           /\ DOMAIN name = 1 .. Len(name)
           /\ \A j \in 1 .. Len(name) : name[j] \in Piece /\ (name[j] \in Filling <=> j < Len(name))
<1>1. CASE name \in Name
    <2>1. /\ name \in Seq(Piece) /\ name # <<>>
          /\ \A j \in DOMAIN name : name[j] \in Filling <=> j < Len(name)
        BY <1>1, ColorsAssumption
    <2>2. Len(name) \in Nat /\ DOMAIN name = 1 .. Len(name)
        BY <2>1
    <2>3. Len(name) # 0
        BY <2>1, EmptySeq
    <2>4. \A j \in 1 .. Len(name) : name[j] \in Piece
        BY <2>1
    <2>5. QED
        BY <2>1, <2>2, <2>3, <2>4
<1>2. CASE name = <<"empty">>
    BY <1>2, ColorsAssumption
<1>3. QED
    BY <1>1, <1>2 DEF Called

(***************************************************************************)
(* Of two names that begin in the same slot, none is longer: it would fill *)
(* the slot in which the other one ends.                                   *)
(***************************************************************************)
LEMMA HeldNamesAreEqual ==
    ASSUME NEW s \in Slot, NEW name \in Called, NEW other \in Called, Holds(s, name), Holds(s, other)
    PROVE  name = other
<1>1. /\ name \in Seq(Piece) /\ other \in Seq(Piece)
      /\ Len(name) \in Nat /\ 1 <= Len(name) /\ Len(other) \in Nat /\ 1 <= Len(other)
      /\ \A j \in 1 .. Len(name) : colors[s + j - 1] = name[j] /\ (name[j] \in Filling <=> j < Len(name))
      /\ \A j \in 1 .. Len(other) : colors[s + j - 1] = other[j] /\ (other[j] \in Filling <=> j < Len(other))
    BY NameShape DEF Holds
<1>2. ~(Len(name) < Len(other)) /\ ~(Len(other) < Len(name))
    BY <1>1
<1>3. Len(name) = Len(other) /\ \A j \in 1 .. Len(name) : name[j] = other[j]
    BY <1>1, <1>2
<1>4. QED
    BY <1>1, <1>3, SeqEqual

-----------------------------------------------------------------------------
(***************************************************************************)
(* The initial table.                                                      *)
(***************************************************************************)
LEMMA ColorsInitially == Init => ColorsInv
<1> SUFFICES ASSUME Init PROVE ColorsInv
    OBVIOUS
<1>1. ASSUME NEW s \in Slot, s <= Len(Builtin)
      PROVE  Builtin[s] \in Piece /\ Builtin[s] # "empty"
    <2>1. Builtin \in Seq(Piece \ (Filling \cup {"empty"})) /\ s \in 1 .. Len(Builtin)
        BY <1>1, ColorsAssumption DEF Slot
    <2>2. QED
        BY <2>1
<1>2. \A s \in Slot : colors[s] = IF s <= Len(Builtin) THEN Builtin[s] ELSE "empty"
    BY DEF Init
<1>3. ColorsTypeOK
    <2>1. colors \in [Slot -> Piece \cup {"torn"}]
        BY <1>1, ColorsAssumption DEF Init
    <2>2. i \in [Thread -> 1 .. Size + 1]
        BY ColorsAssumption DEF Init
    <2>3. QED
        BY <2>1, <2>2 DEF Init, ColorsTypeOK, Location, Called
<1>4. UsedFirst
    BY <1>1, <1>2, ColorsAssumption DEF UsedFirst, Used, Slot
<1>5. AllPassed
    <2>1. \A t \in Thread : pc[t] = "out" /\ piece[t] = 1 /\ _id[t] \in Called
        BY <1>3 DEF Init, ColorsTypeOK
    <2>2. QED
        BY <2>1, NameShape DEF AllPassed, Passed
<1>6. CleanIsAlone /\ CleanKnows
    BY DEF Init, CleanIsAlone, CleanKnows, Knows
<1>7. CertainAreSettled /\ AssertsWhenFull
    BY DEF Init, CertainAreSettled, Certain, AssertsWhenFull
<1>8. QED
    BY <1>3, <1>4, <1>5, <1>6, <1>7 DEF ColorsInv

-----------------------------------------------------------------------------
(***************************************************************************)
(* A thread beside which another one runs does not count as alone.         *)
(***************************************************************************)
LEMMA NobodyElse ==
    ASSUME ColorsInv, NEW t \in Thread, NEW u \in Thread, u # t, pc[t] # "out", pc[u] # "out"
    PROVE  ~clean[u]
BY DEF ColorsInv, CleanIsAlone, Others

LEMMA CertainHaveSlots ==
    ASSUME ColorsTypeOK, NEW a \in Certain
    PROVE  /\ a.id \in Slot /\ a.name \in Called
           /\ a.name[Len(a.name)] # "empty" /\ a.clean
BY DEF ColorsTypeOK, Certain

(***************************************************************************)
(* No slot of a token that was made alone is free.                         *)
(***************************************************************************)
LEMMA CertainAreUsed ==
    ASSUME ColorsInv, InOrder, NEW a \in Certain
    PROVE  \A j \in 1 .. Len(a.name) : a.id + j - 1 \in Slot /\ colors[a.id + j - 1] # "empty"
<1>1. /\ Holds(a.id, a.name)
      /\ a.id \in Slot /\ a.name \in Called /\ a.name[Len(a.name)] # "empty"
    BY CertainHaveSlots DEF ColorsInv, CertainAreSettled, Settled
<1>2. \A j \in 1 .. Len(a.name) : a.name[j] # "empty"
    BY <1>1, NameShape, ColorsAssumption
<1>3. /\ Size \in Nat /\ Len(a.name) \in Nat /\ a.id + Len(a.name) - 1 <= Size
      /\ \A j \in 1 .. Len(a.name) : colors[a.id + j - 1] = a.name[j]
    BY <1>1, NameShape, ColorsAssumption DEF Holds
<1>4. QED
    BY <1>1, <1>2, <1>3, SMTT(60) DEF Slot

-----------------------------------------------------------------------------
(***************************************************************************)
(* What a step may do to the table.                                        *)
(***************************************************************************)
Written ==
    /\ colors' \in [Slot -> Piece \cup {"torn"}]
    /\ freed' \in BOOLEAN
    /\ freed => freed'
    /\ ~freed' => \A r \in Slot : colors[r] # "empty" => colors'[r] # "empty"
    /\ UsedFirst'
    /\ InOrder' => \A a \in Certain : Settled(a)'

LEMMA NothingIsWritten ==
    ASSUME ColorsInv, UNCHANGED <<colors, freed>>
    PROVE  Written
<1>1. UsedFirst'
    BY DEF ColorsInv, UsedFirst, Used
<1>2. InOrder' => \A a \in Certain : Settled(a)'
    BY DEF ColorsInv, CertainAreSettled, InOrder, NamesFit, Settled, Unlike, Holds
<1>3. QED
    BY <1>1, <1>2 DEF ColorsInv, ColorsTypeOK, Written

(***************************************************************************)
(* A thread writes to a slot behind used ones, and not to one of a token   *)
(* that was made alone.                                                    *)
(***************************************************************************)
LEMMA WritingKeeps ==
    ASSUME ColorsInv, NEW s \in Slot, NEW written \in Piece \cup {"torn"},
           colors' = [colors EXCEPT ![s] = written],
           freed' \in BOOLEAN, freed => freed',
           ~freed' => Used(s) /\ (colors[s] # "empty" => written # "empty"),
           InOrder' => \A a \in Certain :
               \/ LastSlot(a.id, a.name) < s
               \/ NamesFit /\ s # a.id /\ (s < a.id => written # a.name[1])
    PROVE  Written
<1>1. colors \in [Slot -> Piece \cup {"torn"}] /\ colors' \in [Slot -> Piece \cup {"torn"}]
    BY DEF ColorsInv, ColorsTypeOK
<1>2. \A r \in Slot : colors'[r] = IF r = s THEN written ELSE colors[r]
    BY <1>1
<1>3. ~freed' => \A r \in Slot : colors[r] # "empty" => colors'[r] # "empty"
    BY <1>2
<1>4. UsedFirst'
    <2> SUFFICES ASSUME ~freed', NEW r \in Slot, colors'[r] # "empty", NEW q \in Slot, q < r
                 PROVE  colors'[q] # "empty"
        BY DEF UsedFirst, Used
    <2>1. colors[q] # "empty"
        BY <1>2 DEF ColorsInv, UsedFirst, Used
    <2>2. QED
        BY <1>3, <2>1
<1>5. InOrder' => \A a \in Certain : Settled(a)'
    <2> SUFFICES ASSUME InOrder', NEW a \in Certain
                 PROVE  Holds(a.id, a.name)' /\ Unlike(a.id, a.name)'
        BY DEF Settled
    <2>1. InOrder /\ Holds(a.id, a.name) /\ Unlike(a.id, a.name)
        BY DEF ColorsInv, CertainAreSettled, Settled, InOrder, NamesFit
    <2>2. /\ a.id \in Slot /\ Len(a.name) \in Nat /\ 1 <= Len(a.name)
          /\ DOMAIN a.name = 1 .. Len(a.name)
        BY CertainHaveSlots, NameShape DEF ColorsInv
    <2>3. CASE LastSlot(a.id, a.name) < s
        <3>1. \A r \in Slot : r <= LastSlot(a.id, a.name) => colors'[r] = colors[r]
            BY <1>2, <2>2, <2>3, ColorsAssumption DEF LastSlot, Slot
        <3>2. \A r \in Slot : r <= a.id => (Holds(r, a.name)' <=> Holds(r, a.name))
            <4>1. ASSUME NEW r \in Slot, r <= a.id, r + Len(a.name) - 1 <= Size,
                         NEW j \in 1 .. Len(a.name)
                  PROVE  colors'[r + j - 1] = colors[r + j - 1]
                <5>1. r + j - 1 \in Slot /\ r + j - 1 <= LastSlot(a.id, a.name)
                    <6>1. Size \in Nat
                        BY ColorsAssumption
                    <6>2. QED
                        BY <2>2, <4>1, <6>1 DEF Slot, LastSlot
                <5>2. QED
                    BY <3>1, <5>1
            <4>2. QED
                BY <2>2, <4>1 DEF Holds
        <3>3. QED
            BY <2>1, <2>2, <3>2, ColorsAssumption DEF Unlike, Slot
    <2>4. CASE NamesFit /\ s # a.id /\ (s < a.id => written # a.name[1])
        <3>1. Len(a.name) = 1
            BY <2>4, CertainHaveSlots DEF ColorsInv, NamesFit, Called
        <3>2. \A r \in Slot : /\ Holds(r, a.name) <=> colors[r] = a.name[1]
                              /\ Holds(r, a.name)' <=> colors'[r] = a.name[1]
            BY <2>2, <3>1, ColorsAssumption DEF Holds, Slot
        <3>3. QED
            BY <1>2, <2>1, <2>2, <2>4, <3>2 DEF Unlike
    <2>5. QED
        BY <2>3, <2>4
<1>6. QED
    BY <1>1, <1>3, <1>4, <1>5 DEF Written

-----------------------------------------------------------------------------
LEMMA ConstructKeeps ==
    ASSUME ColorsInv, NEW t \in Thread, NEW name \in Name, Construct(t, name)
    PROVE  ColorsInv'
<1> USE DEF ColorsInv, Construct
<1>1. ColorsTypeOK'
    <2>1. i' \in [Thread -> 1 .. Size + 1]
        BY ColorsAssumption DEF ColorsTypeOK
    <2>2. clean' \in [Thread -> BOOLEAN]
        BY Zenon DEF ColorsTypeOK
    <2>3. /\ pc' \in [Thread -> Location] /\ _id' \in [Thread -> Called]
          /\ piece' \in [Thread -> Nat] /\ count' \in Nat
        BY DEF ColorsTypeOK, Location, Called
    <2>4. QED
        BY <2>1, <2>2, <2>3 DEF ColorsTypeOK, ends
<1>2. /\ pc'[t] = "find" /\ i'[t] = 1 /\ _id'[t] = name /\ piece'[t] = 1
      /\ \A u \in Thread \ {t} : /\ pc'[u] = pc[u] /\ i'[u] = i[u]
                                 /\ _id'[u] = _id[u] /\ piece'[u] = piece[u]
    BY DEF ColorsTypeOK
<1>3. AssertsWhenFull' /\ UsedFirst'
    BY DEF AssertsWhenFull, UsedFirst, Used, ends
<1>4. AllPassed'
    <2>1. Passed("find", 1, name, 1)'
        BY NameShape DEF Passed, Used, Slot, Called
    <2>2. ASSUME NEW u \in Thread \ {t}
          PROVE  Passed(pc[u], i[u], _id[u], piece[u])'
        BY <1>2, <2>2 DEF AllPassed, Passed, Used, ends
    <2>3. QED
        BY <1>2, <2>1, <2>2 DEF AllPassed
<1>5. CleanIsAlone'
    BY DEF CleanIsAlone, Others, ColorsTypeOK
<1>6. CleanKnows'
    <2>1. Knows("find", 1, name, 1)'
        BY DEF Knows, Unlike, Slot
    <2>2. ASSUME NEW u \in Thread \ {t}, clean'[u]
          PROVE  Knows(pc[u], i[u], _id[u], piece[u])'
        <3>1. clean[u]
            BY <2>2 DEF ColorsTypeOK
        <3>2. QED
            BY <1>2, <3>1 DEF CleanKnows, Knows, Unlike, Holds
    <2>3. QED
        BY <1>2, <2>1, <2>2 DEF CleanKnows
<1>7. CertainAreSettled'
    <2>1. \A a \in Certain : Clear("find", 1, name, a)
        BY CertainHaveSlots, ColorsAssumption DEF Clear, Slot
    <2>2. InOrder => \A a \in Certain, u \in Thread : Clear(pc'[u], i'[u], _id'[u], a)
        BY <1>2, <2>1 DEF CertainAreSettled
    <2>3. QED
        BY <2>2 DEF CertainAreSettled, Certain, InOrder, NamesFit, Settled, Unlike, Holds, Clear
<1>8. QED
    BY <1>1, <1>3, <1>4, <1>5, <1>6, <1>7

-----------------------------------------------------------------------------
(***************************************************************************)
(* A thread goes on; the others stay where they are.                       *)
(***************************************************************************)
GoesOn(t, where, index, p) ==
    /\ pc' \in [Thread -> Location]
    /\ i' \in [Thread -> 1 .. Size + 1]
    /\ piece' \in [Thread -> Nat]
    /\ pc'[t] = where /\ i'[t] = index /\ piece'[t] = p
    /\ \A u \in Thread \ {t} : pc'[u] = pc[u] /\ i'[u] = i[u] /\ piece'[u] = piece[u]
    /\ UNCHANGED <<_id, clean, count>>

LEMMA GotoGoesOn ==
    ASSUME ColorsTypeOK, NEW t \in Thread, NEW where \in Location, NEW index \in 1 .. Size + 1,
           NEW p \in Nat, piece' = [piece EXCEPT ![t] = p], Goto(t, where, index)
    PROVE  GoesOn(t, where, index, p)
BY DEF ColorsTypeOK, Goto, GoesOn

LEMMA GotoStays ==
    ASSUME ColorsTypeOK, NEW t \in Thread, NEW where \in Location, NEW index \in 1 .. Size + 1,
           UNCHANGED piece, Goto(t, where, index)
    PROVE  GoesOn(t, where, index, piece[t])
BY DEF ColorsTypeOK, Goto, GoesOn

LEMMA StaysAlone ==
    ASSUME ColorsInv, NEW t \in Thread, pc[t] # "out", NEW where, NEW index, NEW p,
           GoesOn(t, where, index, p)
    PROVE  CleanIsAlone'
<1>1. ASSUME NEW u \in Thread, pc'[u] # "out", clean'[u]
      PROVE  \A v \in Thread \ {u} : pc'[v] = "out"
    <2>1. Others(u) = {} /\ pc[u] # "out"
        BY <1>1 DEF ColorsInv, CleanIsAlone, GoesOn
    <2>2. QED
        BY <2>1 DEF Others, GoesOn
<1>2. QED
    BY <1>1 DEF CleanIsAlone, Others

(***************************************************************************)
(* What the others know of the slots that they have passed stays true.     *)
(***************************************************************************)
LEMMA OthersStay ==
    ASSUME ColorsInv, NEW t \in Thread, NEW where, NEW index, NEW p, GoesOn(t, where, index, p),
           Written, ~overruns, NEW u \in Thread \ {t}
    PROVE  Passed(pc[u], i[u], _id[u], piece[u])'
<1>1. PICK w \in Location, s \in 1 .. Size + 1, name \in Called, q \in Nat :
        pc[u] = w /\ i[u] = s /\ _id[u] = name /\ piece[u] = q
    BY DEF ColorsInv, ColorsTypeOK
<1>2. pc'[u] = w /\ i'[u] = s /\ _id'[u] = name /\ piece'[u] = q
    BY <1>1 DEF GoesOn
<1>3. Passed(w, s, name, q)
    BY <1>1 DEF ColorsInv, AllPassed
<1>4. ~freed' => ~freed
    BY DEF Written
<1>5. \A x \in Int : ~freed' /\ Used(x) => Used(x)'
    BY DEF Written, Used
<1>6. q \in 1 .. Len(name) /\ Len(name) \in Nat
    BY <1>3, NameShape DEF Passed
<1>7. w \in {"strcpy", "copying"} => s + q - 1 \in Int
    BY <1>6, ColorsAssumption
<1>8. ~freed' => (w \in {"strcpy", "copying"} => Used(s + q - 1)')
    BY <1>3, <1>4, <1>5, <1>7 DEF Passed
<1>9. ASSUME ~freed', w = "copying", name[q] # "empty"
      PROVE  colors'[s + q - 1] # "empty"
    <2>1. colors[s + q - 1] # "empty"
        BY <1>3, <1>4, <1>9 DEF Passed
    <2>2. s + q - 1 \in Slot
        BY <1>3, <1>6, <1>9, ColorsAssumption DEF Passed, LastSlot, Slot
    <2>3. QED
        BY <1>9, <2>1, <2>2 DEF Written
<1>10. QED
    BY <1>2, <1>3, <1>4, <1>5, <1>8, <1>9 DEF Passed, Written

(***************************************************************************)
(* A thread that goes on has only to show what it knows where it is then.  *)
(***************************************************************************)
LEMMA GoingOnKeeps ==
    ASSUME ColorsInv, ~overruns, NEW t \in Thread, pc[t] # "out",
           NEW where \in Location \ {"out"}, NEW index \in 1 .. Size + 1, NEW name, _id[t] = name,
           NEW p \in Nat, GoesOn(t, where, index, p), Written,
           UNCHANGED <<made, asserts>>, overruns' \in BOOLEAN,
           Passed(where, index, name, p)',
           clean[t] => Knows(where, index, name, p)',
           InOrder => \A a \in Certain : Clear(where, index, name, a)
    PROVE  ColorsInv'
<1>1. ColorsTypeOK'
    BY DEF ColorsInv, ColorsTypeOK, GoesOn, Written
<1>2. UsedFirst' /\ AssertsWhenFull'
    BY DEF ColorsInv, AssertsWhenFull, Written
<1>3. CleanIsAlone'
    BY StaysAlone
<1>4. pc'[t] = where /\ i'[t] = index /\ _id'[t] = name /\ piece'[t] = p
    BY DEF GoesOn
<1>5. AllPassed'
    BY <1>4, OthersStay DEF AllPassed
<1>6. CleanKnows'
    <2>1. \A u \in Thread \ {t} : clean'[u] => pc'[u] = "out"
        BY NobodyElse DEF GoesOn
    <2>2. \A u \in Thread \ {t} : clean'[u] => Knows(pc[u], i[u], _id[u], piece[u])'
        BY <2>1 DEF Knows
    <2>3. clean'[t] => Knows(pc[t], i[t], _id[t], piece[t])'
        BY <1>4 DEF GoesOn
    <2>4. QED
        BY <2>2, <2>3 DEF CleanKnows
<1>7. CertainAreSettled'
    <2>1. SUFFICES ASSUME InOrder', NEW a \in Certain
                   PROVE  Settled(a)' /\ \A u \in Thread : Clear(pc'[u], i'[u], _id'[u], a)
        BY DEF CertainAreSettled, Certain, Clear, NamesFit
    <2>2. InOrder
        BY <2>1 DEF InOrder, NamesFit, Written
    <2>3. Clear(where, index, name, a) /\ \A u \in Thread : Clear(pc[u], i[u], _id[u], a)
        BY <2>2 DEF ColorsInv, CertainAreSettled
    <2>4. \A u \in Thread : Clear(pc'[u], i'[u], _id'[u], a)
        BY <1>4, <2>3 DEF GoesOn
    <2>5. QED
        BY <2>1, <2>4 DEF Written
<1>8. QED
    BY <1>1, <1>2, <1>3, <1>5, <1>6, <1>7 DEF ColorsInv

(***************************************************************************)
(* A constructor that returns.                                             *)
(***************************************************************************)
LEMMA FinishKeeps ==
    ASSUME ColorsInv, ~overruns, NEW t \in Thread, pc[t] # "out", NEW s \in Slot, i[t] = s,
           NEW name, _id[t] = name, Finish(t), UNCHANGED <<piece, ends>>, Written,
           clean[t] /\ name[Len(name)] # "empty" => Holds(s, name)' /\ Unlike(s, name)'
    PROVE  ColorsInv'
<1>1. GoesOn(t, "out", 1, piece[t])
    BY ColorsAssumption, GotoStays DEF ColorsInv, Finish, Location
<1>2. made' = made \cup {[name |-> name, id |-> s, clean |-> clean[t]]}
    BY DEF Finish
<1>3. ColorsTypeOK'
    BY <1>1, <1>2 DEF ColorsInv, ColorsTypeOK, GoesOn, Written, ends
<1>4. UsedFirst' /\ AssertsWhenFull'
    BY DEF ColorsInv, AssertsWhenFull, Written, ends
<1>5. CleanIsAlone'
    BY <1>1, StaysAlone
<1>6. AllPassed'
    <2>1. Passed("out", 1, name, piece[t])'
        BY DEF ColorsInv, AllPassed, Passed
    <2>2. pc'[t] = "out" /\ i'[t] = 1 /\ _id'[t] = name /\ piece'[t] = piece[t]
        BY <1>1 DEF GoesOn
    <2>3. Passed(pc[t], i[t], _id[t], piece[t])'
        BY <2>1, <2>2 DEF Passed
    <2>4. QED
        BY <1>1, <2>3, OthersStay DEF AllPassed
<1>7. CleanKnows'
    <2>1. \A u \in Thread : clean'[u] => pc'[u] = "out"
        BY <1>1, NobodyElse DEF GoesOn
    <2>2. QED
        BY <2>1 DEF CleanKnows, Knows
<1>8. CertainAreSettled'
    <2>1. SUFFICES ASSUME InOrder', NEW a \in Certain'
                   PROVE  Settled(a)' /\ \A u \in Thread : Clear(pc'[u], i'[u], _id'[u], a)
        BY DEF CertainAreSettled, Clear, NamesFit
    <2>2. CASE a \in Certain
        <3>1. InOrder
            BY <2>1 DEF InOrder, NamesFit, Written
        <3>2. \A u \in Thread : Clear(pc'[u], i'[u], _id'[u], a)
            BY <1>1, <2>2, <3>1 DEF ColorsInv, CertainAreSettled, Clear, GoesOn
        <3>3. QED
            BY <2>1, <2>2, <3>2 DEF Written
    <2>3. CASE a = [name |-> name, id |-> s, clean |-> clean[t]]
        <3>1. clean[t] /\ name[Len(name)] # "empty" /\ a.id = s /\ a.name = name
            BY <2>3 DEF Certain
        <3>2. \A u \in Thread : pc'[u] = "out"
            <4>1. Others(t) = {}
                BY <3>1 DEF ColorsInv, CleanIsAlone
            <4>2. QED
                BY <1>1, <4>1 DEF GoesOn, Others
        <3>3. QED
            BY <3>1, <3>2 DEF Clear, Settled
    <2>4. QED
        BY <1>2, <2>2, <2>3 DEF Certain
<1>9. QED
    BY <1>3, <1>4, <1>5, <1>6, <1>7, <1>8 DEF ColorsInv

-----------------------------------------------------------------------------
LEMMA FindKeeps ==
    ASSUME ColorsInv, ~overruns, NEW t \in Thread, find(t)
    PROVE  ColorsInv'
<1>1. PICK s \in 1 .. Size + 1, name \in Called : i[t] = s /\ _id[t] = name
    BY DEF ColorsInv, ColorsTypeOK
<1>2. /\ ColorsTypeOK /\ pc[t] = "find" /\ Passed("find", s, name, piece[t])
      /\ UNCHANGED <<colors, piece, made, ends, freed>>
    BY <1>1 DEF ColorsInv, AllPassed, find
<1>3. /\ Written /\ piece[t] = 1 /\ 1 \in 1 .. Len(name) /\ UNCHANGED <<colors, made, asserts, freed, overruns>>
      /\ overruns' \in BOOLEAN /\ Size \in Nat
    BY <1>2, NothingIsWritten, NameShape, ColorsAssumption DEF Passed, ends, ColorsTypeOK
<1>4. clean[t] => Unlike(s, name)
    BY <1>1, <1>2 DEF ColorsInv, CleanKnows, Knows
<1>5. InOrder => \A a \in Certain : /\ Holds(a.id, a.name) /\ Unlike(a.id, a.name)
                                    /\ a.id \in Slot
                                    /\ name = a.name => s <= a.id
    BY <1>1, <1>2, CertainHaveSlots DEF ColorsInv, CertainAreSettled, Clear, Settled
<1>6. CASE s > Size
    <2>1. GoesOn(t, "findSlot", 1, 1)
        <3>1. Goto(t, "findSlot", 1)
            BY <1>1, <1>6 DEF find
        <3>2. QED
            BY <1>2, <1>3, <3>1, GotoStays DEF Location
    <2>2. Passed("findSlot", 1, name, 1)'
        BY <1>3 DEF Passed, Used, Slot
    <2>3. clean[t] => Knows("findSlot", 1, name, 1)'
        BY <1>3, <1>4, <1>6 DEF Knows, Unlike, Slot, Holds
    <2>4. InOrder => \A a \in Certain : Clear("findSlot", 1, name, a)
        BY <1>3, <1>5, <1>6 DEF Clear, Slot
    <2>5. QED
        BY <1>1, <1>2, <1>3, <2>1, <2>2, <2>3, <2>4, GoingOnKeeps DEF Location
<1>7. CASE s \in Slot /\ Holds(s, name)
    <2>1. GoesOn(t, "constructor", s, 1)
        <3>1. Goto(t, "constructor", s)
            BY <1>1, <1>3, <1>7 DEF find, Slot
        <3>2. QED
            BY <1>2, <1>3, <3>1, GotoStays DEF Location
    <2>2. colors[s] = name[1]
        BY <1>1, <1>3, <1>7, NameShape DEF Holds, Slot
    <2>3. Passed("constructor", s, name, 1)'
        BY <1>2, <1>3, <1>7, <2>2 DEF Passed, Used
    <2>4. clean[t] => Knows("constructor", s, name, 1)'
        BY <1>3, <1>4, <1>7 DEF Knows, Unlike, Holds
    <2>5. InOrder => \A a \in Certain : Clear("constructor", s, name, a)
        BY <1>3, <1>5, <1>7 DEF Clear, Unlike, Slot
    <2>6. QED
        BY <1>1, <1>2, <1>3, <2>1, <2>3, <2>4, <2>5, GoingOnKeeps DEF Location
<1>8. CASE s \in Slot /\ ~Holds(s, name)
    <2>1. GoesOn(t, "find", s + 1, 1) /\ s + 1 \in 1 .. Size + 1
        <3>1. Goto(t, "find", s + 1) /\ s + 1 \in 1 .. Size + 1
            BY <1>1, <1>3, <1>8 DEF find, Slot
        <3>2. QED
            BY <1>2, <1>3, <3>1, GotoStays DEF Location
    <2>2. name[1] = "empty" => colors[s] # "empty"
        <3>1. /\ Len(name) \in Nat /\ 1 <= Len(name) /\ DOMAIN name = 1 .. Len(name)
              /\ name[1] \in Filling <=> 1 < Len(name)
            BY <1>3, NameShape
        <3>2. "empty" \notin Filling
            BY ColorsAssumption
        <3>3. ASSUME name[1] = "empty"
              PROVE  Len(name) = 1 /\ \A j \in DOMAIN name : j = 1
            BY <3>1, <3>2, <3>3
        <3>4. ASSUME name[1] = "empty", colors[s] = "empty"
              PROVE  Holds(s, name)
            <4>1. Len(name) = 1 /\ \A j \in DOMAIN name : j = 1
                BY <3>3, <3>4
            <4>2. s + Len(name) - 1 <= Size /\ s + 1 - 1 = s
                BY <1>3, <1>8, <4>1 DEF Slot
            <4>3. QED
                BY <3>4, <4>1, <4>2 DEF Holds
        <3>5. QED
            BY <1>8, <3>4
    <2>3. Passed("find", s + 1, name, 1)'
        BY <1>2, <1>3, <1>8, <2>2 DEF Passed, Used, Slot
    <2>4. clean[t] => Knows("find", s + 1, name, 1)'
        BY <1>3, <1>4, <1>8, SMTT(60) DEF Knows, Unlike, Slot, Holds
    <2>5. InOrder => \A a \in Certain : Clear("find", s + 1, name, a)
        <3>1. InOrder => \A a \in Certain : name = a.name => s # a.id
            BY <1>5, <1>8
        <3>2. QED
            BY <1>3, <1>5, <1>8, <3>1 DEF Clear, Slot
    <2>6. QED
        BY <1>1, <1>2, <1>3, <2>1, <2>3, <2>4, <2>5, GoingOnKeeps DEF Location
<1>9. QED
    BY <1>1, <1>3, <1>6, <1>7, <1>8 DEF Slot

LEMMA FindSlotKeeps ==
    ASSUME ColorsInv, ~overruns, NEW t \in Thread, findSlot(t)
    PROVE  ColorsInv'
<1>1. PICK s \in 1 .. Size + 1, name \in Called : i[t] = s /\ _id[t] = name
    BY DEF ColorsInv, ColorsTypeOK
<1>2. /\ ColorsTypeOK /\ pc[t] = "findSlot" /\ Passed("findSlot", s, name, piece[t])
      /\ UNCHANGED <<colors, piece, made, ends, freed>>
    BY <1>1 DEF ColorsInv, AllPassed, findSlot
<1>3. /\ Written /\ piece[t] = 1 /\ 1 \in 1 .. Len(name) /\ UNCHANGED <<colors, made, asserts, freed, overruns>>
      /\ overruns' \in BOOLEAN /\ Size \in Nat
    BY <1>2, NothingIsWritten, NameShape, ColorsAssumption DEF Passed, ends, ColorsTypeOK
<1>4. clean[t] => Unlike(Size + 1, name)
    BY <1>1, <1>2 DEF ColorsInv, CleanKnows, Knows
<1>5. ~freed => Used(s)
    BY <1>2 DEF Passed
<1>6. InOrder => \A a \in Certain : name # a.name
    BY <1>1, <1>2 DEF ColorsInv, CertainAreSettled, Clear
<1>7. CASE s > Size \/ colors[s] = "empty"
    <2>1. GoesOn(t, "constructor", s, 1)
        <3>1. Goto(t, "constructor", s)
            BY <1>1, <1>7 DEF findSlot
        <3>2. QED
            BY <1>2, <1>3, <3>1, GotoStays DEF Location
    <2>2. Passed("constructor", s, name, 1)'
        BY <1>3, <1>5 DEF Passed, Used
    <2>3. clean[t] => Knows("constructor", s, name, 1)'
        BY <1>3, <1>4, <1>7 DEF Knows, Unlike, Slot, Holds
    <2>4. InOrder => \A a \in Certain : Clear("constructor", s, name, a)
        BY <1>6 DEF Clear
    <2>5. QED
        BY <1>1, <1>2, <1>3, <2>1, <2>2, <2>3, <2>4, GoingOnKeeps DEF Location
<1>8. CASE s \in Slot /\ colors[s] # "empty"
    <2>1. GoesOn(t, "findSlot", s + 1, 1) /\ s + 1 \in 1 .. Size + 1
        <3>1. Goto(t, "findSlot", s + 1) /\ s + 1 \in 1 .. Size + 1
            BY <1>1, <1>3, <1>8 DEF findSlot, Slot
        <3>2. QED
            BY <1>2, <1>3, <3>1, GotoStays DEF Location
    <2>2. Passed("findSlot", s + 1, name, 1)'
        BY <1>3, <1>5, <1>8 DEF Passed, Used, Slot
    <2>3. clean[t] => Knows("findSlot", s + 1, name, 1)'
        BY <1>3, <1>4 DEF Knows, Unlike, Holds
    <2>4. InOrder => \A a \in Certain : Clear("findSlot", s + 1, name, a)
        BY <1>6 DEF Clear
    <2>5. QED
        BY <1>1, <1>2, <1>3, <2>1, <2>2, <2>3, <2>4, GoingOnKeeps DEF Location
<1>9. QED
    BY <1>1, <1>3, <1>7, <1>8 DEF Slot

LEMMA ConstructorKeeps ==
    ASSUME ColorsInv, ~overruns, NEW t \in Thread, Constructor(t)
    PROVE  ColorsInv'
<1>1. PICK s \in 1 .. Size + 1, name \in Called : i[t] = s /\ _id[t] = name
    BY DEF ColorsInv, ColorsTypeOK
<1>2. /\ ColorsTypeOK /\ pc[t] = "constructor" /\ Passed("constructor", s, name, piece[t])
      /\ UNCHANGED <<colors, piece, freed>>
    BY <1>1 DEF ColorsInv, AllPassed, Constructor
<1>3. Written /\ piece[t] = 1 /\ 1 \in 1 .. Len(name) /\ Len(name) \in Nat /\ Size \in Nat
    BY <1>2, NothingIsWritten, NameShape, ColorsAssumption DEF Passed
<1>4. clean[t] => Unlike(s, name) /\ (s \in Slot => colors[s] = "empty" \/ Holds(s, name))
    BY <1>1, <1>2 DEF ColorsInv, CleanKnows, Knows
<1>5. CASE s > Size
    <2>1. asserts' = TRUE /\ UNCHANGED <<colors, pc, i, _id, piece, clean, made, count, overruns, freed>>
        BY <1>1, <1>2, <1>3, <1>5 DEF Constructor
    <2>2. ColorsTypeOK'
        BY <1>2, <2>1 DEF ColorsTypeOK
    <2>3. UsedFirst' /\ AllPassed'
        BY <2>1 DEF ColorsInv, UsedFirst, Used, AllPassed, Passed
    <2>4. CleanIsAlone' /\ CleanKnows'
        BY <2>1 DEF ColorsInv, CleanIsAlone, Others, CleanKnows, Knows, Unlike, Holds
    <2>5. CertainAreSettled'
        BY <2>1 DEF ColorsInv, CertainAreSettled, InOrder, NamesFit, Certain, Settled, Unlike, Holds, Clear
    <2>6. AssertsWhenFull'
        BY <1>2, <1>3, <1>5, <2>1 DEF Passed, Used, AssertsWhenFull, Slot
    <2>7. QED
        BY <2>2, <2>3, <2>4, <2>5, <2>6 DEF ColorsInv
<1>6. CASE s \in Slot /\ colors[s] # "empty"
    <2>1. Finish(t) /\ UNCHANGED ends
        BY <1>1, <1>3, <1>6 DEF Constructor, Slot
    <2>2. clean[t] => Holds(s, name)' /\ Unlike(s, name)'
        BY <1>2, <1>4, <1>6 DEF Unlike, Holds
    <2>3. QED
        BY <1>1, <1>2, <1>3, <1>6, <2>1, <2>2, FinishKeeps
<1>7. CASE s \in Slot /\ colors[s] = "empty"
    <2>1. /\ overruns' = (s + Len(name) - 1 > Size)
          /\ Goto(t, "strcpy", s) /\ UNCHANGED <<made, asserts>>
        BY <1>1, <1>3, <1>7 DEF Constructor, Slot
    <2>2. GoesOn(t, "strcpy", s, 1)
        BY <1>2, <1>3, <2>1, GotoStays DEF Location
    <2>3. Passed("strcpy", s, name, 1)'
        <3>1. ~freed => Used(s)
            BY <1>2, <1>7 DEF Passed
        <3>2. ~freed' => Used(s + 1 - 1)'
            BY <1>2, <1>3, <1>7, <3>1 DEF Used, Slot
        <3>3. LastSlot(s, name) <= Size \/ overruns'
            <4>1. LastSlot(s, name) <= Size \/ s + Len(name) - 1 > Size
                BY <1>3, <1>7 DEF LastSlot, Slot
            <4>2. QED
                BY <2>1, <4>1
        <3>4. QED
            BY <1>3, <1>7, <3>2, <3>3 DEF Passed
    <2>4. clean[t] => Knows("strcpy", s, name, 1)'
        <3>1. \A r \in Slot : LastSlot(r, name) < s => r < s
            BY <1>3 DEF LastSlot, Slot
        <3>2. clean[t] => \A r \in Slot : LastSlot(r, name) < s => ~Holds(r, name)'
            BY <1>2, <1>4, <3>1 DEF Unlike, Holds
        <3>3. \A j \in 1 .. Len(name) : ~(j < 1)
            BY <1>3
        <3>4. QED
            BY <3>2, <3>3 DEF Knows
    <2>5. ASSUME InOrder, NEW a \in Certain
          PROVE  Clear("strcpy", s, name, a)
        <3>1. /\ \A j \in 1 .. Len(a.name) : a.id + j - 1 \in Slot /\ colors[a.id + j - 1] # "empty"
              /\ a.id \in Slot /\ Len(a.name) \in Nat /\ 1 <= Len(a.name)
            BY <1>2, <2>5, CertainAreUsed, CertainHaveSlots, NameShape
        <3>2. colors[a.id] # "empty"
            <4>1. 1 \in 1 .. Len(a.name) /\ a.id + 1 - 1 = a.id
                BY <1>3, <3>1 DEF Slot
            <4>2. QED
                BY <3>1, <4>1
        <3>3. s # a.id
            BY <1>7, <3>2
        <3>4. name # a.name
            BY <1>1, <1>2, <2>5, <3>3 DEF ColorsInv, CertainAreSettled, Clear
        <3>5. ASSUME ~NamesFit
              PROVE  LastSlot(a.id, a.name) < s
            <4>1. ~freed
                BY <2>5, <3>5 DEF InOrder
            <4>2. ~(s < a.id)
                BY <1>7, <3>1, <3>2, <4>1 DEF ColorsInv, UsedFirst, Used
            <4>3. ASSUME s <= LastSlot(a.id, a.name)
                  PROVE  FALSE
                <5>1. s - a.id + 1 \in 1 .. Len(a.name) /\ a.id + (s - a.id + 1) - 1 = s
                    BY <1>3, <1>7, <3>1, <4>2, <4>3 DEF LastSlot, Slot
                <5>2. QED
                    BY <1>7, <3>1, <5>1
            <4>4. QED
                BY <1>3, <1>7, <3>1, <4>3 DEF LastSlot, Slot
        <3>6. QED
            BY <3>3, <3>4, <3>5 DEF Clear
    <2>6. overruns' \in BOOLEAN
        BY <2>1
    <2>7. QED
        BY <1>1, <1>2, <1>3, <2>1, <2>2, <2>3, <2>4, <2>5, <2>6, GoingOnKeeps DEF Location
<1>8. QED
    BY <1>1, <1>3, <1>5, <1>6, <1>7 DEF Slot

-----------------------------------------------------------------------------
(***************************************************************************)
(* strcpy is within the table, and what a thread that has run alone writes *)
(* behind the name is not taken for the name: it would have to end with a  *)
(* piece that fills a slot.                                                *)
(***************************************************************************)
LEMMA AtIsSlot ==
    ASSUME ColorsInv, ~overruns, NEW t \in Thread, pc[t] \in {"strcpy", "copying"}
    PROVE  /\ i[t] \in Slot /\ _id[t] \in Called /\ piece[t] \in 1 .. Len(_id[t])
           /\ At(t) \in Slot /\ At(t) = i[t] + piece[t] - 1 /\ i[t] <= At(t)
           /\ LastSlot(i[t], _id[t]) <= Size
           /\ Copied(t) \in Piece
<1>1. /\ i[t] \in Slot /\ _id[t] \in Called /\ piece[t] \in 1 .. Len(_id[t])
      /\ LastSlot(i[t], _id[t]) <= Size
    BY DEF ColorsInv, ColorsTypeOK, AllPassed, Passed
<1>2. Len(_id[t]) \in Nat /\ Copied(t) \in Piece /\ Size \in Nat
    BY <1>1, NameShape, ColorsAssumption DEF Copied
<1>3. QED
    BY <1>1, <1>2 DEF At, LastSlot, Slot

(***************************************************************************)
(* A thread that copies stays behind the tokens that were made alone.      *)
(***************************************************************************)
LEMMA CopyingIsClear ==
    ASSUME ColorsInv, ~overruns, InOrder, NEW t \in Thread, pc[t] \in {"strcpy", "copying"}, NEW a \in Certain
    PROVE  /\ \A where \in {"strcpy", "copying"} : Clear(where, i[t], _id[t], a)
           /\ \/ LastSlot(a.id, a.name) < At(t)
              \/ /\ NamesFit /\ At(t) # a.id /\ At(t) = i[t]
                 /\ a.name[1] \in Piece /\ Copied(t) # a.name[1]
<1>1. /\ i[t] # a.id /\ (NamesFit \/ LastSlot(a.id, a.name) < i[t]) /\ _id[t] # a.name
    BY DEF ColorsInv, CertainAreSettled, Clear
<1>2. /\ i[t] \in Slot /\ _id[t] \in Called /\ piece[t] \in 1 .. Len(_id[t])
      /\ At(t) \in Slot /\ At(t) = i[t] + piece[t] - 1 /\ i[t] <= At(t)
    BY AtIsSlot
<1>3. a.id \in Slot /\ a.name \in Called /\ Len(a.name) \in Nat /\ Size \in Nat
    BY CertainHaveSlots, NameShape, ColorsAssumption DEF ColorsInv
<1>4. CASE LastSlot(a.id, a.name) < i[t]
    BY <1>1, <1>2, <1>3, <1>4 DEF LastSlot, Slot, Clear
<1>5. CASE NamesFit
    <2>1. Len(_id[t]) = 1 /\ Len(a.name) = 1
        BY <1>2, <1>3, <1>5 DEF NamesFit, Called
    <2>2. piece[t] = 1 /\ At(t) = i[t]
        BY <1>2, <1>3, <2>1 DEF Slot
    <2>3. _id[t] \in Seq(Piece) /\ a.name \in Seq(Piece)
        BY <1>2, <1>3, NameShape
    <2>4. a.name[1] \in Piece /\ Copied(t) # a.name[1]
        <3>1. _id[t][1] # a.name[1]
            BY <1>1, <2>1, <2>3, SeqEqual
        <3>2. a.name[1] \in Piece
            BY <1>3, <2>1, NameShape
        <3>3. QED
            BY <2>2, <3>1, <3>2 DEF Copied
    <2>5. QED
        BY <1>1, <1>5, <2>2, <2>4 DEF Clear
<1>6. QED
    BY <1>1, <1>4, <1>5

(***************************************************************************)
(* A write to a slot leaves what a thread has copied to the slots before   *)
(* it, and the strings that end before the name.                           *)
(***************************************************************************)
LEMMA BeforeIsKept ==
    ASSUME NEW s \in Slot, NEW q \in Slot, NEW name \in Called, NEW p \in 1 .. Len(name),
           s <= q, q = s + p - 1,
           \A r \in Slot : r # q => colors'[r] = colors[r],
           \A r \in Slot : LastSlot(r, name) < s => ~Holds(r, name),
           \A j \in 1 .. Len(name) : j < p => colors[s + j - 1] = name[j]
    PROVE  /\ \A r \in Slot : LastSlot(r, name) < s => ~Holds(r, name)'
           /\ \A j \in 1 .. Len(name) : j < p => colors'[s + j - 1] = name[j]
<1>1. Len(name) \in Nat /\ DOMAIN name = 1 .. Len(name) /\ Size \in Nat
    BY NameShape, ColorsAssumption
<1>2. ASSUME NEW r \in Slot, LastSlot(r, name) < s, NEW j \in 1 .. Len(name)
      PROVE  colors'[r + j - 1] = colors[r + j - 1]
    <2>1. r + j - 1 \in Slot /\ r + j - 1 # q
        BY <1>1, <1>2 DEF LastSlot, Slot
    <2>2. QED
        BY <2>1
<1>3. \A r \in Slot : LastSlot(r, name) < s => ~Holds(r, name)'
    BY <1>1, <1>2 DEF Holds
<1>4. ASSUME NEW j \in 1 .. Len(name), j < p
      PROVE  colors'[s + j - 1] = name[j]
    <2>1. s + j - 1 \in Slot /\ s + j - 1 # q
        BY <1>1, <1>4 DEF Slot
    <2>2. QED
        BY <1>4, <2>1
<1>5. QED
    BY <1>3, <1>4

LEMMA StrcpyBeginsKeeps ==
    ASSUME ColorsInv, ~overruns, NEW t \in Thread, StrcpyBegins(t)
    PROVE  ColorsInv'
<1>1. PICK s \in Slot, q \in Slot, name \in Called, p \in Nat :
        /\ i[t] = s /\ _id[t] = name /\ piece[t] = p /\ At(t) = q
        /\ p \in 1 .. Len(name) /\ q = s + p - 1 /\ s <= q /\ LastSlot(s, name) <= Size
    BY AtIsSlot DEF ColorsInv, ColorsTypeOK, StrcpyBegins
<1>2. /\ ColorsTypeOK /\ pc[t] = "strcpy" /\ Passed("strcpy", s, name, p)
      /\ UNCHANGED <<piece, made, asserts, overruns>> /\ overruns' \in BOOLEAN /\ Size \in Nat
    BY <1>1, ColorsAssumption DEF ColorsInv, ColorsTypeOK, AllPassed, StrcpyBegins, ends
<1>3. PICK written \in {"empty", "torn"} :
        /\ colors' = [colors EXCEPT ![q] = written]
        /\ freed' = (freed \/ (name[p] = "empty" /\ colors[q] # "empty"))
        /\ name[p] = "empty" <=> written = "empty"
    BY <1>1 DEF StrcpyBegins, Copied
<1>4. GoesOn(t, "copying", s, p)
    <2>1. Goto(t, "copying", s)
        BY <1>1 DEF StrcpyBegins
    <2>2. QED
        BY <1>1, <1>2, <2>1, GotoStays DEF Location, Slot
<1>5. freed' \in BOOLEAN /\ (freed => freed') /\ (InOrder' => InOrder)
    BY <1>2, <1>3 DEF ColorsTypeOK, InOrder, NamesFit
<1>6. Written
    <2>1. ~freed' => Used(q) /\ (colors[q] # "empty" => written # "empty")
        BY <1>1, <1>2, <1>3 DEF Passed
    <2>2. InOrder' => \A a \in Certain :
            \/ LastSlot(a.id, a.name) < q
            \/ NamesFit /\ q # a.id /\ (q < a.id => written # a.name[1])
        <3>1. ASSUME InOrder', NEW a \in Certain
              PROVE  \/ LastSlot(a.id, a.name) < q
                     \/ NamesFit /\ q # a.id /\ written # a.name[1]
            <4>1. \/ LastSlot(a.id, a.name) < q
                  \/ NamesFit /\ q # a.id /\ a.name[1] \in Piece
                BY <1>1, <1>2, <1>5, <3>1, CopyingIsClear
            <4>2. NamesFit => a.name[1] # "empty"
                BY CertainHaveSlots, <1>2 DEF NamesFit, Called
            <4>3. QED
                BY <4>1, <4>2, ColorsAssumption
        <3>2. QED
            BY <3>1
    <2>3. written \in Piece \cup {"torn"}
        BY ColorsAssumption
    <2>4. QED
        BY <1>3, <1>5, <2>1, <2>2, <2>3, WritingKeeps
<1>7. \A r \in Slot : r # q => colors'[r] = colors[r]
    BY <1>3
<1>8. Passed("copying", s, name, p)'
    <2>1. ~freed' => Used(q)'
        BY <1>1, <1>2, <1>6 DEF Passed, Written, Used
    <2>2. name[p] # "empty" => colors'[q] # "empty"
        BY <1>2, <1>3 DEF ColorsTypeOK
    <2>3. QED
        BY <1>1, <2>1, <2>2 DEF Passed
<1>9. clean[t] => Knows("copying", s, name, p)'
    <2> SUFFICES ASSUME clean[t] PROVE Knows("copying", s, name, p)'
        OBVIOUS
    <2>1. /\ \A r \in Slot : LastSlot(r, name) < s => ~Holds(r, name)
          /\ \A j \in 1 .. Len(name) : j < p => colors[s + j - 1] = name[j]
        BY <1>1, <1>2 DEF ColorsInv, CleanKnows, Knows
    <2>2. /\ \A r \in Slot : LastSlot(r, name) < s => ~Holds(r, name)'
          /\ \A j \in 1 .. Len(name) : j < p => colors'[s + j - 1] = name[j]
        BY <1>1, <1>7, <2>1, BeforeIsKept, SMTT(60)
    <2>3. QED
        BY <2>2 DEF Knows
<1>10. InOrder => \A a \in Certain : Clear("copying", s, name, a)
    BY <1>1, <1>2, CopyingIsClear
<1>11. QED
    BY <1>1, <1>2, <1>4, <1>6, <1>8, <1>9, <1>10, GoingOnKeeps DEF Location, Slot

LEMMA StrcpyEndsKeeps ==
    ASSUME ColorsInv, ~overruns, NEW t \in Thread, StrcpyEnds(t)
    PROVE  ColorsInv'
<1>1. PICK s \in Slot, q \in Slot, name \in Called, p \in Nat :
        /\ i[t] = s /\ _id[t] = name /\ piece[t] = p /\ At(t) = q
        /\ p \in 1 .. Len(name) /\ q = s + p - 1 /\ s <= q /\ LastSlot(s, name) <= Size
    BY AtIsSlot DEF ColorsInv, ColorsTypeOK, StrcpyEnds
<1>2. /\ ColorsTypeOK /\ pc[t] = "copying" /\ Passed("copying", s, name, p)
      /\ UNCHANGED <<asserts, overruns, freed>> /\ overruns' \in BOOLEAN /\ freed \in BOOLEAN
      /\ Size \in Nat /\ Len(name) \in Nat /\ name[p] \in Piece
    BY <1>1, NameShape, ColorsAssumption DEF ColorsInv, ColorsTypeOK, AllPassed, StrcpyEnds, ends
<1>3. PICK written \in Piece \cup {"torn"} :
        /\ colors' = [colors EXCEPT ![q] = written]
        /\ clean[t] => written = name[p] \/ (name[p] = "empty" /\ written = colors[q])
        /\ written \in {name[p], colors[q], "torn"}
        /\ name[p] = "empty" => written = colors[q]
    <2>1. CASE name[p] = "empty"
        <3>1. colors' = [colors EXCEPT ![q] = colors[q]] /\ colors[q] \in Piece \cup {"torn"}
            BY <1>1, <1>2, <2>1 DEF StrcpyEnds, Copied, ColorsTypeOK
        <3>2. QED
            BY <2>1, <3>1
    <2>2. CASE name[p] # "empty"
        <3>1. PICK w \in {name[p]} \cup (IF clean[t] THEN {} ELSE {colors[q], "torn"}) :
                colors' = [colors EXCEPT ![q] = w]
            BY <1>1, <2>2 DEF StrcpyEnds, Copied
        <3>2. colors[q] \in Piece \cup {"torn"}
            BY <1>2 DEF ColorsTypeOK
        <3>3. QED
            BY <1>2, <2>2, <3>1, <3>2
    <2>3. QED
        BY <2>1, <2>2
<1>4. \A r \in Slot : colors'[r] = IF r = q THEN written ELSE colors[r]
    BY <1>2, <1>3 DEF ColorsTypeOK
<1>5. InOrder' => InOrder
    BY <1>2 DEF InOrder, NamesFit
<1>6. Written
    <2>1. ~freed' => Used(q) /\ (colors[q] # "empty" => written # "empty")
        BY <1>1, <1>2, <1>3 DEF Passed
    <2>2. InOrder' => \A a \in Certain :
            \/ LastSlot(a.id, a.name) < q
            \/ NamesFit /\ q # a.id /\ (q < a.id => written # a.name[1])
        <3>1. ASSUME InOrder', NEW a \in Certain, NamesFit, q < a.id, q # a.id,
                     a.name[1] \in Piece, name[p] # a.name[1]
              PROVE  written # a.name[1]
            <4>1. Unlike(a.id, a.name) /\ Len(a.name) = 1 /\ DOMAIN a.name = 1 .. 1
                BY <1>5, <3>1, CertainHaveSlots, NameShape
                   DEF ColorsInv, CertainAreSettled, Settled, NamesFit, Called
            <4>2. colors[q] # a.name[1]
                BY <1>2, <3>1, <4>1 DEF Unlike, Holds, Slot
            <4>3. QED
                BY <1>3, <3>1, <4>2, ColorsAssumption
        <3>2. QED
            BY <1>1, <1>2, <1>5, <3>1, CopyingIsClear DEF Copied
    <2>3. QED
        BY <1>2, <1>3, <2>1, <2>2, WritingKeeps
<1>7. ASSUME clean[t], name[p] # "empty"
      PROVE  /\ \A r \in Slot : LastSlot(r, name) < s => ~Holds(r, name)'
             /\ \A j \in 1 .. Len(name) : j < p + 1 => colors'[s + j - 1] = name[j]
    <2>1. /\ \A r \in Slot : LastSlot(r, name) < s => ~Holds(r, name)
          /\ \A j \in 1 .. Len(name) : j < p => colors[s + j - 1] = name[j]
        BY <1>1, <1>2, <1>7 DEF ColorsInv, CleanKnows, Knows
    <2>2. /\ \A r \in Slot : LastSlot(r, name) < s => ~Holds(r, name)'
          /\ \A j \in 1 .. Len(name) : j < p => colors'[s + j - 1] = name[j]
        <3>1. \A r \in Slot : r # q => colors'[r] = colors[r]
            BY <1>4
        <3>2. QED
            BY <1>1, <2>1, <3>1, BeforeIsKept
    <2>3. colors'[s + p - 1] = name[p]
        BY <1>1, <1>3, <1>4, <1>7
    <2>4. \A j \in 1 .. Len(name) : j < p + 1 => j < p \/ j = p
        BY <1>1, <1>2
    <2>5. QED
        BY <2>2, <2>3, <2>4
<1>8. CASE p < Len(name)
    <2>1. Goto(t, "strcpy", s) /\ piece' = [piece EXCEPT ![t] = p + 1] /\ UNCHANGED made
        BY <1>1, <1>2, <1>8 DEF StrcpyEnds
    <2>2. GoesOn(t, "strcpy", s, p + 1)
        <3>1. s \in 1 .. Size + 1 /\ p + 1 \in Nat /\ "strcpy" \in Location
            BY <1>2 DEF Slot, Location
        <3>2. QED
            BY <1>2, <2>1, <3>1, GotoGoesOn
    <2>3. name[p] # "empty"
        BY <1>1, <1>8, NameShape, ColorsAssumption
    <2>4. Passed("strcpy", s, name, p + 1)'
        <3>1. ~freed' => Used(q) /\ colors[q] # "empty"
            BY <1>1, <1>2, <2>3 DEF Passed
        <3>2. ~freed' => Used(q + 1)'
            BY <1>2, <1>6, <3>1 DEF Written, Used, Slot
        <3>3. q + 1 = s + (p + 1) - 1 /\ p + 1 \in 1 .. Len(name)
            BY <1>1, <1>2, <1>8 DEF Slot
        <3>4. QED
            BY <1>1, <3>2, <3>3 DEF Passed
    <2>5. clean[t] => Knows("strcpy", s, name, p + 1)'
        BY <1>7, <2>3 DEF Knows
    <2>6. InOrder => \A a \in Certain : Clear("strcpy", s, name, a)
        BY <1>1, <1>2, CopyingIsClear
    <2>7. p + 1 \in Nat /\ s \in 1 .. Size + 1
        BY <1>2 DEF Slot
    <2>8. QED
        BY <1>1, <1>2, <1>6, <2>1, <2>2, <2>4, <2>5, <2>6, <2>7, GoingOnKeeps DEF Location
<1>9. CASE p = Len(name)
    <2>1. Finish(t) /\ UNCHANGED <<piece, ends>>
        BY <1>1, <1>2, <1>9 DEF StrcpyEnds
    <2>2. ASSUME clean[t], name[Len(name)] # "empty"
          PROVE  Holds(s, name)' /\ Unlike(s, name)'
        <3>1. Holds(s, name)'
            BY <1>1, <1>2, <1>7, <1>9, <2>2, NameShape DEF Holds, LastSlot
        <3>2. ASSUME NEW r \in Slot, r < s, Holds(r, name)'
              PROVE  FALSE
            <4>1. ~(LastSlot(r, name) < s)
                BY <1>7, <1>9, <2>2, <3>2
            <4>2. r + Len(name) - s \in 1 .. Len(name) /\ r + Len(name) - s < Len(name)
                BY <1>2, <3>2, <4>1 DEF LastSlot, Slot
            <4>3. colors'[r + Len(name) - 1] = name[Len(name)]
                BY <1>1, <1>9, <3>2, NameShape DEF Holds
            <4>4. /\ colors'[s + (r + Len(name) - s) - 1] = name[r + Len(name) - s]
                BY <1>7, <1>9, <2>2, <4>2
            <4>5. s + (r + Len(name) - s) - 1 = r + Len(name) - 1
                BY <1>2 DEF Slot
            <4>6. name[r + Len(name) - s] \in Filling /\ name[Len(name)] \notin Filling
                BY <1>1, <1>9, <4>2, NameShape
            <4>7. QED
                BY <4>3, <4>4, <4>5, <4>6
        <3>3. QED
            BY <3>1, <3>2 DEF Unlike
    <2>3. QED
        BY <1>1, <1>2, <1>6, <2>1, <2>2, FinishKeeps
<1>10. QED
    BY <1>1, <1>2, <1>8, <1>9

-----------------------------------------------------------------------------
(***************************************************************************)
(* The invariant holds in every reachable state.                           *)
(***************************************************************************)
THEOREM ColorsInvariant == Spec => []ColorsInv
<1>1. Init => ColorsInv
    BY ColorsInitially
<1>2. ColorsInv /\ [Next]_vars => ColorsInv'
    <2> SUFFICES ASSUME ColorsInv, [Next]_vars PROVE ColorsInv'
        OBVIOUS
    <2>1. CASE UNCHANGED vars
        <3>1. ColorsTypeOK' /\ UsedFirst' /\ AllPassed' /\ AssertsWhenFull'
            BY <2>1 DEF vars, ends, ColorsInv, ColorsTypeOK, UsedFirst, Used, AllPassed, Passed, AssertsWhenFull
        <3>2. CleanIsAlone' /\ CleanKnows'
            BY <2>1 DEF vars, ends, ColorsInv, CleanIsAlone, Others, CleanKnows, Knows, Unlike, Holds
        <3>3. CertainAreSettled'
            BY <2>1 DEF vars, ends, ColorsInv, CertainAreSettled, InOrder, NamesFit, Certain, Settled, Unlike,
                        Holds, Clear
        <3>4. QED
            BY <3>1, <3>2, <3>3 DEF ColorsInv
    <2>2. CASE Next
        BY <2>2, ConstructKeeps, FindKeeps, FindSlotKeeps, ConstructorKeeps, StrcpyBeginsKeeps,
           StrcpyEndsKeeps DEF Next
    <2>3. QED
        BY <2>1, <2>2
<1>3. QED
    BY <1>1, <1>2, PTL DEF Spec

(***************************************************************************)
(* A colour that was made alone keeps its name, whoever adds colours later *)
(* and however they race, and whatever slots the names go on in (`Token'   *)
(* in colors.hpp).                                                         *)
(***************************************************************************)
THEOREM ColorsKeep == Spec => []ColorsKeepTheirNames
<1>1. ColorsInv => ColorsKeepTheirNames
    BY DEF ColorsInv, CertainAreSettled, Settled, ColorsKeepTheirNames
<1>2. QED
    BY <1>1, ColorsInvariant, PTL

(***************************************************************************)
(* Two tokens that were each made alone have the same index exactly when   *)
(* they have the same name (`Token' in colors.hpp).                        *)
(***************************************************************************)
THEOREM ColorsAreTold == Spec => []ColorsTellApart
<1>1. ColorsInv => ColorsTellApart
    <2> SUFFICES ASSUME ColorsInv, InOrder, NEW a \in Certain, NEW b \in Certain
                 PROVE  a.id = b.id <=> a.name = b.name
        BY DEF ColorsTellApart
    <2>1. /\ a.id \in Slot /\ a.name \in Called /\ Holds(a.id, a.name) /\ Unlike(a.id, a.name)
          /\ b.id \in Slot /\ b.name \in Called /\ Holds(b.id, b.name) /\ Unlike(b.id, b.name)
        BY CertainHaveSlots DEF ColorsInv, CertainAreSettled, Settled
    <2>2. a.id = b.id => a.name = b.name
        BY <2>1, HeldNamesAreEqual
    <2>3. a.name = b.name => ~(a.id < b.id) /\ ~(b.id < a.id)
        BY <2>1 DEF Unlike
    <2>4. QED
        BY <2>1, <2>2, <2>3, ColorsAssumption DEF Slot
<1>2. QED
    BY <1>1, ColorsInvariant, PTL

(***************************************************************************)
(* The assertion of the constructor fails only when every slot is used,    *)
(* unless a terminator has emptied one (`Token' in colors.hpp).            *)
(***************************************************************************)
THEOREM AssertionMeansFull == Spec => []AssertsWhenFull
<1>1. ColorsInv => AssertsWhenFull
    BY DEF ColorsInv
<1>2. QED
    BY <1>1, ColorsInvariant, PTL
=============================================================================
