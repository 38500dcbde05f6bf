---------------------------------- MODULE Colors ----------------------------------
(***************************************************************************)
(* The table of colours (colors.hpp): a `Token' is an index into a static  *)
(* table of names, and its constructor adds a name that is not there yet.  *)
(* There is no lock, and the editor constructs tokens on two threads: the  *)
(* UI thread for what is picked and typed in its menus, a pool thread for  *)
(* the file that it parses.                                                *)
(*                                                                         *)
(* Slots lie one behind the other and hold 64 characters each.  A string   *)
(* ends at its terminator and not at the end of a slot, so a longer name   *)
(* goes on in the next ones.  A name is a sequence of pieces here, one for *)
(* each slot: all but the last fill it, and the last one has the           *)
(* terminator.  "empty" is the terminator alone: a slot that is free, the  *)
(* last piece of a name of 64 characters, or all of a token without a      *)
(* name.                                                                   *)
(*                                                                         *)
(* Strings are read one by one.  strcpy takes a while, piece by piece: the *)
(* slot holds "torn" meanwhile, and may do so ever after when two threads  *)
(* write to it.                                                            *)
(***************************************************************************)
EXTENDS Integers, Sequences, FiniteSets

CONSTANTS
    Thread,
    Piece,          \* what a slot may hold
    Filling,        \* the pieces of 64 characters, without a terminator
    Name,           \* what constructors are called with
    Builtin,        \* the names that are in the table at first, in order: a slot each
    Size,           \* colors.size()
    MaxTokens       \* bound: tokens constructed

ASSUME ColorsAssumption ==
    /\ Filling \subseteq Piece
    /\ "empty" \in Piece \ Filling
    /\ "torn" \notin Piece
    /\ Name \subseteq Seq(Piece)
    /\ \A name \in Name : name # <<>> /\ \A j \in DOMAIN name : name[j] \in Filling <=> j < Len(name)
    /\ Size \in Nat
    /\ Builtin \in Seq(Piece \ (Filling \cup {"empty"}))
    /\ Len(Builtin) <= Size

VARIABLES
    colors,     \* [1 .. Size -> pieces]
    pc,         \* [Thread -> where the constructor is]
    i,          \* [Thread -> Nat]: local of find and findSlot, and then the id
    _id,        \* [Thread -> Name]: argument
    piece,      \* [Thread -> Nat]: the piece that strcpy is at
    clean,      \* ghost [Thread -> BOOLEAN]: no other constructor has run beside it
    made,       \* the tokens that exist: set of [name, id, clean]
    count,      \* how many constructors have been called
    asserts,    \* an assertion has failed: the id is out of range
    overruns,   \* the name goes on behind the end of the table
    freed       \* ghost: a terminator has emptied a slot that was used

ends == <<asserts, overruns>>
vars == <<colors, pc, i, _id, piece, clean, made, count, ends, freed>>

Slot == 1 .. Size

Init ==
    /\ colors = [s \in Slot |-> IF s <= Len(Builtin) THEN Builtin[s] ELSE "empty"]
    /\ pc = [t \in Thread |-> "out"]
    /\ i = [t \in Thread |-> 1]
    /\ _id = [t \in Thread |-> <<"empty">>]
    /\ piece = [t \in Thread |-> 1]
    /\ clean = [t \in Thread |-> TRUE]
    /\ made = {}
    /\ count = 0
    /\ asserts = FALSE
    /\ overruns = FALSE
    /\ freed = FALSE

Others(t) == {u \in Thread \ {t} : pc[u] # "out"}

Construct(t, name) ==
    /\ pc[t] = "out"
    /\ count < MaxTokens
    /\ count' = count + 1
    /\ pc' = [pc EXCEPT ![t] = "find"]
    /\ i' = [i EXCEPT ![t] = 1]
    /\ _id' = [_id EXCEPT ![t] = name]
    /\ clean' = [u \in Thread |-> IF u = t THEN Others(t) = {} ELSE clean[u] /\ u \notin Others(t)]
    /\ piece' = [piece EXCEPT ![t] = 1]
    /\ UNCHANGED <<colors, made, ends, freed>>

Goto(t, where, index) ==
    /\ pc' = [pc EXCEPT ![t] = where]
    /\ i' = [i EXCEPT ![t] = index]
    /\ UNCHANGED <<_id, clean, count>>

(***************************************************************************)
(* The string that begins in slot s is this name.                          *)
(***************************************************************************)
Holds(s, name) ==
    /\ s + Len(name) - 1 <= Size
    /\ \A j \in DOMAIN name : colors[s + j - 1] = name[j]

(***************************************************************************)
(* Mutation of find: knows the names that were there at first only.        *)
(***************************************************************************)
findBuiltin(t) ==
    /\ pc[t] = "find"
    /\ IF i[t] > Len(Builtin) THEN Goto(t, "findSlot", 1)
       ELSE IF Holds(i[t], _id[t]) THEN Goto(t, "constructor", i[t])
       ELSE Goto(t, "find", i[t] + 1)
    /\ UNCHANGED <<colors, piece, made, ends, freed>>

(***************************************************************************)
(* Looks for the name, string by string.                                   *)
(***************************************************************************)
find(t) ==
    /\ pc[t] = "find"
    /\ IF i[t] > Size THEN Goto(t, "findSlot", 1)
       ELSE IF Holds(i[t], _id[t]) THEN Goto(t, "constructor", i[t])
       ELSE Goto(t, "find", i[t] + 1)
    /\ UNCHANGED <<colors, piece, made, ends, freed>>

(***************************************************************************)
(* Mutation of findSlot: counts one slot too few.                          *)
(***************************************************************************)
findSlotShort(t) ==
    /\ pc[t] = "findSlot"
    /\ IF i[t] >= Size THEN Goto(t, "constructor", Size + 1)
       ELSE IF colors[i[t]] = "empty" THEN Goto(t, "constructor", i[t])
       ELSE Goto(t, "findSlot", i[t] + 1)
    /\ UNCHANGED <<colors, piece, made, ends, freed>>

(***************************************************************************)
(* Looks for a slot that is free.                                          *)
(***************************************************************************)
findSlot(t) ==
    /\ pc[t] = "findSlot"
    /\ IF i[t] > Size THEN Goto(t, "constructor", i[t])
       ELSE IF colors[i[t]] = "empty" THEN Goto(t, "constructor", i[t])
       ELSE Goto(t, "findSlot", i[t] + 1)
    /\ UNCHANGED <<colors, piece, made, ends, freed>>

(***************************************************************************)
(* The slot that strcpy is at, and what it copies there.                   *)
(***************************************************************************)
At(t) == i[t] + piece[t] - 1
Copied(t) == _id[t][piece[t]]

Finish(t) ==
    /\ Goto(t, "out", 1)
    /\ made' = made \cup {[name |-> _id[t], id |-> i[t], clean |-> clean[t]]}

(***************************************************************************)
(* Mutation of Constructor: copies the name whatever the slot holds.       *)
(***************************************************************************)
ConstructorAlways(t) ==
    /\ pc[t] = "constructor"
    /\ i[t] + Len(_id[t]) - 1 <= Size
    /\ Goto(t, "strcpy", i[t])
    /\ UNCHANGED <<colors, piece, made, ends, freed>>

(***************************************************************************)
(* The body of the constructor: looks whether the slot is free.  A name    *)
(* that goes on behind the table is where the model stops: what is written *)
(* to there is not known.                                                  *)
(***************************************************************************)
Constructor(t) ==
    /\ pc[t] = "constructor"
    /\ \/ /\ i[t] > Size
          /\ asserts' = TRUE
          /\ UNCHANGED <<pc, i, _id, clean, made, count, overruns>>
       \/ /\ i[t] <= Size /\ colors[i[t]] # "empty"
          /\ Finish(t)
          /\ UNCHANGED ends
       \/ /\ i[t] <= Size /\ colors[i[t]] = "empty"
          /\ overruns' = (i[t] + Len(_id[t]) - 1 > Size)
          /\ Goto(t, "strcpy", i[t])
          /\ UNCHANGED <<made, asserts>>
    /\ UNCHANGED <<colors, piece, freed>>

(***************************************************************************)
(* strcpy begins to write to a slot; of "empty" it writes the terminator,  *)
(* and that empties a slot that another thread has used since.             *)
(***************************************************************************)
StrcpyBegins(t) ==
    /\ pc[t] = "strcpy"
    /\ colors' = [colors EXCEPT ![At(t)] = IF Copied(t) = "empty" THEN "empty" ELSE "torn"]
    /\ freed' = (freed \/ (Copied(t) = "empty" /\ colors[At(t)] # "empty"))
    /\ Goto(t, "copying", i[t])
    /\ UNCHANGED <<piece, made, ends>>

(***************************************************************************)
(* What is left when it is through with the slot is the piece, unless      *)
(* others have written, too.  It ends behind the last one.                 *)
(***************************************************************************)
StrcpyEnds(t) ==
    /\ pc[t] = "copying"
    /\ IF Copied(t) = "empty" THEN UNCHANGED colors
       ELSE \E written \in {Copied(t)} \cup (IF clean[t] THEN {} ELSE {colors[At(t)], "torn"}) :
                colors' = [colors EXCEPT ![At(t)] = written]
    /\ \/ /\ piece[t] = Len(_id[t])
          /\ Finish(t)
          /\ UNCHANGED piece
       \/ /\ piece[t] < Len(_id[t])
          /\ Goto(t, "strcpy", i[t])
          /\ piece' = [piece EXCEPT ![t] = @ + 1]
          /\ UNCHANGED made
    /\ UNCHANGED <<ends, freed>>

Next ==
    /\ ~asserts /\ ~overruns
    /\ \E t \in Thread :
        \/ \E name \in Name : Construct(t, name)
        \/ find(t)
        \/ findSlot(t)
        \/ Constructor(t)
        \/ StrcpyBegins(t)
        \/ StrcpyEnds(t)

Spec == Init /\ [][Next]_vars

-----------------------------------------------------------------------------
(***************************************************************************)
(* Properties.                                                             *)
(***************************************************************************)

(***************************************************************************)
(* The tokens that say for certain what colour they are: they were made    *)
(* while no other one was, and have a name that does not end with a slot.  *)
(* Of a name of 64 characters, or 128, only the terminator is in the next  *)
(* slot, which counts as free, so the next colour is appended to it; see   *)
(* SameColorSameIndex.                                                     *)
(***************************************************************************)
Certain == {a \in made : a.clean /\ a.name[Len(a.name)] # "empty"}

(***************************************************************************)
(* A slot that was emptied among used ones gets a name again, and only one *)
(* that fits leaves what is behind it.                                     *)
(***************************************************************************)
NamesFit == \A name \in Name : Len(name) = 1
InOrder == NamesFit \/ ~freed

(***************************************************************************)
(* "Tokens can have a color which makes them distinguishable from other    *)
(* tokens" (colors.hpp): of two tokens that were each constructed while no *)
(* other one was, the indices are the same exactly when the names are,     *)
(* also when other threads have raced for slots before or in between, and  *)
(* however many slots the names take.                                      *)
(***************************************************************************)
ColorsTellApart == InOrder => \A a, b \in Certain : a.id = b.id <=> a.name = b.name

(***************************************************************************)
(* Such a token keeps its name, whoever adds colours later.                *)
(***************************************************************************)
ColorsKeepTheirNames == InOrder => \A a \in Certain : Holds(a.id, a.name)

(***************************************************************************)
(* The assertion fails only when the table is full: no slot is skipped,    *)
(* and a race wastes none.  (A terminator that is written late can empty a *)
(* slot that others have passed.)                                          *)
(***************************************************************************)
AssertsWhenFull == asserts /\ ~freed => \A s \in Slot : colors[s] # "empty"

(***************************************************************************)
(* "Tokens that have the same color are not distinguishable" (colors.hpp), *)
(* whatever the name: also of 64 characters, which fills its slot.         *)
(***************************************************************************)
SameColorSameIndex == \A a, b \in made : a.clean /\ b.clean /\ a.name = b.name => a.id = b.id
=============================================================================
