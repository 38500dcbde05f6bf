--------------------------------- MODULE MCPetri ---------------------------------
(***************************************************************************)
(* Small nets and the values of Petri's constants for TLC.  A bag of       *)
(* tokens is given by the function that maps the coloured places in it to  *)
(* their counts.  No net has a cycle, so that a run has finitely many      *)
(* firings and the names in Job suffice.                                   *)
(***************************************************************************)
EXTENDS Petri, TLC

CONSTANTS r1, w1, w2, c1, none, nojob

Colours == {"Success", "Failed"}

Bag(places, f) == [a \in places \X Colours |-> IF a \in DOMAIN f THEN f[a] ELSE 0]
Posts(places, f) == [p \in places |-> IF p \in DOMAIN f THEN f[p] ELSE 0]
Blank == <<>>
S(p, n) == <<p, "Success">> :> n

(***************************************************************************)
(* Net 1 (the one of tests/external_input.cpp): t1 moves two tokens from   *)
(* Pa to Pb on the pool and may fail; the source transition t0 adds tokens *)
(* to Pb; t2, a direct mutation, takes two from Pb and puts one in Pc.     *)
(***************************************************************************)
P1Place == {"Pa", "Pb", "Pc"}
P1Transition == {"t0", "t1", "t2"}
P1Input == "t0" :> Bag(P1Place, Blank)
        @@ "t1" :> Bag(P1Place, S("Pa", 1))
        @@ "t2" :> Bag(P1Place, S("Pb", 2))
P1Output == "t0" :> Posts(P1Place, "Pb" :> 1)
         @@ "t1" :> Posts(P1Place, "Pb" :> 1)
         @@ "t2" :> Posts(P1Place, "Pc" :> 1)
P1Priority == [t \in P1Transition |-> 0]
P1Initial == Bag(P1Place, S("Pa", 2))
P1Goal == Bag(P1Place, S("Pc", 1))
P1Synchronous == {"t0", "t2"}
P1Returns == "t0" :> {"Success"} @@ "t1" :> Colours @@ "t2" :> {"Success"}

(***************************************************************************)
(* Net 2 (after tests/priorities.cpp): the callbacks of ta need the token  *)
(* in lock, which they give back; tb runs beside them; s1 and s2 are       *)
(* direct mutations of higher priority, s1 enables s2 and s2 enables ta    *)
(* once more.  No goal.                                                    *)
(***************************************************************************)
P2Place == {"lock", "Px", "Py", "Pa", "Pb"}
P2Transition == {"s1", "s2", "ta", "tb"}
P2Input == "s1" :> Bag(P2Place, S("Px", 1))
        @@ "s2" :> Bag(P2Place, S("Py", 1))
        @@ "ta" :> Bag(P2Place, S("Pa", 1) @@ S("lock", 1))
        @@ "tb" :> Bag(P2Place, S("Pb", 1))
P2Output == "s1" :> Posts(P2Place, "Py" :> 1)
         @@ "s2" :> Posts(P2Place, "Pa" :> 1)
         @@ "ta" :> Posts(P2Place, "lock" :> 1)
         @@ "tb" :> Posts(P2Place, Blank)
P2Priority == "s1" :> 3 @@ "s2" :> 2 @@ "ta" :> 1 @@ "tb" :> 0
P2Initial == Bag(P2Place, S("lock", 1) @@ S("Px", 1) @@ S("Pa", 1) @@ S("Pb", 1))
P2Goal == Bag(P2Place, Blank)
P2Synchronous == {"s1", "s2"}
P2Returns == "s1" :> {"Success"} @@ "s2" :> {"Success"}
          @@ "ta" :> Colours @@ "tb" :> {"Success"}
=============================================================================
