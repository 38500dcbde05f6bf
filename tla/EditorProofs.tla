------------------------------- MODULE EditorProofs -------------------------------
(***************************************************************************)
(* Proofs about the editor's dispatch: whatever is picked, queued, loaded  *)
(* and undone in whatever order, for any files and any number of updates.  *)
(***************************************************************************)
EXTENDS Editor, ReducerProofs

-----------------------------------------------------------------------------
(***************************************************************************)
(* What survives an edit at a bad index.                                   *)
(***************************************************************************)

(***************************************************************************)
(* The vectors of a document are aligned, whatever indices are in them.    *)
(***************************************************************************)
Loose(e) ==
    /\ DOMAIN e = DOMAIN EmptyDocument
    /\ PerPlace(e)
    /\ PerTransition(e)

(***************************************************************************)
(* The reducers that an update may hold.                                   *)
(***************************************************************************)
OpNames == {"addPlace", "addArc", "removeArc", "arcColor", "removePlace", "removeTransition",
            "output", "move", "addToken", "fire"}

(***************************************************************************)
(* What Loose asks of a field, when the number of nodes stays.             *)
(***************************************************************************)
Kept(e, r, f) == r[f] = e[f] \/ (IsSeq(r[f]) /\ Len(r[f]) = Len(e[f]))

PlaceFields == {"place", "p_positions", "p_to_ts_n"}
TransitionFields == {"transition", "t_positions", "input_n", "output_n", "priority", "output"}

(***************************************************************************)
(* A document stays aligned when each vector is left alone or keeps its    *)
(* length.                                                                 *)
(***************************************************************************)
LEMMA LooseKept ==
    ASSUME NEW e, Loose(e), NEW r, DOMAIN r = DOMAIN EmptyDocument,
           \A f \in PlaceFields \cup TransitionFields : Kept(e, r, f)
    PROVE  Loose(r)
<1>1. PerPlace(r)
    <2>1. Kept(e, r, "place") /\ Kept(e, r, "p_positions") /\ Kept(e, r, "p_to_ts_n")
        BY DEF PlaceFields
    <2>2. QED
        BY <2>1 DEF Loose, PerPlace, Kept
<1>2. PerTransition(r)
    <2>1. /\ Kept(e, r, "transition") /\ Kept(e, r, "t_positions") /\ Kept(e, r, "input_n")
          /\ Kept(e, r, "output_n") /\ Kept(e, r, "priority") /\ Kept(e, r, "output")
        BY DEF TransitionFields
    <2>2. QED
        BY <2>1 DEF Loose, PerTransition, Kept
<1>3. QED
    BY <1>1, <1>2 DEF Loose

(***************************************************************************)
(* Nodes that come and go by one: every vector of the kind changes alike.  *)
(***************************************************************************)
LEMMA LooseResized ==
    ASSUME NEW e, Loose(e), NEW r, DOMAIN r = DOMAIN EmptyDocument, NEW n, NEW m,
           \A f \in PlaceFields : IsSeq(r[f]) /\ Len(r[f]) = n,
           \A f \in TransitionFields : IsSeq(r[f]) /\ Len(r[f]) = m
    PROVE  Loose(r)
<1>1. PerPlace(r)
    <2>1. /\ IsSeq(r.place) /\ Len(r.place) = n
          /\ IsSeq(r.p_positions) /\ Len(r.p_positions) = n
          /\ IsSeq(r.p_to_ts_n) /\ Len(r.p_to_ts_n) = n
        BY DEF PlaceFields
    <2>2. QED
        BY <2>1 DEF PerPlace
<1>2. PerTransition(r)
    <2>1. /\ IsSeq(r.transition) /\ Len(r.transition) = m
          /\ IsSeq(r.t_positions) /\ Len(r.t_positions) = m
          /\ IsSeq(r.input_n) /\ Len(r.input_n) = m
          /\ IsSeq(r.output_n) /\ Len(r.output_n) = m
          /\ IsSeq(r.priority) /\ Len(r.priority) = m
          /\ IsSeq(r.output) /\ Len(r.output) = m
        BY DEF TransitionFields
    <2>2. QED
        BY <2>1 DEF PerTransition
<1>3. QED
    BY <1>1, <1>2 DEF Loose

(***************************************************************************)
(* And the other way round.                                                *)
(***************************************************************************)
LEMMA LooseLengths ==
    ASSUME NEW e, Loose(e)
    PROVE  /\ \A f \in PlaceFields : IsSeq(e[f]) /\ Len(e[f]) = Len(e.place)
           /\ \A f \in TransitionFields : IsSeq(e[f]) /\ Len(e[f]) = Len(e.transition)
BY DEF Loose, PerPlace, PerTransition, PlaceFields, TransitionFields

(***************************************************************************)
(* Reducers that keep the number of nodes.                                 *)
(***************************************************************************)
LEMMA LooseArcEdit ==
    ASSUME NEW e, Loose(e), NEW r, NEW source, NEW t, NEW arcs,
           r = [e EXCEPT ![ArcField(source)][t] = arcs]
    PROVE  Loose(r)
<1> DEFINE field == ArcField(source)
<1>1. field \in {"input_n", "output_n"}
    BY DEF ArcField
<1>2. IsSeq(e[field])
    BY <1>1, LooseLengths DEF TransitionFields
<1>3. /\ DOMAIN r = DOMAIN EmptyDocument
      /\ r[field] = [e[field] EXCEPT ![t] = arcs]
      /\ \A f \in DOMAIN EmptyDocument \ {field} : r[f] = e[f]
    BY <1>1 DEF Loose, EmptyDocument
<1> DEFINE x == [e[field] EXCEPT ![t] = arcs]
<1>4. DOMAIN x = DOMAIN e[field] /\ x = [i \in DOMAIN x |-> x[i]]
    OBVIOUS
<1> HIDE DEF x, field
<1>5. IsSeq(x) /\ Len(x) = Len(e[field])
    BY <1>2, <1>4, SeqOver
<1>6. \A f \in PlaceFields \cup TransitionFields : f \in DOMAIN EmptyDocument
    BY DEF PlaceFields, TransitionFields, EmptyDocument
<1>7. \A f \in PlaceFields \cup TransitionFields : Kept(e, r, f)
    BY <1>3, <1>5, <1>6 DEF Kept, x
<1>8. QED
    BY <1>3, <1>7, LooseKept

(***************************************************************************)
(* A vector that gets other elements.                                      *)
(***************************************************************************)
LEMMA LooseField ==
    ASSUME NEW e, Loose(e), NEW r, NEW field \in PlaceFields \cup TransitionFields, NEW x,
           r = [e EXCEPT ![field] = x], DOMAIN x = DOMAIN e[field], x = [i \in DOMAIN x |-> x[i]]
    PROVE  Loose(r)
<1>1. IsSeq(e[field])
    BY LooseLengths
<1>2. field \in DOMAIN EmptyDocument
    BY DEF PlaceFields, TransitionFields, EmptyDocument
<1>3. DOMAIN r = DOMAIN EmptyDocument /\ r[field] = x /\ \A f \in DOMAIN EmptyDocument \ {field} : r[f] = e[f]
    BY <1>2 DEF Loose
<1>4. IsSeq(x) /\ Len(x) = Len(e[field])
    BY <1>1, SeqOver
<1>5. \A f \in PlaceFields \cup TransitionFields : f \in DOMAIN EmptyDocument
    BY DEF PlaceFields, TransitionFields, EmptyDocument
<1>6. \A f \in PlaceFields \cup TransitionFields : Kept(e, r, f)
    BY <1>3, <1>4, <1>5 DEF Kept
<1>7. QED
    BY <1>3, <1>6, LooseKept

(***************************************************************************)
(* Tokens, log and file name do not matter to the alignment of the         *)
(* vectors.                                                                *)
(***************************************************************************)
LEMMA LooseElsewhere ==
    ASSUME NEW e, Loose(e), NEW r, DOMAIN r = DOMAIN EmptyDocument,
           \A f \in DOMAIN EmptyDocument \ {"tokens", "log", "active_file"} : r[f] = e[f]
    PROVE  Loose(r)
<1>1. \A f \in PlaceFields \cup TransitionFields : f \in DOMAIN EmptyDocument \ {"tokens", "log", "active_file"}
    BY DEF PlaceFields, TransitionFields, EmptyDocument
<1>2. \A f \in PlaceFields \cup TransitionFields : Kept(e, r, f)
    BY <1>1 DEF Kept
<1>3. QED
    BY <1>2, LooseKept

(***************************************************************************)
(* The reducers of arcs, colours and tokens (reducers.cpp) add and remove  *)
(* no node, so the vectors stay aligned at any index.                      *)
(***************************************************************************)
LEMMA LooseEdits ==
    ASSUME NEW e, Loose(e), NEW t, NEW p, NEW source, NEW sub, NEW color
    PROVE  /\ Loose(addArc(source, p, t, color, e))
           /\ Loose(removeArc(source, t, sub, e))
           /\ Loose(updateArcColor(source, t, sub, color, e))
           /\ Loose(updateTransitionOutputColor(t, color, e))
           /\ Loose(addTokenToPlace(p, color, e))
           /\ Loose(tryFire(t, e))
<1>1. Loose(addArc(source, p, t, color, e))
    <2> DEFINE m == [e EXCEPT ![ArcField(source)][t] = Append(@, <<p, color>>)]
    <2> DEFINE old == e.p_to_ts_n
    <2> DEFINE y == IF source = "Place" THEN old[p] \cup {t} ELSE old[p]
    <2> DEFINE x == [old EXCEPT ![p] = y]
    <2> DEFINE r == [m EXCEPT !["p_to_ts_n"] = x]
    <2>1. addArc(source, p, t, color, e) = r
        <3>1. addArc(source, p, t, color, e) = [m EXCEPT !.p_to_ts_n = [e.p_to_ts_n EXCEPT ![p] = y]]
            BY DEF addArc, ArcField
        <3>2. QED
            BY <3>1
    <2>2. Loose(m)
        BY LooseArcEdit
    <2>3. m.p_to_ts_n = old
        BY DEF ArcField
    <2> HIDE DEF y, m, old
    <2>3a. DOMAIN x = DOMAIN m.p_to_ts_n /\ x = [i \in DOMAIN x |-> x[i]]
        BY <2>3
    <2> HIDE DEF x
    <2>4. "p_to_ts_n" \in PlaceFields \cup TransitionFields
        BY DEF PlaceFields
    <2>5. Loose(r)
        BY <2>2, <2>3a, <2>4, LooseField
    <2>6. QED
        BY <2>1, <2>5
<1> DEFINE old == e[ArcField(source)][t]
<1>2. Loose(removeArc(source, t, sub, e))
    <2> DEFINE arcs == IF sub \in DOMAIN old THEN RemoveAt(old, sub) ELSE old
    <2>1. removeArc(source, t, sub, e) = [e EXCEPT ![ArcField(source)][t] = arcs]
        BY DEF removeArc
    <2> HIDE DEF arcs
    <2>2. QED
        BY <2>1, LooseArcEdit
<1>3. Loose(updateArcColor(source, t, sub, color, e))
    <2> DEFINE arcs == [old EXCEPT ![sub][2] = color]
    <2>1. updateArcColor(source, t, sub, color, e) = [e EXCEPT ![ArcField(source)][t] = arcs]
        BY DEF updateArcColor
    <2> HIDE DEF arcs
    <2>2. QED
        BY <2>1, LooseArcEdit
<1>4. Loose(updateTransitionOutputColor(t, color, e))
    <2> DEFINE x == [e.output EXCEPT ![t] = color]
    <2>1. DOMAIN x = DOMAIN e.output /\ x = [i \in DOMAIN x |-> x[i]]
        OBVIOUS
    <2>2. updateTransitionOutputColor(t, color, e) = [e EXCEPT !["output"] = x]
        BY DEF updateTransitionOutputColor
    <2>3. "output" \in PlaceFields \cup TransitionFields
        BY DEF TransitionFields
    <2> HIDE DEF x
    <2>4. QED
        BY <2>1, <2>2, <2>3, LooseField
<1>5. Loose(addTokenToPlace(p, color, e))
    <2>1. LET r == addTokenToPlace(p, color, e)
          IN  DOMAIN r = DOMAIN EmptyDocument
              /\ \A f \in DOMAIN EmptyDocument \ {"tokens", "log", "active_file"} : r[f] = e[f]
        BY DEF addTokenToPlace, Loose, EmptyDocument
    <2>2. QED
        BY <2>1, LooseElsewhere
<1>6. Loose(tryFire(t, e))
    <2>1. LET r == tryFire(t, e)
          IN  DOMAIN r = DOMAIN EmptyDocument
              /\ \A f \in DOMAIN EmptyDocument \ {"tokens", "log", "active_file"} : r[f] = e[f]
        BY DEF tryFire, Loose, EmptyDocument
    <2>2. QED
        BY <2>1, LooseElsewhere
<1>7. QED
    BY <1>1, <1>2, <1>3, <1>4, <1>5, <1>6

(***************************************************************************)
(* moveNode of reducers.cpp keeps the vectors aligned, whatever is         *)
(* selected.                                                               *)
(***************************************************************************)
LEMMA LooseMove ==
    ASSUME NEW e, Loose(e), NEW ts, NEW ps
    PROVE  Loose(moveNode(ts, ps, e))
<1> DEFINE x == [t \in DOMAIN e.t_positions |-> IF t \in ts THEN Other(e.t_positions[t]) ELSE e.t_positions[t]]
<1> DEFINE m == [e EXCEPT !["t_positions"] = x]
<1> DEFINE y == [p \in DOMAIN m.p_positions |-> IF p \in ps THEN Other(m.p_positions[p]) ELSE m.p_positions[p]]
<1> DEFINE r == [m EXCEPT !["p_positions"] = y]
<1>1. DOMAIN x = DOMAIN e.t_positions /\ x = [i \in DOMAIN x |-> x[i]]
    OBVIOUS
<1>2. DOMAIN y = DOMAIN m.p_positions /\ y = [i \in DOMAIN y |-> y[i]]
    OBVIOUS
<1>3. moveNode(ts, ps, e) = r
    BY DEF moveNode
<1>4. "t_positions" \in TransitionFields /\ "p_positions" \in PlaceFields
    BY DEF TransitionFields, PlaceFields
<1> HIDE DEF x
<1>5. Loose(m)
    BY <1>1, <1>4, LooseField
<1> HIDE DEF y, m
<1>6. Loose(r)
    BY <1>2, <1>4, <1>5, LooseField
<1>7. QED
    BY <1>3, <1>6

(***************************************************************************)
(* Nodes that come and go.                                                 *)
(***************************************************************************)
LEMMA LooseNodes ==
    ASSUME NEW e, Loose(e), NEW k
    PROVE  Loose(addPlace(e)) /\ Loose(removePlace(k, e)) /\ Loose(removeTransition(k, e))
<1>0. \A f \in PlaceFields \cup TransitionFields : f \in DOMAIN EmptyDocument
    BY DEF PlaceFields, TransitionFields, EmptyDocument
<1>1. Loose(addPlace(e))
    <2> DEFINE r == addPlace(e)
    <2>1. /\ DOMAIN r = DOMAIN EmptyDocument
          /\ \A f \in PlaceFields : \E x : r[f] = Append(e[f], x)
          /\ \A f \in TransitionFields : r[f] = e[f]
        BY DEF addPlace, Loose, EmptyDocument, PlaceFields, TransitionFields
    <2> HIDE DEF r
    <2>2. ASSUME NEW f \in PlaceFields
          PROVE  IsSeq(r[f]) /\ Len(r[f]) = Len(e.place) + 1
        <3>1. IsSeq(e[f]) /\ Len(e[f]) = Len(e.place)
            BY LooseLengths
        <3>2. PICK x : r[f] = Append(e[f], x)
            BY <2>1
        <3>3. QED
            BY <3>1, <3>2, SeqAppend
    <2>3. \A f \in TransitionFields : IsSeq(r[f]) /\ Len(r[f]) = Len(e.transition)
        BY <2>1, LooseLengths
    <2>4. Loose(r)
        BY <2>1, <2>2, <2>3, LooseResized
    <2>5. QED
        BY <2>4 DEF r
<1>2. Loose(removePlace(k, e))
    <2> DEFINE r == removePlace(k, e)
    <2>1. CASE k \notin DOMAIN e.place
        BY <2>1 DEF removePlace
    <2>2. CASE k \in DOMAIN e.place
        <3>1. /\ DOMAIN r = DOMAIN EmptyDocument
              /\ \A f \in PlaceFields : r[f] = RemoveAt(e[f], k)
              /\ \A f \in TransitionFields \ {"input_n", "output_n"} : r[f] = e[f]
              /\ \A f \in {"input_n", "output_n"} :
                    DOMAIN r[f] = DOMAIN e[f] /\ r[f] = [i \in DOMAIN r[f] |-> r[f][i]]
            BY <2>2 DEF removePlace, Loose, EmptyDocument, PlaceFields, TransitionFields
        <3> HIDE DEF r
        <3>2. k \in 1 .. Len(e.place)
            BY <2>2, SeqElim DEF Loose, PerPlace
        <3>3. ASSUME NEW f \in PlaceFields
              PROVE  IsSeq(r[f]) /\ Len(r[f]) = Len(e.place) - 1
            <4>1. IsSeq(e[f]) /\ Len(e[f]) = Len(e.place) /\ r[f] = RemoveAt(e[f], k)
                BY <3>1, LooseLengths
            <4>2. QED
                BY <3>2, <4>1, SeqRemove
        <3>4. \A f \in TransitionFields : IsSeq(r[f]) /\ Len(r[f]) = Len(e.transition)
            <4>1. \A f \in {"input_n", "output_n"} : IsSeq(r[f]) /\ Len(r[f]) = Len(e[f])
                <5>1. \A f \in {"input_n", "output_n"} : IsSeq(e[f])
                    BY LooseLengths DEF TransitionFields
                <5>2. QED
                    BY <3>1, <5>1, SeqOver
            <4>2. QED
                BY <3>1, <4>1, LooseLengths
        <3>5. Loose(r)
            BY <3>1, <3>3, <3>4, LooseResized
        <3>6. QED
            BY <3>5 DEF r
    <2>3. QED
        BY <2>1, <2>2
<1>3. Loose(removeTransition(k, e))
    <2> DEFINE r == removeTransition(k, e)
    <2>1. CASE k \notin DOMAIN e.transition
        BY <2>1 DEF removeTransition
    <2>2. CASE k \in DOMAIN e.transition
        <3>1. /\ DOMAIN r = DOMAIN EmptyDocument
              /\ \A f \in TransitionFields : r[f] = RemoveAt(e[f], k)
              /\ \A f \in PlaceFields \ {"p_to_ts_n"} : r[f] = e[f]
              /\ DOMAIN r.p_to_ts_n = DOMAIN e.p_to_ts_n
              /\ r.p_to_ts_n = [i \in DOMAIN r.p_to_ts_n |-> r.p_to_ts_n[i]]
            BY <2>2 DEF removeTransition, Loose, EmptyDocument, PlaceFields, TransitionFields
        <3> HIDE DEF r
        <3>2. k \in 1 .. Len(e.transition)
            BY <2>2, SeqElim DEF Loose, PerTransition
        <3>3. ASSUME NEW f \in TransitionFields
              PROVE  IsSeq(r[f]) /\ Len(r[f]) = Len(e.transition) - 1
            <4>1. IsSeq(e[f]) /\ Len(e[f]) = Len(e.transition) /\ r[f] = RemoveAt(e[f], k)
                BY <3>1, LooseLengths
            <4>2. QED
                BY <3>2, <4>1, SeqRemove, SMTT(60), ZenonT(60)
        <3>4. \A f \in PlaceFields : IsSeq(r[f]) /\ Len(r[f]) = Len(e.place)
            <4>1. IsSeq(r.p_to_ts_n) /\ Len(r.p_to_ts_n) = Len(e.place)
                <5>1. IsSeq(e.p_to_ts_n) /\ Len(e.p_to_ts_n) = Len(e.place)
                    BY DEF Loose, PerPlace
                <5>2. QED
                    BY <3>1, <5>1, SeqOver
            <4>2. QED
                BY <3>1, <4>1, LooseLengths
        <3>5. Loose(r)
            BY <3>1, <3>3, <3>4, LooseResized
        <3>6. QED
            BY <3>5 DEF r
    <2>3. QED
        BY <2>1, <2>2
<1>4. QED
    BY <1>1, <1>2, <1>3

(***************************************************************************)
(* No reducer gets the vectors out of step, whatever its index.            *)
(***************************************************************************)
LEMMA LooseApplied ==
    ASSUME NEW e, Loose(e), NEW op, op.f \in OpNames
    PROVE  Loose(Applied(op, e))
<1>1. CASE op.f \in {"addPlace", "removePlace", "removeTransition"}
    BY <1>1, LooseNodes DEF Applied
<1>2. CASE op.f \in {"addArc", "removeArc", "arcColor"}
    BY <1>2, LooseEdits DEF Applied
<1>3. CASE op.f \in {"output", "addToken", "fire"}
    BY <1>3, LooseEdits DEF Applied
<1>4. CASE op.f = "move"
    BY <1>4, LooseMove DEF Applied
<1>5. QED
    BY <1>1, <1>2, <1>3, <1>4 DEF OpNames

(***************************************************************************)
(* A load that comes in then.                                              *)
(***************************************************************************)
LEMMA LooseInstalled ==
    ASSUME NEW e, Loose(e), NEW p, ParsedSound(p), NEW file
    PROVE  Loose(clearInstaller(p, file, e)) /\ Loose(appendInstaller(p, file, e))
<1>1. Loose(clearInstaller(p, file, e))
    <2> DEFINE r == clearInstaller(p, file, e)
    <2>1. /\ DOMAIN r = DOMAIN EmptyDocument
          /\ r.place = Arriving(p.place, e.place) /\ r.transition = Arriving(p.transition, e.transition)
          /\ r.p_positions = p.p_positions /\ r.t_positions = p.t_positions
          /\ r.p_to_ts_n = createReversePlaceToTransitionLookup(Len(p.place), p.input_n)
          /\ r.input_n = p.input_n /\ r.output_n = p.output_n
          /\ r.priority = p.priority /\ r.output = p.output
        BY DEF clearInstaller, Loose, EmptyDocument
    <2> HIDE DEF r
    <2>2. /\ IsSeq(r.place) /\ Len(r.place) = Len(p.place)
          /\ IsSeq(r.transition) /\ Len(r.transition) = Len(p.transition)
        BY <2>1, ArrivingFacts DEF ParsedSound
    <2>3. IsSeq(r.p_to_ts_n) /\ Len(r.p_to_ts_n) = Len(p.place)
        BY <2>1, SeqElim, ReverseFacts DEF ParsedSound, ArcsSound
    <2>4. PerPlace(r) /\ PerTransition(r)
        BY <2>1, <2>2, <2>3 DEF PerPlace, PerTransition, ParsedSound
    <2>5. Loose(r)
        BY <2>1, <2>4 DEF Loose
    <2>6. QED
        BY <2>5 DEF r
<1>2. Loose(appendInstaller(p, file, e))
    <2> DEFINE r == appendInstaller(p, file, e)
    <2> DEFINE base == Len(e.place)
    <2> DEFINE offset(arcs) == [i \in DOMAIN arcs |-> <<arcs[i][1] + base, arcs[i][2]>>]
    <2> DEFINE ins == [t \in DOMAIN p.input_n |-> offset(p.input_n[t])]
    <2> DEFINE outs == [t \in DOMAIN p.output_n |-> offset(p.output_n[t])]
    <2> DEFINE n == base + Len(p.place)
    <2>1. /\ DOMAIN r = DOMAIN EmptyDocument
          /\ r.place = e.place \o Arriving(p.place, e.place)
          /\ r.transition = e.transition \o Arriving(p.transition, e.transition)
          /\ r.p_positions = e.p_positions \o p.p_positions
          /\ r.t_positions = e.t_positions \o p.t_positions
          /\ r.p_to_ts_n = createReversePlaceToTransitionLookup(n, e.input_n \o ins)
          /\ r.input_n = e.input_n \o ins
          /\ r.output_n = e.output_n \o outs
          /\ r.priority = e.priority \o p.priority /\ r.output = e.output \o p.output
        BY DEF appendInstaller, Loose, EmptyDocument
    <2>2. /\ DOMAIN ins = DOMAIN p.input_n /\ ins = [i \in DOMAIN ins |-> ins[i]]
          /\ DOMAIN outs = DOMAIN p.output_n /\ outs = [i \in DOMAIN outs |-> outs[i]]
        OBVIOUS
    <2> HIDE DEF r, ins, outs
    <2>3. /\ IsSeq(ins) /\ Len(ins) = Len(p.transition)
          /\ IsSeq(outs) /\ Len(outs) = Len(p.transition)
        BY <2>2, SeqOver DEF ParsedSound
    <2>4. n \in Nat
        <3>1. Len(e.place) \in Nat /\ Len(p.place) \in Nat
            BY SeqElim DEF ParsedSound, Loose, PerPlace
        <3>2. \A a, b \in Nat : a + b \in Nat
            OBVIOUS
        <3>3. QED
            BY <3>1, <3>2
    <2>5. r.p_to_ts_n = [q \in 1 .. n |-> r.p_to_ts_n[q]]
        BY <2>1 DEF createReversePlaceToTransitionLookup
    <2>6. IsSeq(r.p_to_ts_n) /\ Len(r.p_to_ts_n) = n
        BY <2>4, <2>5, SeqIntro
    <2>7. /\ IsSeq(Arriving(p.place, e.place)) /\ Len(Arriving(p.place, e.place)) = Len(p.place)
          /\ IsSeq(Arriving(p.transition, e.transition))
          /\ Len(Arriving(p.transition, e.transition)) = Len(p.transition)
        BY ArrivingFacts DEF ParsedSound
    <2> HIDE DEF n
    <2>8. PICK n1 \in Nat, n2 \in Nat, n3 \in Nat, n4 \in Nat :
            n1 = Len(e.place) /\ n2 = Len(p.place) /\ n3 = Len(e.transition) /\ n4 = Len(p.transition)
        BY SeqElim DEF Loose, PerPlace, PerTransition, ParsedSound
    <2>10. /\ IsSeq(r.place) /\ Len(r.place) = n1 + n2
           /\ IsSeq(r.p_positions) /\ Len(r.p_positions) = n1 + n2
        <3>1. /\ IsSeq(e.place) /\ IsSeq(e.p_positions) /\ Len(e.p_positions) = n1
              /\ IsSeq(p.p_positions) /\ Len(p.p_positions) = n2
            BY <2>8 DEF Loose, PerPlace, ParsedSound
        <3>2. IsSeq(r.place) /\ Len(r.place) = n1 + n2
            <4>1. r.place = e.place \o Arriving(p.place, e.place) /\ Len(e.place) = n1
                  /\ IsSeq(Arriving(p.place, e.place)) /\ Len(Arriving(p.place, e.place)) = n2
                BY <2>1, <2>7, <2>8
            <4>2. IsSeq(r.place)
                BY <4>1, <3>1, SeqConcat
            <4>3. Len(r.place) = Len(e.place) + Len(Arriving(p.place, e.place))
                BY <4>1, <3>1, SeqConcat, SMTT(60), ZenonT(60)
            <4>4. QED
                BY <4>1, <4>2, <4>3
        <3>3. IsSeq(r.p_positions) /\ Len(r.p_positions) = n1 + n2
            <4>1. r.p_positions = e.p_positions \o p.p_positions
                BY <2>1
            <4>2. IsSeq(r.p_positions)
                BY <4>1, <3>1, SeqConcat
            <4>3. Len(e.p_positions \o p.p_positions) = Len(e.p_positions) + Len(p.p_positions)
                BY <3>1, SeqConcat
            <4>4. QED
                BY <3>1, <4>1, <4>2, <4>3
        <3>4. QED
            BY <3>2, <3>3
    <2>11. ASSUME NEW f \in TransitionFields
           PROVE  IsSeq(r[f]) /\ Len(r[f]) = n3 + n4
        <3>1. IsSeq(e[f]) /\ Len(e[f]) = n3
            BY <2>8, LooseLengths
        <3>2. \E b : r[f] = e[f] \o b /\ IsSeq(b) /\ Len(b) = n4
            <4>1. /\ IsSeq(p.t_positions) /\ Len(p.t_positions) = n4
                  /\ IsSeq(p.priority) /\ Len(p.priority) = n4
                  /\ IsSeq(p.output) /\ Len(p.output) = n4
                BY <2>8 DEF ParsedSound
            <4>2. CASE f = "transition"
                BY <4>2, <2>1, <2>7, <2>8
            <4>3. CASE f = "t_positions"
                BY <4>1, <4>3, <2>1
            <4>4. CASE f = "input_n"
                BY <4>4, <2>1, <2>3, <2>8
            <4>5. CASE f = "output_n"
                BY <4>5, <2>1, <2>3, <2>8
            <4>6. CASE f = "priority"
                BY <4>1, <4>6, <2>1
            <4>7. CASE f = "output"
                BY <4>1, <4>7, <2>1
            <4>8. QED
                BY <4>2, <4>3, <4>4, <4>5, <4>6, <4>7 DEF TransitionFields
        <3>3. PICK b : r[f] = e[f] \o b /\ IsSeq(b) /\ Len(b) = n4
            BY <3>2
        <3>4. IsSeq(r[f])
            BY <3>1, <3>3, SeqConcat
        <3>5. Len(r[f]) = Len(e[f]) + Len(b)
            BY <3>1, <3>3, SeqConcat
        <3>6. QED
            BY <3>1, <3>3, <3>4, <3>5
    <2>12. \A f \in PlaceFields : IsSeq(r[f]) /\ Len(r[f]) = n1 + n2
        BY <2>6, <2>8, <2>10 DEF PlaceFields, n
    <2>13. Loose(r)
        BY <2>1, <2>11, <2>12, LooseResized
    <2>14. QED
        BY <2>13 DEF r
<1>3. QED
    BY <1>1, <1>2

-----------------------------------------------------------------------------
(***************************************************************************)
(* What an edit does to the nodes and arcs that others have picked.        *)
(***************************************************************************)

(***************************************************************************)
(* An operation is given the picks that its reducer needs, and no other.   *)
(***************************************************************************)
Given(op) ==
    /\ op.f \in OpNames
    /\ op.f = "addPlace" => op.t = None /\ op.p = None
    /\ op.f = "addArc" => op.t # None /\ op.p # None /\ op.arg \in {"Place", "Transition"}
    /\ op.f \in {"removeArc", "arcColor", "fire", "output", "removeTransition"} => op.t # None /\ op.p = None
    /\ op.f \in {"addToken", "removePlace"} => op.t = None /\ op.p # None

(***************************************************************************)
(* Nodes keep their index; arcs keep theirs.                               *)
(***************************************************************************)
NodesStay(e, r) ==
    /\ \A k \in DOMAIN e.place : k \in DOMAIN r.place /\ r.place[k].id = e.place[k].id
    /\ \A k \in DOMAIN e.transition : k \in DOMAIN r.transition /\ r.transition[k].id = e.transition[k].id

ArcsStay(e, r) ==
    \A field \in {"input_n", "output_n"}, t \in DOMAIN e.transition : DOMAIN e[field][t] \subseteq DOMAIN r[field][t]

(***************************************************************************)
(* What was meant, and in range, stays so.                                 *)
(***************************************************************************)
LEMMA StillMeant ==
    ASSUME NEW e, NEW r, NodesStay(e, r), ArcsStay(e, r), NEW op, Given(op), Means(op, e), InVectors(op, e)
    PROVE  Means(op, r) /\ InVectors(op, r)
<1>1. Means(op, r)
    BY DEF Means, NodesStay
<1>2. op.f \notin {"removeTransition"} => op.t = None \/ op.t[1] \in DOMAIN r.transition
    BY DEF InVectors, NodesStay
<1>3. op.f = "move" \/ (op.f = "addArc" /\ op.arg = "Place") => op.p = None \/ op.p[1] \in DOMAIN r.place
    BY DEF InVectors, NodesStay
<1>4. op.f = "arcColor" => op.arg[2] \in DOMAIN r[ArcField(op.arg[1])][op.t[1]]
    <2>1. SUFFICES ASSUME op.f = "arcColor"
                   PROVE  op.arg[2] \in DOMAIN r[ArcField(op.arg[1])][op.t[1]]
        OBVIOUS
    <2>2. op.t[1] \in DOMAIN e.transition /\ op.arg[2] \in DOMAIN e[ArcField(op.arg[1])][op.t[1]]
        BY <2>1 DEF InVectors, Given
    <2>3. ArcField(op.arg[1]) \in {"input_n", "output_n"}
        BY DEF ArcField
    <2>4. QED
        BY <2>2, <2>3 DEF ArcsStay
<1>5. QED
    BY <1>1, <1>2, <1>3, <1>4 DEF InVectors

(***************************************************************************)
(* One arc less.  `removeArc' at an index behind the last does nothing.    *)
(***************************************************************************)
LEMMA RemoveArcAnySound ==
    ASSUME NEW e, Structure(e), NEW source, NEW t \in 1 .. Len(e.transition), NEW sub
    PROVE  LET r == removeArc(source, t, sub, e)
           IN  Structure(r) /\ (TokensInRange(e) => TokensInRange(r))
<1> DEFINE field == ArcField(source)
<1> DEFINE arcs == e[field][t]
<1> DEFINE r == removeArc(source, t, sub, e)
<1>1. CASE sub \in DOMAIN arcs
    BY <1>1, RemoveArcSound
<1>2. CASE sub \notin DOMAIN arcs
    <2>1. field \in {"input_n", "output_n"}
        BY DEF ArcField
    <2>2. r = [e EXCEPT ![field] = [e[field] EXCEPT ![t] = arcs]]
        BY <1>2 DEF removeArc
    <2>3. SameBut(e, r, {field, "p_to_ts_n"}) /\ r.p_to_ts_n = e.p_to_ts_n
          /\ r[field] = [e[field] EXCEPT ![t] = arcs]
        BY <2>1, <2>2 DEF SameBut, EmptyDocument, Structure
    <2>4. ArcsTo(arcs, Len(e.place))
        BY <2>1 DEF Structure, ArcsSound
    <2> HIDE DEF r, arcs, field
    <2>5. field = "input_n" => \A j \in 1 .. Len(arcs) : t \in r.p_to_ts_n[arcs[j][1]]
        BY <2>3 DEF Structure, LookupSound, arcs
    <2>6. IsSeq(r.p_to_ts_n) /\ Len(r.p_to_ts_n) = Len(e.place)
          /\ \A p \in 1 .. Len(e.place) : r.p_to_ts_n[p] \subseteq 1 .. Len(e.transition)
        BY <2>3 DEF Structure, PerPlace, LookupSound
    <2>7. Structure(r) /\ (TokensInRange(e) => TokensInRange(r))
        BY <2>1, <2>3, <2>4, <2>5, <2>6, ArcsReplaced
    <2>8. QED
        BY <2>7 DEF r
<1>3. QED
    BY <1>1, <1>2

(***************************************************************************)
(* An operation that hits what was meant keeps the document sound.         *)
(***************************************************************************)
LEMMA AppliedSound ==
    ASSUME NEW e, Structure(e), NEW op, Given(op), Means(op, e), InVectors(op, e)
    PROVE  LET r == Applied(op, e)
           IN  Structure(r) /\ (TokensInRange(e) => TokensInRange(r))
<1> DEFINE r == Applied(op, e)
<1>1. /\ DOMAIN e.place = 1 .. Len(e.place)
      /\ DOMAIN e.transition = 1 .. Len(e.transition)
    BY SeqElim DEF Structure, PerPlace, PerTransition
<1>2. op.t # None /\ op.f # "move" => op.t[1] \in 1 .. Len(e.transition)
    BY <1>1 DEF Means, InVectors
<1>3. op.p # None /\ op.f # "move" => op.p[1] \in 1 .. Len(e.place)
    BY <1>1 DEF Means, Given
<1>4. CASE op.f = "addPlace"
    BY <1>4, AddPlaceSound DEF Applied
<1>5. CASE op.f = "addArc"
    BY <1>2, <1>3, <1>5, AddArcSound DEF Applied, Given
<1>6. CASE op.f = "removeArc"
    BY <1>2, <1>6, RemoveArcAnySound DEF Applied, Given
<1>7. CASE op.f = "arcColor"
    BY <1>2, <1>7, UpdateArcColorSound DEF Applied, Given, InVectors
<1>8. CASE op.f = "removePlace"
    BY <1>3, <1>8, RemovePlaceSound DEF Applied, Given
<1>9. CASE op.f = "removeTransition"
    BY <1>2, <1>9, RemoveTransitionSound DEF Applied, Given
<1>10. CASE op.f = "output"
    BY <1>10, UpdateOutputColorSound DEF Applied
<1>11. CASE op.f = "move"
    BY <1>11, MoveNodeSound DEF Applied
<1>12. CASE op.f = "addToken"
    BY <1>3, <1>12, AddTokenSound DEF Applied, Given
<1>13. CASE op.f = "fire"
    BY <1>2, <1>13, TryFireSound DEF Applied, Given
<1>14. QED
    BY <1>4, <1>5, <1>6, <1>7, <1>8, <1>9, <1>10, <1>11, <1>12, <1>13 DEF Given, OpNames

(***************************************************************************)
(* Operations on arcs leave the nodes where they are, and all but removals *)
(* the arcs.                                                               *)
(***************************************************************************)
LEMMA ArcOpsStay ==
    ASSUME NEW e, Structure(e), NEW op, Given(op), Means(op, e), InVectors(op, e),
           op.f \in {"addArc", "removeArc", "arcColor"}
    PROVE  /\ NodesStay(e, Applied(op, e))
           /\ op.f # "removeArc" => ArcsStay(e, Applied(op, e))
<1> DEFINE r == Applied(op, e)
<1>1. r.place = e.place /\ r.transition = e.transition
    BY DEF Applied, addArc, removeArc, updateArcColor, ArcField, Structure, EmptyDocument
<1>2. NodesStay(e, r)
    BY <1>1 DEF NodesStay
<1> DEFINE t == op.t[1]
<1>3. t \in DOMAIN e.transition
    BY DEF Given, InVectors
<1>4. CASE op.f = "addArc"
    <2> DEFINE field == ArcField(op.arg)
    <2> DEFINE old == e[field][t]
    <2> DEFINE new == Append(old, <<op.p[1], "Success">>)
    <2>1. /\ field \in {"input_n", "output_n"}
          /\ r[field] = [e[field] EXCEPT ![t] = new]
          /\ \A f \in {"input_n", "output_n"} \ {field} : r[f] = e[f]
        BY <1>4 DEF Applied, addArc, ArcField, Structure, EmptyDocument
    <2>2. IsSeq(old)
        BY <1>3, <2>1, SeqElim DEF Structure, PerTransition, ArcsSound, ArcsTo
    <2> HIDE DEF field, old, r
    <2>3. DOMAIN old \subseteq DOMAIN new
        <3>1. DOMAIN old = 1 .. Len(old) /\ DOMAIN new = 1 .. Len(new) /\ Len(new) = Len(old) + 1 /\ Len(old) \in Nat
            BY <2>2, SeqAppend, SeqElim
        <3> HIDE DEF new
        <3>2. QED
            BY <3>1
    <2> HIDE DEF new
    <2>4. \A f \in {"input_n", "output_n"}, u \in DOMAIN e.transition : DOMAIN e[f][u] \subseteq DOMAIN r[f][u]
        <3>1. ASSUME NEW u \in DOMAIN e.transition
              PROVE  DOMAIN e[field][u] \subseteq DOMAIN r[field][u]
            <4>1. u \in DOMAIN e[field]
                BY <2>1, SeqElim DEF Structure, PerTransition
            <4>2. CASE u = t
                <5>1. r[field][t] = new
                    BY <2>1, <4>1, <4>2
                <5>2. QED
                    BY <2>3, <4>2, <5>1 DEF old
            <4>3. CASE u # t
                BY <2>1, <4>1, <4>3
            <4>4. QED
                BY <4>2, <4>3
        <3>2. QED
            BY <2>1, <3>1
    <2>5. QED
        BY <1>2, <2>4 DEF ArcsStay, r
<1>5. CASE op.f = "removeArc"
    BY <1>2, <1>5
<1>6. CASE op.f = "arcColor"
    <2> DEFINE field == ArcField(op.arg[1])
    <2> DEFINE old == e[field][t]
    <2> DEFINE new == [old EXCEPT ![op.arg[2]][2] = "Failed"]
    <2>1. /\ field \in {"input_n", "output_n"}
          /\ r[field] = [e[field] EXCEPT ![t] = new]
          /\ \A f \in {"input_n", "output_n"} \ {field} : r[f] = e[f]
        BY <1>6 DEF Applied, updateArcColor, ArcField, Structure, EmptyDocument
    <2>2. DOMAIN new = DOMAIN old
        OBVIOUS
    <2> HIDE DEF field, old, r, new
    <2>4. \A f \in {"input_n", "output_n"}, u \in DOMAIN e.transition : DOMAIN e[f][u] \subseteq DOMAIN r[f][u]
        <3>1. ASSUME NEW u \in DOMAIN e.transition
              PROVE  DOMAIN e[field][u] \subseteq DOMAIN r[field][u]
            <4>1. u \in DOMAIN e[field]
                BY <2>1, SeqElim DEF Structure, PerTransition
            <4>2. CASE u = t
                <5>1. r[field][t] = new
                    BY <2>1, <4>1, <4>2
                <5>2. QED
                    BY <2>2, <4>2, <5>1 DEF old
            <4>3. CASE u # t
                BY <2>1, <4>1, <4>3
            <4>4. QED
                BY <4>2, <4>3
        <3>2. QED
            BY <2>1, <3>1
    <2>5. QED
        BY <1>2, <2>4 DEF ArcsStay, r
<1>7. QED
    BY <1>4, <1>5, <1>6

(***************************************************************************)
(* So do all others but the removal of a node.                             *)
(***************************************************************************)
LEMMA OpsStay ==
    ASSUME NEW e, Structure(e), NEW op, Given(op), Means(op, e), InVectors(op, e),
           op.f \notin {"removePlace", "removeTransition"}
    PROVE  /\ NodesStay(e, Applied(op, e))
           /\ op.f # "removeArc" => ArcsStay(e, Applied(op, e))
<1> DEFINE r == Applied(op, e)
<1>1. CASE op.f \in {"addArc", "removeArc", "arcColor"}
    BY <1>1, ArcOpsStay
<1>2. CASE op.f = "addPlace"
    <2> DEFINE x == [id |-> FreshId(e.place), name |-> uniqueName(e.place, "place")]
    <2>1. r.place = Append(e.place, x) /\ r.transition = e.transition
          /\ r.input_n = e.input_n /\ r.output_n = e.output_n
        BY <1>2 DEF Applied, addPlace, Structure, EmptyDocument
    <2>2. IsSeq(e.place)
        BY DEF Structure, PerPlace
    <2> HIDE DEF r, x
    <2>3. /\ DOMAIN e.place = 1 .. Len(e.place) /\ DOMAIN r.place = 1 .. Len(r.place)
          /\ Len(r.place) = Len(e.place) + 1 /\ Len(e.place) \in Nat
          /\ \A k \in 1 .. Len(e.place) : r.place[k] = e.place[k]
        BY <2>1, <2>2, SeqAppend, SeqElim
    <2>4. \A k \in DOMAIN e.place : k \in DOMAIN r.place /\ r.place[k].id = e.place[k].id
        BY <2>3
    <2>5. QED
        BY <2>1, <2>4 DEF NodesStay, ArcsStay, r
<1>3. CASE op.f \in {"output", "move", "addToken", "fire"}
    <2>1. r.place = e.place /\ r.transition = e.transition
          /\ r.input_n = e.input_n /\ r.output_n = e.output_n
        BY <1>3 DEF Applied, updateTransitionOutputColor, moveNode, addTokenToPlace, tryFire,
                    Structure, EmptyDocument
    <2> HIDE DEF r
    <2>2. QED
        BY <2>1 DEF NodesStay, ArcsStay, r
<1>4. QED
    BY <1>1, <1>2, <1>3 DEF Given, OpNames

(***************************************************************************)
(* A removal leaves the nodes of the other kind, and the ones before it.   *)
(***************************************************************************)
LEMMA RemovalsStay ==
    ASSUME NEW e, Structure(e), NEW k
    PROVE  /\ k \in DOMAIN e.place => LET r == removePlace(k, e) IN
                /\ r.transition = e.transition
                /\ \A i \in DOMAIN e.place : i < k => i \in DOMAIN r.place /\ r.place[i] = e.place[i]
           /\ k \in DOMAIN e.transition => LET r == removeTransition(k, e) IN
                /\ r.place = e.place
                /\ \A i \in DOMAIN e.transition : i < k =>
                        i \in DOMAIN r.transition /\ r.transition[i] = e.transition[i]
<1>0. ASSUME NEW s, IsSeq(s), k \in DOMAIN s
      PROVE  \A i \in DOMAIN s : i < k => i \in DOMAIN RemoveAt(s, k) /\ RemoveAt(s, k)[i] = s[i]
    <2> DEFINE x == RemoveAt(s, k)
    <2>1. /\ DOMAIN s = 1 .. Len(s) /\ Len(s) \in Nat /\ k \in 1 .. Len(s)
        BY <1>0, SeqElim
    <2>2. /\ IsSeq(x) /\ Len(x) = Len(s) - 1
          /\ \A i \in 1 .. Len(s) - 1 : x[i] = IF i < k THEN s[i] ELSE s[i + 1]
        BY <1>0, <2>1, SeqRemove
    <2>3. DOMAIN x = 1 .. Len(x)
        BY <2>2, SeqElim
    <2> HIDE DEF x
    <2>4. QED
        BY <2>1, <2>2, <2>3 DEF x
<1>1. IsSeq(e.place) /\ IsSeq(e.transition)
    BY DEF Structure, PerPlace, PerTransition
<1>2. ASSUME k \in DOMAIN e.place
      PROVE  removePlace(k, e).transition = e.transition /\ removePlace(k, e).place = RemoveAt(e.place, k)
    BY <1>2 DEF removePlace, Structure, EmptyDocument
<1>3. ASSUME k \in DOMAIN e.transition
      PROVE  removeTransition(k, e).place = e.place
             /\ removeTransition(k, e).transition = RemoveAt(e.transition, k)
    BY <1>3 DEF removeTransition, Structure, EmptyDocument
<1>4. QED
    BY <1>0, <1>1, <1>2, <1>3

(***************************************************************************)
(* A net that is appended leaves everything that was there.                *)
(***************************************************************************)
LEMMA AppendStays ==
    ASSUME NEW e, Structure(e), NEW p, ParsedSound(p), NEW file
    PROVE  LET r == appendInstaller(p, file, e)
           IN  NodesStay(e, r) /\ ArcsStay(e, r)
<1> DEFINE r == appendInstaller(p, file, e)
<1> DEFINE offset(arcs) == [i \in DOMAIN arcs |-> <<arcs[i][1] + Len(e.place), arcs[i][2]>>]
<1> DEFINE ins == [t \in DOMAIN p.input_n |-> offset(p.input_n[t])]
<1> DEFINE outs == [t \in DOMAIN p.output_n |-> offset(p.output_n[t])]
<1> DEFINE ps == Arriving(p.place, e.place)
<1> DEFINE ts == Arriving(p.transition, e.transition)
<1>1. /\ r.place = e.place \o ps /\ r.transition = e.transition \o ts
      /\ r.input_n = e.input_n \o ins /\ r.output_n = e.output_n \o outs
    BY DEF appendInstaller, Structure, EmptyDocument
<1>2. /\ DOMAIN ins = DOMAIN p.input_n /\ ins = [i \in DOMAIN ins |-> ins[i]]
      /\ DOMAIN outs = DOMAIN p.output_n /\ outs = [i \in DOMAIN outs |-> outs[i]]
    OBVIOUS
<1> HIDE DEF r, ins, outs
<1>3. IsSeq(ins) /\ IsSeq(outs)
    BY <1>2, SeqOver DEF ParsedSound
<1>4. IsSeq(ps) /\ IsSeq(ts)
    BY ArrivingFacts DEF ParsedSound
<1>5. /\ IsSeq(e.place) /\ IsSeq(e.transition)
      /\ IsSeq(e.input_n) /\ Len(e.input_n) = Len(e.transition)
      /\ IsSeq(e.output_n) /\ Len(e.output_n) = Len(e.transition)
    BY DEF Structure, PerPlace, PerTransition
<1> HIDE DEF ps, ts
<1>6. ASSUME NEW a, NEW b, IsSeq(a), IsSeq(b)
      PROVE  \A k \in DOMAIN a : k \in DOMAIN (a \o b) /\ (a \o b)[k] = a[k]
    <2> DEFINE x == a \o b
    <2>1. /\ IsSeq(x) /\ Len(x) = Len(a) + Len(b)
          /\ \A k \in 1 .. Len(a) : x[k] = a[k]
        BY <1>6, SeqConcat
    <2>2. /\ DOMAIN x = 1 .. Len(x) /\ DOMAIN a = 1 .. Len(a)
          /\ Len(a) \in Nat /\ Len(b) \in Nat
        BY <1>6, <2>1, SeqElim
    <2> HIDE DEF x
    <2>3. QED
        BY <2>1, <2>2 DEF x
<1> DEFINE Extends(x, a) == \A k \in DOMAIN a : k \in DOMAIN x /\ x[k] = a[k]
<1>7. /\ Extends(e.place \o ps, e.place) /\ Extends(e.transition \o ts, e.transition)
      /\ Extends(e.input_n \o ins, e.input_n) /\ Extends(e.output_n \o outs, e.output_n)
    <2>1. Extends(e.place \o ps, e.place)
        BY <1>4, <1>5, <1>6
    <2>2. Extends(e.transition \o ts, e.transition)
        BY <1>4, <1>5, <1>6
    <2>3. Extends(e.input_n \o ins, e.input_n)
        BY <1>3, <1>5, <1>6
    <2>4. Extends(e.output_n \o outs, e.output_n)
        BY <1>3, <1>5, <1>6
    <2> HIDE DEF Extends
    <2>5. QED
        BY <2>1, <2>2, <2>3, <2>4
<1> HIDE DEF Extends
<1>8. /\ Extends(r.place, e.place) /\ Extends(r.transition, e.transition)
      /\ Extends(r.input_n, e.input_n) /\ Extends(r.output_n, e.output_n)
    BY <1>1, <1>7
<1>9. DOMAIN e.input_n = DOMAIN e.transition /\ DOMAIN e.output_n = DOMAIN e.transition
    BY <1>5, SeqElim
<1>10. QED
    BY <1>8, <1>9 DEF Extends, NodesStay, ArcsStay, r

-----------------------------------------------------------------------------
(***************************************************************************)
(* The edits of a batch, one after the other.                              *)
(***************************************************************************)

(***************************************************************************)
(* The removals of `deleteSelected': by descending index for each kind.    *)
(***************************************************************************)
Deletes(ops) ==
    \A i \in 1 .. Len(ops) :
        /\ ops[i].f \in {"removePlace", "removeTransition"}
        /\ \A j \in 1 .. Len(ops) : i < j /\ ops[i].f = ops[j].f =>
                IF ops[i].f = "removePlace" THEN ops[j].p[1] < ops[i].p[1] ELSE ops[j].t[1] < ops[i].t[1]

(***************************************************************************)
(* What is pushed as one edit: an operation, a drag or `deleteSelected'.   *)
(***************************************************************************)
Batch(ops) ==
    /\ \A i \in 1 .. Len(ops) : Given(ops[i])
    /\ \/ Len(ops) = 1
       \/ \A i \in 1 .. Len(ops) : ops[i].f = "move"
       \/ Deletes(ops)

(***************************************************************************)
(* The operations behind the k-th would hit what they mean in document e.  *)
(***************************************************************************)
Holds(ops, e, k) == \A j \in k + 1 .. Len(ops) : Means(ops[j], e) /\ InVectors(ops[j], e)

(***************************************************************************)
(* They still would when the k-th is through: a drag moves no index, and a *)
(* removal only indices behind its own, which have been removed before.    *)
(***************************************************************************)
LEMMA RestHolds ==
    ASSUME NEW e, Structure(e), NEW ops, IsSeq(ops), Batch(ops), NEW k \in 1 .. Len(ops), Holds(ops, e, k - 1)
    PROVE  Holds(ops, Applied(ops[k], e), k)
<1> DEFINE r == Applied(ops[k], e)
<1>0. Len(ops) \in Nat
    BY SeqElim
<1>1. SUFFICES ASSUME NEW j \in k + 1 .. Len(ops)
               PROVE  Means(ops[j], r) /\ InVectors(ops[j], r)
    BY DEF Holds
<1>2. j \in 1 .. Len(ops) /\ k < j /\ Len(ops) # 1
    <2>1. \A n \in Nat : \A a \in 1 .. n : \A b \in a + 1 .. n : b \in 1 .. n /\ a < b /\ n # 1
        OBVIOUS
    <2>2. QED
        BY <1>0, <2>1
<1>3. Means(ops[j], e) /\ InVectors(ops[j], e) /\ Means(ops[k], e) /\ InVectors(ops[k], e)
    BY <1>0, <1>2 DEF Holds
<1>4. Given(ops[j]) /\ Given(ops[k])
    BY <1>2 DEF Batch
<1>5. CASE \A i \in 1 .. Len(ops) : ops[i].f = "move"
    <2>1. NodesStay(e, r) /\ ArcsStay(e, r)
        BY <1>3, <1>4, <1>5, OpsStay
    <2>2. QED
        BY <1>3, <1>4, <2>1, StillMeant
<1>6. CASE Deletes(ops)
    <2> DEFINE a == ops[k]
    <2> DEFINE b == ops[j]
    <2>1. /\ a.f \in {"removePlace", "removeTransition"}
          /\ b.f \in {"removePlace", "removeTransition"}
          /\ a.f = b.f => IF a.f = "removePlace" THEN b.p[1] < a.p[1] ELSE b.t[1] < a.t[1]
        BY <1>2, <1>6 DEF Deletes
    <2>2. /\ Given(a) /\ Given(b) /\ Means(a, e) /\ Means(b, e)
        BY <1>3, <1>4
    <2>3. InVectors(b, r)
        BY <2>1, <2>2 DEF InVectors, Given
    <2>4. CASE a.f = "removePlace"
        <3>1. a.p[1] \in DOMAIN e.place /\ r = removePlace(a.p[1], e)
            BY <2>2, <2>4 DEF Given, Means, Applied
        <3>2. /\ r.transition = e.transition
              /\ \A i \in DOMAIN e.place : i < a.p[1] => i \in DOMAIN r.place /\ r.place[i] = e.place[i]
            BY <3>1, RemovalsStay
        <3>3. Means(b, r)
            BY <2>1, <2>2, <2>4, <3>2 DEF Given, Means
        <3>4. QED
            BY <2>3, <3>3
    <2>5. CASE a.f = "removeTransition"
        <3>1. a.t[1] \in DOMAIN e.transition /\ r = removeTransition(a.t[1], e)
            BY <2>2, <2>5 DEF Given, Means, Applied
        <3>2. /\ r.place = e.place
              /\ \A i \in DOMAIN e.transition : i < a.t[1] =>
                    i \in DOMAIN r.transition /\ r.transition[i] = e.transition[i]
            BY <3>1, RemovalsStay
        <3>3. Means(b, r)
            BY <2>1, <2>2, <2>5, <3>2 DEF Given, Means
        <3>4. QED
            BY <2>3, <3>3
    <2>6. QED
        BY <2>1, <2>4, <2>5
<1>7. QED
    BY <1>2, <1>5, <1>6 DEF Batch

(***************************************************************************)
(* The function through which Composed is defined.                         *)
(***************************************************************************)
Runs(ops, e, n, f) ==
    f = [i \in 0 .. n |-> IF i = 0 THEN [e |-> e, ok |-> TRUE, hit |-> TRUE] ELSE Then(f[i - 1], ops[i])]

(***************************************************************************)
(* A batch of reducers has a run: Composed is defined by it at every       *)
(* length.                                                                 *)
(***************************************************************************)
LEMMA RunsExist ==
    ASSUME NEW ops, NEW e, NEW n \in Nat
    PROVE  \E f : Runs(ops, e, n, f)
<1> DEFINE first == [e |-> e, ok |-> TRUE, hit |-> TRUE]
<1> DEFINE S == {m \in Nat : ~ \E f : Runs(ops, e, m, f)}
<1>1. SUFFICES ASSUME S # {} PROVE FALSE
    OBVIOUS
<1>2. PICK m \in S : \A k \in S : m <= k
    BY <1>1, LeastNat
<1>3. CASE m = 0
    <2>1. Runs(ops, e, 0, [i \in 0 .. 0 |-> first])
        BY DEF Runs
    <2>2. QED
        BY <2>1, <1>3
<1>4. CASE m # 0
    <2>1. m - 1 \in Nat /\ m - 1 \notin S
        BY <1>2, <1>4
    <2>2. PICK f : Runs(ops, e, m - 1, f)
        BY <2>1
    <2> DEFINE g == [i \in 0 .. m |-> IF i = m THEN Then(f[i - 1], ops[i]) ELSE f[i]]
    <2>3. \A i \in 0 .. m - 1 : f[i] = IF i = 0 THEN first ELSE Then(f[i - 1], ops[i])
        BY <2>2 DEF Runs
    <2> HIDE DEF first
    <2>4. \A i \in 0 .. m : g[i] = IF i = 0 THEN first ELSE Then(g[i - 1], ops[i])
        BY <2>3, <1>4
    <2>5. Runs(ops, e, m, g)
        BY <2>4 DEF Runs, first
    <2>6. QED
        BY <2>5
<1>5. QED
    BY <1>3, <1>4

(***************************************************************************)
(* Step by step.                                                           *)
(***************************************************************************)
LEMMA ComposedSteps ==
    ASSUME NEW ops, IsSeq(ops), NEW e
    PROVE  \E f : /\ f[0] = [e |-> e, ok |-> TRUE, hit |-> TRUE]
                  /\ \A i \in 1 .. Len(ops) : f[i] = Then(f[i - 1], ops[i])
                  /\ Composed(ops, e) = f[Len(ops)]
<1> DEFINE n == Len(ops)
<1> DEFINE f == CHOOSE f : Runs(ops, e, n, f)
<1>1. n \in Nat
    BY SeqElim
<1>2. Runs(ops, e, n, f)
    BY <1>1, RunsExist
<1>3. Composed(ops, e) = f[n]
    BY DEF Composed, Runs
<1> HIDE DEF f
<1>4. \A i \in 0 .. n : f[i] = IF i = 0 THEN [e |-> e, ok |-> TRUE, hit |-> TRUE] ELSE Then(f[i - 1], ops[i])
    BY <1>2 DEF Runs
<1>5. f[0] = [e |-> e, ok |-> TRUE, hit |-> TRUE]
    <2>1. 0 \in 0 .. n
        BY <1>1
    <2>2. QED
        BY <1>4, <2>1, Zenon
<1>6. \A i \in 1 .. n : f[i] = Then(f[i - 1], ops[i])
    BY <1>1, <1>4
<1>7. QED
    BY <1>3, <1>5, <1>6

(***************************************************************************)
(* An edit leaves the vectors aligned, also when it ends out of range.     *)
(***************************************************************************)
LEMMA ComposedLoose ==
    ASSUME NEW ops, IsSeq(ops), \A i \in 1 .. Len(ops) : ops[i].f \in OpNames, NEW e, Loose(e)
    PROVE  Loose(Composed(ops, e).e)
<1>1. PICK f : /\ f[0] = [e |-> e, ok |-> TRUE, hit |-> TRUE]
               /\ \A i \in 1 .. Len(ops) : f[i] = Then(f[i - 1], ops[i])
               /\ Composed(ops, e) = f[Len(ops)]
    BY ComposedSteps
<1>2. Len(ops) \in Nat
    BY SeqElim
<1> DEFINE S == {i \in 0 .. Len(ops) : ~ Loose(f[i].e)}
<1>3. CASE S # {}
    <2>1. S \in SUBSET Nat
        OBVIOUS
    <2>2. PICK m \in S : \A k \in S : m <= k
        BY <1>3, <2>1, LeastNat
    <2>3. m # 0
        BY <1>1
    <2>4. m \in 1 .. Len(ops) /\ m - 1 \in 0 .. Len(ops) /\ m - 1 \notin S
        BY <1>2, <2>2, <2>3
    <2>5. Loose(f[m - 1].e) /\ f[m] = Then(f[m - 1], ops[m])
        BY <1>1, <2>4
    <2>6. f[m].e = f[m - 1].e \/ f[m].e = Applied(ops[m], f[m - 1].e)
        BY <2>5 DEF Then
    <2>7. QED
        BY <2>4, <2>5, <2>6, LooseApplied
<1>4. CASE S = {}
    BY <1>1, <1>2, <1>4
<1>5. QED
    BY <1>3, <1>4

(***************************************************************************)
(* An edit that takes a node away, or an arc.                              *)
(***************************************************************************)
TakesNode(ops) == \E i \in 1 .. Len(ops) : ops[i].f \in {"removePlace", "removeTransition"}
TakesArc(ops) == \E i \in 1 .. Len(ops) : ops[i].f = "removeArc"

(***************************************************************************)
(* What one edit of a batch makes of the document.                         *)
(***************************************************************************)
Careful(ops, e, s, k) ==
    /\ s.ok = TRUE /\ s.hit = TRUE
    /\ Structure(s.e)
    /\ TokensInRange(e) => TokensInRange(s.e)
    /\ Holds(ops, s.e, k)
    /\ ~TakesNode(ops) => NodesStay(e, s.e)
    /\ ~TakesNode(ops) /\ ~TakesArc(ops) => ArcsStay(e, s.e)

(***************************************************************************)
(* One more operation of the batch that pushEdit of rxdispatch.cpp         *)
(* composes keeps what is known of the ones before.                        *)
(***************************************************************************)
LEMMA CarefulStep ==
    ASSUME NEW ops, IsSeq(ops), Batch(ops), NEW e, NEW s, NEW k \in 1 .. Len(ops), Careful(ops, e, s, k - 1)
    PROVE  Careful(ops, e, Then(s, ops[k]), k)
<1> DEFINE op == ops[k]
<1> DEFINE r == Applied(op, s.e)
<1>1. /\ s.ok = TRUE /\ s.hit = TRUE /\ Structure(s.e) /\ Holds(ops, s.e, k - 1)
      /\ TokensInRange(e) => TokensInRange(s.e)
      /\ ~TakesNode(ops) => NodesStay(e, s.e)
      /\ ~TakesNode(ops) /\ ~TakesArc(ops) => ArcsStay(e, s.e)
    BY DEF Careful
<1>2. Means(op, s.e) /\ InVectors(op, s.e) /\ Given(op)
    <2>1. Len(ops) \in Nat
        BY SeqElim
    <2>2. k \in (k - 1) + 1 .. Len(ops)
        BY <2>1
    <2>3. QED
        BY <1>1, <2>2 DEF Holds, Batch
<1>3. Then(s, op).ok = TRUE /\ Then(s, op).hit = TRUE /\ Then(s, op).e = r
    BY <1>1, <1>2 DEF Then
<1>4. Structure(r) /\ (TokensInRange(s.e) => TokensInRange(r))
    BY <1>1, <1>2, AppliedSound
<1>5. Holds(ops, r, k)
    BY <1>1, RestHolds
<1> HIDE DEF r
<1>6. ~TakesNode(ops) => NodesStay(s.e, r)
    BY <1>1, <1>2, OpsStay DEF TakesNode, r
<1>7. ~TakesNode(ops) /\ ~TakesArc(ops) => ArcsStay(s.e, r)
    BY <1>1, <1>2, OpsStay DEF TakesNode, TakesArc, r
<1>8. ~TakesNode(ops) => NodesStay(e, r)
    BY <1>1, <1>6 DEF NodesStay
<1>9. ~TakesNode(ops) /\ ~TakesArc(ops) => ArcsStay(e, r)
    <2>1. SUFFICES ASSUME ~TakesNode(ops), ~TakesArc(ops)
                   PROVE  ArcsStay(e, r)
        OBVIOUS
    <2>2. NodesStay(e, s.e) /\ ArcsStay(e, s.e) /\ ArcsStay(s.e, r)
        BY <2>1, <1>1, <1>7
    <2>3. QED
        BY <2>2 DEF NodesStay, ArcsStay
<1>10. QED
    BY <1>1, <1>3, <1>4, <1>5, <1>8, <1>9 DEF Careful

(***************************************************************************)
(* A batch whose picks are current runs through: no reducer leaves its     *)
(* vectors, each hits what was meant, and the document stays sound.        *)
(***************************************************************************)
LEMMA ComposedSound ==
    ASSUME NEW ops, IsSeq(ops), Batch(ops), NEW e, Structure(e), Holds(ops, e, 0)
    PROVE  Careful(ops, e, Composed(ops, e), Len(ops))
<1>1. PICK f : /\ f[0] = [e |-> e, ok |-> TRUE, hit |-> TRUE]
               /\ \A i \in 1 .. Len(ops) : f[i] = Then(f[i - 1], ops[i])
               /\ Composed(ops, e) = f[Len(ops)]
    BY ComposedSteps
<1>2. Len(ops) \in Nat
    BY SeqElim
<1> DEFINE S == {i \in 0 .. Len(ops) : ~ Careful(ops, e, f[i], i)}
<1>3. CASE S # {}
    <2>1. S \in SUBSET Nat
        OBVIOUS
    <2>2. PICK m \in S : \A k \in S : m <= k
        BY <1>3, <2>1, LeastNat
    <2>3. m # 0
        <3>1. f[0].e = e /\ f[0].ok = TRUE /\ f[0].hit = TRUE
            BY <1>1
        <3>2. NodesStay(e, e) /\ ArcsStay(e, e)
            BY DEF NodesStay, ArcsStay
        <3>3. Careful(ops, e, f[0], 0)
            BY <3>1, <3>2 DEF Careful
        <3>4. QED
            BY <3>3
    <2>4. m \in 1 .. Len(ops) /\ m - 1 \in 0 .. Len(ops) /\ m - 1 \notin S
        BY <1>2, <2>2, <2>3
    <2>5. Careful(ops, e, f[m - 1], m - 1) /\ f[m] = Then(f[m - 1], ops[m])
        BY <1>1, <2>4
    <2>6. QED
        BY <2>4, <2>5, CarefulStep
<1>4. CASE S = {}
    BY <1>1, <1>2, <1>4
<1>5. QED
    BY <1>3, <1>4

-----------------------------------------------------------------------------
(***************************************************************************)
(* Highlighted nodes, by descending index.                                 *)
(***************************************************************************)

(***************************************************************************)
(* In a finite set of picks with different indices the k-th has k - 1      *)
(* above it: these numbers are one-to-one, so they are all of them.        *)
(***************************************************************************)
LEMMA EachRankTaken ==
    ASSUME NEW S, IsFiniteSet(S), \A a \in S : a[1] \in Nat, \A a, b \in S : a[1] = b[1] => a = b
    PROVE  \A k \in 1 .. Cardinality(S) : \E a \in S : Cardinality({b \in S : b[1] > a[1]}) = k - 1
<1> DEFINE n == Cardinality(S)
<1> DEFINE above(a) == {b \in S : b[1] > a[1]}
<1> DEFINE rank == [a \in S |-> Cardinality(above(a))]
<1> DEFINE R == 0 .. n - 1
<1>1. n \in Nat
    BY FS_CardinalityType
<1>2. ASSUME NEW a \in S
      PROVE  IsFiniteSet(above(a)) /\ rank[a] \in R
    <2>1. above(a) \in SUBSET S /\ a \notin above(a)
        OBVIOUS
    <2>2. IsFiniteSet(above(a)) /\ Cardinality(above(a)) <= n
        BY <2>1, FS_Subset
    <2>3. Cardinality(above(a)) # n
        BY <2>1, FS_Subset
    <2>4. Cardinality(above(a)) \in Nat
        BY <2>2, FS_CardinalityType
    <2> HIDE DEF above, n
    <2>5. QED
        BY <1>1, <2>2, <2>3, <2>4
<1>3. ASSUME NEW a \in S, NEW b \in S, a[1] > b[1]
      PROVE  rank[a] # rank[b]
    <2>1. above(a) \in SUBSET above(b) /\ a \in above(b) /\ a \notin above(a)
        BY <1>3
    <2>2. IsFiniteSet(above(b))
        BY <1>2
    <2>3. Cardinality(above(b)) # Cardinality(above(a))
        BY <2>1, <2>2, FS_Subset
    <2> HIDE DEF above
    <2>4. QED
        BY <2>3
<1>4. \A a, b \in S : rank[a] = rank[b] => a = b
    BY <1>3
<1>5. IsFiniteSet(R) /\ Cardinality(R) = n
    <2>1. 0 \in Int /\ n - 1 \in Int
        BY <1>1
    <2>2. IsFiniteSet(R) /\ Cardinality(R) = IF 0 > n - 1 THEN 0 ELSE n - 1 - 0 + 1
        BY <2>1, FS_Interval
    <2>3. QED
        BY <1>1, <2>2
<1>6. rank \in Injection(S, R)
    <2>1. rank \in [S -> R]
        BY <1>2
    <2> HIDE DEF rank
    <2>2. QED
        BY <2>1, <1>4 DEF Injection, IsInjective
<1> HIDE DEF rank, R
<1>7. rank \in Surjection(S, R)
    BY <1>5, <1>6, FS_Injection
<1>8. ASSUME NEW k \in 1 .. n
      PROVE  \E a \in S : Cardinality(above(a)) = k - 1
    <2>1. k - 1 \in R
        BY <1>1 DEF R
    <2>2. PICK a \in S : rank[a] = k - 1
        BY <1>7, <2>1 DEF Surjection
    <2>3. rank[a] = Cardinality(above(a))
        BY DEF rank
    <2>4. QED
        BY <2>2, <2>3
<1>9. QED
    BY <1>8

(***************************************************************************)
(* What Ordered returns, for any finite set and for one of current picks.  *)
(***************************************************************************)
LEMMA OrderedFacts ==
    ASSUME NEW S, IsFiniteSet(S)
    PROVE  /\ IsSeq(Ordered(S))
           /\ (\A a \in S : a[1] \in Nat) /\ (\A a, b \in S : a[1] = b[1] => a = b) =>
                /\ \A i \in 1 .. Len(Ordered(S)) : Ordered(S)[i] \in S
                /\ \A i, j \in 1 .. Len(Ordered(S)) : i < j => Ordered(S)[j][1] < Ordered(S)[i][1]
<1> DEFINE n == Cardinality(S)
<1> DEFINE above(a) == {b \in S : b[1] > a[1]}
<1> DEFINE r == Ordered(S)
<1>1. n \in Nat
    BY FS_CardinalityType
<1> DEFINE pick(k) == CHOOSE a \in S : Cardinality({b \in S : b[1] > a[1]}) = k - 1
<1>0. r = [k \in 1 .. n |-> pick(k)]
    BY DEF Ordered
<1> HIDE DEF n, r, pick
<1>2. r = [k \in 1 .. n |-> r[k]]
    BY <1>0
<1>3. \A k \in 1 .. n : r[k] = pick(k)
    BY <1>0
<1>4. IsSeq(r) /\ Len(r) = n
    BY <1>1, <1>2, SeqIntro
<1>5. ASSUME \A a \in S : a[1] \in Nat, \A a, b \in S : a[1] = b[1] => a = b
      PROVE  /\ \A i \in 1 .. Len(r) : r[i] \in S
             /\ \A i, j \in 1 .. Len(r) : i < j => r[j][1] < r[i][1]
    <2>1. \A k \in 1 .. n : \E a \in S : Cardinality(above(a)) = k - 1
        BY <1>5, EachRankTaken DEF n
    <2>2. \A k \in 1 .. n : r[k] \in S /\ Cardinality(above(r[k])) = k - 1
        <3>1. \A k \in 1 .. n : pick(k) \in S /\ Cardinality(above(pick(k))) = k - 1
            BY <2>1 DEF pick
        <3>2. QED
            BY <1>3, <3>1
    <2> HIDE DEF above
    <2>3. ASSUME NEW i \in 1 .. n, NEW j \in 1 .. n, i < j
          PROVE  r[j][1] < r[i][1]
        <3>1. SUFFICES ASSUME ~(r[j][1] < r[i][1])
                       PROVE  FALSE
            OBVIOUS
        <3>2. r[i] \in S /\ r[j] \in S /\ r[i][1] \in Nat /\ r[j][1] \in Nat
            BY <1>5, <2>2
        <3>3. above(r[j]) \in SUBSET above(r[i])
            BY <1>5, <3>1, <3>2 DEF above
        <3>4. IsFiniteSet(above(r[i]))
            <4>1. above(r[i]) \in SUBSET S
                BY DEF above
            <4>2. QED
                BY <4>1, FS_Subset
        <3>5. Cardinality(above(r[j])) <= Cardinality(above(r[i]))
            BY <3>3, <3>4, FS_Subset
        <3>6. j - 1 <= i - 1
            BY <2>2, <3>5
        <3>7. QED
            BY <2>3, <3>6, <1>1
    <2>4. QED
        BY <1>4, <2>2, <2>3
<1>6. QED
    BY <1>4, <1>5 DEF r

-----------------------------------------------------------------------------
(***************************************************************************)
(* What waits in the queue, and what the view refers to.                   *)
(***************************************************************************)

(***************************************************************************)
(* Picks, of any document.                                                 *)
(***************************************************************************)
PicksIn(d, kind) ==
    LET nodes == IF kind = "Place" THEN d.place ELSE d.transition
    IN  {<<k, nodes[k].id>> : k \in DOMAIN nodes}

(***************************************************************************)
(* An update of the queue, whatever it refers to.                          *)
(***************************************************************************)
ViewNames == {"select", "highlight", "target", "selectArc", "highlightArc", "reset", "menu",
              "clearSelection", "loading"}
Choosing == {"select", "highlight", "target"}

Update(u) ==
    /\ u.kind = "edit" => IsSeq(u.ops) /\ \A i \in 1 .. Len(u.ops) : u.ops[i].f \in OpNames
    /\ u.kind = "view" => u.f \in ViewNames /\ (u.f \in Choosing => u.arg[1] \in {"Place", "Transition"})
    /\ u.kind = "load" => u.path \in DOMAIN Disk

IsView(u, f) == u.kind = "view" /\ u.f = f
ClearLoad(u) == u.kind = "load" /\ u.clear
Removes(u) == u.kind = "edit" /\ TakesNode(u.ops)

(***************************************************************************)
(* An update that was made from a pick.                                    *)
(***************************************************************************)
Carries(u) ==
    \/ u.kind = "edit" /\ \E i \in 1 .. Len(u.ops) : u.ops[i].f # "addPlace"
    \/ u.kind = "view" /\ u.f \in Choosing \cup {"selectArc", "highlightArc"}

(***************************************************************************)
(* The pick denotes in document d what was meant.                          *)
(***************************************************************************)
Held(u, d) ==
    /\ u.kind = "edit" => Holds(u.ops, d, 0)
    /\ u.kind = "view" /\ u.f \in Choosing => u.arg[2] \in PicksIn(d, u.arg[1])
    /\ u.kind = "view" /\ u.f = "selectArc" => u.arg[2] \in PicksIn(d, "Transition")

NoClear(l) == \A job \in BagToSet(l) : ~job.clear

Viewable(v) ==
    /\ DOMAIN v = DOMAIN NothingSelected
    /\ IsFiniteSet(v.Place) /\ IsFiniteSet(v.Transition)

Blank(v) == v.Place = {} /\ v.Transition = {} /\ v.node[1] = "none" /\ v.arc[1] = "none"

(***************************************************************************)
(* The view refers to nodes of document d, by their indices there.         *)
(***************************************************************************)
Current(v, d) ==
    /\ \A kind \in {"Place", "Transition"} :
            /\ v[kind] \subseteq PicksIn(d, kind)
            /\ v.node[1] = kind => v.node[2] \in PicksIn(d, kind)
    /\ v.arc[1] # "none" => v.arc[2] \in PicksIn(d, "Transition")

(***************************************************************************)
(* The inductive invariant of the queue q, the loads l, the view v and the *)
(* document d, as long as nothing has been picked in haste.  An edit in    *)
(* the queue is one of the batches.                                        *)
(***************************************************************************)
Wholes(q) == \A i \in 1 .. Len(q) : q[i].kind = "edit" => Batch(q[i].ops)

(***************************************************************************)
(* Nothing renumbers before a pick is used, and it denotes what was meant. *)
(***************************************************************************)
Unshifted(q, l, d) ==
    \A i \in 1 .. Len(q) : Carries(q[i]) =>
        /\ \A j \in 1 .. i - 1 : ~Shifts(q[j])
        /\ NoClear(l)
        /\ Held(q[i], d)

(***************************************************************************)
(* The selection is cleared after each removal and before each load that   *)
(* replaces the net, and stays so until the load has come in.              *)
(***************************************************************************)
ClearsAfter(q) == \A i \in 1 .. Len(q) : Removes(q[i]) => i < Len(q) /\ IsView(q[i + 1], "clearSelection")

ClearsBefore(q, v) ==
    \A i \in 1 .. Len(q) : ClearLoad(q[i]) =>
        IF i = 1 THEN Blank(v) ELSE IsView(q[i - 1], "loading")

BlankWhileLoading(l, v) == NoClear(l) \/ Blank(v)

(***************************************************************************)
(* Unless it is still to be cleared, the selection is current.             *)
(***************************************************************************)
Following(q, v, d) == (\A i \in 1 .. Len(q) : ~IsView(q[i], "clearSelection")) => Current(v, d)

Waiting(q, l, v, d) ==
    /\ Wholes(q)
    /\ Unshifted(q, l, d)
    /\ ClearsAfter(q)
    /\ ClearsBefore(q, v)
    /\ BlankWhileLoading(l, v)
    /\ Following(q, v, d)

(***************************************************************************)
(* What a current pick gives.                                              *)
(***************************************************************************)
LEMMA PickFacts ==
    ASSUME NEW d, Structure(d), NEW pick
    PROVE  /\ pick \in PicksIn(d, "Place") =>
                /\ pick # None /\ pick[1] \in Nat
                /\ pick[1] \in DOMAIN d.place /\ d.place[pick[1]].id = pick[2]
           /\ pick \in PicksIn(d, "Transition") =>
                /\ pick # None /\ pick[1] \in Nat
                /\ pick[1] \in DOMAIN d.transition /\ d.transition[pick[1]].id = pick[2]
<1>1. /\ DOMAIN d.place = 1 .. Len(d.place) /\ DOMAIN d.transition = 1 .. Len(d.transition)
      /\ Len(d.place) \in Nat /\ Len(d.transition) \in Nat
    BY SeqElim DEF Structure, PerPlace, PerTransition
<1>2. ASSUME pick \in PicksIn(d, "Place")
      PROVE  /\ pick # None /\ pick[1] \in Nat
             /\ pick[1] \in DOMAIN d.place /\ d.place[pick[1]].id = pick[2]
    <2>1. PICK k \in DOMAIN d.place : pick = <<k, d.place[k].id>>
        BY <1>2 DEF PicksIn
    <2>2. k \in Nat /\ k # 0
        BY <1>1
    <2>3. pick # None
        BY <2>1, <2>2 DEF None
    <2>4. QED
        BY <2>1, <2>2, <2>3
<1>3. ASSUME pick \in PicksIn(d, "Transition")
      PROVE  /\ pick # None /\ pick[1] \in Nat
             /\ pick[1] \in DOMAIN d.transition /\ d.transition[pick[1]].id = pick[2]
    <2>1. PICK k \in DOMAIN d.transition : pick = <<k, d.transition[k].id>>
        BY <1>3 DEF PicksIn
    <2>2. k \in Nat /\ k # 0
        BY <1>1
    <2>3. pick # None
        BY <2>1, <2>2 DEF None
    <2>4. QED
        BY <2>1, <2>2, <2>3
<1>4. QED
    BY <1>2, <1>3

(***************************************************************************)
(* Two picks of one index are the same.                                    *)
(***************************************************************************)
LEMMA PicksDiffer ==
    ASSUME NEW d, NEW kind, NEW a \in PicksIn(d, kind), NEW b \in PicksIn(d, kind), a[1] = b[1]
    PROVE  a = b
BY DEF PicksIn

(***************************************************************************)
(* Where nodes and arcs keep their indices, picks stay good.               *)
(***************************************************************************)
LEMMA PicksStay ==
    ASSUME NEW e, NEW r, NodesStay(e, r), NEW kind
    PROVE  PicksIn(e, kind) \subseteq PicksIn(r, kind)
BY DEF NodesStay, PicksIn

(***************************************************************************)
(* A selection that is current stays so while no node is renumbered.       *)
(***************************************************************************)
LEMMA CurrentStays ==
    ASSUME NEW e, NEW r, NodesStay(e, r), NEW v, Current(v, e)
    PROVE  Current(v, r)
BY PicksStay DEF Current

(***************************************************************************)
(* An update that holds nodes and arcs of a document holds them in one     *)
(* that keeps both.                                                        *)
(***************************************************************************)
LEMMA HeldStays ==
    ASSUME NEW e, NEW r, NodesStay(e, r), ArcsStay(e, r), NEW u, Update(u), u.kind = "edit" => Batch(u.ops), Held(u, e)
    PROVE  Held(u, r)
<1>1. ASSUME u.kind = "edit"
      PROVE  Holds(u.ops, r, 0)
    <2>1. SUFFICES ASSUME NEW j \in 0 + 1 .. Len(u.ops)
                   PROVE  Means(u.ops[j], r) /\ InVectors(u.ops[j], r)
        BY DEF Holds
    <2>2. j \in 1 .. Len(u.ops)
        OBVIOUS
    <2>3. Given(u.ops[j]) /\ Means(u.ops[j], e) /\ InVectors(u.ops[j], e)
        BY <1>1, <2>2 DEF Held, Holds, Batch
    <2>4. QED
        BY <2>3, StillMeant
<1>2. u.kind = "view" /\ u.f \in Choosing => u.arg[2] \in PicksIn(r, u.arg[1])
    BY PicksStay DEF Held
<1>3. u.kind = "view" /\ u.f = "selectArc" => u.arg[2] \in PicksIn(r, "Transition")
    BY PicksStay DEF Held
<1>4. QED
    BY <1>1, <1>2, <1>3 DEF Held

(***************************************************************************)
(* The view reducers.                                                      *)
(***************************************************************************)
LEMMA BlankIsCurrent ==
    ASSUME NEW v, Blank(v), NEW d
    PROVE  Current(v, d)
BY DEF Blank, Current

(***************************************************************************)
(* clearSelection of model.cpp leaves a view that points at nothing.       *)
(***************************************************************************)
LEMMA ClearedFacts ==
    ASSUME NEW v, Viewable(v)
    PROVE  /\ Viewable(Cleared(v)) /\ Blank(Cleared(v))
           /\ DOMAIN Cleared(v) = {"node", "arc", "Place", "Transition", "arcs", "menu"}
           /\ Cleared(v).Place = {} /\ Cleared(v).Transition = {}
           /\ Cleared(v).node = NoNode /\ Cleared(v).arc = NoArc
<1>1. DOMAIN v = {"node", "arc", "Place", "Transition", "arcs", "menu"}
    BY DEF Viewable, NothingSelected
<1>2. /\ DOMAIN Cleared(v) = {"node", "arc", "Place", "Transition", "arcs", "menu"}
      /\ Cleared(v).Place = {} /\ Cleared(v).Transition = {}
      /\ Cleared(v).node = NoNode /\ Cleared(v).arc = NoArc
    BY <1>1 DEF Cleared
<1>3. NoNode[1] = "none" /\ NoArc[1] = "none"
    BY DEF NoNode, NoArc
<1>4. Blank(Cleared(v))
    BY <1>2, <1>3 DEF Blank
<1>5. DOMAIN Cleared(v) = DOMAIN NothingSelected
    BY <1>2 DEF NothingSelected
<1>6. Viewable(Cleared(v))
    BY <1>2, <1>5, FS_EmptySet DEF Viewable
<1>7. QED
    BY <1>2, <1>4, <1>6

(***************************************************************************)
(* What a view reducer of reducers.cpp does to a view: it stays in order,  *)
(* and points at nothing new but what the update holds.                    *)
(***************************************************************************)
LEMMA ViewedFacts ==
    ASSUME NEW v, Viewable(v), NEW u, Update(u), u.kind = "view"
    PROVE  LET w == Viewed(u, v)
           IN  /\ Viewable(w)
               /\ u.f \in {"reset", "clearSelection", "loading"} => Blank(w)
               /\ u.f = "menu" /\ Blank(v) => Blank(w)
               /\ \A d : Current(v, d) /\ Held(u, d) => Current(w, d)
<1> DEFINE w == Viewed(u, v)
<1> DEFINE c == Cleared(v)
<1>1. /\ DOMAIN v = {"node", "arc", "Place", "Transition", "arcs", "menu"}
      /\ IsFiniteSet(v.Place) /\ IsFiniteSet(v.Transition)
    BY DEF Viewable, NothingSelected
<1>2. /\ DOMAIN c = {"node", "arc", "Place", "Transition", "arcs", "menu"}
      /\ c.Place = {} /\ c.Transition = {} /\ c.node = NoNode /\ c.arc = NoArc
    BY ClearedFacts
<1>3. NoNode[1] = "none" /\ NoArc[1] = "none"
    BY DEF NoNode, NoArc
<1>4. \A x : IsFiniteSet({x})
    BY FS_Singleton
<1>5. ASSUME DOMAIN w = {"node", "arc", "Place", "Transition", "arcs", "menu"},
             IsFiniteSet(w.Place), IsFiniteSet(w.Transition)
      PROVE  Viewable(w)
    BY <1>5 DEF Viewable, NothingSelected
<1>6. CASE u.f = "select"
    <2>1. u.arg[1] \in {"Place", "Transition"}
        BY <1>6 DEF Update, Choosing
    <2>2. w = [c EXCEPT !.node = u.arg, ![u.arg[1]] = {u.arg[2]}]
        BY <1>6 DEF Viewed
    <2>3. DOMAIN w = {"node", "arc", "Place", "Transition", "arcs", "menu"}
          /\ w.node = u.arg /\ w.arc = NoArc
          /\ \A kind \in {"Place", "Transition"} : w[kind] = IF kind = u.arg[1] THEN {u.arg[2]} ELSE {}
        BY <1>2, <2>1, <2>2
    <2> HIDE DEF w, c
    <2>4. Viewable(w)
        BY <2>3, <1>4, <1>5, FS_EmptySet, SMTT(60), ZenonT(60)
    <2>5. \A d : Held(u, d) => Current(w, d)
        BY <1>3, <1>6, <2>3 DEF Held, Current, Choosing
    <2>6. QED
        BY <1>6, <2>4, <2>5 DEF w
<1>7. CASE u.f \in {"highlight", "target"}
    <2>1. u.arg[1] \in {"Place", "Transition"}
        BY <1>7 DEF Update, Choosing
    <2>2. \E x \in {v[u.arg[1]], v[u.arg[1]] \cup {u.arg[2]}, {u.arg[2]}} : w = [v EXCEPT ![u.arg[1]] = x]
        BY <1>7 DEF Viewed
    <2> HIDE DEF w
    <2>3. PICK x \in {v[u.arg[1]], v[u.arg[1]] \cup {u.arg[2]}, {u.arg[2]}} : w = [v EXCEPT ![u.arg[1]] = x]
        BY <2>2
    <2>4. DOMAIN w = {"node", "arc", "Place", "Transition", "arcs", "menu"}
          /\ w.node = v.node /\ w.arc = v.arc
          /\ \A kind \in {"Place", "Transition"} : w[kind] = IF kind = u.arg[1] THEN x ELSE v[kind]
        BY <1>1, <2>1, <2>3
    <2>5. IsFiniteSet(v[u.arg[1]])
        BY <1>1, <2>1
    <2>6. IsFiniteSet(x)
        BY <1>4, <2>5, FS_AddElement, SMTT(60), ZenonT(60)
    <2>7. Viewable(w)
        BY <1>1, <1>5, <2>4, <2>6
    <2>8. ASSUME NEW d, Current(v, d), Held(u, d)
          PROVE  Current(w, d)
        <3>1. x \subseteq PicksIn(d, u.arg[1])
            BY <1>7, <2>1, <2>8 DEF Held, Current, Choosing
        <3>2. QED
            BY <2>4, <2>8, <3>1 DEF Current
    <2>9. QED
        BY <1>7, <2>7, <2>8 DEF w
<1>8. CASE u.f = "selectArc"
    <2>1. w = [c EXCEPT !.arc = u.arg, !.arcs = {u.arg}]
        BY <1>8 DEF Viewed
    <2>2. DOMAIN w = {"node", "arc", "Place", "Transition", "arcs", "menu"}
          /\ w.node = NoNode /\ w.arc = u.arg /\ w.Place = {} /\ w.Transition = {}
        BY <1>2, <2>1
    <2> HIDE DEF w, c
    <2>3. Viewable(w)
        BY <2>2, <1>5, FS_EmptySet
    <2>4. \A d : Held(u, d) => Current(w, d)
        BY <1>3, <1>8, <2>2 DEF Held, Current
    <2>5. QED
        BY <1>8, <2>3, <2>4 DEF w
<1>9. CASE u.f \in {"highlightArc", "menu"}
    <2>1. \E x : w = [v EXCEPT !.arcs = x] \/ w = [v EXCEPT !.menu = x]
        BY <1>9 DEF Viewed
    <2> HIDE DEF w
    <2>2. DOMAIN w = {"node", "arc", "Place", "Transition", "arcs", "menu"}
          /\ w.node = v.node /\ w.arc = v.arc /\ w.Place = v.Place /\ w.Transition = v.Transition
        BY <1>1, <2>1
    <2>3. Viewable(w)
        BY <2>2, <1>1, <1>5
    <2>4. \A d : Current(v, d) => Current(w, d)
        BY <2>2 DEF Current
    <2>5. Blank(v) => Blank(w)
        BY <2>2 DEF Blank
    <2>6. QED
        BY <1>9, <2>3, <2>4, <2>5 DEF w
<1>10. CASE u.f \in {"reset", "clearSelection", "loading"}
    <2>1. w = c \/ (\E x : w = [c EXCEPT !.menu = x]) \/ \E x : w = [c EXCEPT !.arcs = x]
        BY <1>10 DEF Viewed
    <2> HIDE DEF w, c
    <2>2. DOMAIN w = {"node", "arc", "Place", "Transition", "arcs", "menu"}
          /\ w.node = NoNode /\ w.arc = NoArc /\ w.Place = {} /\ w.Transition = {}
        BY <1>2, <2>1
    <2>3. Viewable(w)
        BY <2>2, <1>5, FS_EmptySet
    <2>4. Blank(w)
        BY <2>2, <1>3 DEF Blank
    <2>5. \A d : Current(w, d)
        BY <2>4, BlankIsCurrent
    <2>6. QED
        BY <1>10, <2>3, <2>4, <2>5 DEF w
<1>11. QED
    BY <1>6, <1>7, <1>8, <1>9, <1>10 DEF Update, ViewNames

-----------------------------------------------------------------------------
(***************************************************************************)
(* The front of the queue is reduced.                                      *)
(***************************************************************************)

(***************************************************************************)
(* What `Tail' returns.                                                    *)
(***************************************************************************)
LEMMA TailFacts ==
    ASSUME NEW q, IsSeq(q), q # <<>>
    PROVE  /\ Len(q) \in Nat /\ Len(q) >= 1 /\ Head(q) = q[1]
           /\ IsSeq(Tail(q)) /\ Len(Tail(q)) = Len(q) - 1
           /\ \A i \in 1 .. Len(q) - 1 : Tail(q)[i] = q[i + 1]
<1> DEFINE A == {q[i] : i \in 1 .. Len(q)}
<1>1. q \in Seq(A)
    BY SeqElim, SeqType
<1> HIDE DEF A
<1>2. Tail(q) \in Seq(A)
    BY <1>1
<1>3. IsSeq(Tail(q))
    BY <1>2, SeqIs
<1>4. Len(q) \in Nat /\ Len(q) >= 1 /\ Head(q) = q[1]
    BY <1>1
<1>5. Len(Tail(q)) = Len(q) - 1 /\ \A i \in 1 .. Len(q) - 1 : Tail(q)[i] = q[i + 1]
    BY <1>1
<1>6. QED
    BY <1>3, <1>4, <1>5

(***************************************************************************)
(* What the reduction of the front has to see to, for the rest to wait as  *)
(* it did.                                                                 *)
(***************************************************************************)
LEMMA TailWaits ==
    ASSUME NEW q, IsSeq(q), q # <<>>, NEW l, NEW v, NEW d, Waiting(q, l, v, d),
           NEW l2, NEW v2, NEW d2,
           \A i \in 2 .. Len(q) : Carries(q[i]) => NoClear(l2) /\ Held(q[i], d2),
           Len(q) >= 2 /\ ClearLoad(q[2]) => Blank(v2),
           NoClear(l2) \/ Blank(v2),
           (\A i \in 2 .. Len(q) : ~IsView(q[i], "clearSelection")) => Current(v2, d2)
    PROVE  Waiting(Tail(q), l2, v2, d2)
<1> DEFINE r == Tail(q)
<1>0. Waiting(q, l, v, d) => Wholes(q) /\ Unshifted(q, l, d) /\ ClearsAfter(q) /\ ClearsBefore(q, v)
    BY DEF Waiting
<1>1. Len(q) \in Nat /\ Len(q) >= 1 /\ Len(r) = Len(q) - 1
    BY TailFacts
<1>2. \A i \in 1 .. Len(r) : i + 1 \in 2 .. Len(q) /\ i + 1 \in 1 .. Len(q) /\ i \in Nat /\ i >= 1
    BY <1>1
<1>3. \A i \in 1 .. Len(r) : r[i] = q[i + 1]
    BY <1>1, TailFacts
<1>4. \A j \in 2 .. Len(q) : j - 1 \in 1 .. Len(r) /\ q[j] = r[j - 1]
    BY <1>1, <1>3
<1> HIDE DEF r
<1>5. Wholes(r)
    BY <1>0, <1>2, <1>3 DEF Wholes
<1>6. Unshifted(r, l2, d2)
    <2>1. SUFFICES ASSUME NEW i \in 1 .. Len(r), Carries(r[i])
                   PROVE  (\A j \in 1 .. i - 1 : ~Shifts(r[j])) /\ NoClear(l2) /\ Held(r[i], d2)
        BY DEF Unshifted
    <2>2. Carries(q[i + 1]) /\ NoClear(l2) /\ Held(r[i], d2)
        BY <1>2, <1>3, <2>1
    <2>3. \A j \in 1 .. (i + 1) - 1 : ~Shifts(q[j])
        BY <1>0, <1>2, <2>2 DEF Unshifted
    <2>4. ASSUME NEW j \in 1 .. i - 1
          PROVE  ~Shifts(r[j])
        <3>1. j \in 1 .. Len(r) /\ j + 1 \in 1 .. (i + 1) - 1
            BY <1>1, <1>2
        <3>2. QED
            BY <3>1, <1>3, <2>3
    <2>5. QED
        BY <2>2, <2>4
<1>7. ClearsAfter(r)
    <2>1. SUFFICES ASSUME NEW i \in 1 .. Len(r), Removes(r[i])
                   PROVE  i < Len(r) /\ IsView(r[i + 1], "clearSelection")
        BY DEF ClearsAfter
    <2>2. i + 1 < Len(q) /\ IsView(q[(i + 1) + 1], "clearSelection")
        BY <1>0, <1>2, <1>3, <2>1 DEF ClearsAfter
    <2>3. i < Len(r) /\ i + 1 \in 1 .. Len(r)
        BY <1>1, <1>2, <2>2
    <2>4. QED
        BY <2>2, <2>3, <1>3
<1>8. ClearsBefore(r, v2)
    <2>1. SUFFICES ASSUME NEW i \in 1 .. Len(r), ClearLoad(r[i])
                   PROVE  IF i = 1 THEN Blank(v2) ELSE IsView(r[i - 1], "loading")
        BY DEF ClearsBefore
    <2>2. CASE i = 1
        <3>1. q[2] = r[1] /\ Len(q) >= 2
            BY <1>1, <1>3, <2>2
        <3>2. QED
            BY <2>1, <2>2, <3>1
    <2>3. CASE i # 1
        <3>1. IsView(q[(i + 1) - 1], "loading")
            BY <1>0, <1>2, <1>3, <2>1, <2>3 DEF ClearsBefore
        <3>2. (i + 1) - 1 = i /\ i - 1 \in 1 .. Len(r) /\ (i - 1) + 1 = i
            BY <1>1, <1>2, <2>3
        <3>3. r[i - 1] = q[i]
            BY <1>3, <3>2
        <3>4. QED
            BY <2>3, <3>1, <3>2, <3>3
    <2>4. QED
        BY <2>2, <2>3
<1>9. BlankWhileLoading(l2, v2)
    BY DEF BlankWhileLoading
<1>10. Following(r, v2, d2)
    <2>1. SUFFICES ASSUME \A i \in 1 .. Len(r) : ~IsView(r[i], "clearSelection")
                   PROVE  Current(v2, d2)
        BY DEF Following
    <2>2. \A i \in 2 .. Len(q) : ~IsView(q[i], "clearSelection")
        BY <1>4, <2>1
    <2>3. QED
        BY <2>2
<1>11. QED
    BY <1>5, <1>6, <1>7, <1>8, <1>9, <1>10 DEF Waiting, r

(***************************************************************************)
(* An edit at the front hits what was meant, and the rest waits as before. *)
(***************************************************************************)
LEMMA EditReduced ==
    ASSUME NEW q, IsSeq(q), q # <<>>, \A i \in 1 .. Len(q) : Update(q[i]),
           NEW l, NEW v, NEW d, Structure(d), Waiting(q, l, v, d), q[1].kind = "edit"
    PROVE  LET s == Composed(q[1].ops, d)
           IN  Careful(q[1].ops, d, s, Len(q[1].ops)) /\ Waiting(Tail(q), l, v, s.e)
<1> DEFINE u == q[1]
<1> DEFINE s == Composed(u.ops, d)
<1>0. /\ Wholes(q) /\ Unshifted(q, l, d) /\ ClearsAfter(q) /\ ClearsBefore(q, v)
      /\ BlankWhileLoading(l, v) /\ Following(q, v, d)
    BY DEF Waiting
<1>1. Len(q) \in Nat /\ Len(q) >= 1 /\ 1 \in 1 .. Len(q)
    BY TailFacts
<1>2. IsSeq(u.ops) /\ Batch(u.ops)
    BY <1>0, <1>1 DEF Update, Wholes
<1>3. Holds(u.ops, d, 0)
    <2>1. CASE Carries(u)
        BY <1>0, <1>1, <2>1 DEF Unshifted, Held
    <2>2. CASE ~Carries(u)
        <3>1. SUFFICES ASSUME NEW j \in 0 + 1 .. Len(u.ops)
                       PROVE  Means(u.ops[j], d) /\ InVectors(u.ops[j], d)
            BY DEF Holds
        <3>2. u.ops[j].f = "addPlace" /\ Given(u.ops[j])
            BY <1>2, <2>2 DEF Carries, Batch
        <3>3. QED
            BY <3>2 DEF Given, Means, InVectors
    <2>3. QED
        BY <2>1, <2>2
<1>4. Careful(u.ops, d, s, Len(u.ops))
    BY <1>2, <1>3, ComposedSound
<1> HIDE DEF s
<1>5. /\ ~TakesNode(u.ops) => NodesStay(d, s.e)
      /\ ~TakesNode(u.ops) /\ ~TakesArc(u.ops) => ArcsStay(d, s.e)
    BY <1>4 DEF Careful
<1>6. ~Shifts(u) => ~TakesNode(u.ops) /\ ~TakesArc(u.ops)
    BY <1>2, SeqElim DEF Shifts, TakesNode, TakesArc
<1>7. \A i \in 2 .. Len(q) : i \in 1 .. Len(q) /\ 1 \in 1 .. i - 1
    BY <1>1
<1>8. ASSUME NEW i \in 2 .. Len(q), Carries(q[i])
      PROVE  NoClear(l) /\ Held(q[i], s.e)
    <2>1. ~Shifts(u) /\ NoClear(l) /\ Held(q[i], d)
        BY <1>0, <1>7, <1>8 DEF Unshifted
    <2>2. NodesStay(d, s.e) /\ ArcsStay(d, s.e)
        BY <1>5, <1>6, <2>1
    <2>3. Update(q[i]) /\ (q[i].kind = "edit" => Batch(q[i].ops))
        BY <1>0, <1>7 DEF Wholes
    <2>4. Held(q[i], s.e)
        BY <2>1, <2>2, <2>3, HeldStays
    <2>5. QED
        BY <2>1, <2>4
<1>9. ~(Len(q) >= 2 /\ ClearLoad(q[2]))
    <2>1. SUFFICES ASSUME Len(q) >= 2, ClearLoad(q[2])
                   PROVE  FALSE
        OBVIOUS
    <2>2. 2 \in 1 .. Len(q) /\ 2 - 1 = 1
        BY <1>1, <2>1
    <2>3. IsView(q[1], "loading")
        BY <1>0, <2>1, <2>2 DEF ClearsBefore
    <2>4. QED
        BY <2>3 DEF IsView
<1>10. ASSUME \A i \in 2 .. Len(q) : ~IsView(q[i], "clearSelection")
       PROVE  Current(v, s.e)
    <2>1. ~TakesNode(u.ops)
        <3>1. SUFFICES ASSUME TakesNode(u.ops) PROVE FALSE
            OBVIOUS
        <3>2. 1 < Len(q) /\ IsView(q[1 + 1], "clearSelection")
            BY <1>0, <1>1, <3>1 DEF ClearsAfter, Removes
        <3>3. 1 + 1 \in 2 .. Len(q)
            BY <1>1, <3>2
        <3>4. QED
            BY <1>10, <3>2, <3>3
    <2>2. NodesStay(d, s.e)
        BY <1>5, <2>1
    <2>3. \A i \in 1 .. Len(q) : i = 1 \/ i \in 2 .. Len(q)
        BY <1>1
    <2>4. \A i \in 1 .. Len(q) : ~IsView(q[i], "clearSelection")
        BY <1>10, <2>3 DEF IsView
    <2>5. Current(v, d)
        BY <1>0, <2>4 DEF Following
    <2>6. QED
        BY <2>2, <2>5, CurrentStays
<1>11. NoClear(l) \/ Blank(v)
    BY <1>0 DEF BlankWhileLoading
<1>12. Waiting(Tail(q), l, v, s.e)
    BY <1>8, <1>9, <1>10, <1>11, TailWaits
<1>13. QED
    BY <1>4, <1>12 DEF s

(***************************************************************************)
(* A view update at the front.                                             *)
(***************************************************************************)
LEMMA ViewReduced ==
    ASSUME NEW q, IsSeq(q), q # <<>>, \A i \in 1 .. Len(q) : Update(q[i]),
           NEW l, NEW v, Viewable(v), NEW d, Waiting(q, l, v, d), q[1].kind = "view"
    PROVE  LET w == Viewed(q[1], v)
           IN  Viewable(w) /\ Waiting(Tail(q), l, w, d)
<1> DEFINE u == q[1]
<1> DEFINE w == Viewed(u, v)
<1>0. /\ Unshifted(q, l, d) /\ ClearsBefore(q, v) /\ BlankWhileLoading(l, v) /\ Following(q, v, d)
    BY DEF Waiting
<1>1. Len(q) \in Nat /\ Len(q) >= 1 /\ 1 \in 1 .. Len(q)
    BY TailFacts
<1>2. Update(u)
    BY <1>1
<1>3. /\ Viewable(w)
      /\ u.f \in {"reset", "clearSelection", "loading"} => Blank(w)
      /\ u.f = "menu" /\ Blank(v) => Blank(w)
      /\ \A e : Current(v, e) /\ Held(u, e) => Current(w, e)
    BY <1>2, ViewedFacts
<1> HIDE DEF w
<1>4. \A i \in 2 .. Len(q) : i \in 1 .. Len(q)
    BY <1>1
<1>5. \A i \in 2 .. Len(q) : Carries(q[i]) => NoClear(l) /\ Held(q[i], d)
    BY <1>0, <1>4 DEF Unshifted
<1>6. Carries(u) => NoClear(l) /\ Held(u, d)
    BY <1>0, <1>1 DEF Unshifted
<1>7. ~Carries(u) => Held(u, d) /\ u.f \in {"reset", "clearSelection", "loading", "menu"}
    BY <1>2 DEF Carries, Held, Update, ViewNames, Choosing
<1>8. ASSUME Len(q) >= 2, ClearLoad(q[2])
      PROVE  Blank(w)
    <2>1. 2 \in 1 .. Len(q) /\ 2 - 1 = 1
        BY <1>1, <1>8
    <2>2. IsView(q[1], "loading")
        BY <1>0, <1>8, <2>1 DEF ClearsBefore
    <2>3. QED
        BY <2>2, <1>3 DEF IsView
<1>9. NoClear(l) \/ Blank(w)
    BY <1>0, <1>3, <1>6, <1>7 DEF BlankWhileLoading
<1>10. ASSUME \A i \in 2 .. Len(q) : ~IsView(q[i], "clearSelection")
       PROVE  Current(w, d)
    <2>1. CASE u.f = "clearSelection"
        BY <2>1, <1>3, BlankIsCurrent
    <2>2. CASE u.f # "clearSelection"
        <3>1. \A i \in 1 .. Len(q) : i = 1 \/ i \in 2 .. Len(q)
            BY <1>1
        <3>2. \A i \in 1 .. Len(q) : ~IsView(q[i], "clearSelection")
            BY <1>10, <2>2, <3>1 DEF IsView
        <3>3. Current(v, d)
            BY <1>0, <3>2 DEF Following
        <3>4. QED
            BY <3>3, <1>3, <1>6, <1>7
    <2>3. QED
        BY <2>1, <2>2
<1>11. Waiting(Tail(q), l, w, d)
    BY <1>5, <1>8, <1>9, <1>10, TailWaits
<1>12. QED
    BY <1>3, <1>11 DEF w

(***************************************************************************)
(* Undo, redo: nothing that carries a pick waits behind them, and where    *)
(* they put another document the selection is cleared.                     *)
(***************************************************************************)
LEMMA StackReduced ==
    ASSUME NEW q, IsSeq(q), q # <<>>,
           NEW l, NEW v, NEW d, Waiting(q, l, v, d), q[1].kind \in {"undo", "redo"},
           NEW w, NEW d2, Blank(w) \/ (w = v /\ d2 = d)
    PROVE  Waiting(Tail(q), l, w, d2)
<1>0. /\ Unshifted(q, l, d) /\ ClearsBefore(q, v) /\ BlankWhileLoading(l, v) /\ Following(q, v, d)
    BY DEF Waiting
<1>1. Len(q) \in Nat /\ Len(q) >= 1
    BY TailFacts
<1>2. \A i \in 2 .. Len(q) : i \in 1 .. Len(q) /\ 1 \in 1 .. i - 1
    BY <1>1
<1>3. Shifts(q[1])
    BY DEF Shifts
<1>4. \A i \in 2 .. Len(q) : ~Carries(q[i])
    BY <1>0, <1>2, <1>3 DEF Unshifted
<1>5. ~(Len(q) >= 2 /\ ClearLoad(q[2]))
    <2>1. SUFFICES ASSUME Len(q) >= 2, ClearLoad(q[2])
                   PROVE  FALSE
        OBVIOUS
    <2>2. 2 \in 1 .. Len(q) /\ 2 - 1 = 1
        BY <1>1, <2>1
    <2>3. IsView(q[1], "loading")
        BY <1>0, <2>1, <2>2 DEF ClearsBefore
    <2>4. QED
        BY <2>3 DEF IsView
<1>6. NoClear(l) \/ Blank(w)
    BY <1>0 DEF BlankWhileLoading
<1>7. ASSUME \A i \in 2 .. Len(q) : ~IsView(q[i], "clearSelection")
      PROVE  Current(w, d2)
    <2>1. CASE Blank(w)
        BY <2>1, BlankIsCurrent
    <2>2. CASE w = v /\ d2 = d
        <3>1. \A i \in 1 .. Len(q) : i = 1 \/ i \in 2 .. Len(q)
            BY <1>1
        <3>2. \A i \in 1 .. Len(q) : ~IsView(q[i], "clearSelection")
            BY <1>7, <3>1 DEF IsView
        <3>3. QED
            BY <1>0, <2>2, <3>2 DEF Following
    <2>3. QED
        BY <2>1, <2>2
<1>8. QED
    BY <1>4, <1>5, <1>6, <1>7, TailWaits

(***************************************************************************)
(* A load is handed to the pool.                                           *)
(***************************************************************************)
LEMMA LoadReduced ==
    ASSUME NEW q, IsSeq(q), q # <<>>,
           NEW l, NEW v, NEW d, Waiting(q, l, v, d), q[1].kind = "load",
           NEW l2, \A job \in BagToSet(l2) : job \in BagToSet(l) \/ job.clear = q[1].clear
    PROVE  Waiting(Tail(q), l2, v, d)
<1> DEFINE u == q[1]
<1>0. /\ Unshifted(q, l, d) /\ ClearsBefore(q, v) /\ BlankWhileLoading(l, v) /\ Following(q, v, d)
    BY DEF Waiting
<1>1. Len(q) \in Nat /\ Len(q) >= 1 /\ 1 \in 1 .. Len(q)
    BY TailFacts
<1>2. \A i \in 2 .. Len(q) : i \in 1 .. Len(q) /\ 1 \in 1 .. i - 1
    BY <1>1
<1>3. NoClear(l) /\ ~ClearLoad(u) => NoClear(l2)
    BY DEF NoClear, ClearLoad
<1>4. ~Shifts(u) => ~ClearLoad(u)
    BY DEF Shifts, ClearLoad
<1>5. \A i \in 2 .. Len(q) : Carries(q[i]) => NoClear(l2) /\ Held(q[i], d)
    BY <1>0, <1>2, <1>3, <1>4 DEF Unshifted
<1>6. ~(Len(q) >= 2 /\ ClearLoad(q[2]))
    <2>1. SUFFICES ASSUME Len(q) >= 2, ClearLoad(q[2])
                   PROVE  FALSE
        OBVIOUS
    <2>2. 2 \in 1 .. Len(q) /\ 2 - 1 = 1
        BY <1>1, <2>1
    <2>3. IsView(q[1], "loading")
        BY <1>0, <2>1, <2>2 DEF ClearsBefore
    <2>4. QED
        BY <2>3 DEF IsView
<1>7. NoClear(l2) \/ Blank(v)
    <2>1. ClearLoad(u) => Blank(v)
        BY <1>0, <1>1 DEF ClearsBefore
    <2>2. QED
        BY <1>0, <1>3, <2>1 DEF BlankWhileLoading
<1>8. ASSUME \A i \in 2 .. Len(q) : ~IsView(q[i], "clearSelection")
      PROVE  Current(v, d)
    <2>1. \A i \in 1 .. Len(q) : i = 1 \/ i \in 2 .. Len(q)
        BY <1>1
    <2>2. \A i \in 1 .. Len(q) : ~IsView(q[i], "clearSelection")
        BY <1>8, <2>1 DEF IsView
    <2>3. QED
        BY <1>0, <2>2 DEF Following
<1>9. QED
    BY <1>5, <1>6, <1>7, <1>8, TailWaits

(***************************************************************************)
(* A load comes in, at any time: either nothing waits that carries a pick  *)
(* and nothing is selected, or all nodes and arcs keep their indices.      *)
(***************************************************************************)
LEMMA InstallWaits ==
    ASSUME NEW q, \A i \in 1 .. Len(q) : Update(q[i]),
           NEW l, NEW v, NEW d, Waiting(q, l, v, d),
           NEW l2, BagToSet(l2) \subseteq BagToSet(l),
           NEW d2, ~NoClear(l) \/ (NodesStay(d, d2) /\ ArcsStay(d, d2))
    PROVE  Waiting(q, l2, v, d2)
<1>0. /\ Wholes(q) /\ Unshifted(q, l, d) /\ ClearsAfter(q) /\ ClearsBefore(q, v)
      /\ BlankWhileLoading(l, v) /\ Following(q, v, d)
    BY DEF Waiting
<1>1. NoClear(l) => NoClear(l2)
    BY DEF NoClear
<1>2. BlankWhileLoading(l2, v)
    BY <1>0, <1>1 DEF BlankWhileLoading
<1>3. ASSUME NEW i \in 1 .. Len(q), Carries(q[i])
      PROVE  NoClear(l2) /\ Held(q[i], d2) /\ \A j \in 1 .. i - 1 : ~Shifts(q[j])
    <2>1. NoClear(l) /\ Held(q[i], d) /\ \A j \in 1 .. i - 1 : ~Shifts(q[j])
        BY <1>0, <1>3 DEF Unshifted
    <2>2. Update(q[i]) /\ (q[i].kind = "edit" => Batch(q[i].ops))
        BY <1>0 DEF Wholes
    <2>3. Held(q[i], d2)
        BY <2>1, <2>2, HeldStays
    <2>4. QED
        BY <1>1, <2>1, <2>3
<1>4. Unshifted(q, l2, d2)
    BY <1>3 DEF Unshifted
<1>5. Following(q, v, d2)
    <2>1. CASE NoClear(l)
        BY <1>0, <2>1, CurrentStays DEF Following
    <2>2. CASE ~NoClear(l)
        BY <1>0, <2>2, BlankIsCurrent DEF BlankWhileLoading, Following
    <2>3. QED
        BY <2>1, <2>2
<1>6. QED
    BY <1>0, <1>2, <1>4, <1>5 DEF Waiting

-----------------------------------------------------------------------------
(***************************************************************************)
(* Something is pushed to the back of the queue.                           *)
(***************************************************************************)

(***************************************************************************)
(* Updates that fit document d and each other: only the first has a pick,  *)
(* a removal is followed by `clearSelection', and a load that replaces the *)
(* net comes after `loading'.                                              *)
(***************************************************************************)
Proper(ups, d) ==
    /\ Wholes(ups)
    /\ ClearsAfter(ups)
    /\ \A i \in 1 .. Len(ups) : Carries(ups[i]) => i = 1 /\ Held(ups[i], d)
    /\ \A i \in 1 .. Len(ups) : ClearLoad(ups[i]) => i # 1 /\ IsView(ups[i - 1], "loading")

(***************************************************************************)
(* With a pick they may be pushed when nothing shifts the indices, without *)
(* one at any time.                                                        *)
(***************************************************************************)
LEMMA PushWaits ==
    ASSUME NEW q, IsSeq(q), NEW ups, IsSeq(ups), NEW l, NEW v, NEW d, Waiting(q, l, v, d), Proper(ups, d),
           \/ \A i \in 1 .. Len(ups) : ~Carries(ups[i])
           \/ NoClear(l) /\ \A i \in 1 .. Len(q) : ~Shifts(q[i])
    PROVE  Waiting(q \o ups, l, v, d)
<1> DEFINE r == q \o ups
<1> DEFINE n == Len(q)
<1> DEFINE m == Len(ups)
<1>0. /\ Wholes(q) /\ Unshifted(q, l, d) /\ ClearsAfter(q) /\ ClearsBefore(q, v)
      /\ BlankWhileLoading(l, v) /\ Following(q, v, d)
    BY DEF Waiting
<1>1. n \in Nat /\ m \in Nat
    BY SeqElim
<1>2. /\ Len(r) = n + m
      /\ \A i \in 1 .. n : r[i] = q[i]
      /\ \A i \in 1 .. m : r[n + i] = ups[i]
    BY SeqConcat
<1>3. \A i \in 1 .. Len(r) : i \in 1 .. n \/ (i - n \in 1 .. m /\ i = n + (i - n) /\ ~(i \in 1 .. n))
    <2>1. \A a, b \in Nat : \A i \in 1 .. a + b : i \in 1 .. a \/ (i - a \in 1 .. b /\ i = a + (i - a) /\ ~(i \in 1 .. a))
        OBVIOUS
    <2>2. QED
        BY <1>1, <1>2, <2>1
<1>4. \A i \in 1 .. Len(r) : (i \in 1 .. n /\ r[i] = q[i]) \/ (i - n \in 1 .. m /\ r[i] = ups[i - n])
    BY <1>2, <1>3
<1>5. \A i \in 1 .. n : i \in 1 .. Len(r)
    <2>1. \A a, b \in Nat : \A i \in 1 .. a : i \in 1 .. a + b
        OBVIOUS
    <2>2. QED
        BY <1>1, <1>2, <2>1
<1> HIDE DEF r
<1>6. Wholes(r)
    BY <1>0, <1>4 DEF Wholes, Proper
<1>7. Unshifted(r, l, d)
    <2>1. SUFFICES ASSUME NEW i \in 1 .. Len(r), Carries(r[i])
                   PROVE  (\A j \in 1 .. i - 1 : ~Shifts(r[j])) /\ NoClear(l) /\ Held(r[i], d)
        BY DEF Unshifted
    <2>2. CASE i \in 1 .. n /\ r[i] = q[i]
        <3>1. (\A j \in 1 .. i - 1 : ~Shifts(q[j])) /\ NoClear(l) /\ Held(q[i], d)
            BY <1>0, <2>1, <2>2 DEF Unshifted
        <3>2. \A j \in 1 .. i - 1 : j \in 1 .. n
            BY <1>1, <2>2
        <3>3. \A j \in 1 .. i - 1 : r[j] = q[j]
            BY <1>2, <3>2 DEF r
        <3>4. QED
            BY <2>2, <3>1, <3>3
    <2>3. CASE i - n \in 1 .. m /\ r[i] = ups[i - n]
        <3>1. i - n = 1 /\ Held(r[i], d)
            BY <2>1, <2>3 DEF Proper
        <3>2. NoClear(l) /\ \A j \in 1 .. n : ~Shifts(q[j])
            BY <2>1, <2>3
        <3>3. \A j \in 1 .. i - 1 : j \in 1 .. n
            BY <1>1, <3>1
        <3>4. \A j \in 1 .. i - 1 : r[j] = q[j]
            BY <1>2, <3>3 DEF r
        <3>5. QED
            BY <3>1, <3>2, <3>3, <3>4
    <2>4. QED
        BY <1>4, <2>2, <2>3
<1>8. ClearsAfter(r)
    <2>1. SUFFICES ASSUME NEW i \in 1 .. Len(r), Removes(r[i])
                   PROVE  i < Len(r) /\ IsView(r[i + 1], "clearSelection")
        BY DEF ClearsAfter
    <2>2. CASE i \in 1 .. n /\ r[i] = q[i]
        <3>1. i < n /\ IsView(q[i + 1], "clearSelection")
            BY <1>0, <2>1, <2>2 DEF ClearsAfter
        <3>2. i + 1 \in 1 .. n /\ i < n + m
            BY <1>1, <2>2, <3>1
        <3>3. r[i + 1] = q[i + 1] /\ Len(r) = n + m
            BY <1>2, <3>2 DEF r
        <3>4. QED
            BY <3>1, <3>2, <3>3
    <2>3. CASE i - n \in 1 .. m /\ r[i] = ups[i - n]
        <3>1. i - n < m /\ IsView(ups[(i - n) + 1], "clearSelection")
            BY <2>1, <2>3 DEF ClearsAfter, Proper
        <3>2. (i - n) + 1 \in 1 .. m /\ n + ((i - n) + 1) = i + 1 /\ i < n + m
            BY <1>1, <2>1, <2>3, <3>1
        <3>3. r[n + ((i - n) + 1)] = ups[(i - n) + 1] /\ Len(r) = n + m
            BY <1>2, <3>2 DEF r
        <3>4. QED
            BY <3>1, <3>2, <3>3
    <2>4. QED
        BY <1>4, <2>2, <2>3
<1>9. ClearsBefore(r, v)
    <2>1. SUFFICES ASSUME NEW i \in 1 .. Len(r), ClearLoad(r[i])
                   PROVE  IF i = 1 THEN Blank(v) ELSE IsView(r[i - 1], "loading")
        BY DEF ClearsBefore
    <2>2. CASE i \in 1 .. n /\ r[i] = q[i]
        <3>1. IF i = 1 THEN Blank(v) ELSE IsView(q[i - 1], "loading")
            BY <1>0, <2>1, <2>2 DEF ClearsBefore
        <3>2. i # 1 => i - 1 \in 1 .. n
            BY <1>1, <2>2
        <3>3. i # 1 => r[i - 1] = q[i - 1]
            BY <1>2, <3>2 DEF r
        <3>4. QED
            BY <3>1, <3>3
    <2>3. CASE i - n \in 1 .. m /\ r[i] = ups[i - n]
        <3>1. i - n # 1 /\ IsView(ups[(i - n) - 1], "loading")
            BY <2>1, <2>3 DEF Proper
        <3>2. (i - n) - 1 \in 1 .. m /\ n + ((i - n) - 1) = i - 1 /\ i # 1
            BY <1>1, <2>1, <2>3, <3>1
        <3>3. r[n + ((i - n) - 1)] = ups[(i - n) - 1]
            BY <1>2, <3>2 DEF r
        <3>4. QED
            BY <3>1, <3>2, <3>3
    <2>4. QED
        BY <1>4, <2>2, <2>3
<1>10. Following(r, v, d)
    <2>1. SUFFICES ASSUME \A i \in 1 .. Len(r) : ~IsView(r[i], "clearSelection")
                   PROVE  Current(v, d)
        BY DEF Following
    <2>2. \A i \in 1 .. n : ~IsView(q[i], "clearSelection")
        BY <1>2, <1>5, <2>1 DEF r
    <2>3. QED
        BY <1>0, <2>2 DEF Following
<1>11. QED
    BY <1>0, <1>6, <1>7, <1>8, <1>9, <1>10 DEF Waiting, r

(***************************************************************************)
(* One update is pushed, or one and a view update that follows it.         *)
(***************************************************************************)
Fits(u, d) ==
    /\ u.kind = "edit" => Batch(u.ops)
    /\ Carries(u) => Held(u, d)
    /\ ~ClearLoad(u)

(***************************************************************************)
(* A batch of a single update, as pushEdit and pushView of rxdispatch.cpp  *)
(* make it.                                                                *)
(***************************************************************************)
LEMMA OneUpdate ==
    ASSUME NEW u, NEW d
    PROVE  /\ IsSeq(<<u>>) /\ (Update(u) => \A i \in 1 .. Len(<<u>>) : Update(<<u>>[i]))
           /\ Fits(u, d) /\ ~Removes(u) => Proper(<<u>>, d)
           /\ ~Carries(u) => \A i \in 1 .. Len(<<u>>) : ~Carries(<<u>>[i])
<1> DEFINE r == <<u>>
<1>1. Len(r) = 1 /\ r[1] = u /\ r = [i \in 1 .. 1 |-> r[i]]
    OBVIOUS
<1> HIDE DEF r
<1>2. IsSeq(r)
    BY <1>1, SeqIntro
<1>3. \A i \in 1 .. Len(r) : i = 1
    BY <1>1
<1>4. ASSUME Fits(u, d), ~Removes(u)
      PROVE  Proper(r, d)
    BY <1>1, <1>3, <1>4 DEF Fits, Proper, Wholes, ClearsAfter
<1>5. QED
    BY <1>1, <1>2, <1>3, <1>4 DEF r

(***************************************************************************)
(* A batch of an edit and the view update that follows it                  *)
(* (rxdispatch.cpp).                                                       *)
(***************************************************************************)
LEMMA TwoUpdates ==
    ASSUME NEW u, NEW d, NEW w, w.kind = "view", w.f \in {"menu", "clearSelection", "reset"}
    PROVE  /\ IsSeq(<<u, w>>) /\ (Update(u) => \A i \in 1 .. Len(<<u, w>>) : Update(<<u, w>>[i]))
           /\ Fits(u, d) /\ (Removes(u) => w.f = "clearSelection") => Proper(<<u, w>>, d)
           /\ ~Carries(u) => \A i \in 1 .. Len(<<u, w>>) : ~Carries(<<u, w>>[i])
<1> DEFINE r == <<u, w>>
<1>1. Len(r) = 2 /\ r[1] = u /\ r[2] = w /\ r = [i \in 1 .. 2 |-> r[i]]
    OBVIOUS
<1> HIDE DEF r
<1>2. IsSeq(r)
    BY <1>1, SeqIntro
<1>3. \A i \in 1 .. Len(r) : i = 1 \/ i = 2
    BY <1>1
<1>4. ~Carries(w) /\ ~Removes(w) /\ ~ClearLoad(w) /\ Update(w)
    BY DEF Carries, Removes, ClearLoad, Choosing, Update, ViewNames
<1>5. ASSUME Fits(u, d), Removes(u) => w.f = "clearSelection"
      PROVE  Proper(r, d)
    <2>1. Wholes(r)
        BY <1>1, <1>3, <1>5 DEF Fits, Wholes
    <2>2. ClearsAfter(r)
        <3>1. 1 < Len(r) /\ 1 + 1 = 2
            BY <1>1
        <3>2. QED
            BY <1>1, <1>3, <1>4, <1>5, <3>1 DEF ClearsAfter, IsView
    <2>3. QED
        BY <1>1, <1>3, <1>4, <1>5, <2>1, <2>2 DEF Fits, Proper
<1>6. QED
    BY <1>1, <1>2, <1>3, <1>4, <1>5 DEF r

(***************************************************************************)
(* A load is asked for.                                                    *)
(***************************************************************************)
LEMMA LoadPushed ==
    ASSUME NEW d, NEW path \in DOMAIN Disk, NEW clear
    PROVE  LET ups == LoadUpdates(path, clear)
           IN  /\ IsSeq(ups) /\ Len(ups) = 2
               /\ \A i \in 1 .. Len(ups) : Update(ups[i]) /\ ~Carries(ups[i])
               /\ Proper(ups, d)
               /\ ups[1].kind = "view" /\ ups[1].f = "loading"
               /\ ups[2].kind = "load" /\ ups[2].path = path /\ ups[2].clear = clear
<1> DEFINE r == LoadUpdates(path, clear)
<1> DEFINE a == ViewOf("loading", None)
<1> DEFINE b == [kind |-> "load", path |-> path, clear |-> clear]
<1>1. Len(r) = 2 /\ r[1] = a /\ r[2] = b /\ r = [i \in 1 .. 2 |-> r[i]]
    BY DEF LoadUpdates
<1>2. a.kind = "view" /\ a.f = "loading" /\ b.kind = "load" /\ b.path = path /\ b.clear = clear
    BY DEF ViewOf
<1> HIDE DEF r, a, b
<1>3. IsSeq(r)
    BY <1>1, SeqIntro
<1>4. \A i \in 1 .. Len(r) : i = 1 \/ i = 2
    BY <1>1
<1>5. /\ Update(a) /\ ~Carries(a) /\ ~Removes(a) /\ ~ClearLoad(a)
      /\ Update(b) /\ ~Carries(b) /\ ~Removes(b)
    BY <1>2 DEF Carries, Removes, ClearLoad, Choosing, Update, ViewNames
<1>6. \A i \in 1 .. Len(r) : Update(r[i]) /\ ~Carries(r[i]) /\ ~Removes(r[i]) /\ r[i].kind # "edit"
    BY <1>1, <1>2, <1>4, <1>5
<1>7. IsView(r[2 - 1], "loading") /\ ~ClearLoad(r[1])
    BY <1>1, <1>2, <1>5 DEF IsView
<1>8. \A i \in 1 .. Len(r) : ClearLoad(r[i]) => i # 1 /\ IsView(r[i - 1], "loading")
    BY <1>4, <1>7
<1>9. Proper(r, d)
    BY <1>6, <1>8 DEF Proper, Wholes, ClearsAfter
<1>10. QED
    BY <1>1, <1>2, <1>3, <1>6, <1>9 DEF r

-----------------------------------------------------------------------------
(***************************************************************************)
(* What the user can push.                                                 *)
(***************************************************************************)

(***************************************************************************)
(* An operation on nodes that are picked in document d.                    *)
(***************************************************************************)
Picked(kind, pick, d) == pick = None \/ pick \in PicksIn(d, kind)

(***************************************************************************)
(* A reducer that is pushed with the node a menu shows means that node and *)
(* finds its index in the vectors.                                         *)
(***************************************************************************)
LEMMA OpFits ==
    ASSUME NEW d, Structure(d), NEW f \in OpNames, NEW t, NEW p, NEW arg,
           f # "arcColor", Picked("Transition", t, d), Picked("Place", p, d),
           f = "addPlace" => t = None /\ p = None,
           f = "addArc" => t # None /\ p # None /\ arg \in {"Place", "Transition"},
           f \in {"removeArc", "fire", "output", "removeTransition"} => t # None /\ p = None,
           f \in {"addToken", "removePlace"} => t = None /\ p # None
    PROVE  LET op == Op(f, t, p, arg)
           IN  Given(op) /\ Means(op, d) /\ InVectors(op, d)
<1> DEFINE op == Op(f, t, p, arg)
<1>1. op.f = f /\ op.t = t /\ op.p = p /\ op.arg = arg
    BY DEF Op
<1>2. /\ t # None => t[1] \in DOMAIN d.transition /\ d.transition[t[1]].id = t[2]
      /\ p # None => p[1] \in DOMAIN d.place /\ d.place[p[1]].id = p[2]
    BY PickFacts DEF Picked
<1> HIDE DEF op
<1>3. Given(op)
    BY <1>1 DEF Given
<1>4. Means(op, d)
    BY <1>1, <1>2 DEF Means
<1>5. InVectors(op, d)
    BY <1>1, <1>2 DEF InVectors
<1>6. QED
    BY <1>3, <1>4, <1>5 DEF op

(***************************************************************************)
(* An edit of one operation.                                               *)
(***************************************************************************)
LEMMA OneOp ==
    ASSUME NEW d, NEW op, op.f \in OpNames
    PROVE  LET u == EditOf(<<op>>)
           IN  /\ Update(u)
               /\ Given(op) /\ Means(op, d) /\ InVectors(op, d) => Fits(u, d)
               /\ Removes(u) <=> op.f \in {"removePlace", "removeTransition"}
               /\ op.f = "addPlace" => ~Carries(u)
<1> DEFINE ops == <<op>>
<1> DEFINE u == EditOf(ops)
<1>1. Len(ops) = 1 /\ ops[1] = op /\ ops = [i \in 1 .. 1 |-> ops[i]]
    OBVIOUS
<1>2. u.kind = "edit" /\ u.ops = ops
    BY DEF EditOf
<1> HIDE DEF ops, u
<1>3. IsSeq(ops)
    BY <1>1, SeqIntro
<1>4. \A i \in 1 .. Len(ops) : i = 1
    BY <1>1
<1>5. 1 \in 1 .. Len(ops)
    BY <1>1
<1>6. Update(u)
    BY <1>1, <1>2, <1>3, <1>4 DEF Update
<1>7. ASSUME Given(op), Means(op, d), InVectors(op, d)
      PROVE  Fits(u, d)
    <2>1. Batch(ops)
        BY <1>1, <1>4, <1>7 DEF Batch
    <2>2. Holds(ops, d, 0)
        <3>1. \A i \in 0 + 1 .. Len(ops) : i = 1
            BY <1>1
        <3>2. QED
            BY <1>1, <1>7, <3>1 DEF Holds
    <2>3. QED
        BY <1>2, <2>1, <2>2 DEF Fits, Held, ClearLoad
<1>8. Removes(u) <=> op.f \in {"removePlace", "removeTransition"}
    BY <1>1, <1>2, <1>4, <1>5 DEF Removes, TakesNode
<1>9. op.f = "addPlace" => ~Carries(u)
    BY <1>1, <1>2, <1>4 DEF Carries
<1>10. QED
    BY <1>6, <1>7, <1>8, <1>9 DEF ops, u

(***************************************************************************)
(* A click that changes the view.                                          *)
(***************************************************************************)
LEMMA OneView ==
    ASSUME NEW d, NEW f \in ViewNames, NEW arg, f \in Choosing => arg[1] \in {"Place", "Transition"}
    PROVE  LET u == ViewOf(f, arg)
           IN  /\ u.kind = "view" /\ u.f = f /\ Update(u) /\ ~Removes(u)
               /\ (f \in Choosing => arg[2] \in PicksIn(d, arg[1]))
                  /\ (f = "selectArc" => arg[2] \in PicksIn(d, "Transition")) => Fits(u, d)
               /\ f \in {"reset", "menu", "clearSelection"} => ~Carries(u)
<1> DEFINE u == ViewOf(f, arg)
<1>1. u.kind = "view" /\ u.f = f /\ u.arg = arg
    BY DEF ViewOf
<1> HIDE DEF u
<1>2. Update(u) /\ ~Removes(u) /\ ~ClearLoad(u)
    BY <1>1 DEF Update, Removes, ClearLoad
<1>3. ASSUME f \in Choosing => arg[2] \in PicksIn(d, arg[1]), f = "selectArc" => arg[2] \in PicksIn(d, "Transition")
      PROVE  Fits(u, d)
    <2>1. Held(u, d)
        BY <1>1, <1>3 DEF Held
    <2>2. QED
        BY <1>1, <1>2, <2>1 DEF Fits
<1>4. f \in {"reset", "menu", "clearSelection"} => ~Carries(u)
    BY <1>1 DEF Carries, Choosing
<1>5. QED
    BY <1>1, <1>2, <1>3, <1>4 DEF u

(***************************************************************************)
(* An operation for each of some transitions, and one for each of some     *)
(* places.                                                                 *)
(***************************************************************************)
LEMMA EachOf ==
    ASSUME NEW ts, IsSeq(ts), NEW ps, IsSeq(ps), NEW f \in OpNames, NEW g \in OpNames
    PROVE  LET ops == [i \in DOMAIN ts |-> Op(f, ts[i], None, None)] \o [i \in DOMAIN ps |-> Op(g, None, ps[i], None)]
           IN  /\ IsSeq(ops)
               /\ \A i \in 1 .. Len(ops) :
                    \/ i \in 1 .. Len(ts) /\ ops[i].f = f /\ ops[i].t = ts[i] /\ ops[i].p = None
                    \/ /\ i - Len(ts) \in 1 .. Len(ps) /\ ops[i].f = g
                       /\ ops[i].t = None /\ ops[i].p = ps[i - Len(ts)]
<1> DEFINE a == [i \in DOMAIN ts |-> Op(f, ts[i], None, None)]
<1> DEFINE b == [i \in DOMAIN ps |-> Op(g, None, ps[i], None)]
<1> DEFINE ops == a \o b
<1> DEFINE n == Len(ts)
<1> DEFINE m == Len(ps)
<1>1. n \in Nat /\ m \in Nat /\ DOMAIN ts = 1 .. n /\ DOMAIN ps = 1 .. m
    BY SeqElim
<1>2. DOMAIN a = DOMAIN ts /\ a = [i \in DOMAIN a |-> a[i]] /\ DOMAIN b = DOMAIN ps /\ b = [i \in DOMAIN b |-> b[i]]
    OBVIOUS
<1>3. /\ \A i \in 1 .. n : a[i].f = f /\ a[i].t = ts[i] /\ a[i].p = None
      /\ \A i \in 1 .. m : b[i].f = g /\ b[i].t = None /\ b[i].p = ps[i]
    BY <1>1 DEF Op
<1> HIDE DEF a, b, n, m
<1>4. IsSeq(a) /\ Len(a) = n
    BY <1>2, SeqOver DEF n
<1>5. IsSeq(b) /\ Len(b) = m
    BY <1>2, SeqOver DEF m
<1>6. IsSeq(ops)
    BY <1>4, <1>5, SeqConcat
<1>7. Len(ops) = n + m /\ (\A i \in 1 .. n : ops[i] = a[i]) /\ (\A i \in 1 .. m : ops[n + i] = b[i])
    BY <1>4, <1>5, SeqConcat
<1> HIDE DEF ops
<1>8. \A i \in 1 .. Len(ops) : i \in 1 .. n \/ (i - n \in 1 .. m /\ i = n + (i - n))
    <2>1. \A x, y \in Nat : \A i \in 1 .. x + y : i \in 1 .. x \/ (i - x \in 1 .. y /\ i = x + (i - x))
        OBVIOUS
    <2>2. QED
        BY <1>1, <1>7, <2>1
<1>9. ASSUME NEW i \in 1 .. Len(ops)
      PROVE  \/ i \in 1 .. n /\ ops[i].f = f /\ ops[i].t = ts[i] /\ ops[i].p = None
             \/ i - n \in 1 .. m /\ ops[i].f = g /\ ops[i].t = None /\ ops[i].p = ps[i - n]
    <2>1. CASE i \in 1 .. n
        BY <2>1, <1>3, <1>7
    <2>2. CASE i - n \in 1 .. m /\ i = n + (i - n)
        <3>1. ops[i] = b[i - n]
            BY <2>2, <1>7
        <3>2. QED
            BY <2>2, <3>1, <1>3
    <2>3. QED
        BY <1>8, <2>1, <2>2
<1>10. QED
    BY <1>6, <1>9 DEF ops, a, b, n, m

(***************************************************************************)
(* What is highlighted is dragged or deleted.                              *)
(***************************************************************************)
LEMMA Highlighted ==
    ASSUME NEW d, Structure(d), NEW S, IsFiniteSet(S), NEW R, IsFiniteSet(R), NEW f, NEW g,
           (f = "move" /\ g = "move") \/ (f = "removeTransition" /\ g = "removePlace")
    PROVE  LET ts == Ordered(S)
               ps == Ordered(R)
               u == EditOf([i \in DOMAIN ts |-> Op(f, ts[i], None, None)]
                           \o [i \in DOMAIN ps |-> Op(g, None, ps[i], None)])
           IN  /\ Update(u)
               /\ f = "move" => ~Removes(u)
               /\ S \subseteq PicksIn(d, "Transition") /\ R \subseteq PicksIn(d, "Place") => Fits(u, d)
<1> DEFINE ts == Ordered(S)
<1> DEFINE ps == Ordered(R)
<1> DEFINE ops == [i \in DOMAIN ts |-> Op(f, ts[i], None, None)] \o [i \in DOMAIN ps |-> Op(g, None, ps[i], None)]
<1> DEFINE u == EditOf(ops)
<1>0. SUFFICES /\ Update(u)
               /\ f = "move" => ~Removes(u)
               /\ S \subseteq PicksIn(d, "Transition") /\ R \subseteq PicksIn(d, "Place") => Fits(u, d)
    OBVIOUS
<1>1. f \in OpNames /\ g \in OpNames
    BY DEF OpNames
<1>2. IsSeq(ts) /\ IsSeq(ps)
    BY OrderedFacts
<1> HIDE DEF ts, ps
<1>ops. /\ IsSeq(ops)
        /\ \A i \in 1 .. Len(ops) :
              \/ i \in 1 .. Len(ts) /\ ops[i].f = f /\ ops[i].t = ts[i] /\ ops[i].p = None
              \/ /\ i - Len(ts) \in 1 .. Len(ps) /\ ops[i].f = g
                 /\ ops[i].t = None /\ ops[i].p = ps[i - Len(ts)]
    BY <1>1, <1>2, EachOf, ZenonT(60)
<1>3. IsSeq(ops)
    BY <1>ops
<1>4. \A i \in 1 .. Len(ops) :
        \/ i \in 1 .. Len(ts) /\ ops[i].f = f /\ ops[i].t = ts[i] /\ ops[i].p = None
        \/ i - Len(ts) \in 1 .. Len(ps) /\ ops[i].f = g /\ ops[i].t = None /\ ops[i].p = ps[i - Len(ts)]
    BY <1>ops
<1>5. u.kind = "edit" /\ u.ops = ops
    BY DEF EditOf
<1> HIDE DEF ops, u
<1>6. Update(u)
    BY <1>1, <1>3, <1>4, <1>5 DEF Update
<1>7. f = "move" => ~Removes(u)
    BY <1>4, <1>5 DEF Removes, TakesNode
<1>8. ASSUME S \subseteq PicksIn(d, "Transition"), R \subseteq PicksIn(d, "Place")
      PROVE  Fits(u, d)
    <2>1. /\ \A a \in S : a # None /\ a[1] \in Nat /\ a[1] \in DOMAIN d.transition /\ d.transition[a[1]].id = a[2]
          /\ \A a \in R : a # None /\ a[1] \in Nat /\ a[1] \in DOMAIN d.place /\ d.place[a[1]].id = a[2]
        BY <1>8, PickFacts
    <2>2. (\A a, b \in S : a[1] = b[1] => a = b) /\ (\A a, b \in R : a[1] = b[1] => a = b)
        BY <1>8, PicksDiffer
    <2>3. /\ \A i \in 1 .. Len(ts) : ts[i] \in S
          /\ \A i, j \in 1 .. Len(ts) : i < j => ts[j][1] < ts[i][1]
        BY <2>1, <2>2, OrderedFacts DEF ts
    <2>4. /\ \A i \in 1 .. Len(ps) : ps[i] \in R
          /\ \A i, j \in 1 .. Len(ps) : i < j => ps[j][1] < ps[i][1]
        BY <2>1, <2>2, OrderedFacts DEF ps
    <2>5. ASSUME NEW i \in 1 .. Len(ops)
          PROVE  Given(ops[i]) /\ Means(ops[i], d) /\ InVectors(ops[i], d)
        <3>1. /\ ops[i].f \in {f, g}
              /\ ops[i].t # None => ops[i].t[1] \in DOMAIN d.transition /\ d.transition[ops[i].t[1]].id = ops[i].t[2]
              /\ ops[i].p # None => ops[i].p[1] \in DOMAIN d.place /\ d.place[ops[i].p[1]].id = ops[i].p[2]
            BY <1>4, <2>1, <2>3, <2>4
        <3>2. /\ ops[i].f = "removeTransition" => ops[i].t # None /\ ops[i].p = None
              /\ ops[i].f = "removePlace" => ops[i].t = None /\ ops[i].p # None
            BY <1>4, <2>1, <2>3, <2>4
        <3>3. QED
            BY <1>1, <3>1, <3>2 DEF Given, Means, InVectors
    <2>6. Batch(ops)
        <3>1. CASE f = "move" /\ g = "move"
            BY <1>4, <2>5, <3>1 DEF Batch
        <3>2. CASE f = "removeTransition" /\ g = "removePlace"
            <4>1. Deletes(ops)
                <5>1. ASSUME NEW i \in 1 .. Len(ops), NEW j \in 1 .. Len(ops), i < j, ops[i].f = ops[j].f
                      PROVE  IF ops[i].f = "removePlace" THEN ops[j].p[1] < ops[i].p[1] ELSE ops[j].t[1] < ops[i].t[1]
                    <6>1. CASE ops[i].f = "removePlace"
                        <7>1. /\ i - Len(ts) \in 1 .. Len(ps) /\ ops[i].p = ps[i - Len(ts)]
                              /\ j - Len(ts) \in 1 .. Len(ps) /\ ops[j].p = ps[j - Len(ts)]
                            BY <1>4, <3>2, <5>1, <6>1
                        <7>2. i - Len(ts) < j - Len(ts)
                            BY <1>2, <5>1, SeqElim
                        <7>3. QED
                            BY <2>4, <6>1, <7>1, <7>2
                    <6>2. CASE ops[i].f # "removePlace"
                        <7>1. i \in 1 .. Len(ts) /\ ops[i].t = ts[i] /\ j \in 1 .. Len(ts) /\ ops[j].t = ts[j]
                            BY <1>4, <3>2, <5>1, <6>2
                        <7>2. QED
                            BY <2>3, <5>1, <6>2, <7>1
                    <6>3. QED
                        BY <6>1, <6>2
                <5>2. \A i \in 1 .. Len(ops) : ops[i].f \in {"removePlace", "removeTransition"}
                    BY <1>4, <3>2
                <5>3. QED
                    BY <5>1, <5>2 DEF Deletes
            <4>2. QED
                BY <2>5, <4>1 DEF Batch
        <3>3. QED
            BY <3>1, <3>2
    <2>7. Holds(ops, d, 0)
        BY <2>5 DEF Holds
    <2>8. QED
        BY <1>5, <2>6, <2>7 DEF Fits, Held, ClearLoad
<1>9. QED
    BY <1>6, <1>7, <1>8

-----------------------------------------------------------------------------
(***************************************************************************)
(* The documents: the one on show and those that undo and redo go to.      *)
(***************************************************************************)
Documents == {doc} \cup {past[i] : i \in 1 .. Len(past)} \cup {future[i] : i \in 1 .. Len(future)}

Stacks == IsSeq(past) /\ IsSeq(future)

(***************************************************************************)
(* An edit or a load adds one; undo and redo add none.                     *)
(***************************************************************************)
LEMMA HistoryDocuments ==
    ASSUME NEW next, Stacks, History(next)
    PROVE  Stacks' /\ Documents' \subseteq Documents \cup {next} /\ doc' = next
<1>1. doc' = next /\ past' = Append(past, doc) /\ future' = <<>>
    BY DEF History
<1>2. IsSeq(past') /\ Len(past') = Len(past) + 1 /\ Len(past) \in Nat
      /\ (\A i \in 1 .. Len(past) : past'[i] = past[i]) /\ past'[Len(past) + 1] = doc
    BY <1>1, SeqAppend, SeqElim DEF Stacks
<1>3. IsSeq(future') /\ Len(future') = 0
    <2>1. <<>> \in Seq({})
        OBVIOUS
    <2>2. QED
        BY <1>1, <2>1, SeqIs
<1>4. \A i \in 1 .. Len(past') : past'[i] \in Documents
    <2>1. \A i \in 1 .. Len(past') : i \in 1 .. Len(past) \/ i = Len(past) + 1
        BY <1>2
    <2>2. QED
        BY <1>2, <2>1 DEF Documents
<1>5. \A i \in 1 .. Len(future') : FALSE
    BY <1>3
<1>6. QED
    BY <1>1, <1>2, <1>3, <1>4, <1>5 DEF Stacks, Documents

(***************************************************************************)
(* Undo, of reactive.h and model.h, brings back a document that was there, *)
(* and makes no other.                                                     *)
(***************************************************************************)
LEMMA UndoDocuments ==
    ASSUME Stacks, Stack!Undo
    PROVE  Stacks' /\ Documents' \subseteq Documents
<1>1. past # <<>> /\ doc' = past[Len(past)] /\ past' = SubSeq(past, 1, Len(past) - 1) /\ future' = <<doc>> \o future
    BY DEF Stack!Undo
<1>2. Len(past) \in Nat /\ Len(past) >= 1
    BY <1>1, TailFacts DEF Stacks
<1>3. doc' \in Documents
    BY <1>1, <1>2 DEF Documents
<1>4. IsSeq(past') /\ Len(past') = Len(past) - 1 /\ \A i \in 1 .. Len(past) - 1 : past'[i] = past[i]
    <2> DEFINE A == {past[i] : i \in 1 .. Len(past)}
    <2>1. past \in Seq(A)
        BY SeqElim, SeqType DEF Stacks
    <2> HIDE DEF A
    <2>2. past' \in Seq(A)
        BY <1>1, <1>2, <2>1
    <2>3. IsSeq(past')
        BY <2>2, SeqIs
    <2>4. QED
        BY <1>1, <1>2, <2>1, <2>3
<1>5. \A i \in 1 .. Len(past') : past'[i] \in Documents
    <2>1. \A i \in 1 .. Len(past') : i \in 1 .. Len(past) /\ past'[i] = past[i]
        BY <1>2, <1>4
    <2>2. QED
        BY <2>1 DEF Documents
<1>6. IsSeq(future') /\ \A i \in 1 .. Len(future') : future'[i] \in Documents
    <2> DEFINE one == <<doc>>
    <2>1. IsSeq(one) /\ Len(one) = 1 /\ one[1] = doc
        BY OneUpdate
    <2> HIDE DEF one
    <2>2. IsSeq(one \o future)
        BY <2>1, SeqConcat DEF Stacks
    <2>3. /\ Len(one \o future) = 1 + Len(future)
          /\ \A i \in 1 .. 1 : (one \o future)[i] = one[i]
          /\ \A i \in 1 .. Len(future) : (one \o future)[1 + i] = future[i]
        <3>1. /\ Len(one \o future) = Len(one) + Len(future)
              /\ \A i \in 1 .. Len(one) : (one \o future)[i] = one[i]
              /\ \A i \in 1 .. Len(future) : (one \o future)[Len(one) + i] = future[i]
            <4>1. IsSeq(one) /\ IsSeq(future)
                BY <2>1 DEF Stacks
            <4>2. QED
                BY <4>1, SeqConcat
        <3>2. QED
            BY <2>1, <3>1
    <2>4. \A i \in 1 .. 1 + Len(future) : i \in 1 .. 1 \/ (i - 1 \in 1 .. Len(future) /\ 1 + (i - 1) = i)
        <3>1. Len(future) \in Nat
            BY SeqElim DEF Stacks
        <3>2. QED
            BY <3>1
    <2>5. ASSUME NEW i \in 1 .. Len(one \o future)
          PROVE  (one \o future)[i] \in Documents
        <3>1. CASE i \in 1 .. 1
            BY <3>1, <2>1, <2>3 DEF Documents
        <3>2. CASE i - 1 \in 1 .. Len(future) /\ 1 + (i - 1) = i
            <4>1. (one \o future)[1 + (i - 1)] = future[i - 1]
                BY <3>2, <2>3
            <4>2. (one \o future)[i] = future[i - 1]
                BY <4>1, <3>2
            <4>3. QED
                BY <3>2, <4>2 DEF Documents
        <3>3. QED
            BY <2>3, <2>4, <3>1, <3>2
    <2>6. QED
        BY <1>1, <2>2, <2>5 DEF one
<1>7. QED
    BY <1>3, <1>4, <1>5, <1>6 DEF Stacks, Documents

(***************************************************************************)
(* Redo, of reactive.h and model.h, brings back a document that was there, *)
(* and makes no other.                                                     *)
(***************************************************************************)
LEMMA RedoDocuments ==
    ASSUME Stacks, Stack!Redo
    PROVE  Stacks' /\ Documents' \subseteq Documents
<1>1. future # <<>> /\ past' = Append(past, doc) /\ doc' = Head(future) /\ future' = Tail(future)
    BY DEF Stack!Redo
<1>2. IsSeq(past') /\ Len(past') = Len(past) + 1 /\ Len(past) \in Nat
      /\ (\A i \in 1 .. Len(past) : past'[i] = past[i]) /\ past'[Len(past) + 1] = doc
    BY <1>1, SeqAppend, SeqElim DEF Stacks
<1>3. \A i \in 1 .. Len(past') : past'[i] \in Documents
    <2>1. \A i \in 1 .. Len(past') : i \in 1 .. Len(past) \/ i = Len(past) + 1
        BY <1>2
    <2>2. QED
        BY <1>2, <2>1 DEF Documents
<1>4. /\ Len(future) \in Nat /\ Len(future) >= 1 /\ doc' = future[1]
      /\ IsSeq(future') /\ Len(future') = Len(future) - 1
      /\ \A i \in 1 .. Len(future) - 1 : future'[i] = future[i + 1]
    BY <1>1, TailFacts DEF Stacks
<1>5. \A i \in 1 .. Len(future') : i + 1 \in 1 .. Len(future) /\ future'[i] = future[i + 1]
    BY <1>4
<1>6. QED
    BY <1>2, <1>3, <1>4, <1>5, SMTT(60), ZenonT(60) DEF Stacks, Documents

-----------------------------------------------------------------------------
(***************************************************************************)
(* The inductive invariant of the editor.                                  *)
(***************************************************************************)

(***************************************************************************)
(* In no file a marked place is without arcs (the parser forgets such a    *)
(* place and keeps its marking).                                           *)
(***************************************************************************)
DiskHasNoStrays == \A path \in DOMAIN Disk : NoStrays(Disk[path])

SoundDocument(e) == Structure(e) /\ (DiskHasNoStrays => TokensInRange(e))

(***************************************************************************)
(* What holds whatever is clicked when.                                    *)
(***************************************************************************)
Always ==
    /\ Stacks
    /\ \A e \in Documents : Loose(e)
    /\ IsSeq(queue) /\ \A i \in 1 .. Len(queue) : Update(queue[i])
    /\ \A job \in BagToSet(loading) : job.path \in DOMAIN Disk

(***************************************************************************)
(* And as long as nothing has been picked in haste.                        *)
(***************************************************************************)
Tended ==
    /\ \A e \in Documents : SoundDocument(e)
    /\ Viewable(view)
    /\ Waiting(queue, loading, view, doc)
    /\ fault # "reducer"
    /\ missed = FALSE

EditorInv == Always /\ (~hasty => Tended)

(***************************************************************************)
(* The document on show is one of the history's.                           *)
(***************************************************************************)
LEMMA DocOnShow ==
    ASSUME EditorInv
    PROVE  Loose(doc) /\ (~hasty => SoundDocument(doc))
BY DEF EditorInv, Always, Tended, Documents

(***************************************************************************)
(* The front of the queue, as the steps know it.                           *)
(***************************************************************************)
LEMMA FrontFacts ==
    ASSUME Always, queue # <<>>, queue' = Tail(queue)
    PROVE  /\ IsSeq(queue') /\ \A i \in 1 .. Len(queue') : Update(queue'[i])
           /\ Head(queue) = queue[1] /\ Update(queue[1])
<1>1. IsSeq(queue) /\ \A i \in 1 .. Len(queue) : Update(queue[i])
    BY DEF Always
<1>2. /\ Len(queue) \in Nat /\ Len(queue) >= 1 /\ Head(queue) = queue[1]
      /\ IsSeq(queue') /\ Len(queue') = Len(queue) - 1
      /\ \A i \in 1 .. Len(queue) - 1 : queue'[i] = queue[i + 1]
    BY <1>1, TailFacts
<1>3. \A i \in 1 .. Len(queue') : i + 1 \in 1 .. Len(queue) /\ queue'[i] = queue[i + 1]
    BY <1>2
<1>4. QED
    BY <1>1, <1>2, <1>3

(***************************************************************************)
(* An edit is reduced.                                                     *)
(***************************************************************************)
LEMMA EditKeeps ==
    ASSUME EditorInv, queue # <<>>, queue' = Tail(queue), queue[1].kind = "edit", ReduceEdit(queue[1]),
           hasty' = hasty
    PROVE  EditorInv'
<1> DEFINE u == queue[1]
<1> DEFINE s == Composed(u.ops, doc)
<1>1. /\ IF s.ok THEN History(s.e) /\ UNCHANGED fault ELSE fault' = "reducer" /\ UNCHANGED <<doc, past, future>>
      /\ missed' = (missed \/ ~s.hit)
      /\ view' = view /\ loading' = loading
    BY DEF ReduceEdit
<1>2. Always /\ Stacks /\ IsSeq(queue) /\ \A i \in 1 .. Len(queue) : Update(queue[i])
    BY DEF EditorInv, Always
<1>3. /\ IsSeq(queue') /\ \A i \in 1 .. Len(queue') : Update(queue'[i])
      /\ Update(u)
    BY <1>2, FrontFacts
<1>4. Loose(s.e)
    BY <1>3, DocOnShow, ComposedLoose DEF Update
<1> HIDE DEF s
<1>5. Stacks' /\ Documents' \subseteq Documents \cup {s.e}
    <2>1. CASE s.ok
        <3>1. History(s.e)
            BY <1>1, <2>1
        <3>2. QED
            BY <1>2, <3>1, HistoryDocuments
    <2>2. CASE ~s.ok
        BY <1>1, <1>2, <2>2 DEF Stacks, Documents
    <2>3. QED
        BY <2>1, <2>2
<1>6. Always'
    BY <1>1, <1>2, <1>3, <1>4, <1>5 DEF Always
<1>7. ASSUME ~hasty
      PROVE  Tended'
    <2>1. /\ Structure(doc) /\ SoundDocument(doc) /\ Waiting(queue, loading, view, doc)
          /\ Viewable(view) /\ fault # "reducer" /\ missed = FALSE
          /\ \A e \in Documents : SoundDocument(e)
        BY <1>7, DocOnShow DEF EditorInv, Tended, SoundDocument
    <2>2. Careful(u.ops, doc, s, Len(u.ops)) /\ Waiting(Tail(queue), loading, view, s.e)
        BY <1>2, <2>1, EditReduced DEF s
    <2>3. s.ok = TRUE /\ s.hit = TRUE /\ SoundDocument(s.e)
        BY <2>1, <2>2 DEF Careful, SoundDocument
    <2>4. History(s.e) /\ fault' = fault /\ missed' = FALSE
        BY <1>1, <2>1, <2>3
    <2>5. doc' = s.e
        BY <2>4 DEF History
    <2>6. Waiting(queue', loading', view', doc')
        BY <1>1, <2>2, <2>5
    <2>7. QED
        BY <1>1, <1>5, <2>1, <2>3, <2>4, <2>6 DEF Tended
<1>8. QED
    BY <1>6, <1>7 DEF EditorInv

(***************************************************************************)
(* A view update is reduced.                                               *)
(***************************************************************************)
LEMMA ViewKeeps ==
    ASSUME EditorInv, queue # <<>>, queue' = Tail(queue), queue[1].kind = "view", ReduceView(queue[1]),
           hasty' = hasty
    PROVE  EditorInv'
<1>1. /\ view' = Viewed(queue[1], view) /\ doc' = doc /\ past' = past /\ future' = future
      /\ loading' = loading /\ missed' = missed /\ fault' = fault
    BY DEF ReduceView
<1>2. Always /\ IsSeq(queue) /\ \A i \in 1 .. Len(queue) : Update(queue[i])
    BY DEF EditorInv, Always
<1>3. IsSeq(queue') /\ \A i \in 1 .. Len(queue') : Update(queue'[i])
    BY <1>2, FrontFacts
<1>4. Documents' = Documents /\ Stacks' = Stacks
    BY <1>1 DEF Documents, Stacks
<1>5. Always'
    BY <1>1, <1>2, <1>3, <1>4 DEF Always
<1>6. ASSUME ~hasty
      PROVE  Tended'
    <2>1. /\ Waiting(queue, loading, view, doc) /\ Viewable(view) /\ fault # "reducer" /\ missed = FALSE
          /\ \A e \in Documents : SoundDocument(e)
        BY <1>6 DEF EditorInv, Tended
    <2>2. Viewable(Viewed(queue[1], view)) /\ Waiting(Tail(queue), loading, Viewed(queue[1], view), doc)
        BY <1>2, <2>1, ViewReduced
    <2>3. Viewable(view') /\ Waiting(queue', loading', view', doc')
        BY <1>1, <2>2
    <2>4. QED
        BY <1>1, <1>4, <2>1, <2>3 DEF Tended
<1>7. QED
    BY <1>5, <1>6 DEF EditorInv

(***************************************************************************)
(* Undo or redo is reduced.                                                *)
(***************************************************************************)
LEMMA StackKeeps ==
    ASSUME EditorInv, queue # <<>>, queue' = Tail(queue), hasty' = hasty,
           (queue[1].kind = "undo" /\ ReduceUndo) \/ (queue[1].kind = "redo" /\ ReduceRedo)
    PROVE  EditorInv'
<1>1. /\ \/ (Stack!Undo \/ Stack!Redo) /\ view' = Cleared(view)
         \/ doc' = doc /\ past' = past /\ future' = future /\ view' = view
      /\ loading' = loading /\ missed' = missed /\ fault' = fault
    BY DEF ReduceUndo, ReduceRedo
<1>2. Always /\ Stacks /\ IsSeq(queue)
    BY DEF EditorInv, Always
<1>3. IsSeq(queue') /\ \A i \in 1 .. Len(queue') : Update(queue'[i])
    BY <1>2, FrontFacts
<1>4. Stacks' /\ Documents' \subseteq Documents
    <2>1. CASE Stack!Undo
        BY <1>2, <2>1, UndoDocuments
    <2>2. CASE Stack!Redo
        BY <1>2, <2>2, RedoDocuments
    <2>3. CASE doc' = doc /\ past' = past /\ future' = future
        BY <1>2, <2>3 DEF Stacks, Documents
    <2>4. QED
        BY <1>1, <2>1, <2>2, <2>3
<1>5. Always'
    BY <1>1, <1>2, <1>3, <1>4 DEF Always
<1>6. ASSUME ~hasty
      PROVE  Tended'
    <2>1. /\ Waiting(queue, loading, view, doc) /\ Viewable(view) /\ fault # "reducer" /\ missed = FALSE
          /\ \A e \in Documents : SoundDocument(e)
        BY <1>6 DEF EditorInv, Tended
    <2>2. Viewable(Cleared(view)) /\ Blank(Cleared(view))
        BY <2>1, ClearedFacts
    <2>3. Viewable(view') /\ (Blank(view') \/ (view' = view /\ doc' = doc))
        BY <1>1, <2>1, <2>2
    <2>4. queue[1].kind \in {"undo", "redo"}
        OBVIOUS
    <2>5. Waiting(Tail(queue), loading, view', doc')
        BY <1>2, <2>1, <2>3, <2>4, StackReduced
    <2>6. Waiting(queue', loading', view', doc')
        BY <1>1, <2>5
    <2>7. QED
        BY <1>1, <1>4, <2>1, <2>3, <2>6 DEF Tended
<1>7. QED
    BY <1>5, <1>6 DEF EditorInv

(***************************************************************************)
(* A load is handed to the pool.                                           *)
(***************************************************************************)
LEMMA LoadKeeps ==
    ASSUME EditorInv, queue # <<>>, queue' = Tail(queue), queue[1].kind = "load", Dispatch(queue[1]),
           hasty' = hasty
    PROVE  EditorInv'
<1> DEFINE u == queue[1]
<1>1. /\ loading' = loading (+) SetToBag({[path |-> u.path, clear |-> u.clear]})
      /\ doc' = doc /\ past' = past /\ future' = future
      /\ view' = view /\ missed' = missed /\ fault' = fault
    BY DEF Dispatch
<1>2. Always /\ IsSeq(queue)
    BY DEF EditorInv, Always
<1>3. IsSeq(queue') /\ (\A i \in 1 .. Len(queue') : Update(queue'[i])) /\ Update(u)
    BY <1>2, FrontFacts
<1>4. Documents' = Documents /\ Stacks' = Stacks
    BY <1>1 DEF Documents, Stacks
<1>5. BagToSet(loading') = BagToSet(loading) \cup {[path |-> u.path, clear |-> u.clear]}
    BY <1>1 DEF (+), SetToBag, BagToSet
<1>6. \A job \in BagToSet(loading') : job \in BagToSet(loading) \/ (job.path = u.path /\ job.clear = u.clear)
    BY <1>5
<1>7. u.path \in DOMAIN Disk
    BY <1>3 DEF Update
<1>8. Always'
    BY <1>2, <1>3, <1>4, <1>6, <1>7 DEF Always
<1>9. ASSUME ~hasty
      PROVE  Tended'
    <2>1. /\ Waiting(queue, loading, view, doc) /\ Viewable(view) /\ fault # "reducer" /\ missed = FALSE
          /\ \A e \in Documents : SoundDocument(e)
        BY <1>9 DEF EditorInv, Tended
    <2>2. Waiting(Tail(queue), loading', view, doc)
        BY <1>2, <1>6, <2>1, LoadReduced
    <2>3. Waiting(queue', loading', view', doc')
        BY <1>1, <2>2
    <2>4. QED
        BY <1>1, <1>4, <2>1, <2>3 DEF Tended
<1>10. QED
    BY <1>8, <1>9 DEF EditorInv

(***************************************************************************)
(* Reducing the next update, the reduce step of reactive.h, keeps the      *)
(* invariant.                                                              *)
(***************************************************************************)
LEMMA ReduceKeeps ==
    ASSUME EditorInv, Reduce
    PROVE  EditorInv'
<1>1. queue # <<>> /\ queue' = Tail(queue) /\ hasty' = hasty
    BY DEF Reduce
<1>2. Head(queue) = queue[1]
    BY <1>1, FrontFacts DEF EditorInv
<1>3. \/ queue[1].kind = "edit" /\ ReduceEdit(queue[1])
      \/ queue[1].kind = "view" /\ ReduceView(queue[1])
      \/ queue[1].kind = "undo" /\ ReduceUndo
      \/ queue[1].kind = "redo" /\ ReduceRedo
      \/ queue[1].kind = "load" /\ Dispatch(queue[1])
    BY <1>2 DEF Reduce
<1>4. QED
    BY <1>1, <1>3, EditKeeps, ViewKeeps, StackKeeps, LoadKeeps

(***************************************************************************)
(* A load has come in.                                                     *)
(***************************************************************************)
LEMMA InstallKeeps ==
    ASSUME EditorInv, Install
    PROVE  EditorInv'
<1>1. PICK job \in BagToSet(loading) :
        /\ loading' = loading (-) SetToBag({job})
        /\ \/ \E p \in parseNet(Disk[job.path]) :
                History(IF job.clear THEN clearInstaller(p, job.path, doc)
                                     ELSE appendInstaller(p, job.path, doc))
           \/ UNCHANGED <<doc, past, future>>
    BY DEF Install
<1>2. view' = view /\ queue' = queue /\ hasty' = hasty /\ missed' = missed /\ fault' = fault
    BY DEF Install
<1>3. Always /\ Stacks /\ IsSeq(queue) /\ (\A i \in 1 .. Len(queue) : Update(queue[i])) /\ job.path \in DOMAIN Disk
    BY DEF EditorInv, Always
<1>4. BagToSet(loading') \subseteq BagToSet(loading)
    BY <1>1 DEF (-), BagToSet
<1>5. WellFormed(Disk[job.path])
    BY <1>3, EditorAssumption DEF EditorAssumption
<1>6. CASE \E p \in parseNet(Disk[job.path]) :
            History(IF job.clear THEN clearInstaller(p, job.path, doc) ELSE appendInstaller(p, job.path, doc))
    <2>1. PICK p \in parseNet(Disk[job.path]) :
            History(IF job.clear THEN clearInstaller(p, job.path, doc) ELSE appendInstaller(p, job.path, doc))
        BY <1>6
    <2> DEFINE r == IF job.clear THEN clearInstaller(p, job.path, doc) ELSE appendInstaller(p, job.path, doc)
    <2>2. ParsedSound(p) /\ (NoStrays(Disk[job.path]) => MarksInRange(p))
        BY <1>5, ParseSound
    <2>3. Loose(r)
        BY <2>2, DocOnShow, LooseInstalled
    <2> DEFINE a == appendInstaller(p, job.path, doc)
    <2> DEFINE c == clearInstaller(p, job.path, doc)
    <2>4. job.clear => r = c
        OBVIOUS
    <2>5. ~job.clear => r = a
        OBVIOUS
    <2>6. History(r)
        BY <2>1
    <2>7. ASSUME Structure(doc)
          PROVE  /\ Structure(a) /\ (MarksInRange(p) /\ TokensInRange(doc) => TokensInRange(a))
                 /\ Structure(c) /\ (MarksInRange(p) => TokensInRange(c))
                 /\ NodesStay(doc, a) /\ ArcsStay(doc, a)
        BY <2>2, <2>7, AppendInstallerSound, ClearInstallerSound, AppendStays
    <2> HIDE DEF r, a, c
    <2>8. Stacks' /\ Documents' \subseteq Documents \cup {r} /\ doc' = r
        BY <1>3, <2>6, HistoryDocuments
    <2>9. Always'
        BY <1>2, <1>3, <1>4, <2>3, <2>8 DEF Always
    <2>10. ASSUME ~hasty
           PROVE  Tended'
        <3>1. /\ Waiting(queue, loading, view, doc) /\ Viewable(view) /\ fault # "reducer" /\ missed = FALSE
              /\ \A e \in Documents : SoundDocument(e)
            BY <2>10 DEF EditorInv, Tended
        <3>2. Structure(doc) /\ (DiskHasNoStrays => TokensInRange(doc))
            BY <2>10, DocOnShow DEF SoundDocument
        <3>3. DiskHasNoStrays => MarksInRange(p)
            BY <1>3, <2>2 DEF DiskHasNoStrays
        <3>4. SoundDocument(r)
            BY <2>4, <2>5, <2>7, <3>2, <3>3 DEF SoundDocument
        <3>5. ~NoClear(loading) \/ (NodesStay(doc, r) /\ ArcsStay(doc, r))
            BY <2>5, <2>7, <3>2 DEF NoClear
        <3>6. Waiting(queue, loading', view, r)
            BY <1>3, <1>4, <3>1, <3>5, InstallWaits
        <3>7. Waiting(queue', loading', view', doc')
            BY <1>2, <2>8, <3>6
        <3>8. QED
            BY <1>2, <2>8, <3>1, <3>4, <3>7 DEF Tended
    <2>11. QED
        BY <1>2, <2>9, <2>10 DEF EditorInv
<1>7. CASE UNCHANGED <<doc, past, future>>
    <2>1. Documents' = Documents /\ Stacks' = Stacks /\ doc' = doc
        BY <1>7 DEF Documents, Stacks
    <2>2. Always'
        BY <1>2, <1>3, <1>4, <2>1 DEF Always
    <2>3. ASSUME ~hasty
          PROVE  Tended'
        <3>1. /\ Waiting(queue, loading, view, doc) /\ Viewable(view) /\ fault # "reducer" /\ missed = FALSE
              /\ \A e \in Documents : SoundDocument(e)
            BY <2>3 DEF EditorInv, Tended
        <3>2. NodesStay(doc, doc) /\ ArcsStay(doc, doc)
            BY DEF NodesStay, ArcsStay
        <3>3. Waiting(queue, loading', view, doc)
            BY <1>3, <1>4, <3>1, <3>2, InstallWaits
        <3>4. Waiting(queue', loading', view', doc')
            BY <1>2, <2>1, <3>3
        <3>5. QED
            BY <1>2, <2>1, <3>1, <3>4 DEF Tended
    <2>4. QED
        BY <1>2, <2>2, <2>3 DEF EditorInv
<1>8. QED
    BY <1>1, <1>6, <1>7

-----------------------------------------------------------------------------
(***************************************************************************)
(* The frame.                                                              *)
(***************************************************************************)
LEMMA PicksAre == \A kind : Picks(kind) = PicksIn(doc, kind)
BY DEF Picks, Nodes, PicksIn

(***************************************************************************)
(* In a calm moment the view is current and nothing pending shifts.        *)
(***************************************************************************)
LEMMA CalmFacts ==
    ASSUME EditorInv, ~hasty
    PROVE  /\ Structure(doc) /\ Viewable(view)
           /\ Calm => /\ NoClear(loading) /\ \A i \in 1 .. Len(queue) : ~Shifts(queue[i])
                      /\ Current(view, doc)
                      /\ view.Place \subseteq PicksIn(doc, "Place")
                      /\ view.Transition \subseteq PicksIn(doc, "Transition")
<1>1. Structure(doc) /\ Viewable(view) /\ Following(queue, view, doc) /\ IsSeq(queue)
    BY DocOnShow DEF EditorInv, Always, Tended, Waiting, SoundDocument
<1>2. ASSUME Calm
      PROVE  /\ NoClear(loading) /\ \A i \in 1 .. Len(queue) : ~Shifts(queue[i])
             /\ Current(view, doc)
             /\ view.Place \subseteq PicksIn(doc, "Place")
             /\ view.Transition \subseteq PicksIn(doc, "Transition")
    <2>1. NoClear(loading) /\ \A i \in 1 .. Len(queue) : ~Shifts(queue[i])
        BY <1>1, <1>2, SeqElim DEF Calm, NoClear
    <2>2. \A i \in 1 .. Len(queue) : ~IsView(queue[i], "clearSelection")
        BY <2>1 DEF Shifts, IsView
    <2>3. Current(view, doc)
        BY <1>1, <2>2 DEF Following
    <2>4. QED
        BY <2>1, <2>3 DEF Current
<1>3. QED
    BY <1>1, <1>2

(***************************************************************************)
(* Proper updates may be pushed.                                           *)
(***************************************************************************)
LEMMA PushKeeps ==
    ASSUME EditorInv, NEW ups, NEW picks \in BOOLEAN, Push(ups, picks),
           IsSeq(ups), \A i \in 1 .. Len(ups) : Update(ups[i]),
           ~hasty /\ (picks => Calm) => Proper(ups, doc),
           picks \/ \A i \in 1 .. Len(ups) : ~Carries(ups[i])
    PROVE  EditorInv'
<1>1. /\ ~hasty /\ queue' = queue \o ups /\ (hasty' <=> picks /\ ~Calm)
      /\ doc' = doc /\ past' = past /\ future' = future /\ view' = view /\ loading' = loading
      /\ missed' = missed /\ fault' = fault
    BY DEF Push
<1>2. Always /\ IsSeq(queue) /\ \A i \in 1 .. Len(queue) : Update(queue[i])
    BY DEF EditorInv, Always
<1>3. Documents' = Documents /\ Stacks' = Stacks
    BY <1>1 DEF Documents, Stacks
<1>4. IsSeq(queue') /\ \A i \in 1 .. Len(queue') : Update(queue'[i])
    <2> DEFINE r == queue \o ups
    <2>1. IsSeq(r)
        BY <1>2, SeqConcat
    <2>2. Len(r) = Len(queue) + Len(ups)
          /\ (\A i \in 1 .. Len(queue) : r[i] = queue[i]) /\ (\A i \in 1 .. Len(ups) : r[Len(queue) + i] = ups[i])
        BY <1>2, SeqConcat
    <2>3. Len(queue) \in Nat /\ Len(ups) \in Nat
        BY <1>2, SeqElim
    <2> HIDE DEF r
    <2>4. \A i \in 1 .. Len(r) : i \in 1 .. Len(queue)
            \/ (i - Len(queue) \in 1 .. Len(ups) /\ i = Len(queue) + (i - Len(queue)))
        <3>1. \A x, y \in Nat : \A i \in 1 .. x + y : i \in 1 .. x \/ (i - x \in 1 .. y /\ i = x + (i - x))
            OBVIOUS
        <3>2. QED
            BY <2>2, <2>3, <3>1
    <2>5. ASSUME NEW i \in 1 .. Len(r)
          PROVE  Update(r[i])
        <3>1. CASE i \in 1 .. Len(queue)
            BY <1>2, <2>2, <3>1
        <3>2. CASE i - Len(queue) \in 1 .. Len(ups) /\ i = Len(queue) + (i - Len(queue))
            <4>1. r[i] = ups[i - Len(queue)]
                BY <2>2, <3>2
            <4>2. QED
                BY <3>2, <4>1
        <3>3. QED
            BY <2>4, <3>1, <3>2
    <2>6. QED
        BY <1>1, <2>1, <2>5 DEF r
<1>5. Always'
    BY <1>1, <1>2, <1>3, <1>4 DEF Always
<1>6. ASSUME ~hasty'
      PROVE  Tended'
    <2>1. /\ Waiting(queue, loading, view, doc) /\ Viewable(view) /\ fault # "reducer" /\ missed = FALSE
          /\ \A e \in Documents : SoundDocument(e)
        BY <1>1 DEF EditorInv, Tended
    <2>2. picks => Calm
        BY <1>1, <1>6
    <2>3. \/ \A i \in 1 .. Len(ups) : ~Carries(ups[i])
          \/ NoClear(loading) /\ \A i \in 1 .. Len(queue) : ~Shifts(queue[i])
        BY <1>1, <2>2, CalmFacts
    <2>4. Proper(ups, doc)
        BY <1>1, <2>2
    <2>5. Waiting(queue \o ups, loading, view, doc)
        BY <1>2, <2>1, <2>3, <2>4, PushWaits
    <2>6. Waiting(queue', loading', view', doc')
        BY <1>1, <2>5
    <2>7. QED
        BY <1>1, <1>3, <2>1, <2>6 DEF Tended
<1>7. QED
    BY <1>5, <1>6 DEF EditorInv

(***************************************************************************)
(* One edit is asked for, and a view update with it.                       *)
(***************************************************************************)
LEMMA EditPushed ==
    ASSUME EditorInv, NEW u, Update(u), ~hasty /\ Calm => Fits(u, doc), NEW w,
           \/ Push(<<u>>, TRUE) /\ ~Removes(u)
           \/ Push(<<u, w>>, TRUE) /\ w.kind = "view" /\ w.f \in {"menu", "clearSelection"}
              /\ (Removes(u) => w.f = "clearSelection")
    PROVE  EditorInv'
<1>1. CASE Push(<<u>>, TRUE) /\ ~Removes(u)
    <2> DEFINE ups == <<u>>
    <2>1. IsSeq(ups) /\ (\A i \in 1 .. Len(ups) : Update(ups[i])) /\ (~hasty /\ Calm => Proper(ups, doc))
        BY <1>1, OneUpdate
    <2>2. Push(ups, TRUE)
        BY <1>1
    <2> HIDE DEF ups
    <2>3. QED
        BY <2>1, <2>2, PushKeeps
<1>2. CASE /\ Push(<<u, w>>, TRUE) /\ w.kind = "view" /\ w.f \in {"menu", "clearSelection"}
           /\ (Removes(u) => w.f = "clearSelection")
    <2> DEFINE ups == <<u, w>>
    <2>1. IsSeq(ups) /\ (\A i \in 1 .. Len(ups) : Update(ups[i])) /\ (~hasty /\ Calm => Proper(ups, doc))
        BY <1>2, TwoUpdates
    <2>2. Push(ups, TRUE)
        BY <1>2
    <2> HIDE DEF ups
    <2>3. QED
        BY <2>1, <2>2, PushKeeps
<1>3. QED
    BY <1>1, <1>2

(***************************************************************************)
(* A button that pushes one reducer, alone or with a change of the view,   *)
(* keeps the invariant.                                                    *)
(***************************************************************************)
LEMMA OpPushed ==
    ASSUME EditorInv, NEW op, op.f \in OpNames, NEW w,
           ~hasty /\ Calm => Given(op) /\ Means(op, doc) /\ InVectors(op, doc),
           \/ Push(<<EditOf(<<op>>)>>, TRUE) /\ op.f \notin {"removePlace", "removeTransition"}
           \/ Push(<<EditOf(<<op>>), w>>, TRUE) /\ w.kind = "view" /\ w.f \in {"menu", "clearSelection"}
              /\ (op.f \in {"removePlace", "removeTransition"} => w.f = "clearSelection")
    PROVE  EditorInv'
<1> DEFINE u == EditOf(<<op>>)
<1>1. Update(u) /\ (~hasty /\ Calm => Fits(u, doc)) /\ (Removes(u) <=> op.f \in {"removePlace", "removeTransition"})
    BY OneOp
<1>2. \/ Push(<<u>>, TRUE) /\ op.f \notin {"removePlace", "removeTransition"}
      \/ Push(<<u, w>>, TRUE) /\ w.kind = "view" /\ w.f \in {"menu", "clearSelection"}
         /\ (op.f \in {"removePlace", "removeTransition"} => w.f = "clearSelection")
    OBVIOUS
<1> HIDE DEF u
<1>3. QED
    BY <1>1, <1>2, EditPushed

(***************************************************************************)
(* A click that selects or highlights.                                     *)
(***************************************************************************)
LEMMA ViewPushed ==
    ASSUME EditorInv, NEW f \in ViewNames, NEW arg, Push(<<ViewOf(f, arg)>>, TRUE),
           f \in Choosing => arg[1] \in {"Place", "Transition"} /\ arg[2] \in PicksIn(doc, arg[1]),
           f = "selectArc" => arg[2] \in PicksIn(doc, "Transition")
    PROVE  EditorInv'
<1> DEFINE u == ViewOf(f, arg)
<1>1. Update(u) /\ Fits(u, doc) /\ ~Removes(u)
    BY OneView
<1>2. Push(<<u>>, TRUE)
    OBVIOUS
<1> HIDE DEF u
<1>3. QED
    BY <1>1, <1>2, EditPushed

(***************************************************************************)
(* A click on a node, an arc or the background (draw_graph.cpp) keeps the  *)
(* invariant.                                                              *)
(***************************************************************************)
LEMMA ClickKeeps ==
    ASSUME EditorInv, Click
    PROVE  EditorInv'
<1>1. CASE \E kind \in {"Place", "Transition"} : \E pick \in Picks(kind), f \in {"select", "highlight"} :
                Look(<<ViewOf(f, <<kind, pick>>)>>, TRUE)
    <2>0. PICK kind \in {"Place", "Transition"} : \E pick \in Picks(kind), f \in {"select", "highlight"} :
                Look(<<ViewOf(f, <<kind, pick>>)>>, TRUE)
        BY <1>1
    <2>1. PICK pick \in Picks(kind), f \in {"select", "highlight"} : Look(<<ViewOf(f, <<kind, pick>>)>>, TRUE)
        BY <2>0
    <2> DEFINE arg == <<kind, pick>>
    <2>2. arg[1] = kind /\ arg[2] = pick /\ pick \in PicksIn(doc, kind)
        BY PicksAre
    <2>3. Push(<<ViewOf(f, arg)>>, TRUE)
        BY <2>1 DEF Look
    <2> HIDE DEF arg
    <2>4. f \in ViewNames /\ f # "selectArc"
        BY DEF ViewNames
    <2>5. QED
        BY <2>2, <2>3, <2>4, ViewPushed
<1>2. CASE \E a \in ArcPicks, f \in {"selectArc", "highlightArc"} : Look(<<ViewOf(f, a)>>, TRUE)
    <2>1. PICK a \in ArcPicks, f \in {"selectArc", "highlightArc"} : Look(<<ViewOf(f, a)>>, TRUE)
        BY <1>2
    <2>2. a[2] \in PicksIn(doc, "Transition")
        BY PicksAre DEF ArcPicks
    <2>3. f \in ViewNames /\ f \notin Choosing
        BY DEF ViewNames, Choosing
    <2>4. Push(<<ViewOf(f, a)>>, TRUE)
        BY <2>1 DEF Look
    <2>5. QED
        BY <2>2, <2>3, <2>4, ViewPushed
<1>3. CASE \/ view.menu /\ Look(<<ViewOf("menu", FALSE), ViewOf("reset", None)>>, FALSE)
           \/ ~view.menu /\ Look(<<ViewOf("reset", None)>>, FALSE)
    <2> DEFINE a == ViewOf("menu", FALSE)
    <2> DEFINE b == ViewOf("reset", None)
    <2>1. Push(<<a, b>>, FALSE) \/ Push(<<b>>, FALSE)
        BY <1>3 DEF Look
    <2>2. "menu" \in ViewNames \ Choosing /\ "reset" \in ViewNames \ Choosing
        BY DEF ViewNames, Choosing
    <2>11. Update(a) /\ ~Removes(a) /\ Fits(a, doc) /\ ~Carries(a)
        BY <2>2, OneView, SMTT(60), ZenonT(60)
    <2>12. b.kind = "view" /\ b.f = "reset" /\ Update(b) /\ ~Removes(b) /\ Fits(b, doc) /\ ~Carries(b)
        BY <2>2, OneView, SMTT(60), ZenonT(60)
    <2>3. /\ Update(a) /\ ~Removes(a) /\ Fits(a, doc) /\ ~Carries(a)
          /\ b.kind = "view" /\ b.f = "reset" /\ Update(b) /\ ~Removes(b) /\ Fits(b, doc) /\ ~Carries(b)
        BY <2>11, <2>12
    <2> HIDE DEF a, b
    <2>4. CASE Push(<<a, b>>, FALSE)
        <3> DEFINE ups == <<a, b>>
        <3>1. /\ IsSeq(ups) /\ (\A i \in 1 .. Len(ups) : Update(ups[i])) /\ Proper(ups, doc)
              /\ \A i \in 1 .. Len(ups) : ~Carries(ups[i])
            BY <2>3, TwoUpdates
        <3>2. Push(ups, FALSE)
            BY <2>4
        <3> HIDE DEF ups
        <3>3. QED
            BY <3>1, <3>2, PushKeeps
    <2>5. CASE Push(<<b>>, FALSE)
        <3> DEFINE ups == <<b>>
        <3>1. /\ IsSeq(ups) /\ (\A i \in 1 .. Len(ups) : Update(ups[i])) /\ Proper(ups, doc)
              /\ \A i \in 1 .. Len(ups) : ~Carries(ups[i])
            BY <2>3, OneUpdate
        <3>2. Push(ups, FALSE)
            BY <2>5
        <3> HIDE DEF ups
        <3>3. QED
            BY <3>1, <3>2, PushKeeps
    <2>6. QED
        BY <2>1, <2>4, <2>5
<1>4. QED
    BY <1>1, <1>2, <1>3 DEF Click

(***************************************************************************)
(* An operation on picked nodes is asked for.                              *)
(***************************************************************************)
LEMMA PickedOpPushed ==
    ASSUME EditorInv, NEW f \in OpNames, NEW t, NEW p, NEW arg, NEW w,
           f # "arcColor",
           ~hasty /\ Calm => Picked("Transition", t, doc) /\ Picked("Place", p, doc),
           ~hasty /\ Calm => (f \in {"removeArc", "fire", "output", "removeTransition"} => t # None),
           ~hasty /\ Calm => (f \in {"addToken", "removePlace"} => p # None),
           ~hasty /\ Calm => (f = "addArc" => t # None /\ p # None /\ arg \in {"Place", "Transition"}),
           f = "addPlace" => t = None /\ p = None,
           f \in {"removeArc", "fire", "output", "removeTransition"} => p = None,
           f \in {"addToken", "removePlace"} => t = None,
           \/ Push(<<EditOf(<<Op(f, t, p, arg)>>)>>, TRUE) /\ f \notin {"removePlace", "removeTransition"}
           \/ Push(<<EditOf(<<Op(f, t, p, arg)>>), w>>, TRUE) /\ w.kind = "view"
              /\ w.f \in {"menu", "clearSelection"}
              /\ (f \in {"removePlace", "removeTransition"} => w.f = "clearSelection")
    PROVE  EditorInv'
<1> DEFINE op == Op(f, t, p, arg)
<1>1. op.f = f
    BY DEF Op
<1>2. ASSUME ~hasty, Calm
      PROVE  Given(op) /\ Means(op, doc) /\ InVectors(op, doc)
    <2>1. Structure(doc)
        BY <1>2, CalmFacts
    <2>2. /\ Picked("Transition", t, doc) /\ Picked("Place", p, doc)
          /\ f = "addPlace" => t = None /\ p = None
          /\ f = "addArc" => t # None /\ p # None /\ arg \in {"Place", "Transition"}
          /\ f \in {"removeArc", "fire", "output", "removeTransition"} => t # None /\ p = None
          /\ f \in {"addToken", "removePlace"} => t = None /\ p # None
        BY <1>2
    <2>3. QED
        BY <2>1, <2>2, OpFits
<1>3. \/ Push(<<EditOf(<<op>>)>>, TRUE) /\ f \notin {"removePlace", "removeTransition"}
      \/ Push(<<EditOf(<<op>>), w>>, TRUE) /\ w.kind = "view" /\ w.f \in {"menu", "clearSelection"}
         /\ (f \in {"removePlace", "removeTransition"} => w.f = "clearSelection")
    OBVIOUS
<1> HIDE DEF op
<1>4. QED
    BY <1>1, <1>2, <1>3, OpPushed

(***************************************************************************)
(* The entries of the context menu.                                        *)
(***************************************************************************)
LEMMA MenuOnNodeKeeps ==
    ASSUME EditorInv, MenuOnNode
    PROVE  EditorInv'
<1> DEFINE kind == view.node[1]
<1> DEFINE pick == view.node[2]
<1> DEFINE m == ViewOf("menu", FALSE)
<1> DEFINE c == ViewOf("clearSelection", None)
<1>1. m.kind = "view" /\ m.f = "menu" /\ c.kind = "view" /\ c.f = "clearSelection"
    BY DEF ViewOf
<1>2. /\ ~hasty /\ Calm /\ kind = "Place" => pick \in PicksIn(doc, "Place") /\ pick # None
      /\ ~hasty /\ Calm /\ kind = "Transition" => pick \in PicksIn(doc, "Transition") /\ pick # None
    BY CalmFacts, PickFacts DEF Current
<1>3. /\ \A t \in Targets("Transition") : t \in PicksIn(doc, "Transition") /\ (~hasty => t # None)
      /\ \A p \in Targets("Place") : p \in PicksIn(doc, "Place") /\ (~hasty => p # None)
    <2>1. /\ \A t \in Targets("Transition") : t \in PicksIn(doc, "Transition")
          /\ \A p \in Targets("Place") : p \in PicksIn(doc, "Place")
        BY PicksAre DEF Targets
    <2>2. ~hasty => Structure(doc)
        BY CalmFacts
    <2>3. QED
        BY <2>1, <2>2, PickFacts
<1>4. "addArc" \in OpNames /\ "addToken" \in OpNames /\ "removePlace" \in OpNames /\ "removeTransition" \in OpNames
    BY DEF OpNames
<1>5. "target" \in ViewNames /\ "target" # "selectArc"
    BY DEF ViewNames
<1>6. CASE kind = "Place"
    <2>1. \/ \E t \in Targets("Transition") :
                \/ Push(<<EditOf(<<Op("addArc", t, pick, kind)>>), m>>, TRUE)
                \/ Push(<<ViewOf("target", <<"Transition", t>>)>>, TRUE)
          \/ Push(<<EditOf(<<Op("addToken", None, pick, None)>>), m>>, TRUE)
          \/ Push(<<EditOf(<<Op("removePlace", None, pick, None)>>), c>>, TRUE)
        BY <1>6 DEF MenuOnNode, Ask, Look
    <2> HIDE DEF m, c, kind, pick
    <2>2. CASE Push(<<EditOf(<<Op("addToken", None, pick, None)>>), m>>, TRUE)
        BY <1>1, <1>2, <1>4, <1>6, <2>2, PickedOpPushed DEF Picked
    <2>3. CASE Push(<<EditOf(<<Op("removePlace", None, pick, None)>>), c>>, TRUE)
        BY <1>1, <1>2, <1>4, <1>6, <2>3, PickedOpPushed DEF Picked
    <2>4. CASE \E t \in Targets("Transition") : Push(<<EditOf(<<Op("addArc", t, pick, kind)>>), m>>, TRUE)
        <3>1. PICK t \in Targets("Transition") : Push(<<EditOf(<<Op("addArc", t, pick, kind)>>), m>>, TRUE)
            BY <2>4
        <3>2. QED
            BY <1>1, <1>2, <1>3, <1>4, <1>6, <3>1, PickedOpPushed DEF Picked
    <2>5. CASE \E t \in Targets("Transition") : Push(<<ViewOf("target", <<"Transition", t>>)>>, TRUE)
        <3>1. PICK t \in Targets("Transition") : Push(<<ViewOf("target", <<"Transition", t>>)>>, TRUE)
            BY <2>5
        <3> DEFINE arg == <<"Transition", t>>
        <3>2. arg[1] = "Transition" /\ arg[2] = t /\ Push(<<ViewOf("target", arg)>>, TRUE)
            BY <3>1
        <3> HIDE DEF arg
        <3>3. arg[1] \in {"Place", "Transition"} /\ arg[2] \in PicksIn(doc, arg[1])
            BY <1>3, <3>2
        <3>4. QED
            BY <1>5, <3>2, <3>3, ViewPushed
    <2>6. QED
        BY <2>1, <2>2, <2>3, <2>4, <2>5
<1>7. CASE kind = "Transition"
    <2>1. \/ \E p \in Targets("Place") :
                \/ Push(<<EditOf(<<Op("addArc", pick, p, kind)>>), m>>, TRUE)
                \/ Push(<<ViewOf("target", <<"Place", p>>)>>, TRUE)
          \/ Push(<<EditOf(<<Op("removeTransition", pick, None, None)>>), c>>, TRUE)
        BY <1>7 DEF MenuOnNode, Ask, Look
    <2> HIDE DEF m, c, kind, pick
    <2>2. CASE Push(<<EditOf(<<Op("removeTransition", pick, None, None)>>), c>>, TRUE)
        BY <1>1, <1>2, <1>4, <1>7, <2>2, PickedOpPushed DEF Picked
    <2>4. CASE \E p \in Targets("Place") : Push(<<EditOf(<<Op("addArc", pick, p, kind)>>), m>>, TRUE)
        <3>1. PICK p \in Targets("Place") : Push(<<EditOf(<<Op("addArc", pick, p, kind)>>), m>>, TRUE)
            BY <2>4
        <3>2. QED
            BY <1>1, <1>2, <1>3, <1>4, <1>7, <3>1, PickedOpPushed DEF Picked
    <2>5. CASE \E p \in Targets("Place") : Push(<<ViewOf("target", <<"Place", p>>)>>, TRUE)
        <3>1. PICK p \in Targets("Place") : Push(<<ViewOf("target", <<"Place", p>>)>>, TRUE)
            BY <2>5
        <3> DEFINE arg == <<"Place", p>>
        <3>2. arg[1] = "Place" /\ arg[2] = p /\ Push(<<ViewOf("target", arg)>>, TRUE)
            BY <3>1
        <3> HIDE DEF arg
        <3>3. arg[1] \in {"Place", "Transition"} /\ arg[2] \in PicksIn(doc, arg[1])
            BY <1>3, <3>2
        <3>4. QED
            BY <1>5, <3>2, <3>3, ViewPushed
    <2>6. QED
        BY <2>1, <2>2, <2>4, <2>5
<1>8. QED
    BY <1>6, <1>7 DEF MenuOnNode

(***************************************************************************)
(* The context menu of an arc and that of the background                   *)
(* (draw_context_menu.cpp) keep the invariant.                             *)
(***************************************************************************)
LEMMA MenuElsewhereKeeps ==
    ASSUME EditorInv, MenuOnArc \/ MenuOnNothing
    PROVE  EditorInv'
<1> DEFINE m == ViewOf("menu", FALSE)
<1>1. m.kind = "view" /\ m.f = "menu"
    BY DEF ViewOf
<1>2. "removeArc" \in OpNames /\ "addPlace" \in OpNames
    BY DEF OpNames
<1>3. CASE MenuOnArc
    <2> DEFINE t == view.arc[2]
    <2> DEFINE arg == <<view.arc[1], view.arc[3]>>
    <2>1. Push(<<EditOf(<<Op("removeArc", t, None, arg)>>), m>>, TRUE) /\ view.arc[1] # "none"
        BY <1>3 DEF MenuOnArc, Ask
    <2>2. ~hasty /\ Calm => t \in PicksIn(doc, "Transition") /\ t # None
        BY <2>1, CalmFacts, PickFacts DEF Current
    <2> HIDE DEF m, t, arg
    <2>3. QED
        BY <1>1, <1>2, <2>1, <2>2, PickedOpPushed DEF Picked
<1>4. CASE MenuOnNothing
    <2> DEFINE op == Op("addPlace", None, None, None)
    <2> DEFINE u == EditOf(<<op>>)
    <2>1. Push(<<u, m>>, FALSE)
        BY <1>4 DEF MenuOnNothing, Ask
    <2>2. op.f = "addPlace" /\ op.t = None /\ op.p = None
        BY DEF Op
    <2>3. Given(op) /\ Means(op, doc) /\ InVectors(op, doc)
        BY <1>2, <2>2 DEF Given, Means, InVectors
    <2> HIDE DEF op
    <2>4. Update(u) /\ Fits(u, doc) /\ ~Removes(u) /\ ~Carries(u)
        BY <1>2, <2>2, <2>3, OneOp
    <2> HIDE DEF u, m
    <2> DEFINE ups == <<u, m>>
    <2>5. /\ IsSeq(ups) /\ (\A i \in 1 .. Len(ups) : Update(ups[i])) /\ Proper(ups, doc)
          /\ \A i \in 1 .. Len(ups) : ~Carries(ups[i])
        BY <1>1, <2>4, TwoUpdates
    <2>6. Push(ups, FALSE)
        BY <2>1
    <2> HIDE DEF ups
    <2>7. QED
        BY <2>5, <2>6, PushKeeps
<1>5. QED
    BY <1>3, <1>4

(***************************************************************************)
(* The keys, the tools menu, the simulation menu.                          *)
(***************************************************************************)
LEMMA HighlightedKeeps ==
    ASSUME EditorInv, Backspace \/ Drag
    PROVE  EditorInv'
<1> DEFINE ts == Ordered(view.Transition)
<1> DEFINE ps == Ordered(view.Place)
<1> DEFINE each(f, g) == EditOf([i \in DOMAIN ts |-> Op(f, ts[i], None, None)]
                                \o [i \in DOMAIN ps |-> Op(g, None, ps[i], None)])
<1>1. ASSUME NEW f, NEW g, ~hasty, (f = "move" /\ g = "move") \/ (f = "removeTransition" /\ g = "removePlace")
      PROVE  /\ Update(each(f, g)) /\ (f = "move" => ~Removes(each(f, g)))
             /\ Calm => Fits(each(f, g), doc)
    <2>1. Structure(doc) /\ IsFiniteSet(view.Transition) /\ IsFiniteSet(view.Place)
          /\ (Calm => view.Transition \subseteq PicksIn(doc, "Transition") /\ view.Place \subseteq PicksIn(doc, "Place"))
        BY <1>1, CalmFacts DEF Viewable
    <2>2. /\ Update(each(f, g)) /\ (f = "move" => ~Removes(each(f, g)))
          /\ view.Transition \subseteq PicksIn(doc, "Transition") /\ view.Place \subseteq PicksIn(doc, "Place")
                => Fits(each(f, g), doc)
        BY <1>1, <2>1, Highlighted
    <2> HIDE DEF each
    <2>3. QED
        BY <2>1, <2>2
<1>2. CASE Backspace
    <2> DEFINE u == each("removeTransition", "removePlace")
    <2> DEFINE c == ViewOf("clearSelection", None)
    <2>1. Push(<<u, c>>, TRUE)
        BY <1>2 DEF Backspace, Ask
    <2>2. c.kind = "view" /\ c.f = "clearSelection"
        BY DEF ViewOf
    <2>3. ~hasty
        BY <2>1 DEF Push
    <2>4. Update(u) /\ (Calm => Fits(u, doc))
        BY <1>1, <2>3
    <2> HIDE DEF u, c
    <2>5. QED
        BY <2>1, <2>2, <2>4, EditPushed
<1>3. CASE Drag
    <2> DEFINE u == each("move", "move")
    <2>1. Push(<<u>>, TRUE)
        BY <1>3 DEF Drag, Ask
    <2>2. ~hasty
        BY <2>1 DEF Push
    <2>3. Update(u) /\ (Calm => Fits(u, doc)) /\ ~Removes(u)
        BY <1>1, <2>2
    <2> HIDE DEF u
    <2>4. QED
        BY <2>1, <2>3, EditPushed
<1>4. QED
    BY <1>2, <1>3

(***************************************************************************)
(* The tools menu and the simulation menu keep the invariant.              *)
(***************************************************************************)
LEMMA MenusKeep ==
    ASSUME EditorInv, ToolsMenu \/ Simulate
    PROVE  EditorInv'
<1>1. "output" \in OpNames /\ "fire" \in OpNames /\ "arcColor" \in OpNames
    BY DEF OpNames
<1>2. CASE \E t \in view.Transition : Ask(<<EditOf(<<Op("output", t, None, None)>>)>>, TRUE)
    <2>1. PICK t \in view.Transition : Push(<<EditOf(<<Op("output", t, None, None)>>)>>, TRUE)
        BY <1>2 DEF Ask
    <2>2. ~hasty /\ Calm => t \in PicksIn(doc, "Transition") /\ t # None
        BY <2>1, CalmFacts, PickFacts
    <2>3. QED
        BY <1>1, <2>1, <2>2, PickedOpPushed DEF Picked
<1>3. CASE \E a \in view.arcs :
                a[1] = "Place" /\ Ask(<<EditOf(<<Op("arcColor", a[2], None, <<a[1], a[3]>>)>>)>>, TRUE)
    <2>1. PICK a \in view.arcs : Push(<<EditOf(<<Op("arcColor", a[2], None, <<a[1], a[3]>>)>>)>>, TRUE)
        BY <1>3 DEF Ask
    <2> DEFINE op == Op("arcColor", a[2], None, <<a[1], a[3]>>)
    <2>2. op.f = "arcColor" /\ op.t = a[2] /\ op.p = None /\ op.arg[1] = a[1] /\ op.arg[2] = a[3]
        BY DEF Op
    <2>3. DrawableArc(a)
        BY <2>1 DEF Push, DrawsArcs
    <2>4. a[2][1] \in DOMAIN doc.transition /\ a[3] \in DOMAIN doc[ArcField(a[1])][a[2][1]]
        BY <2>3 DEF DrawableArc, Drawable, Nodes
    <2>5. ~hasty => a[2] # None
        <3>1. ~hasty => DOMAIN doc.transition = 1 .. Len(doc.transition) /\ Len(doc.transition) \in Nat
            BY CalmFacts, SeqElim DEF Structure, PerTransition
        <3>2. QED
            BY <2>4, <3>1 DEF None
    <2>6. Push(<<EditOf(<<op>>)>>, TRUE)
        BY <2>1
    <2> HIDE DEF op
    <2>7. ~hasty => Given(op) /\ Means(op, doc) /\ InVectors(op, doc)
        BY <1>1, <2>2, <2>4, <2>5 DEF Given, Means, InVectors
    <2>8. QED
        BY <1>1, <2>2, <2>6, <2>7, OpPushed
<1>4. CASE Simulate
    <2>1. PICK t \in Picks("Transition") : Push(<<EditOf(<<Op("fire", t, None, None)>>)>>, TRUE)
        BY <1>4 DEF Simulate, Ask
    <2>2. ~hasty /\ Calm => t \in PicksIn(doc, "Transition") /\ t # None
        BY <2>1, PicksAre, CalmFacts, PickFacts
    <2>3. QED
        BY <1>1, <2>1, <2>2, PickedOpPushed DEF Picked
<1>5. QED
    BY <1>2, <1>3, <1>4 DEF ToolsMenu

(***************************************************************************)
(* What carries no pick.                                                   *)
(***************************************************************************)
LEMMA OthersKeep ==
    ASSUME EditorInv, RightClick \/ CloseMenu \/ UndoKey \/ RedoKey \/ Load
    PROVE  EditorInv'
<1>1. ASSUME NEW u, Update(u), ~Carries(u), ~Removes(u), Fits(u, doc), Push(<<u>>, FALSE)
      PROVE  EditorInv'
    <2> DEFINE ups == <<u>>
    <2>1. /\ IsSeq(ups) /\ (\A i \in 1 .. Len(ups) : Update(ups[i])) /\ Proper(ups, doc)
          /\ \A i \in 1 .. Len(ups) : ~Carries(ups[i])
        BY <1>1, OneUpdate
    <2>2. Push(ups, FALSE)
        BY <1>1
    <2> HIDE DEF ups
    <2>3. QED
        BY <2>1, <2>2, PushKeeps
<1>2. CASE RightClick \/ CloseMenu
    <2>1. PICK b \in BOOLEAN : Push(<<ViewOf("menu", b)>>, FALSE)
        BY <1>2 DEF RightClick, CloseMenu, Look
    <2> DEFINE u == ViewOf("menu", b)
    <2>2. "menu" \in ViewNames \ Choosing
        BY DEF ViewNames, Choosing
    <2>3. Update(u) /\ ~Carries(u) /\ ~Removes(u) /\ Fits(u, doc)
        BY <2>2, OneView
    <2>4. Push(<<u>>, FALSE)
        BY <2>1
    <2> HIDE DEF u
    <2>5. QED
        BY <1>1, <2>3, <2>4
<1>3. CASE UndoKey \/ RedoKey
    <2>1. PICK k \in {"undo", "redo"} : Push(<<[kind |-> k]>>, FALSE)
        BY <1>3 DEF UndoKey, RedoKey, Ask
    <2> DEFINE u == [kind |-> k]
    <2>2. u.kind = k /\ Push(<<u>>, FALSE)
        BY <2>1
    <2> HIDE DEF u
    <2>3. Update(u) /\ ~Carries(u) /\ ~Removes(u) /\ Fits(u, doc)
        BY <2>2 DEF Update, Carries, Removes, Fits, ClearLoad
    <2>4. QED
        BY <1>1, <2>2, <2>3
<1>4. CASE Load
    <2>1. PICK path \in DOMAIN Disk, clear \in BOOLEAN : Push(LoadUpdates(path, clear), FALSE)
        BY <1>4 DEF Load, Ask
    <2> DEFINE ups == LoadUpdates(path, clear)
    <2>2. IsSeq(ups) /\ Proper(ups, doc) /\ \A i \in 1 .. Len(ups) : Update(ups[i]) /\ ~Carries(ups[i])
        BY LoadPushed
    <2>3. Push(ups, FALSE)
        BY <2>1
    <2> HIDE DEF ups
    <2>4. QED
        BY <2>2, <2>3, PushKeeps
<1>5. QED
    BY <1>2, <1>3, <1>4

(***************************************************************************)
(* Drawing changes nothing, also when it goes wrong.                       *)
(***************************************************************************)
LEMMA StillKeeps ==
    ASSUME EditorInv, Draw \/ UNCHANGED vars
    PROVE  EditorInv'
<1>1. /\ doc' = doc /\ past' = past /\ future' = future /\ view' = view /\ queue' = queue
      /\ loading' = loading /\ hasty' = hasty /\ missed' = missed
      /\ fault' = fault \/ fault' = "drawing"
    BY DEF Draw, vars
<1>2. Documents' = Documents /\ Stacks' = Stacks
    BY <1>1 DEF Documents, Stacks
<1>3. Always' = Always
    BY <1>1, <1>2 DEF Always
<1>4. Tended => Tended'
    BY <1>1, <1>2 DEF Tended
<1>5. QED
    BY <1>1, <1>3, <1>4 DEF EditorInv

(***************************************************************************)
(* The first load is pending, and nothing is selected.                     *)
(***************************************************************************)
LEMMA InitTended ==
    ASSUME Init
    PROVE  EditorInv
<1>1. /\ doc = EmptyDocument /\ past = <<>> /\ future = <<>> /\ view = NothingSelected
      /\ queue = LoadUpdates(Opened, FALSE) /\ loading = EmptyBag
      /\ missed = FALSE /\ fault = "no"
    BY DEF Init
<1>2. Opened \in DOMAIN Disk
    BY EditorAssumption DEF EditorAssumption
<1>3. /\ IsSeq(queue) /\ Len(queue) = 2
      /\ \A i \in 1 .. Len(queue) : Update(queue[i]) /\ ~Carries(queue[i])
      /\ Proper(queue, doc)
      /\ queue[1].kind = "view" /\ queue[2].clear = FALSE
    <2>0. PICK clear \in BOOLEAN : clear = FALSE
        OBVIOUS
    <2> DEFINE r == LoadUpdates(Opened, clear)
    <2>1. /\ IsSeq(r) /\ Len(r) = 2
          /\ \A i \in 1 .. Len(r) : Update(r[i]) /\ ~Carries(r[i])
          /\ Proper(r, doc)
          /\ r[1].kind = "view" /\ r[2].clear = clear
        BY <1>2, LoadPushed
    <2>2. queue = r
        BY <1>1, <2>0
    <2> HIDE DEF r
    <2>3. QED
        BY <2>0, <2>1, <2>2
<1>4. BagToSet(loading) = {}
    BY <1>1 DEF EmptyBag, SetToBag, BagToSet
<1>5. Stacks /\ Documents = {EmptyDocument}
    <2>1. <<>> \in Seq({})
        OBVIOUS
    <2>2. IsSeq(past) /\ IsSeq(future) /\ Len(past) = 0 /\ Len(future) = 0
        BY <1>1, <2>1, SeqIs
    <2>3. (\A i \in 1 .. Len(past) : FALSE) /\ (\A i \in 1 .. Len(future) : FALSE)
        BY <2>2
    <2>4. QED
        BY <1>1, <2>2, <2>3 DEF Stacks, Documents
<1>6. Structure(EmptyDocument) /\ TokensInRange(EmptyDocument)
    BY EmptyDocumentSound
<1>7. Loose(EmptyDocument) /\ SoundDocument(EmptyDocument)
    BY <1>6 DEF Structure, Loose, SoundDocument
<1>8. Always
    BY <1>3, <1>4, <1>5, <1>7 DEF Always
<1>9. Viewable(view) /\ Blank(view)
    <2>1. NoNode[1] = "none" /\ NoArc[1] = "none"
        BY DEF NoNode, NoArc
    <2>2. /\ DOMAIN view = DOMAIN NothingSelected
          /\ view.Place = {} /\ view.Transition = {} /\ view.node = NoNode /\ view.arc = NoArc
        BY <1>1 DEF NothingSelected
    <2>3. QED
        BY <2>1, <2>2, FS_EmptySet DEF Viewable, Blank
<1>10. Waiting(queue, loading, view, doc)
    <2>1. \A i \in 1 .. Len(queue) : ~ClearLoad(queue[i])
        <3>1. \A i \in 1 .. Len(queue) : i = 1 \/ i = 2
            BY <1>3
        <3>2. ~ClearLoad(queue[1]) /\ ~ClearLoad(queue[2])
            BY <1>3 DEF ClearLoad
        <3>3. QED
            BY <3>1, <3>2
    <2>2. Wholes(queue) /\ ClearsAfter(queue)
        BY <1>3 DEF Proper
    <2>3. Unshifted(queue, loading, doc) /\ ClearsBefore(queue, view)
        BY <1>3, <2>1 DEF Unshifted, ClearsBefore
    <2>4. BlankWhileLoading(loading, view) /\ Following(queue, view, doc)
        BY <1>9, BlankIsCurrent DEF BlankWhileLoading, Following
    <2>5. QED
        BY <2>2, <2>3, <2>4 DEF Waiting
<1>11. Tended
    BY <1>1, <1>5, <1>7, <1>9, <1>10 DEF Tended
<1>12. QED
    BY <1>8, <1>11 DEF EditorInv

(***************************************************************************)
(* Each step of the editor keeps the invariant.                            *)
(***************************************************************************)
LEMMA StepTended ==
    ASSUME EditorInv, [Next]_vars
    PROVE  EditorInv'
<1>1. CASE Reduce \/ Install
    BY <1>1, ReduceKeeps, InstallKeeps
<1>2. CASE Frame
    BY <1>2, ClickKeeps, MenuOnNodeKeeps, MenuElsewhereKeeps, HighlightedKeeps, MenusKeep, OthersKeep, StillKeeps
       DEF Frame
<1>3. CASE UNCHANGED vars
    BY <1>3, StillKeeps
<1>4. QED
    BY <1>1, <1>2, <1>3 DEF Next

(***************************************************************************)
(* The editor's invariant, for any files, any number of updates in the     *)
(* queue, and in whatever order they and the loads come in.                *)
(***************************************************************************)
THEOREM EditorTended == Spec => []EditorInv
<1>1. Init => EditorInv
    BY InitTended
<1>2. EditorInv /\ [Next]_vars => EditorInv'
    BY StepTended
<1>3. QED
    BY <1>1, <1>2, PTL DEF Spec

(***************************************************************************)
(* The vectors of the document stay aligned whatever is clicked when; and  *)
(* as long as nothing is picked in haste, all indices in it are good and   *)
(* no reducer leaves its vectors, if no file has a marked place without    *)
(* arcs (for the tokens only).                                             *)
(***************************************************************************)
THEOREM DocumentsSurvive ==
    ASSUME \A path \in DOMAIN Disk : NoStrays(Disk[path])
    PROVE  Spec => []DocumentSurvives
<1>1. EditorInv => DocumentSurvives
    <2>1. SUFFICES ASSUME EditorInv
                   PROVE  DocumentSurvives
        OBVIOUS
    <2>2. Aligned(doc)
        BY <2>1, DocOnShow DEF Loose, PerPlace, PerTransition, Aligned
    <2>3. ~hasty => Structure(doc) /\ TokensInRange(doc) /\ fault # "reducer"
        BY <2>1, DocOnShow DEF SoundDocument, EditorInv, Tended, DiskHasNoStrays
    <2>4. ~hasty => ArcsInRange(doc) /\ LookupCovers(doc)
        BY <2>3, StructureIs
    <2>5. QED
        BY <2>2, <2>3, <2>4 DEF DocumentSurvives
<1>2. QED
    BY <1>1, EditorTended, PTL

(***************************************************************************)
(* Every edit changes the nodes that were picked, unless they were picked  *)
(* in haste: also the last one of a batch that removes several, and one    *)
(* that is reduced after a net was appended.                               *)
(***************************************************************************)
THEOREM EditsHit == Spec => []EditsHitWhatWasPicked
<1>1. EditorInv => EditsHitWhatWasPicked
    BY DEF EditorInv, Tended, EditsHitWhatWasPicked
<1>2. QED
    BY <1>1, EditorTended, PTL

(***************************************************************************)
(* The view refers to the nodes that were picked, once what renumbers them *)
(* has been reduced.                                                       *)
(***************************************************************************)
THEOREM SelectionStaysCurrent == Spec => []SelectionIsCurrent
<1>1. EditorInv => SelectionIsCurrent
    BY CalmFacts, PicksAre DEF SelectionIsCurrent, Current
<1>2. QED
    BY <1>1, EditorTended, PTL
====
