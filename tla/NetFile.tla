--------------------------------- MODULE NetFile ---------------------------------
(***************************************************************************)
(* What goes between a document and a file: `toXml' (save_file.cpp), the   *)
(* parsers (pnml_parser.cpp, grml_parser.cpp, position_parsers.cpp),       *)
(* `convert' and its companions (petri.cpp), `parseNet' and the install    *)
(* reducers (load_file.cpp).                                               *)
(*                                                                         *)
(* A file is the content of its XML: places with position and initial      *)
(* marking (a bag of colours), transitions with position and priority,     *)
(* arcs with colour and multiplicity.  Nodes are known by name alone.  A   *)
(* GRML file numbers its nodes; its arcs are given here by the names that  *)
(* the numbers stand for.                                                  *)
(***************************************************************************)
EXTENDS EditReducers

(***************************************************************************)
(* A list of whatever elements.                                            *)
(***************************************************************************)
IsSeq(s) == Len(s) \in Nat /\ s = [i \in 1 .. Len(s) |-> s[i]]

(***************************************************************************)
(* What an XML file holds: lists, with numbers for numbers.                *)
(***************************************************************************)
WellFormed(file) ==
    /\ IsSeq(file.places) /\ IsSeq(file.transitions) /\ IsSeq(file.arcs)
    /\ \A i \in DOMAIN file.transitions : file.transitions[i].priority \in Int
    /\ \A i \in DOMAIN file.arcs : file.arcs[i].times \in Int

(***************************************************************************)
(* The colours in it are ones that there are: the parsers make a token of  *)
(* each colour they read.                                                  *)
(***************************************************************************)
Colored(file) ==
    /\ \A i \in DOMAIN file.arcs : file.arcs[i].color \in Token
    /\ \A i \in DOMAIN file.places : \E colors \in SUBSET Token : file.places[i].marks \in [colors -> Nat]

Missing == [kind |-> "missing", places |-> <<>>, transitions |-> <<>>, arcs |-> <<>>]

-----------------------------------------------------------------------------
(***************************************************************************)
(* Saving.                                                                 *)
(***************************************************************************)

MarksOf(p, tokens) ==
    LET here == {a \in BagToSet(tokens) : a[1] = p}
    IN  [c \in {a[2] : a \in here} |-> tokens[<<p, c>>]]

(***************************************************************************)
(* Neither priorities nor output colours are written.                      *)
(***************************************************************************)
toXml(e) ==
    [kind |-> "pnml",
     places |-> [p \in DOMAIN e.place |->
        [name |-> e.place[p].name, at |-> e.p_positions[p], marks |-> MarksOf(p, e.tokens)]],
     transitions |-> [t \in DOMAIN e.transition |->
        [name |-> e.transition[t].name, at |-> e.t_positions[t], priority |-> 0]],
     arcs |-> FlattenSeq([t \in DOMAIN e.transition |->
        [i \in DOMAIN e.input_n[t] |->
            [source |-> e.place[e.input_n[t][i][1]].name, target |-> e.transition[t].name,
             color |-> e.input_n[t][i][2], times |-> 1]] \o
        [i \in DOMAIN e.output_n[t] |->
            [source |-> e.transition[t].name, target |-> e.place[e.output_n[t][i][1]].name,
             color |-> e.output_n[t][i][2], times |-> 1]]])]

-----------------------------------------------------------------------------
(***************************************************************************)
(* Parsing.                                                                *)
(***************************************************************************)

NamesOf(nodes) == {nodes[k].name : k \in DOMAIN nodes}

(***************************************************************************)
(* An arc of multiplicity n is n arcs; nothing else is seen of it.         *)
(***************************************************************************)
Arcs(file) == FlattenSeq([i \in DOMAIN file.arcs |-> [k \in 1 .. file.arcs[i].times |-> file.arcs[i]]])

(***************************************************************************)
(* Whether an arc consumes or produces is decided by its source alone; the *)
(* other end is then the transition, or the place, whatever it is declared *)
(* to be.                                                                  *)
(***************************************************************************)
Consumes(file, arc) == arc.source \in NamesOf(file.places)

Owner(file, arc) == IF Consumes(file, arc) THEN arc.target ELSE arc.source

PlaceEnd(file, arc) == IF Consumes(file, arc) THEN arc.source ELSE arc.target

(***************************************************************************)
(* `Net' of the parsers: the arcs of each transition, in file order.  A    *)
(* node without an arc is not in it.                                       *)
(***************************************************************************)
NetIn(file) ==
    LET arcs == Arcs(file)
        ends(t, consumes) == FlattenSeq([i \in DOMAIN arcs |->
            IF Owner(file, arcs[i]) = t /\ (Consumes(file, arcs[i]) <=> consumes)
            THEN << <<PlaceEnd(file, arcs[i]), arcs[i].color>> >> ELSE <<>>])
    IN  [t \in {Owner(file, arcs[i]) : i \in DOMAIN arcs} |->
            [first |-> ends(t, TRUE), second |-> ends(t, FALSE)]]

(***************************************************************************)
(* `stateNetEquality' (types.cpp): for each arc, as many of its kind in    *)
(* both nets.                                                              *)
(***************************************************************************)
Copies(arcs, a) == Cardinality({i \in DOMAIN arcs : arcs[i] = a})

SameArcs(a, b) == \A i \in DOMAIN a : Len(a) = Len(b) /\ Copies(a, a[i]) = Copies(b, a[i])

(***************************************************************************)
(* Mutation of stateNetEquality: compares the incoming arcs twice.         *)
(***************************************************************************)
stateNetEqualityTwice(net1, net2) ==
    /\ Cardinality(DOMAIN net1) = Cardinality(DOMAIN net2)
    /\ \A t \in DOMAIN net1 :
        /\ t \in DOMAIN net2
        /\ SameArcs(net1[t].first, net2[t].first)
        /\ SameArcs(net1[t].first, net2[t].first)

stateNetEquality(net1, net2) ==
    /\ Cardinality(DOMAIN net1) = Cardinality(DOMAIN net2)
    /\ \A t \in DOMAIN net1 :
        /\ t \in DOMAIN net2
        /\ SameArcs(net1[t].first, net2[t].first)
        /\ SameArcs(net1[t].second, net2[t].second)

(***************************************************************************)
(* The parsers throw for an arc from nowhere, parseNet for a node of the   *)
(* net that has no position, and for a file that is not there.             *)
(***************************************************************************)
Readable(file) ==
    /\ file.kind # "missing"
    /\ LET arcs == Arcs(file)
       IN  \A i \in DOMAIN arcs :
            {arcs[i].source, arcs[i].target} \subseteq NamesOf(file.places) \cup NamesOf(file.transitions)

(***************************************************************************)
(* Every marked place has an arc, as the parsers read the arcs.            *)
(***************************************************************************)
NoStrays(file) ==
    LET arcs == Arcs(file)
    IN  \A i \in DOMAIN file.places : DOMAIN file.places[i].marks # {} =>
            \E k \in DOMAIN arcs : PlaceEnd(file, arcs[k]) = file.places[i].name

(***************************************************************************)
(* `convert': the places that have an arc, in the order of their names,    *)
(* which is taken to be some fixed one.                                    *)
(***************************************************************************)
PlacesIn(file) ==
    LET arcs == Arcs(file)
    IN  SetToSeq({PlaceEnd(file, arcs[i]) : i \in DOMAIN arcs})

(***************************************************************************)
(* `std::find': the index of a name, or one past the end.                  *)
(***************************************************************************)
toIndex(names, name) ==
    IF \E k \in DOMAIN names : names[k] = name
    THEN CHOOSE k \in DOMAIN names : names[k] = name /\ \A j \in 1 .. k - 1 : names[j] # name
    ELSE Len(names) + 1

ToInt8(n) == ((n + 128) % 256) - 128

(***************************************************************************)
(* `createPriorityLookup'.  PNML has no priorities; of the priorities in a *)
(* GRML file, a zero is not kept, and the first of a name counts.          *)
(***************************************************************************)
PriorityIn(file, t) ==
    LET n == file.transitions
        kept == {i \in DOMAIN n : n[i].name = t /\ file.kind = "grml" /\ ToInt8(n[i].priority) # 0}
    IN  IF kept = {} THEN 0 ELSE ToInt8(n[Min(kept)].priority)

(***************************************************************************)
(* Positions are kept by name, transitions after places: the last counts.  *)
(***************************************************************************)
PositionIn(file, name) ==
    LET nodes == file.places \o file.transitions
    IN  nodes[SelectLastInSeq(nodes, LAMBDA n : n.name = name)].at

(***************************************************************************)
(* The initial marking, at the indices of its places: of a place that has  *)
(* no arc, at the index one past the end.                                  *)
(***************************************************************************)
TokensIn(file, place) ==
    LET n == file.places
        marks == [i \in DOMAIN n |-> {toIndex(place, n[i].name)} \X DOMAIN n[i].marks]
    IN  [a \in UNION {marks[i] : i \in DOMAIN n} |->
            Cardinality(UNION {{i} \X (1 .. n[i].marks[a[2]]) : i \in {i \in DOMAIN n : a \in marks[i]}})]

(***************************************************************************)
(* Mutation of LookupIn: takes the arcs for sets.                          *)
(***************************************************************************)
LookupInOnce(place, arcs) ==
    SetToSeq({<<toIndex(place, arcs[i][1]), arcs[i][2]>> : i \in DOMAIN arcs})

(***************************************************************************)
(* `populateIoLookups', for one transition.                                *)
(***************************************************************************)
LookupIn(place, arcs) == [i \in DOMAIN arcs |-> <<toIndex(place, arcs[i][1]), arcs[i][2]>>]

(***************************************************************************)
(* `parseNet': the nets that a file may be read as, one for each order in  *)
(* which the hash map gives its transitions; none when it throws.  Every   *)
(* callback is a DirectMutation, which fires to Success.                   *)
(***************************************************************************)
parseNet(file) ==
    LET net == NetIn(file)
        place == PlacesIn(file)
        ParsedNet(order) ==
            [place |-> place, transition |-> order,
             input_n |-> [t \in DOMAIN order |-> LookupIn(place, net[order[t]].first)],
             output_n |-> [t \in DOMAIN order |-> LookupIn(place, net[order[t]].second)],
             priority |-> [t \in DOMAIN order |-> PriorityIn(file, order[t])],
             output |-> [t \in DOMAIN order |-> "Success"],
             t_positions |-> [t \in DOMAIN order |-> PositionIn(file, order[t])],
             p_positions |-> [p \in DOMAIN place |-> PositionIn(file, place[p])],
             tokens |-> TokensIn(file, place)]
    IN  IF Readable(file) THEN {ParsedNet(order) : order \in SetToSeqs(DOMAIN net)} ELSE {}

-----------------------------------------------------------------------------
(***************************************************************************)
(* Installing.  The nodes that arrive get identities of their own.         *)
(***************************************************************************)

createReversePlaceToTransitionLookup(places, input_n) ==
    [p \in 1 .. places |-> {t \in DOMAIN input_n : \E i \in DOMAIN input_n[t] : input_n[t][i][1] = p}]

Arriving(names, nodes) ==
    [k \in DOMAIN names |-> [id |-> LastId(nodes) + k, name |-> names[k]]]

(***************************************************************************)
(* Replaces the net; the event log stays.                                  *)
(***************************************************************************)
clearInstaller(p, file, e) ==
    [e EXCEPT !.place = Arriving(p.place, @),
              !.transition = Arriving(p.transition, @),
              !.input_n = p.input_n,
              !.output_n = p.output_n,
              !.priority = p.priority,
              !.output = p.output,
              !.p_to_ts_n = createReversePlaceToTransitionLookup(Len(p.place), p.input_n),
              !.t_positions = p.t_positions,
              !.p_positions = p.p_positions,
              !.tokens = p.tokens,
              !.active_file = file]

(***************************************************************************)
(* Mutation of OffsetTokens: forgets that the places have moved.           *)
(***************************************************************************)
OffsetTokensNot(tokens, base) == tokens

OffsetTokens(tokens, base) ==
    [a \in {<<b[1] + base, b[2]>> : b \in DOMAIN tokens} |-> tokens[<<a[1] - base, a[2]>>]]

(***************************************************************************)
(* Appends the net, shifting its place indices.                            *)
(***************************************************************************)
appendInstaller(p, file, e) ==
    LET base == Len(e.place)
        offset(arcs) == [i \in DOMAIN arcs |-> <<arcs[i][1] + base, arcs[i][2]>>]
        input_n == e.input_n \o [t \in DOMAIN p.input_n |-> offset(p.input_n[t])]
    IN  [e EXCEPT !.place = @ \o Arriving(p.place, @),
                  !.transition = @ \o Arriving(p.transition, @),
                  !.priority = @ \o p.priority,
                  !.output = @ \o p.output,
                  !.input_n = input_n,
                  !.output_n = @ \o [t \in DOMAIN p.output_n |-> offset(p.output_n[t])],
                  !.p_to_ts_n = createReversePlaceToTransitionLookup(base + Len(p.place), input_n),
                  !.t_positions = @ \o p.t_positions,
                  !.p_positions = @ \o p.p_positions,
                  !.tokens = @ (+) OffsetTokens(p.tokens, base),
                  !.active_file = file]
=============================================================================
