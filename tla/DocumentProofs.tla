------------------------------ MODULE DocumentProofs ------------------------------
(***************************************************************************)
(* Proofs about the editor's documents, for any files, names, numbers and  *)
(* colours and for any number of steps and arcs: no sequence of edits,     *)
(* loads and saves gets the indices out of step, each changes the net that *)
(* the document denotes as its name says (NetGraph.tla), and a net that    *)
(* was saved comes back when its file is loaded.                           *)
(***************************************************************************)
EXTENDS Document, ReducerProofs

(***************************************************************************)
(* The files, and what the popup is about to write to one, are             *)
(* well-formed.                                                            *)
(***************************************************************************)
FilesSound ==
    /\ DOMAIN disk = File
    /\ \A f \in File : WellFormed(disk[f])
    /\ popup = NoPopup \/ WellFormed(popup.file)

(***************************************************************************)
(* The invariant for every step.                                           *)
(***************************************************************************)
StructureInv == Structure(doc) /\ FilesSound

(***************************************************************************)
(* The invariant for the tokens: they are at places, also those in a file  *)
(* or in the popup once they are loaded.                                   *)
(***************************************************************************)
NoStraysAnywhere ==
    /\ TokensInRange(doc)
    /\ \A f \in File : NoStrays(disk[f])
    /\ popup = NoPopup \/ NoStrays(popup.file)

(***************************************************************************)
(* The initial states, with a file loaded or without.                      *)
(***************************************************************************)
LEMMA InitSound ==
    ASSUME Init
    PROVE  StructureInv /\ ((\A f \in File : NoStrays(Disk[f])) => NoStraysAnywhere)
<1>1. FilesSound /\ disk = Disk /\ popup = NoPopup
    BY DocumentAssumption DEF DocumentAssumption, Init, FilesSound
<1>2. CASE doc = EmptyDocument
    BY <1>1, <1>2, EmptyDocumentSound DEF StructureInv, NoStraysAnywhere
<1>3. CASE \E f \in File : \E p \in parseNet(Disk[f]) : doc = appendInstaller(p, f, EmptyDocument)
    <2>0. PICK f \in File : \E p \in parseNet(Disk[f]) : doc = appendInstaller(p, f, EmptyDocument)
        BY <1>3
    <2>1. PICK p \in parseNet(Disk[f]) : doc = appendInstaller(p, f, EmptyDocument)
        BY <2>0
    <2>2. ParsedSound(p) /\ (NoStrays(Disk[f]) => MarksInRange(p))
        BY ParseSound, DocumentAssumption DEF DocumentAssumption
    <2>3. Structure(doc) /\ (MarksInRange(p) => TokensInRange(doc))
        BY <2>1, <2>2, EmptyDocumentSound, AppendInstallerSound
    <2>4. QED
        BY <1>1, <2>2, <2>3 DEF StructureInv, NoStraysAnywhere
<1>4. QED
    BY <1>2, <1>3 DEF Init

(***************************************************************************)
(* What a step that edits the document has to keep.                        *)
(***************************************************************************)
EditSound == Structure(doc') /\ (TokensInRange(doc) => TokensInRange(doc'))

(***************************************************************************)
(* The places and transitions that the steps choose from.                  *)
(***************************************************************************)
LEMMA Indices ==
    ASSUME StructureInv
    PROVE  P = 1 .. Len(doc.place) /\ T = 1 .. Len(doc.transition)
BY SeqElim DEF StructureInv, Structure, PerPlace, PerTransition, P, T

(***************************************************************************)
(* Adding and removing nodes.                                              *)
(***************************************************************************)
LEMMA NodesSound ==
    ASSUME StructureInv, AddNode \/ RemovePlace \/ RemoveTransition
    PROVE  EditSound
<1> USE Indices DEF StructureInv
<1>1. CASE AddNode
    BY <1>1, AddPlaceSound, AddTransitionSound DEF AddNode, Edit, EditSound
<1>2. CASE RemovePlace
    <2>1. PICK p \in 1 .. Len(doc.place) : doc' = removePlace(p, doc)
        BY <1>2 DEF RemovePlace, Edit
    <2>2. QED
        BY <2>1, RemovePlaceSound DEF EditSound
<1>3. CASE RemoveTransition
    <2>1. PICK t \in 1 .. Len(doc.transition) : doc' = removeTransition(t, doc)
        BY <1>3 DEF RemoveTransition, Edit
    <2>2. QED
        BY <2>1, RemoveTransitionSound DEF EditSound
<1>4. QED
    BY <1>1, <1>2, <1>3

(***************************************************************************)
(* Edits of arcs.                                                          *)
(***************************************************************************)
LEMMA ArcsEditSound ==
    ASSUME StructureInv, AddArc \/ RemoveArc \/ UpdateArcColor
    PROVE  EditSound
<1> USE Indices DEF StructureInv
<1>1. CASE AddArc
    <2>1. PICK source \in Source, p \in 1 .. Len(doc.place), t \in 1 .. Len(doc.transition), c \in Token :
            doc' = addArc(source, p, t, c, doc)
        BY <1>1 DEF AddArc, Edit
    <2>2. QED
        BY <2>1, AddArcSound DEF EditSound, Source
<1>2. CASE RemoveArc
    <2>0. PICK source \in Source : \E a \in ArcIndices(source) : doc' = removeArc(source, a[1], a[2], doc)
        BY <1>2 DEF RemoveArc, Edit
    <2>1. PICK a \in ArcIndices(source) : doc' = removeArc(source, a[1], a[2], doc)
        BY <2>0
    <2>2. a[1] \in 1 .. Len(doc.transition) /\ a[2] \in DOMAIN doc[ArcField(source)][a[1]]
        BY DEF ArcIndices
    <2>3. QED
        BY <2>1, <2>2, RemoveArcSound DEF EditSound
<1>3. CASE UpdateArcColor
    <2>1. PICK c \in Token, a \in ArcIndices("Place") : doc' = updateArcColor("Place", a[1], a[2], c, doc)
        BY <1>3 DEF UpdateArcColor, Edit
    <2>2. a[1] \in 1 .. Len(doc.transition) /\ a[2] \in DOMAIN doc[ArcField("Place")][a[1]]
        BY DEF ArcIndices
    <2>3. QED
        BY <2>1, <2>2, UpdateArcColorSound DEF EditSound
<1>4. QED
    BY <1>1, <1>2, <1>3

(***************************************************************************)
(* Edits of names, positions, priorities and colours.                      *)
(***************************************************************************)
LEMMA ValuesSound ==
    ASSUME StructureInv, UpdateTransition \/ Rename \/ MoveNode \/ UpdateActiveFile
    PROVE  EditSound
<1> USE DEF StructureInv
<1>1. CASE UpdateTransition
    <2>1. PICK t \in T : \/ \E n \in Typed : doc' = updatePriority(t, n, doc)
                         \/ \E c \in Token : doc' = updateTransitionOutputColor(t, c, doc)
        BY <1>1 DEF UpdateTransition, Edit
    <2>2. CASE \E n \in Typed : doc' = updatePriority(t, n, doc)
        <3>1. PICK n \in Typed : doc' = updatePriority(t, n, doc)
            BY <2>2
        <3>2. n \in Int
            BY DocumentAssumption DEF DocumentAssumption
        <3>3. QED
            BY <3>1, <3>2, UpdatePrioritySound DEF EditSound
    <2>3. CASE \E c \in Token : doc' = updateTransitionOutputColor(t, c, doc)
        BY <2>3, UpdateOutputColorSound DEF EditSound
    <2>4. QED
        BY <2>1, <2>2, <2>3
<1>2. CASE Rename
    <2>1. PICK name \in Name : \/ \E p \in P : doc' = updatePlaceName(p, name, doc)
                               \/ \E t \in T : doc' = updateTransitionName(t, name, doc)
        BY <1>2 DEF Rename, Edit
    <2>2. QED
        BY <2>1, UpdatePlaceNameSound, UpdateTransitionNameSound DEF EditSound
<1>3. CASE MoveNode
    <2>1. PICK ts, ps : doc' = moveNode(ts, ps, doc)
        BY <1>3 DEF MoveNode, Edit
    <2>2. QED
        BY <2>1, MoveNodeSound DEF EditSound
<1>4. CASE UpdateActiveFile
    <2>1. PICK f \in File : doc' = updateActiveFile(f, doc)
        BY <1>4 DEF UpdateActiveFile, Edit
    <2>2. QED
        BY <2>1, UpdateActiveFileSound DEF EditSound
<1>5. QED
    BY <1>1, <1>2, <1>3, <1>4

(***************************************************************************)
(* Edits of the marking.                                                   *)
(***************************************************************************)
LEMMA TokensSound ==
    ASSUME StructureInv, AddTokenToPlace \/ RemoveTokenFromPlace \/ TryFire
    PROVE  EditSound
<1> USE Indices DEF StructureInv
<1>1. CASE AddTokenToPlace
    <2>1. PICK p \in 1 .. Len(doc.place), c \in Token : doc' = addTokenToPlace(p, c, doc)
        BY <1>1 DEF AddTokenToPlace, Edit
    <2>2. QED
        BY <2>1, AddTokenSound DEF EditSound
<1>2. CASE RemoveTokenFromPlace
    <2>1. PICK a \in BagToSet(doc.tokens) : doc' = removeTokenFromPlace(a[1], a[2], doc)
        BY <1>2 DEF RemoveTokenFromPlace, Edit
    <2>2. QED
        BY <2>1, RemoveTokenSound DEF EditSound
<1>3. CASE TryFire
    <2>1. PICK t \in 1 .. Len(doc.transition) : doc' = tryFire(t, doc)
        BY <1>3 DEF TryFire, Edit
    <2>2. QED
        BY <2>1, TryFireSound DEF EditSound
<1>4. QED
    BY <1>1, <1>2, <1>3

(***************************************************************************)
(* The steps that are edits.                                               *)
(***************************************************************************)
EditAction ==
    \/ AddNode \/ RemovePlace \/ RemoveTransition
    \/ AddArc \/ RemoveArc \/ UpdateArcColor
    \/ UpdateTransition \/ Rename \/ MoveNode \/ UpdateActiveFile
    \/ AddTokenToPlace \/ RemoveTokenFromPlace \/ TryFire

(***************************************************************************)
(* They touch neither files nor the popup.                                 *)
(***************************************************************************)
LEMMA EditKeepsFiles ==
    ASSUME EditAction
    PROVE  disk' = disk /\ popup' = popup
BY DEF EditAction, AddNode, RemovePlace, RemoveTransition, AddArc, RemoveArc, UpdateArcColor,
       UpdateTransition, Rename, MoveNode, UpdateActiveFile, AddTokenToPlace,
       RemoveTokenFromPlace, TryFire, Edit

(***************************************************************************)
(* Loading a file: over the document or behind it.                         *)
(***************************************************************************)
LEMMA LoadSound ==
    ASSUME StructureInv, Load
    PROVE  /\ Structure(doc')
           /\ NoStraysAnywhere => TokensInRange(doc')
           /\ disk' = disk /\ popup' = popup
<1>0. PICK f \in File : \E p \in parseNet(disk[f]) :
        \/ doc' = clearInstaller(p, f, doc)
        \/ doc' = appendInstaller(p, f, doc)
    BY DEF Load, Edit
<1>1. PICK p \in parseNet(disk[f]) :
        \/ doc' = clearInstaller(p, f, doc)
        \/ doc' = appendInstaller(p, f, doc)
    BY <1>0
<1>2. ParsedSound(p) /\ (NoStrays(disk[f]) => MarksInRange(p))
    BY ParseSound DEF StructureInv, FilesSound
<1>3. Structure(doc') /\ (TokensInRange(doc) /\ MarksInRange(p) => TokensInRange(doc'))
    <2>1. CASE doc' = clearInstaller(p, f, doc)
        BY <1>2, <2>1, ClearInstallerSound DEF StructureInv
    <2>2. CASE doc' = appendInstaller(p, f, doc)
        BY <1>2, <2>2, AppendInstallerSound DEF StructureInv
    <2>3. QED
        BY <1>1, <2>1, <2>2
<1>4. NoStraysAnywhere => TokensInRange(doc')
    BY <1>2, <1>3 DEF NoStraysAnywhere
<1>5. disk' = disk /\ popup' = popup
    BY DEF Load, Edit
<1>6. QED
    BY <1>3, <1>4, <1>5

(***************************************************************************)
(* Every step keeps the invariants.                                        *)
(***************************************************************************)
LEMMA NextSound ==
    ASSUME StructureInv, [Next]_vars
    PROVE  StructureInv' /\ (KeepsStrays = FALSE /\ NoStraysAnywhere => NoStraysAnywhere')
<1>1. CASE EditAction
    <2>1. EditSound
        BY <1>1, NodesSound, ArcsEditSound, ValuesSound, TokensSound DEF EditAction
    <2>2. disk' = disk /\ popup' = popup
        BY <1>1, EditKeepsFiles
    <2>3. QED
        BY <2>1, <2>2 DEF StructureInv, FilesSound, NoStraysAnywhere, EditSound
<1>2. CASE Load
    BY <1>2, LoadSound DEF StructureInv, FilesSound, NoStraysAnywhere
<1>3. CASE RequestSave
    <2>1. WellFormed(popup'.file) /\ (KeepsStrays = FALSE => NoStrays(popup'.file))
        BY <1>3, ToXmlWellFormed DEF RequestSave, StructureInv
    <2>2. doc' = doc /\ disk' = disk
        BY <1>3 DEF RequestSave
    <2>3. QED
        BY <2>1, <2>2 DEF StructureInv, FilesSound, NoStraysAnywhere
<1>4. CASE Save
    <2>1. /\ popup # NoPopup /\ popup' = NoPopup
          /\ disk' = [disk EXCEPT ![popup.path] = popup.file]
          /\ doc' = updateActiveFile(popup.path, doc)
        BY <1>4 DEF Save
    <2>2. Structure(doc') /\ (TokensInRange(doc) => TokensInRange(doc'))
        BY <2>1, UpdateActiveFileSound DEF StructureInv
    <2>3. FilesSound'
        BY <2>1 DEF StructureInv, FilesSound, NoPopup
    <2>4. NoStraysAnywhere => NoStraysAnywhere'
        BY <2>1, <2>2 DEF StructureInv, FilesSound, NoStraysAnywhere, NoPopup
    <2>5. QED
        BY <2>2, <2>3, <2>4 DEF StructureInv
<1>5. CASE CancelSave
    BY <1>5 DEF CancelSave, StructureInv, FilesSound, NoStraysAnywhere
<1>6. CASE UNCHANGED vars
    BY <1>6 DEF vars, StructureInv, FilesSound, NoStraysAnywhere
<1>7. QED
    BY <1>1, <1>2, <1>3, <1>4, <1>5, <1>6 DEF Next, EditAction

(***************************************************************************)
(* The main results.  After any sequence of edits, loads and saves         *)
(* whatever is kept per node is there once for each node, every arc ends   *)
(* at a place, the reverse lookup knows each consumer and priorities have  *)
(* 8 bits.  Only the tokens are missing from DocumentIsSound, and nothing  *)
(* is assumed about strays.                                                *)
(***************************************************************************)
THEOREM StructureKept ==
    Spec => [](/\ Aligned(doc)
               /\ ArcsInRange(doc)
               /\ LookupCovers(doc)
               /\ \A t \in T : doc.priority[t] \in -128 .. 127)
<1>1. Init => StructureInv
    BY InitSound
<1>2. StructureInv /\ [Next]_vars => StructureInv'
    BY NextSound
<1>3. StructureInv => /\ Aligned(doc)
                      /\ ArcsInRange(doc)
                      /\ LookupCovers(doc)
                      /\ \A t \in T : doc.priority[t] \in -128 .. 127
    BY StructureIs DEF StructureInv, T
<1>4. QED
    BY <1>1, <1>2, <1>3, PTL DEF Spec

(***************************************************************************)
(* With the tokens: if no file and no saved document has a marked place    *)
(* without arcs (or whose name is also a transition's), all of             *)
(* DocumentIsSound holds forever.  The hypotheses are the ones of the run  *)
(* `Editing'; without them it does not hold.                               *)
(***************************************************************************)
THEOREM DocumentStaysSound ==
    ASSUME KeepsStrays = FALSE, \A f \in File : NoStrays(Disk[f])
    PROVE  Spec => []DocumentIsSound
<1>1. Init => StructureInv /\ NoStraysAnywhere
    BY InitSound
<1>2. StructureInv /\ NoStraysAnywhere /\ [Next]_vars => (StructureInv /\ NoStraysAnywhere)'
    BY NextSound
<1>3. StructureInv /\ NoStraysAnywhere => DocumentIsSound
    BY StructureIs DEF StructureInv, NoStraysAnywhere, DocumentIsSound, T
<1>4. QED
    BY <1>1, <1>2, <1>3, PTL DEF Spec

(***************************************************************************)
(* The comparison of nets in types.cpp, asked in both orders, tells nets   *)
(* apart exactly by the bags of their arcs, for whatever is in the         *)
(* document and in a file.                                                 *)
(***************************************************************************)
THEOREM NetsTold == Spec => []NetsAreToldApart
<1>1. Init => StructureInv
    BY InitSound
<1>2. StructureInv /\ [Next]_vars => StructureInv'
    BY NextSound
<1>3. StructureInv => NetsAreToldApart
    <2>1. ASSUME StructureInv, NEW f \in File
          PROVE  WellFormed(toXml(doc)) /\ WellFormed(disk[f])
        BY <2>1, ToXmlWellFormed DEF StructureInv, FilesSound
    <2> DEFINE net1 == NetIn(toXml(doc))
    <2> DEFINE net2(f) == NetIn(disk[f])
    <2>2. ASSUME StructureInv, NEW f \in File
          PROVE  stateNetEquality(net1, net2(f)) /\ stateNetEquality(net2(f), net1)
                    <=> EqualArcs(net1, net2(f))
        <3>1. /\ stateNetEquality(net1, net2(f)) <=>
                    /\ DOMAIN net1 = DOMAIN net2(f)
                    /\ \A t \in DOMAIN net1, side \in {"first", "second"} :
                        net1[t][side] # <<>> => ArcBag(net1[t][side]) = ArcBag(net2(f)[t][side])
              /\ stateNetEquality(net2(f), net1) <=>
                    /\ DOMAIN net2(f) = DOMAIN net1
                    /\ \A t \in DOMAIN net2(f), side \in {"first", "second"} :
                        net2(f)[t][side] # <<>> => ArcBag(net2(f)[t][side]) = ArcBag(net1[t][side])
            BY <2>1, <2>2, EqualityIs
        <3> HIDE DEF net1, net2
        <3>2. ASSUME NEW t, NEW side, net1[t][side] = <<>>, net2(f)[t][side] = <<>>
              PROVE  ArcBag(net1[t][side]) = ArcBag(net2(f)[t][side])
            BY <3>2
        <3>3. QED
            BY <3>1, <3>2 DEF EqualArcs
    <2>3. QED
        BY <2>2 DEF NetsAreToldApart
<1>4. QED
    BY <1>1, <1>2, <1>3, PTL DEF Spec

-----------------------------------------------------------------------------
(***************************************************************************)
(* The net that a document denotes.                                        *)
(***************************************************************************)

(***************************************************************************)
(* The invariant of a document that denotes a net: besides its structure,  *)
(* nodes are told apart and colours are tokens.                            *)
(***************************************************************************)
Told(e) ==
    /\ Structure(e)
    /\ Distinct(e.place) /\ Distinct(e.transition)
    /\ \A t \in 1 .. Len(e.transition) :
            Coloured(e.input_n[t]) /\ Coloured(e.output_n[t]) /\ e.output[t] \in Token
    /\ Marks(e.tokens, Len(e.place))

(***************************************************************************)
(* Arcs are marks at places, too.                                          *)
(***************************************************************************)
LEMMA MarksOfArcs ==
    ASSUME NEW n, NEW arcs, ArcsTo(arcs, n), Coloured(arcs)
    PROVE  Marks(ArcBag(arcs), n)
<1>1. IsSeq(arcs)
    BY DEF ArcsTo
<1> DEFINE B == ArcBag(arcs)
<1>2. IsFcn(B)
    BY <1>1, ArcBagIs
<1>3. ASSUME NEW a \in DOMAIN B
      PROVE  a \in (1 .. n) \X Token /\ B[a] \in Nat
    <2>1. B[a] = Times(arcs, a) /\ Times(arcs, a) \in Nat
        BY <1>1, ArcBagIs
    <2>2. DOMAIN arcs = 1 .. Len(arcs)
        BY <1>1, SeqElim
    <2>3. PICK i \in 1 .. Len(arcs) : a = arcs[i]
        BY <2>2 DEF ArcBag
    <2>4. a[1] \in 1 .. n /\ a[2] \in Token /\ a = <<a[1], a[2]>>
        BY <2>3 DEF ArcsTo, Coloured
    <2>5. QED
        BY <2>1, <2>4
<1> HIDE DEF B
<1>4. QED
    BY <1>2, <1>3 DEF Marks, B

(***************************************************************************)
(* What a document says of a place,                                        *)
(***************************************************************************)
PlaceAt(e, p) == [name |-> e.place[p].name, at |-> e.p_positions[p]]

(***************************************************************************)
(* and of a transition.                                                    *)
(***************************************************************************)
TransitionAt(e, t) ==
    [name |-> e.transition[t].name, at |-> e.t_positions[t], priority |-> e.priority[t],
     output |-> e.output[t], consumes |-> ById(e.place, ArcBag(e.input_n[t])),
     produces |-> ById(e.place, ArcBag(e.output_n[t]))]

(***************************************************************************)
(* PlacesOf, place by place.                                               *)
(***************************************************************************)
LEMMA PlacesAre ==
    ASSUME NEW e, Distinct(e.place)
    PROVE  /\ IsFcn(PlacesOf(e))
           /\ DOMAIN PlacesOf(e) = {e.place[p].id : p \in 1 .. Len(e.place)}
           /\ \A p \in 1 .. Len(e.place) : PlacesOf(e)[e.place[p].id] = PlaceAt(e, p)
<1>1. /\ Ids(e.place) = {e.place[p].id : p \in 1 .. Len(e.place)}
      /\ \A p \in 1 .. Len(e.place) : IndexOf(e.place, e.place[p].id) = p
    BY NodeFound
<1>2. IsFcn(PlacesOf(e)) /\ DOMAIN PlacesOf(e) = Ids(e.place)
    BY DEF PlacesOf, IsFcn
<1>3. \A x \in Ids(e.place) : PlacesOf(e)[x] = PlaceAt(e, IndexOf(e.place, x))
    BY DEF PlacesOf, PlaceAt
<1>4. QED
    BY <1>1, <1>2, <1>3

(***************************************************************************)
(* TransitionsOf, transition by transition.                                *)
(***************************************************************************)
LEMMA TransitionsAre ==
    ASSUME NEW e, Distinct(e.transition)
    PROVE  /\ IsFcn(TransitionsOf(e))
           /\ DOMAIN TransitionsOf(e) = {e.transition[t].id : t \in 1 .. Len(e.transition)}
           /\ \A t \in 1 .. Len(e.transition) : TransitionsOf(e)[e.transition[t].id] = TransitionAt(e, t)
<1>1. /\ Ids(e.transition) = {e.transition[t].id : t \in 1 .. Len(e.transition)}
      /\ \A t \in 1 .. Len(e.transition) : IndexOf(e.transition, e.transition[t].id) = t
    BY NodeFound
<1>2. IsFcn(TransitionsOf(e)) /\ DOMAIN TransitionsOf(e) = Ids(e.transition)
    BY DEF TransitionsOf, IsFcn
<1>3. \A x \in Ids(e.transition) : TransitionsOf(e)[x] = TransitionAt(e, IndexOf(e.transition, x))
    BY DEF TransitionsOf, TransitionAt
<1>4. QED
    BY <1>1, <1>2, <1>3

(***************************************************************************)
(* A function that says the same of every place is PlacesOf.               *)
(***************************************************************************)
LEMMA PlacesSame ==
    ASSUME NEW e, Distinct(e.place), NEW R, IsFcn(R),
           DOMAIN R = {e.place[p].id : p \in 1 .. Len(e.place)},
           \A p \in 1 .. Len(e.place) : R[e.place[p].id] = PlaceAt(e, p)
    PROVE  PlacesOf(e) = R
<1> DEFINE S == PlacesOf(e)
<1>1. /\ IsFcn(S)
      /\ DOMAIN S = {e.place[p].id : p \in 1 .. Len(e.place)}
      /\ \A p \in 1 .. Len(e.place) : S[e.place[p].id] = PlaceAt(e, p)
    BY PlacesAre
<1> HIDE DEF S
<1>2. \A x \in DOMAIN S : S[x] = R[x]
    BY <1>1
<1>3. S = R
    BY <1>1, <1>2, SameFcn
<1>4. QED
    BY <1>3 DEF S

(***************************************************************************)
(* One that says the same of every transition is TransitionsOf.            *)
(***************************************************************************)
LEMMA TransitionsSame ==
    ASSUME NEW e, Distinct(e.transition), NEW R, IsFcn(R),
           DOMAIN R = {e.transition[t].id : t \in 1 .. Len(e.transition)},
           \A t \in 1 .. Len(e.transition) : R[e.transition[t].id] = TransitionAt(e, t)
    PROVE  TransitionsOf(e) = R
<1> DEFINE S == TransitionsOf(e)
<1>1. /\ IsFcn(S)
      /\ DOMAIN S = {e.transition[t].id : t \in 1 .. Len(e.transition)}
      /\ \A t \in 1 .. Len(e.transition) : S[e.transition[t].id] = TransitionAt(e, t)
    BY TransitionsAre
<1> HIDE DEF S
<1>2. \A x \in DOMAIN S : S[x] = R[x]
    BY <1>1
<1>3. S = R
    BY <1>1, <1>2, SameFcn
<1>4. QED
    BY <1>3 DEF S

(***************************************************************************)
(* The nodes of the one list are the first of the other.                   *)
(***************************************************************************)
Begins(nodes, more) ==
    Len(nodes) <= Len(more) /\ \A k \in 1 .. Len(nodes) : more[k].id = nodes[k].id

(***************************************************************************)
(* More places, or other names for them, change nothing of the marks.      *)
(***************************************************************************)
LEMMA ByIdWiden ==
    ASSUME NEW place, NEW more, Distinct(place), Distinct(more), Begins(place, more),
           NEW bag, Marks(bag, Len(place))
    PROVE  Marks(bag, Len(more)) /\ ById(more, bag) = ById(place, bag)
<1> DEFINE R == ById(place, bag)
<1>1. Len(place) \in Nat /\ Len(more) \in Nat
    BY SeqElim DEF Distinct
<1>2. \A a \in DOMAIN bag : a \in (1 .. Len(place)) \X Token
    BY DEF Marks
<1>3. Marks(bag, Len(more))
    BY <1>1, <1>2 DEF Marks, Begins
<1>4. \A a \in DOMAIN bag : Label(more, a) = Label(place, a)
    BY <1>2 DEF Label, Begins
<1>5. /\ IsFcn(R)
      /\ \A x \in DOMAIN R : \E a \in DOMAIN bag : x = Label(place, a)
      /\ \A a \in DOMAIN bag : Label(place, a) \in DOMAIN R
      /\ \A a \in DOMAIN bag : R[Label(place, a)] = bag[a]
    BY ByIdIs
<1> HIDE DEF R
<1>6. ById(more, bag) = R
    BY <1>3, <1>4, <1>5, ByIdSame
<1>7. QED
    BY <1>3, <1>6 DEF R

(***************************************************************************)
(* So a document in which only the places are more, or renamed, has the    *)
(* same transitions.                                                       *)
(***************************************************************************)
LEMMA TransitionsStay ==
    ASSUME NEW e, Told(e), NEW r, Distinct(r.place), Begins(e.place, r.place),
           r.transition = e.transition, r.t_positions = e.t_positions, r.priority = e.priority,
           r.output = e.output, r.input_n = e.input_n, r.output_n = e.output_n
    PROVE  /\ TransitionsOf(r) = TransitionsOf(e)
           /\ \A t \in 1 .. Len(e.transition) : TransitionAt(r, t) = TransitionAt(e, t)
<1>1. ASSUME NEW t \in 1 .. Len(e.transition)
      PROVE  TransitionAt(r, t) = TransitionAt(e, t)
    <2>1. Marks(ArcBag(e.input_n[t]), Len(e.place)) /\ Marks(ArcBag(e.output_n[t]), Len(e.place))
        BY MarksOfArcs DEF Told, Structure, ArcsSound
    <2>2. /\ ById(r.place, ArcBag(e.input_n[t])) = ById(e.place, ArcBag(e.input_n[t]))
          /\ ById(r.place, ArcBag(e.output_n[t])) = ById(e.place, ArcBag(e.output_n[t]))
        BY <2>1, ByIdWiden DEF Told
    <2>3. QED
        BY <2>2 DEF TransitionAt
<1>2. Distinct(e.transition)
    BY DEF Told
<1>3. IsFcn(TransitionsOf(e)) /\ DOMAIN TransitionsOf(e) = {e.transition[t].id : t \in 1 .. Len(e.transition)}
    BY <1>2, TransitionsAre
<1>4. \A t \in 1 .. Len(e.transition) : TransitionsOf(e)[e.transition[t].id] = TransitionAt(r, t)
    BY <1>1, <1>2, TransitionsAre
<1>5. TransitionsOf(r) = TransitionsOf(e)
    BY <1>2, <1>3, <1>4, TransitionsSame
<1>6. QED
    BY <1>1, <1>5

(***************************************************************************)
(* A change of what is said of one transition.                             *)
(***************************************************************************)
LEMMA TransitionChanged ==
    ASSUME NEW e, NEW r, Distinct(e.transition), Distinct(r.transition), Len(r.transition) = Len(e.transition),
           \A u \in 1 .. Len(e.transition) : r.transition[u].id = e.transition[u].id,
           NEW t \in 1 .. Len(e.transition),
           \A u \in 1 .. Len(e.transition) : u # t => TransitionAt(r, u) = TransitionAt(e, u)
    PROVE  TransitionsOf(r) = [TransitionsOf(e) EXCEPT ![e.transition[t].id] = TransitionAt(r, t)]
<1> DEFINE T0 == TransitionsOf(e)
<1> DEFINE R == [T0 EXCEPT ![e.transition[t].id] = TransitionAt(r, t)]
<1>1. /\ IsFcn(T0)
      /\ DOMAIN T0 = {e.transition[u].id : u \in 1 .. Len(e.transition)}
      /\ \A u \in 1 .. Len(e.transition) : T0[e.transition[u].id] = TransitionAt(e, u)
    BY TransitionsAre
<1> HIDE DEF T0
<1>2. IsFcn(R) /\ DOMAIN R = DOMAIN T0
    BY <1>1 DEF IsFcn
<1>3. DOMAIN R = {r.transition[u].id : u \in 1 .. Len(r.transition)}
    BY <1>1, <1>2
<1>4. ASSUME NEW u \in 1 .. Len(r.transition)
      PROVE  R[r.transition[u].id] = TransitionAt(r, u)
    <2>1. u \in 1 .. Len(e.transition) /\ r.transition[u].id = e.transition[u].id
        OBVIOUS
    <2>2. e.transition[u].id = e.transition[t].id => u = t
        BY <2>1 DEF Distinct
    <2>3. e.transition[u].id \in DOMAIN T0
        BY <2>1, <1>1
    <2>4. QED
        BY <2>1, <2>2, <2>3, <1>1
<1> HIDE DEF R
<1>5. TransitionsOf(r) = R
    BY <1>2, <1>3, <1>4, TransitionsSame
<1>6. QED
    BY <1>5 DEF R, T0

-----------------------------------------------------------------------------
(***************************************************************************)
(* Edits of arcs.                                                          *)
(***************************************************************************)

(***************************************************************************)
(* The arcs of the code's vectors in the net.                              *)
(***************************************************************************)
SideOf(field) == IF field = "input_n" THEN "consumes" ELSE "produces"

(***************************************************************************)
(* The net n with other arcs at one side of the transition x.              *)
(***************************************************************************)
WithArcs(n, x, side, bag) == [n EXCEPT !.transition[x][side] = bag]

(***************************************************************************)
(* The bags of NetGraph are the ones of the document.                      *)
(***************************************************************************)
LEMMA GraphBags ==
    ASSUME NEW A, NEW B, NEW a
    PROVE  /\ Graph!(+)(A, B) = A (+) B
           /\ Graph!(-)(A, B) = A (-) B
           /\ Graph!\sqsubseteq(A, B) <=> A \sqsubseteq B
           /\ Graph!BagIn(a, A) <=> a \in DOMAIN A
           /\ Graph!BagToSet(A) = DOMAIN A
           /\ Graph!EmptyBag = EmptyBag
           /\ Graph!One(a) = SetToBag({a})
<1>1. Graph!(+)(A, B) = A (+) B
    BY DEF Graph!(+), (+)
<1>2. Graph!(-)(A, B) = A (-) B
    BY DEF Graph!(-), (-)
<1>3. Graph!\sqsubseteq(A, B) <=> A \sqsubseteq B
    BY DEF Graph!\sqsubseteq, \sqsubseteq, Graph!BagToSet, BagToSet
<1>4. Graph!BagIn(a, A) <=> a \in DOMAIN A
    BY DEF Graph!BagIn, Graph!BagToSet
<1>5. Graph!BagToSet(A) = DOMAIN A
    BY DEF Graph!BagToSet
<1>6. Graph!EmptyBag = EmptyBag
    BY DEF Graph!EmptyBag, EmptyBag, Graph!SetToBag, SetToBag
<1>7. Graph!One(a) = SetToBag({a})
    BY DEF Graph!One, SetToBag
<1>8. QED
    BY <1>1, <1>2, <1>3, <1>4, <1>5, <1>6, <1>7

(***************************************************************************)
(* Connecting an arc, in these terms.                                      *)
(***************************************************************************)
LEMMA Connects ==
    ASSUME NEW n, NEW m, NEW x, NEW side, NEW a,
           m = WithArcs(n, x, side, n.transition[x][side] (+) SetToBag({a}))
    PROVE  Graph!Connect(n, m, x, side, a)
BY GraphBags DEF WithArcs, Graph!Connect

(***************************************************************************)
(* Disconnecting one.                                                      *)
(***************************************************************************)
LEMMA Disconnects ==
    ASSUME NEW n, NEW m, NEW x, NEW side, NEW a, a \in DOMAIN n.transition[x][side],
           m = WithArcs(n, x, side, n.transition[x][side] (-) SetToBag({a}))
    PROVE  Graph!Disconnect(n, m, x, side, a)
BY GraphBags DEF WithArcs, Graph!Disconnect

(***************************************************************************)
(* The nodes of the net, and what it says of the arcs of a transition.     *)
(***************************************************************************)
LEMMA NetIs ==
    ASSUME NEW e, Told(e)
    PROVE  /\ DOMAIN NetOf(e).place = {e.place[p].id : p \in 1 .. Len(e.place)}
           /\ DOMAIN NetOf(e).transition = {e.transition[t].id : t \in 1 .. Len(e.transition)}
           /\ \A p \in 1 .. Len(e.place) : NetOf(e).place[e.place[p].id] = PlaceAt(e, p)
           /\ \A t \in 1 .. Len(e.transition) : NetOf(e).transition[e.transition[t].id] = TransitionAt(e, t)
           /\ NetOf(e).marking = ById(e.place, e.tokens)
<1>1. Distinct(e.place) /\ Distinct(e.transition)
    BY DEF Told
<1>2. /\ DOMAIN PlacesOf(e) = {e.place[p].id : p \in 1 .. Len(e.place)}
      /\ \A p \in 1 .. Len(e.place) : PlacesOf(e)[e.place[p].id] = PlaceAt(e, p)
    BY <1>1, PlacesAre
<1>3. /\ DOMAIN TransitionsOf(e) = {e.transition[t].id : t \in 1 .. Len(e.transition)}
      /\ \A t \in 1 .. Len(e.transition) : TransitionsOf(e)[e.transition[t].id] = TransitionAt(e, t)
    BY <1>1, TransitionsAre
<1>4. NetOf(e).place = PlacesOf(e) /\ NetOf(e).transition = TransitionsOf(e)
      /\ NetOf(e).marking = ById(e.place, e.tokens)
    BY DEF NetOf
<1>5. QED
    BY <1>2, <1>3, <1>4

(***************************************************************************)
(* The places of the net depend on the places and their positions alone.   *)
(***************************************************************************)
LEMMA PlacesStay ==
    ASSUME NEW e, NEW r, r.place = e.place, r.p_positions = e.p_positions
    PROVE  PlacesOf(r) = PlacesOf(e)
BY DEF PlacesOf

(***************************************************************************)
(* An edit of one list of arcs of one transition.                          *)
(***************************************************************************)
LEMMA ArcsNet ==
    ASSUME NEW e, Told(e), NEW r, Structure(r), NEW field \in {"input_n", "output_n"},
           NEW t \in 1 .. Len(e.transition), NEW arcs, ArcsTo(arcs, Len(e.place)), Coloured(arcs),
           SameBut(e, r, {field, "p_to_ts_n"}),
           r[field][t] = arcs, \A u \in 1 .. Len(e.transition) : u # t => r[field][u] = e[field][u]
    PROVE  /\ Told(r)
           /\ NetOf(r) = WithArcs(NetOf(e), e.transition[t].id, SideOf(field), ById(e.place, ArcBag(arcs)))
<1>1. /\ r.place = e.place /\ r.transition = e.transition /\ r.tokens = e.tokens
      /\ r.p_positions = e.p_positions /\ r.t_positions = e.t_positions
      /\ r.priority = e.priority /\ r.output = e.output
    BY DEF SameBut, EmptyDocument
<1>2. \A f \in {"input_n", "output_n"} : f # field => r[f] = e[f]
    BY DEF SameBut, EmptyDocument
<1>4. \A u \in 1 .. Len(e.transition) : r[field][u] = IF u = t THEN arcs ELSE e[field][u]
    OBVIOUS
<1>5. Told(r)
    <2>1. \A u \in 1 .. Len(e.transition) : Coloured(r.input_n[u]) /\ Coloured(r.output_n[u])
        BY <1>2, <1>4 DEF Told
    <2>2. QED
        BY <1>1, <2>1 DEF Told
<1> DEFINE X == ById(e.place, ArcBag(arcs))
<1> DEFINE side == SideOf(field)
<1> DEFINE x == e.transition[t].id
<1>6. TransitionAt(r, t) = [TransitionAt(e, t) EXCEPT ![side] = X]
    <2>1. CASE field = "input_n"
        <3>1. r.input_n[t] = arcs /\ r.output_n[t] = e.output_n[t] /\ side = "consumes"
            BY <2>1, <1>2, <1>4 DEF SideOf
        <3> HIDE DEF side
        <3>2. QED
            BY <3>1, <1>1 DEF TransitionAt
    <2>2. CASE field = "output_n"
        <3>1. r.output_n[t] = arcs /\ r.input_n[t] = e.input_n[t] /\ side = "produces"
            BY <2>2, <1>2, <1>4 DEF SideOf
        <3> HIDE DEF side
        <3>2. QED
            BY <3>1, <1>1 DEF TransitionAt
    <2>3. QED
        BY <2>1, <2>2
<1>7. \A u \in 1 .. Len(e.transition) : u # t => TransitionAt(r, u) = TransitionAt(e, u)
    <2>1. ASSUME NEW u \in 1 .. Len(e.transition), u # t
          PROVE  r.input_n[u] = e.input_n[u] /\ r.output_n[u] = e.output_n[u]
        BY <2>1, <1>2, <1>4
    <2>2. QED
        BY <2>1, <1>1 DEF TransitionAt
<1>8. TransitionsOf(r) = [TransitionsOf(e) EXCEPT ![x] = TransitionAt(r, t)]
    BY <1>1, <1>7, TransitionChanged DEF Told
<1>9. TransitionsOf(e)[x] = TransitionAt(e, t)
    BY TransitionsAre DEF Told
<1>10. TransitionsOf(r) = [TransitionsOf(e) EXCEPT ![x][side] = X]
    BY <1>6, <1>8, <1>9
<1>11. PlacesOf(r) = PlacesOf(e)
    BY <1>1, PlacesStay
<1> HIDE DEF X, side, x
<1>12. NetOf(r) = WithArcs(NetOf(e), x, side, X)
    BY <1>1, <1>10, <1>11 DEF NetOf, WithArcs
<1>13. QED
    BY <1>5, <1>12 DEF X, side, x

(***************************************************************************)
(* The arcs of one side of one transition.                                 *)
(***************************************************************************)
LEMMA ArcsAre ==
    ASSUME NEW e, Told(e), NEW field \in {"input_n", "output_n"}, NEW t \in 1 .. Len(e.transition)
    PROVE  /\ ArcsTo(e[field][t], Len(e.place)) /\ Coloured(e[field][t])
           /\ IsSeq(e[field][t]) /\ Len(e[field][t]) \in Nat /\ DOMAIN e[field][t] = 1 .. Len(e[field][t])
           /\ Marks(ArcBag(e[field][t]), Len(e.place))
           /\ NetOf(e).transition[e.transition[t].id][SideOf(field)] = ById(e.place, ArcBag(e[field][t]))
<1> DEFINE arcs == e[field][t]
<1>1. ArcsTo(arcs, Len(e.place)) /\ Coloured(arcs)
    BY DEF Told, Structure, ArcsSound
<1>2. NetOf(e).transition[e.transition[t].id] = TransitionAt(e, t)
    BY NetIs
<1>3. TransitionAt(e, t)[SideOf(field)] = ById(e.place, ArcBag(arcs))
    <2>1. CASE field = "input_n"
        BY <2>1 DEF TransitionAt, SideOf
    <2>2. CASE field = "output_n"
        BY <2>2 DEF TransitionAt, SideOf
    <2>3. QED
        BY <2>1, <2>2
<1> HIDE DEF arcs
<1>4. IsSeq(arcs) /\ Len(arcs) \in Nat /\ DOMAIN arcs = 1 .. Len(arcs)
    BY <1>1, SeqElim DEF ArcsTo
<1>5. Marks(ArcBag(arcs), Len(e.place))
    BY <1>1, MarksOfArcs
<1>6. QED
    BY <1>1, <1>2, <1>3, <1>4, <1>5 DEF arcs

(***************************************************************************)
(* One list of arcs for each transition.                                   *)
(***************************************************************************)
LEMMA ListsAre ==
    ASSUME NEW e, Told(e), NEW field \in {"input_n", "output_n"}
    PROVE  DOMAIN e[field] = 1 .. Len(e.transition)
BY SeqElim DEF Told, Structure, PerTransition

(***************************************************************************)
(* `addArc' connects.                                                      *)
(***************************************************************************)
LEMMA AddArcNet ==
    ASSUME NEW e, Told(e), NEW source \in {"Place", "Transition"}, NEW t \in 1 .. Len(e.transition),
           NEW p \in 1 .. Len(e.place), NEW c \in Token
    PROVE  LET r == addArc(source, p, t, c, e)
           IN  /\ Told(r)
               /\ Graph!Connect(NetOf(e), NetOf(r), e.transition[t].id, SideOf(ArcField(source)),
                                <<e.place[p].id, c>>)
<1> DEFINE field == ArcField(source)
<1> DEFINE arcs == e[field][t]
<1> DEFINE new == Append(arcs, <<p, c>>)
<1> DEFINE r == addArc(source, p, t, c, e)
<1> DEFINE fan == IF source = "Place" THEN e.p_to_ts_n[p] \cup {t} ELSE e.p_to_ts_n[p]
<1> DEFINE a == <<e.place[p].id, c>>
<1>1. field \in {"input_n", "output_n"}
    BY DEF ArcField
<1>2. r = [e EXCEPT ![field] = [e[field] EXCEPT ![t] = new],
                    !.p_to_ts_n = [e.p_to_ts_n EXCEPT ![p] = fan]]
    BY <1>1 DEF addArc
<1>3. ArcsTo(arcs, Len(e.place)) /\ Coloured(arcs) /\ IsSeq(arcs) /\ Len(arcs) \in Nat
    BY <1>1, ArcsAre
<1>4. Structure(r)
    BY AddArcSound DEF Told
<1> HIDE DEF arcs, fan, field
<1>5a. SameBut(e, r, {field, "p_to_ts_n"}) /\ r[field] = [e[field] EXCEPT ![t] = new]
    BY <1>1, <1>2 DEF SameBut, EmptyDocument, Told, Structure
<1>5. /\ SameBut(e, r, {field, "p_to_ts_n"})
      /\ r[field][t] = new /\ \A u \in 1 .. Len(e.transition) : u # t => r[field][u] = e[field][u]
    BY <1>1, <1>5a, ListsAre
<1>6. ArcsTo(new, Len(e.place))
    BY <1>3, ArcsAppend
<1>7. Coloured(new)
    <2>1. /\ Len(new) = Len(arcs) + 1
          /\ \A i \in 1 .. Len(arcs) : new[i] = arcs[i]
          /\ new[Len(arcs) + 1] = <<p, c>>
        BY <1>3, SeqAppend
    <2> HIDE DEF new
    <2>2. \A i \in 1 .. Len(new) : i \in 1 .. Len(arcs) \/ i = Len(arcs) + 1
        BY <2>1, <1>3
    <2>3. QED
        BY <2>1, <2>2, <1>3 DEF Coloured
<1>8. ArcBag(new) = ArcBag(arcs) (+) SetToBag({<<p, c>>})
    BY <1>3, ArcBagAppend
<1> HIDE DEF r, new
<1>9. Told(r) /\ NetOf(r) = WithArcs(NetOf(e), e.transition[t].id, SideOf(field), ById(e.place, ArcBag(new)))
    BY <1>1, <1>4, <1>5, <1>6, <1>7, ArcsNet, SMTT(60), ZenonT(60)
<1>10. Marks(ArcBag(arcs), Len(e.place)) /\ Distinct(e.place)
    BY <1>3, MarksOfArcs DEF Told
<1>11. /\ Marks(SetToBag({<<p, c>>}), Len(e.place))
       /\ ById(e.place, SetToBag({<<p, c>>})) = SetToBag({a})
    BY <1>10, ByIdOne
<1>12. ById(e.place, ArcBag(new)) = ById(e.place, ArcBag(arcs)) (+) SetToBag({a})
    BY <1>8, <1>10, <1>11, ByIdPlus
<1>13. NetOf(e).transition[e.transition[t].id][SideOf(field)] = ById(e.place, ArcBag(arcs))
    BY <1>1, ArcsAre DEF arcs
<1> HIDE DEF a
<1>15. Graph!Connect(NetOf(e), NetOf(r), e.transition[t].id, SideOf(field), a)
    BY <1>9, <1>12, <1>13, Connects
<1>16. QED
    BY <1>9, <1>15 DEF r, field, a

(***************************************************************************)
(* `removeArc' disconnects.                                                *)
(***************************************************************************)
LEMMA RemoveArcNet ==
    ASSUME NEW e, Told(e), NEW source, NEW t \in 1 .. Len(e.transition),
           NEW sub \in DOMAIN e[ArcField(source)][t]
    PROVE  LET r == removeArc(source, t, sub, e)
               a == e[ArcField(source)][t][sub]
           IN  /\ a \in (1 .. Len(e.place)) \X Token
               /\ Told(r)
               /\ Graph!Disconnect(NetOf(e), NetOf(r), e.transition[t].id, SideOf(ArcField(source)),
                                   Label(e.place, a))
<1> DEFINE field == ArcField(source)
<1> DEFINE arcs == e[field][t]
<1> DEFINE new == RemoveAt(arcs, sub)
<1> DEFINE r == removeArc(source, t, sub, e)
<1> DEFINE a == arcs[sub]
<1>1. field \in {"input_n", "output_n"}
    BY DEF ArcField
<1>2. r = [e EXCEPT ![field] = [e[field] EXCEPT ![t] = new]]
    BY DEF removeArc
<1>3. ArcsTo(arcs, Len(e.place)) /\ Coloured(arcs) /\ IsSeq(arcs) /\ DOMAIN arcs = 1 .. Len(arcs)
    BY <1>1, ArcsAre, SMTT(60), ZenonT(60)
<1>4. Structure(r)
    BY RemoveArcSound DEF Told
<1>5. sub \in 1 .. Len(arcs)
    BY <1>3
<1> HIDE DEF arcs, field
<1>6a. SameBut(e, r, {field, "p_to_ts_n"}) /\ r[field] = [e[field] EXCEPT ![t] = new]
    BY <1>1, <1>2 DEF SameBut, EmptyDocument, Told, Structure
<1>6. /\ SameBut(e, r, {field, "p_to_ts_n"})
      /\ r[field][t] = new /\ \A u \in 1 .. Len(e.transition) : u # t => r[field][u] = e[field][u]
    BY <1>1, <1>6a, ListsAre
<1>7. ArcsTo(new, Len(e.place))
    BY <1>3, <1>5, ArcsRemove
<1>8. Coloured(new)
    <2>1. Len(new) = Len(arcs) - 1 /\ \A i \in 1 .. Len(arcs) - 1 : new[i] = IF i < sub THEN arcs[i] ELSE arcs[i + 1]
        BY <1>3, <1>5, SeqRemove
    <2> HIDE DEF new
    <2>2. Len(arcs) \in Nat
        BY <1>3, SeqElim
    <2>3. QED
        BY <2>1, <2>2, <1>3 DEF Coloured
<1>9. ArcBag(new) = ArcBag(arcs) (-) SetToBag({a})
    BY <1>3, <1>5, ArcBagRemoved
<1> HIDE DEF r, new
<1>10. Told(r) /\ NetOf(r) = WithArcs(NetOf(e), e.transition[t].id, SideOf(field), ById(e.place, ArcBag(new)))
    BY <1>1, <1>4, <1>6, <1>7, <1>8, ArcsNet
<1>11. Marks(ArcBag(arcs), Len(e.place)) /\ Distinct(e.place)
    BY <1>3, MarksOfArcs DEF Told
<1>12. a \in (1 .. Len(e.place)) \X Token /\ a = <<a[1], a[2]>>
    <2>1. a = <<a[1], a[2]>> /\ a[1] \in 1 .. Len(e.place) /\ a[2] \in Token
        BY <1>3, <1>5 DEF ArcsTo, Coloured
    <2> HIDE DEF a
    <2>2. QED
        BY <2>1
<1>13. /\ Marks(SetToBag({a}), Len(e.place))
       /\ ById(e.place, SetToBag({a})) = SetToBag({Label(e.place, a)})
    <2> HIDE DEF a
    <2>1. a[1] \in 1 .. Len(e.place) /\ a[2] \in Token
        BY <1>12
    <2>2. /\ Marks(SetToBag({<<a[1], a[2]>>}), Len(e.place))
          /\ ById(e.place, SetToBag({<<a[1], a[2]>>})) = SetToBag({<<e.place[a[1]].id, a[2]>>})
        BY <2>1, <1>11, ByIdOne
    <2>3. QED
        BY <2>2, <1>12 DEF Label
<1>14. ById(e.place, ArcBag(new)) = ById(e.place, ArcBag(arcs)) (-) SetToBag({Label(e.place, a)})
    BY <1>9, <1>11, <1>13, ByIdMinus
<1>15. NetOf(e).transition[e.transition[t].id][SideOf(field)] = ById(e.place, ArcBag(arcs))
    BY <1>1, ArcsAre DEF arcs
<1>16. Label(e.place, a) \in DOMAIN ById(e.place, ArcBag(arcs))
    <2>1. a \in DOMAIN ArcBag(arcs)
        BY <1>3, <1>5 DEF ArcBag
    <2>2. QED
        BY <2>1, <1>11, ByIdIs
<1>18. Graph!Disconnect(NetOf(e), NetOf(r), e.transition[t].id, SideOf(field), Label(e.place, a))
    BY <1>10, <1>14, <1>15, <1>16, Disconnects
<1>19. QED
    BY <1>10, <1>12, <1>18 DEF r, field, arcs

-----------------------------------------------------------------------------
(***************************************************************************)
(* Edits of colours, priorities, names and positions.                      *)
(***************************************************************************)

(***************************************************************************)
(* Another colour of an arc, in terms of these bags.                       *)
(***************************************************************************)
LEMMA Recolors ==
    ASSUME NEW n, NEW m, NEW x, NEW side, NEW a, NEW c, a \in DOMAIN n.transition[x][side],
           m = WithArcs(n, x, side, (n.transition[x][side] (-) SetToBag({a})) (+) SetToBag({<<a[1], c>>}))
    PROVE  Graph!Recolor(n, m, x, side, a, c)
BY GraphBags, SMTT(60), ZenonT(60) DEF WithArcs, Graph!Recolor

(***************************************************************************)
(* `updateArcColor' recolours.                                             *)
(***************************************************************************)
LEMMA UpdateArcColorNet ==
    ASSUME NEW e, Told(e), NEW source, NEW t \in 1 .. Len(e.transition),
           NEW sub \in DOMAIN e[ArcField(source)][t], NEW c \in Token
    PROVE  LET r == updateArcColor(source, t, sub, c, e)
               a == e[ArcField(source)][t][sub]
           IN  /\ a \in (1 .. Len(e.place)) \X Token
               /\ Told(r)
               /\ Graph!Recolor(NetOf(e), NetOf(r), e.transition[t].id, SideOf(ArcField(source)),
                                Label(e.place, a), c)
<1> DEFINE field == ArcField(source)
<1> DEFINE arcs == e[field][t]
<1> DEFINE a == arcs[sub]
<1> DEFINE b == <<a[1], c>>
<1> DEFINE new == [arcs EXCEPT ![sub] = b]
<1> DEFINE r == updateArcColor(source, t, sub, c, e)
<1>1. field \in {"input_n", "output_n"}
    BY DEF ArcField
<1>3. ArcsTo(arcs, Len(e.place)) /\ Coloured(arcs) /\ IsSeq(arcs) /\ DOMAIN arcs = 1 .. Len(arcs)
    BY <1>1, ArcsAre, SMTT(60), ZenonT(60)
<1>4. Structure(r)
    BY UpdateArcColorSound DEF Told
<1>5. sub \in 1 .. Len(arcs)
    BY <1>3
<1>12. a = <<a[1], a[2]>> /\ a[1] \in 1 .. Len(e.place) /\ a[2] \in Token
    BY <1>3, <1>5 DEF ArcsTo, Coloured
<1>2. r = [e EXCEPT ![field] = [e[field] EXCEPT ![t] = new]]
    <2>1. r = [e EXCEPT ![field] = [e[field] EXCEPT ![t] = [arcs EXCEPT ![sub] = [a EXCEPT ![2] = c]]]]
        BY DEF updateArcColor
    <2>2. \A x, y : [<<x, y>> EXCEPT ![2] = c] = <<x, c>>
        OBVIOUS
    <2>3. [a EXCEPT ![2] = c] = b
        <3>1. [<<a[1], a[2]>> EXCEPT ![2] = c] = b
            BY <2>2
        <3>2. QED
            BY <3>1, <1>12
    <2>4. QED
        BY <2>1, <2>3
<1> HIDE DEF arcs, field
<1>6a. SameBut(e, r, {field, "p_to_ts_n"}) /\ r[field] = [e[field] EXCEPT ![t] = new]
    BY <1>1, <1>2 DEF SameBut, EmptyDocument, Told, Structure
<1>6. /\ SameBut(e, r, {field, "p_to_ts_n"})
      /\ r[field][t] = new /\ \A u \in 1 .. Len(e.transition) : u # t => r[field][u] = e[field][u]
    BY <1>1, <1>6a, ListsAre
<1>7. IsSeq(new) /\ Len(new) = Len(arcs) /\ \A i \in 1 .. Len(arcs) : new[i] = IF i = sub THEN b ELSE arcs[i]
    <2>1. DOMAIN new = DOMAIN arcs /\ new = [i \in DOMAIN new |-> new[i]]
        BY <1>3
    <2>2. IsSeq(new) /\ Len(new) = Len(arcs)
        BY <2>1, <1>3, SeqOver
    <2>3. QED
        BY <2>2, <1>3
<1>9. ArcBag(new) = (ArcBag(arcs) (-) SetToBag({a})) (+) SetToBag({b})
    BY <1>3, <1>5, ArcBagReplaced
<1> HIDE DEF r, new
<1>8. ArcsTo(new, Len(e.place)) /\ Coloured(new)
    BY <1>3, <1>7, <1>12, SMTT(60), ZenonT(60) DEF ArcsTo, Coloured
<1>10. Told(r) /\ NetOf(r) = WithArcs(NetOf(e), e.transition[t].id, SideOf(field), ById(e.place, ArcBag(new)))
    BY <1>1, <1>4, <1>6, <1>8, ArcsNet, SMTT(60), ZenonT(60)
<1>11. Marks(ArcBag(arcs), Len(e.place)) /\ Distinct(e.place)
    BY <1>3, MarksOfArcs DEF Told
<1>13. /\ Marks(SetToBag({a}), Len(e.place))
       /\ ById(e.place, SetToBag({a})) = SetToBag({Label(e.place, a)})
    <2> HIDE DEF a
    <2>2. /\ Marks(SetToBag({<<a[1], a[2]>>}), Len(e.place))
          /\ ById(e.place, SetToBag({<<a[1], a[2]>>})) = SetToBag({<<e.place[a[1]].id, a[2]>>})
        BY <1>12, <1>11, ByIdOne
    <2>3. QED
        BY <2>2, <1>12 DEF Label
<1>14. /\ Marks(SetToBag({b}), Len(e.place))
       /\ ById(e.place, SetToBag({b})) = SetToBag({<<Label(e.place, a)[1], c>>})
    <2>1. Label(e.place, a)[1] = e.place[a[1]].id
        BY DEF Label
    <2> HIDE DEF a
    <2>2. QED
        BY <2>1, <1>12, <1>11, ByIdOne
<1> HIDE DEF a, b
<1>15. /\ Marks(ArcBag(arcs) (-) SetToBag({a}), Len(e.place))
       /\ ById(e.place, ArcBag(arcs) (-) SetToBag({a})) = ById(e.place, ArcBag(arcs)) (-) SetToBag({Label(e.place, a)})
    BY <1>11, <1>13, ByIdMinus
<1>16. ById(e.place, ArcBag(new))
        = (ById(e.place, ArcBag(arcs)) (-) SetToBag({Label(e.place, a)})) (+) SetToBag({<<Label(e.place, a)[1], c>>})
    BY <1>9, <1>11, <1>14, <1>15, ByIdPlus
<1>17. NetOf(e).transition[e.transition[t].id][SideOf(field)] = ById(e.place, ArcBag(arcs))
    BY <1>1, ArcsAre DEF arcs
<1>18. Label(e.place, a) \in DOMAIN ById(e.place, ArcBag(arcs))
    <2>1. a \in DOMAIN ArcBag(arcs)
        BY <1>3, <1>5 DEF ArcBag, a
    <2>2. QED
        BY <2>1, <1>11, ByIdIs
<1>19. Graph!Recolor(NetOf(e), NetOf(r), e.transition[t].id, SideOf(field), Label(e.place, a), c)
    BY <1>10, <1>16, <1>17, <1>18, Recolors
<1>20. a \in (1 .. Len(e.place)) \X Token
    BY <1>12
<1>21. QED
    BY <1>10, <1>19, <1>20 DEF r, field, arcs, a

(***************************************************************************)
(* A record with another value of one field.                               *)
(***************************************************************************)
WithField(rec, field, v) == [rec EXCEPT ![field] = v]

(***************************************************************************)
(* A change of one thing that is said of one transition, its arcs apart.   *)
(***************************************************************************)
LEMMA Relabels ==
    ASSUME NEW e, Told(e), NEW r, Told(r), r.place = e.place, r.p_positions = e.p_positions,
           r.tokens = e.tokens, Len(r.transition) = Len(e.transition),
           \A u \in 1 .. Len(e.transition) : r.transition[u].id = e.transition[u].id,
           NEW t \in 1 .. Len(e.transition),
           \A u \in 1 .. Len(e.transition) : u # t => TransitionAt(r, u) = TransitionAt(e, u),
           NEW field \in {"name", "priority", "output"}, NEW v,
           TransitionAt(r, t) = WithField(TransitionAt(e, t), field, v)
    PROVE  Graph!Relabel(NetOf(e), NetOf(r), e.transition[t].id)
<1> DEFINE x == e.transition[t].id
<1>1. TransitionsOf(r) = [TransitionsOf(e) EXCEPT ![x] = TransitionAt(r, t)]
    BY TransitionChanged DEF Told
<1>2. TransitionsOf(e)[x] = TransitionAt(e, t) /\ x \in DOMAIN TransitionsOf(e)
    BY TransitionsAre DEF Told
<1>3. TransitionsOf(r)[x] = TransitionAt(r, t) /\ DOMAIN TransitionsOf(r) = DOMAIN TransitionsOf(e)
    BY <1>1, <1>2
<1>4. TransitionAt(r, t)[field] = v
    BY DEF WithField, TransitionAt
<1>5. TransitionAt(r, t).priority \in -128 .. 127
    BY DEF TransitionAt, Told, Structure, PrioritySound
<1>6. PlacesOf(r) = PlacesOf(e)
    BY PlacesStay
<1>7. TransitionsOf(r) = [TransitionsOf(e) EXCEPT ![x][field] = v]
    BY <1>1, <1>2 DEF WithField
<1> HIDE DEF x
<1> DEFINE n == NetOf(e)
<1> DEFINE m == NetOf(r)
<1>8. m = [n EXCEPT !.transition[x][field] = v]
    BY <1>6, <1>7 DEF NetOf
<1>9. m.transition[x][field] = v /\ m.transition[x].priority \in -128 .. 127
      /\ DOMAIN m.transition = DOMAIN n.transition
    BY <1>3, <1>4, <1>5 DEF NetOf
<1> HIDE DEF n, m
<1>10. Graph!Relabel(n, m, x)
    BY <1>8, <1>9 DEF Graph!Relabel
<1>11. QED
    BY <1>10 DEF n, m, x

(***************************************************************************)
(* `updatePriority'.                                                       *)
(***************************************************************************)
LEMMA UpdatePriorityNet ==
    ASSUME NEW e, Told(e), NEW t \in 1 .. Len(e.transition), NEW typed \in Int
    PROVE  LET r == updatePriority(t, typed, e)
           IN  Told(r) /\ Graph!Relabel(NetOf(e), NetOf(r), e.transition[t].id)
<1> DEFINE r == updatePriority(t, typed, e)
<1> DEFINE v == IF typed > 127 THEN 127 ELSE IF typed < -128 THEN -128 ELSE typed
<1>1. SameBut(e, r, {"priority"}) /\ r.priority = [e.priority EXCEPT ![t] = v]
    BY DEF updatePriority, SameBut, EmptyDocument, Told, Structure
<1>2. Structure(r)
    BY UpdatePrioritySound DEF Told
<1> HIDE DEF v, r
<1>3. /\ r.place = e.place /\ r.transition = e.transition /\ r.tokens = e.tokens /\ r.output = e.output
      /\ r.p_positions = e.p_positions /\ r.t_positions = e.t_positions
      /\ r.input_n = e.input_n /\ r.output_n = e.output_n
    BY <1>1 DEF SameBut, EmptyDocument
<1>4. DOMAIN e.priority = 1 .. Len(e.transition)
    BY SeqElim DEF Told, Structure, PerTransition
<1>5. Told(r)
    BY <1>2, <1>3 DEF Told
<1>6. \A u \in 1 .. Len(e.transition) : u # t => TransitionAt(r, u) = TransitionAt(e, u)
    BY <1>1, <1>3, <1>4 DEF TransitionAt
<1>7. TransitionAt(r, t) = WithField(TransitionAt(e, t), "priority", v)
    BY <1>1, <1>3, <1>4 DEF TransitionAt, WithField
<1>8. Graph!Relabel(NetOf(e), NetOf(r), e.transition[t].id)
    BY <1>3, <1>5, <1>6, <1>7, Relabels
<1>9. QED
    BY <1>5, <1>8 DEF r

(***************************************************************************)
(* `updateTransitionOutputColor'.                                          *)
(***************************************************************************)
LEMMA UpdateOutputColorNet ==
    ASSUME NEW e, Told(e), NEW t \in 1 .. Len(e.transition), NEW c \in Token
    PROVE  LET r == updateTransitionOutputColor(t, c, e)
           IN  Told(r) /\ Graph!Relabel(NetOf(e), NetOf(r), e.transition[t].id)
<1> DEFINE r == updateTransitionOutputColor(t, c, e)
<1>1. SameBut(e, r, {"output"}) /\ r.output = [e.output EXCEPT ![t] = c]
    BY DEF updateTransitionOutputColor, SameBut, EmptyDocument, Told, Structure
<1>2. Structure(r)
    BY UpdateOutputColorSound DEF Told
<1> HIDE DEF r
<1>3. /\ r.place = e.place /\ r.transition = e.transition /\ r.tokens = e.tokens /\ r.priority = e.priority
      /\ r.p_positions = e.p_positions /\ r.t_positions = e.t_positions
      /\ r.input_n = e.input_n /\ r.output_n = e.output_n
    BY <1>1 DEF SameBut, EmptyDocument
<1>4. DOMAIN e.output = 1 .. Len(e.transition)
    BY SeqElim DEF Told, Structure, PerTransition
<1>5. Told(r)
    BY <1>1, <1>2, <1>3, <1>4 DEF Told
<1>6. \A u \in 1 .. Len(e.transition) : u # t => TransitionAt(r, u) = TransitionAt(e, u)
    BY <1>1, <1>3, <1>4 DEF TransitionAt
<1>7. TransitionAt(r, t) = WithField(TransitionAt(e, t), "output", c)
    BY <1>1, <1>3, <1>4 DEF TransitionAt, WithField
<1>8. Graph!Relabel(NetOf(e), NetOf(r), e.transition[t].id)
    BY <1>3, <1>5, <1>6, <1>7, Relabels
<1>9. QED
    BY <1>5, <1>8 DEF r

(***************************************************************************)
(* The list of nodes with another name for node k.                         *)
(***************************************************************************)
Renamed(nodes, k, name) == [nodes EXCEPT ![k].name = name]

(***************************************************************************)
(* A renamed list of nodes tells the nodes apart as before.                *)
(***************************************************************************)
LEMMA RenamedDistinct ==
    ASSUME NEW nodes, Distinct(nodes), NEW k \in 1 .. Len(nodes), NEW name
    PROVE  LET new == Renamed(nodes, k, name)
           IN  /\ Distinct(new) /\ Len(new) = Len(nodes) /\ Begins(nodes, new)
               /\ \A i \in 1 .. Len(nodes) : new[i].id = nodes[i].id
               /\ \A i \in 1 .. Len(nodes) : i # k => new[i] = nodes[i]
               /\ new[k].name = name
<1> DEFINE new == [nodes EXCEPT ![k].name = name]
<1>1. IsSeq(nodes) /\ DOMAIN nodes = 1 .. Len(nodes) /\ Len(nodes) \in Nat
    BY SeqElim DEF Distinct
<1>2. DOMAIN nodes[k] = {"id", "name"}
    BY DEF Distinct
<1>3. DOMAIN new = DOMAIN nodes /\ new = [i \in DOMAIN new |-> new[i]]
    BY <1>1
<1>4. IsSeq(new) /\ Len(new) = Len(nodes)
    BY <1>1, <1>3, SeqOver
<1>5. new[k] = [nodes[k] EXCEPT !.name = name] /\ \A i \in 1 .. Len(nodes) : i # k => new[i] = nodes[i]
    BY <1>1
<1>6. DOMAIN new[k] = {"id", "name"} /\ new[k].id = nodes[k].id /\ new[k].name = name
    BY <1>2, <1>5
<1> HIDE DEF new
<1>7. \A i \in 1 .. Len(nodes) : new[i].id = nodes[i].id /\ DOMAIN new[i] = DOMAIN nodes[i]
    BY <1>2, <1>5, <1>6
<1>8. Distinct(new)
    BY <1>4, <1>7 DEF Distinct
<1>9. Begins(nodes, new)
    BY <1>1, <1>4, <1>7 DEF Begins
<1>10. QED
    BY <1>4, <1>5, <1>6, <1>7, <1>8, <1>9 DEF new, Renamed

(***************************************************************************)
(* `updateTransitionName'.                                                 *)
(***************************************************************************)
LEMMA UpdateTransitionNameNet ==
    ASSUME NEW e, Told(e), NEW t \in 1 .. Len(e.transition), NEW name
    PROVE  LET r == updateTransitionName(t, name, e)
           IN  Told(r) /\ Graph!Relabel(NetOf(e), NetOf(r), e.transition[t].id)
<1> DEFINE r == updateTransitionName(t, name, e)
<1> DEFINE new == Renamed(e.transition, t, name)
<1>1. SameBut(e, r, {"transition"}) /\ r.transition = new
    BY DEF Renamed, updateTransitionName, SameBut, EmptyDocument, Told, Structure
<1>2. Structure(r)
    BY UpdateTransitionNameSound DEF Told
<1>4. /\ Distinct(new) /\ Len(new) = Len(e.transition)
      /\ \A i \in 1 .. Len(e.transition) : new[i].id = e.transition[i].id
      /\ \A i \in 1 .. Len(e.transition) : i # t => new[i] = e.transition[i]
      /\ new[t].name = name
    BY RenamedDistinct DEF Told
<1> HIDE DEF r, new
<1>3. /\ r.place = e.place /\ r.tokens = e.tokens /\ r.priority = e.priority /\ r.output = e.output
      /\ r.p_positions = e.p_positions /\ r.t_positions = e.t_positions
      /\ r.input_n = e.input_n /\ r.output_n = e.output_n
    BY <1>1 DEF SameBut, EmptyDocument
<1>5. Told(r)
    BY <1>1, <1>2, <1>3, <1>4 DEF Told
<1>6. \A u \in 1 .. Len(e.transition) : u # t => TransitionAt(r, u) = TransitionAt(e, u)
    BY <1>1, <1>3, <1>4 DEF TransitionAt
<1>7. TransitionAt(r, t) = WithField(TransitionAt(e, t), "name", name)
    BY <1>1, <1>3, <1>4 DEF TransitionAt, WithField
<1>8. Graph!Relabel(NetOf(e), NetOf(r), e.transition[t].id)
    BY <1>1, <1>3, <1>4, <1>5, <1>6, <1>7, Relabels
<1>9. QED
    BY <1>5, <1>8 DEF r

(***************************************************************************)
(* `updatePlaceName': the arcs and tokens do not know it.                  *)
(***************************************************************************)
LEMMA UpdatePlaceNameNet ==
    ASSUME NEW e, Told(e), NEW p \in 1 .. Len(e.place), NEW name
    PROVE  LET r == updatePlaceName(p, name, e)
           IN  Told(r) /\ Graph!Rename(NetOf(e), NetOf(r), e.place[p].id)
<1> DEFINE r == updatePlaceName(p, name, e)
<1> DEFINE new == Renamed(e.place, p, name)
<1>1. SameBut(e, r, {"place"}) /\ r.place = new
    BY DEF Renamed, updatePlaceName, SameBut, EmptyDocument, Told, Structure
<1>2. Structure(r)
    BY UpdatePlaceNameSound DEF Told
<1>4. /\ Distinct(new) /\ Len(new) = Len(e.place) /\ Begins(e.place, new)
      /\ \A i \in 1 .. Len(e.place) : new[i].id = e.place[i].id
      /\ \A i \in 1 .. Len(e.place) : i # p => new[i] = e.place[i]
      /\ new[p].name = name
    BY RenamedDistinct DEF Told
<1> HIDE DEF r, new
<1>3. /\ r.transition = e.transition /\ r.tokens = e.tokens /\ r.priority = e.priority /\ r.output = e.output
      /\ r.p_positions = e.p_positions /\ r.t_positions = e.t_positions
      /\ r.input_n = e.input_n /\ r.output_n = e.output_n
    BY <1>1 DEF SameBut, EmptyDocument
<1>5. Told(r)
    BY <1>1, <1>2, <1>3, <1>4 DEF Told
<1>6. TransitionsOf(r) = TransitionsOf(e)
    BY <1>1, <1>3, <1>4, TransitionsStay
<1>7. ById(r.place, r.tokens) = ById(e.place, e.tokens)
    BY <1>1, <1>3, <1>4, ByIdWiden DEF Told
<1> DEFINE x == e.place[p].id
<1> DEFINE R == [PlacesOf(e) EXCEPT ![x].name = name]
<1>8. PlacesOf(r) = R
    <2>1. /\ IsFcn(PlacesOf(e))
          /\ DOMAIN PlacesOf(e) = {e.place[q].id : q \in 1 .. Len(e.place)}
          /\ \A q \in 1 .. Len(e.place) : PlacesOf(e)[e.place[q].id] = PlaceAt(e, q)
        BY PlacesAre DEF Told
    <2>2. IsFcn(R) /\ DOMAIN R = DOMAIN PlacesOf(e)
        BY DEF IsFcn
    <2>3. DOMAIN R = {r.place[q].id : q \in 1 .. Len(r.place)}
        BY <2>1, <2>2, <1>1, <1>4, SMTT(60), ZenonT(60)
    <2>4. ASSUME NEW q \in 1 .. Len(r.place)
          PROVE  R[r.place[q].id] = PlaceAt(r, q)
        <3>1. q \in 1 .. Len(e.place) /\ r.place[q].id = e.place[q].id
            BY <1>1, <1>4
        <3>2. e.place[q].id = x <=> q = p
            BY <3>1 DEF Told, Distinct
        <3>3. R[e.place[q].id] = IF q = p THEN [PlaceAt(e, q) EXCEPT !.name = name] ELSE PlaceAt(e, q)
            BY <2>1, <3>1, <3>2
        <3>4. PlaceAt(r, q) = IF q = p THEN [PlaceAt(e, q) EXCEPT !.name = name] ELSE PlaceAt(e, q)
            BY <3>1, <1>1, <1>3, <1>4 DEF PlaceAt
        <3>5. QED
            BY <3>1, <3>3, <3>4
    <2> HIDE DEF R
    <2>5. Distinct(r.place)
        BY <1>5 DEF Told
    <2>6. QED
        BY <2>2, <2>3, <2>4, <2>5, PlacesSame
<1> DEFINE n == NetOf(e)
<1> DEFINE m == NetOf(r)
<1>9. PlacesOf(r)[x].name = name
    <2>1. r.place[p].id = x /\ p \in 1 .. Len(r.place)
        BY <1>1, <1>4
    <2>2. PlacesOf(r)[x] = PlaceAt(r, p)
        BY <2>1, <1>5, PlacesAre DEF Told
    <2>3. QED
        BY <2>2, <1>1, <1>4 DEF PlaceAt
<1> HIDE DEF x
<1>10. m = [n EXCEPT !.place[x].name = name] /\ m.place[x].name = name
       /\ DOMAIN m.place = DOMAIN n.place
    BY <1>6, <1>7, <1>8, <1>9 DEF NetOf
<1> HIDE DEF n, m
<1>11. Graph!Rename(n, m, x)
    BY <1>10 DEF Graph!Rename
<1>12. QED
    BY <1>5, <1>11 DEF n, m, x, r

(***************************************************************************)
(* `moveNode': only positions change.                                      *)
(***************************************************************************)
LEMMA MoveNodeNet ==
    ASSUME NEW e, Told(e), NEW ts, NEW ps
    PROVE  LET r == moveNode(ts, ps, e)
           IN  Told(r) /\ Graph!Move(NetOf(e), NetOf(r))
<1> DEFINE r == moveNode(ts, ps, e)
<1>1. SameBut(e, r, {"t_positions", "p_positions"})
    BY DEF moveNode, SameBut, EmptyDocument, Told, Structure
<1>2. Structure(r)
    BY MoveNodeSound DEF Told
<1> HIDE DEF r
<1>3. /\ r.place = e.place /\ r.transition = e.transition /\ r.tokens = e.tokens
      /\ r.priority = e.priority /\ r.output = e.output
      /\ r.input_n = e.input_n /\ r.output_n = e.output_n
    BY <1>1 DEF SameBut, EmptyDocument
<1>4. Told(r)
    BY <1>2, <1>3 DEF Told
<1> DEFINE n == NetOf(e)
<1> DEFINE m == NetOf(r)
<1>5. IsFcn(m.place) /\ IsFcn(m.transition)
    BY <1>3, <1>4, PlacesAre, TransitionsAre DEF NetOf, Told
<1>6. /\ DOMAIN n.place = {e.place[p].id : p \in 1 .. Len(e.place)}
      /\ \A p \in 1 .. Len(e.place) : n.place[e.place[p].id] = PlaceAt(e, p)
      /\ DOMAIN n.transition = {e.transition[t].id : t \in 1 .. Len(e.transition)}
      /\ \A t \in 1 .. Len(e.transition) : n.transition[e.transition[t].id] = TransitionAt(e, t)
    BY NetIs
<1>7. /\ DOMAIN m.place = {e.place[p].id : p \in 1 .. Len(e.place)}
      /\ \A p \in 1 .. Len(e.place) : m.place[e.place[p].id] = PlaceAt(r, p)
      /\ DOMAIN m.transition = {e.transition[t].id : t \in 1 .. Len(e.transition)}
      /\ \A t \in 1 .. Len(e.transition) : m.transition[e.transition[t].id] = TransitionAt(r, t)
    BY <1>3, <1>4, NetIs, SMTT(60), ZenonT(60)
<1> HIDE DEF n, m
<1>8. \A p \in 1 .. Len(e.place) : PlaceAt(r, p) = [PlaceAt(e, p) EXCEPT !.at = PlaceAt(r, p).at]
    <2> SUFFICES ASSUME NEW p \in 1 .. Len(e.place)
                 PROVE  PlaceAt(r, p) = [PlaceAt(e, p) EXCEPT !.at = PlaceAt(r, p).at]
        OBVIOUS
    <2>1. PlaceAt(e, p) = [name |-> e.place[p].name, at |-> e.p_positions[p]]
        BY DEF PlaceAt
    <2>2. PlaceAt(r, p) = [name |-> e.place[p].name, at |-> r.p_positions[p]]
        BY <1>3 DEF PlaceAt
    <2> QED
        BY <2>1, <2>2
<1>9. \A t \in 1 .. Len(e.transition) : TransitionAt(r, t) = [TransitionAt(e, t) EXCEPT !.at = TransitionAt(r, t).at]
    BY <1>3 DEF TransitionAt
<1>10. /\ DOMAIN m.place = DOMAIN n.place
       /\ \A x \in DOMAIN m.place : m.place[x] = [n.place[x] EXCEPT !.at = m.place[x].at]
    BY <1>6, <1>7, <1>8
<1>11. /\ DOMAIN m.transition = DOMAIN n.transition
       /\ \A x \in DOMAIN m.transition : m.transition[x] = [n.transition[x] EXCEPT !.at = m.transition[x].at]
    BY <1>6, <1>7, <1>9
<1>12. m.place = [x \in DOMAIN n.place |-> [n.place[x] EXCEPT !.at = m.place[x].at]]
    BY <1>5, <1>10 DEF IsFcn
<1>13. m.transition = [t \in DOMAIN n.transition |-> [n.transition[t] EXCEPT !.at = m.transition[t].at]]
    BY <1>5, <1>11 DEF IsFcn
<1>14. Graph!Move(n, m)
    <2>1. m = [n EXCEPT !.place = m.place, !.transition = m.transition]
        <3>1. n = [place |-> PlacesOf(e), transition |-> TransitionsOf(e), marking |-> ById(e.place, e.tokens)]
            BY DEF n, NetOf
        <3>2. m = [place |-> PlacesOf(r), transition |-> TransitionsOf(r), marking |-> ById(e.place, e.tokens)]
            BY <1>3 DEF m, NetOf
        <3> DEFINE k == [n EXCEPT !.place = PlacesOf(r)]
        <3>3. k = [place |-> PlacesOf(r), transition |-> TransitionsOf(e), marking |-> ById(e.place, e.tokens)]
            BY <3>1
        <3> HIDE DEF k
        <3>4. [k EXCEPT !.transition = TransitionsOf(r)] = m
            BY <3>2, <3>3
        <3>5. m.place = PlacesOf(r) /\ m.transition = TransitionsOf(r)
            BY <3>2
        <3>6. QED
            BY <3>4, <3>5 DEF k
    <2>2. QED
        BY <2>1, <1>10, <1>11, <1>12, <1>13, Zenon DEF Graph!Move
<1>15. QED
    BY <1>4, <1>14 DEF r, n, m

(***************************************************************************)
(* An edit of the marking alone.                                           *)
(***************************************************************************)
LEMMA MarkingNet ==
    ASSUME NEW e, Told(e), NEW r, Structure(r), SameBut(e, r, {"tokens", "log"}),
           Marks(r.tokens, Len(e.place))
    PROVE  /\ Told(r)
           /\ NetOf(r) = [NetOf(e) EXCEPT !.marking = ById(e.place, r.tokens)]
           /\ NetOf(r).place = NetOf(e).place /\ NetOf(r).transition = NetOf(e).transition
           /\ NetOf(r).marking = ById(e.place, r.tokens)
<1>1. /\ r.place = e.place /\ r.transition = e.transition
      /\ r.p_positions = e.p_positions /\ r.t_positions = e.t_positions
      /\ r.priority = e.priority /\ r.output = e.output
      /\ r.input_n = e.input_n /\ r.output_n = e.output_n
    BY DEF SameBut, EmptyDocument
<1>2. Told(r)
    BY <1>1 DEF Told
<1>3. PlacesOf(r) = PlacesOf(e)
    BY <1>1, PlacesStay
<1>4. TransitionsOf(r) = TransitionsOf(e)
    BY <1>1 DEF TransitionsOf
<1>5. QED
    BY <1>1, <1>2, <1>3, <1>4 DEF NetOf

(***************************************************************************)
(* `addTokenToPlace' puts a token.                                         *)
(***************************************************************************)
LEMMA AddTokenNet ==
    ASSUME NEW e, Told(e), NEW p \in 1 .. Len(e.place), NEW c \in Token
    PROVE  LET r == addTokenToPlace(p, c, e)
           IN  Told(r) /\ Graph!Put(NetOf(e), NetOf(r), <<e.place[p].id, c>>)
<1> DEFINE r == addTokenToPlace(p, c, e)
<1> DEFINE a == <<e.place[p].id, c>>
<1>1. SameBut(e, r, {"tokens", "log"}) /\ r.tokens = e.tokens (+) SetToBag({<<p, c>>})
    BY DEF addTokenToPlace, SameBut, EmptyDocument, Told, Structure
<1>2. Structure(r)
    BY AddTokenSound DEF Told
<1> HIDE DEF r
<1>3. Distinct(e.place) /\ Marks(e.tokens, Len(e.place))
    BY DEF Told
<1>4. Marks(SetToBag({<<p, c>>}), Len(e.place)) /\ ById(e.place, SetToBag({<<p, c>>})) = SetToBag({a})
    BY <1>3, ByIdOne
<1>5. Marks(r.tokens, Len(e.place)) /\ ById(e.place, r.tokens) = ById(e.place, e.tokens) (+) SetToBag({a})
    BY <1>1, <1>3, <1>4, ByIdPlus
<1> HIDE DEF a
<1>6. Told(r) /\ NetOf(r) = [NetOf(e) EXCEPT !.marking = ById(e.place, r.tokens)]
    BY <1>1, <1>2, <1>5, MarkingNet
<1>7. NetOf(e).marking = ById(e.place, e.tokens)
    BY DEF NetOf
<1>8. Graph!Put(NetOf(e), NetOf(r), a)
    BY <1>5, <1>6, <1>7, GraphBags, SMTT(60), ZenonT(60) DEF Graph!Put
<1>9. QED
    BY <1>6, <1>8 DEF r, a

(***************************************************************************)
(* `removeTokenFromPlace' takes one.                                       *)
(***************************************************************************)
LEMMA RemoveTokenNet ==
    ASSUME NEW e, Told(e), NEW a \in DOMAIN e.tokens
    PROVE  LET r == removeTokenFromPlace(a[1], a[2], e)
           IN  /\ a \in (1 .. Len(e.place)) \X Token
               /\ Told(r) /\ Graph!Take(NetOf(e), NetOf(r), Label(e.place, a))
<1> DEFINE r == removeTokenFromPlace(a[1], a[2], e)
<1> DEFINE x == Label(e.place, a)
<1>1. SameBut(e, r, {"tokens", "log"}) /\ r.tokens = e.tokens (-) SetToBag({<<a[1], a[2]>>})
    BY DEF removeTokenFromPlace, SameBut, EmptyDocument, Told, Structure
<1>2. Structure(r)
    BY RemoveTokenSound DEF Told
<1> HIDE DEF r
<1>3. Distinct(e.place) /\ Marks(e.tokens, Len(e.place))
    BY DEF Told
<1>4. a \in (1 .. Len(e.place)) \X Token
    BY <1>3 DEF Marks
<1>5. a = <<a[1], a[2]>> /\ a[1] \in 1 .. Len(e.place) /\ a[2] \in Token
    BY <1>4
<1>6. Marks(SetToBag({a}), Len(e.place)) /\ ById(e.place, SetToBag({a})) = SetToBag({x})
    <2>1. /\ Marks(SetToBag({<<a[1], a[2]>>}), Len(e.place))
          /\ ById(e.place, SetToBag({<<a[1], a[2]>>})) = SetToBag({<<e.place[a[1]].id, a[2]>>})
        BY <1>3, <1>5, ByIdOne
    <2>2. QED
        BY <2>1, <1>5 DEF Label
<1>7. Marks(r.tokens, Len(e.place)) /\ ById(e.place, r.tokens) = ById(e.place, e.tokens) (-) SetToBag({x})
    <2>1. r.tokens = e.tokens (-) SetToBag({a})
        BY <1>1, <1>5
    <2> HIDE DEF x
    <2>2. QED
        BY <2>1, <1>3, <1>6, ByIdMinus
<1>8. x \in DOMAIN ById(e.place, e.tokens)
    BY <1>3, ByIdIs
<1> HIDE DEF x
<1>9. Told(r) /\ NetOf(r) = [NetOf(e) EXCEPT !.marking = ById(e.place, r.tokens)]
    BY <1>1, <1>2, <1>7, MarkingNet
<1>10. NetOf(e).marking = ById(e.place, e.tokens)
    BY DEF NetOf
<1>11. Graph!Take(NetOf(e), NetOf(r), x)
    BY <1>7, <1>8, <1>9, <1>10, GraphBags, SMTT(60), ZenonT(60) DEF Graph!Take
<1>12. QED
    BY <1>4, <1>9, <1>11 DEF r, x

-----------------------------------------------------------------------------
(***************************************************************************)
(* Adding nodes.                                                           *)
(***************************************************************************)

(***************************************************************************)
(* The greatest identity so far, or 0.                                     *)
(***************************************************************************)
LEMMA LastIdIs ==
    ASSUME NEW nodes, Distinct(nodes)
    PROVE  /\ LastId(nodes) \in Nat
           /\ \A k \in 1 .. Len(nodes) : nodes[k].id <= LastId(nodes)
<1> DEFINE n == Len(nodes)
<1> DEFINE ids(m) == {0} \cup {nodes[k].id : k \in 1 .. m}
<1> DEFINE Bounded(m) == \E i \in ids(m) : \A k \in 1 .. m : nodes[k].id <= i
<1>1. n \in Nat /\ DOMAIN nodes = 1 .. n
    BY SeqElim DEF Distinct
<1>2. \A k \in 1 .. n : nodes[k].id \in Nat
    BY DEF Distinct
<1> DEFINE S == {m \in 0 .. n : ~ Bounded(m)}
<1>3. S = {}
    <2>1. SUFFICES ASSUME S # {} PROVE FALSE
        OBVIOUS
    <2>0. S \in SUBSET Nat
        BY <1>1
    <2>2. PICK m \in S : \A j \in S : m <= j
        <3> HIDE DEF S
        <3>1. QED
            BY <2>0, <2>1, LeastNat
    <2>3. m # 0
        <3>1. Bounded(0)
            OBVIOUS
        <3>2. QED
            BY <3>1
    <2>4. m - 1 \in 0 .. n /\ m \in 1 .. n
        BY <2>3, <1>1
    <2>5. Bounded(m - 1)
        <3>1. ~(m <= m - 1)
            BY <2>4
        <3>2. m - 1 \notin S
            <4> HIDE DEF S
            <4>1. QED
                BY <3>1, <2>2
        <3> HIDE DEF Bounded
        <3>3. QED
            BY <3>2, <2>4
    <2>6. PICK i \in ids(m - 1) : \A k \in 1 .. m - 1 : nodes[k].id <= i
        BY <2>5
    <2>7. ids(m - 1) \subseteq ids(m) /\ nodes[m].id \in ids(m) /\ i \in Nat
        BY <2>4, <1>1, <1>2
    <2>8. \A k \in 1 .. m : k \in 1 .. m - 1 \/ k = m
        BY <2>4
    <2>9. Bounded(m)
        <3>1. CASE nodes[m].id <= i
            <4>1. \A k \in 1 .. m : nodes[k].id <= i
                BY <3>1, <2>6, <2>8
            <4>2. QED
                BY <4>1, <2>7
        <3>2. CASE ~(nodes[m].id <= i)
            <4>1. i <= nodes[m].id /\ nodes[m].id \in Nat
                BY <3>2, <2>7, <2>4, <1>2
            <4>2. \A k \in 1 .. m : nodes[k].id <= nodes[m].id
                BY <4>1, <2>4, <2>6, <2>7, <2>8, <1>1, <1>2
            <4>3. QED
                BY <4>2, <2>7
        <3>3. QED
            BY <3>1, <3>2
    <2>10. QED
        BY <2>9
<1>4. Bounded(n)
    <2> HIDE DEF Bounded
    <2>1. n \in 0 .. n
        BY <1>1
    <2>2. QED
        BY <2>1, <1>3
<1>5. \E i \in {0} \cup {nodes[k].id : k \in DOMAIN nodes} : \A k \in DOMAIN nodes : nodes[k].id <= i
    BY <1>1, <1>4
<1>6. /\ LastId(nodes) \in {0} \cup {nodes[k].id : k \in DOMAIN nodes}
      /\ \A k \in DOMAIN nodes : nodes[k].id <= LastId(nodes)
    BY <1>5 DEF LastId
<1>7. QED
    BY <1>1, <1>2, <1>6

(***************************************************************************)
(* A base with n different endings yields a name that n nodes do not have. *)
(***************************************************************************)
LEMMA NameIsNew ==
    ASSUME NEW nodes, IsSeq(nodes), NEW base
    PROVE  \A k \in 1 .. Len(nodes) : nodes[k].name # uniqueName(nodes, base)
<1> DEFINE n == Len(nodes)
<1> DEFINE f == [k \in 1 .. n |-> nodes[k].name]
<1> DEFINE taken == {f[k] : k \in 1 .. n}
<1>1. n \in Nat /\ DOMAIN nodes = 1 .. n
    BY SeqElim
<1>2. taken = {nodes[k].name : k \in DOMAIN nodes}
    BY <1>1
<1>3. IsFiniteSet(1 .. n) /\ Cardinality(1 .. n) = n
    <2>1. 1 \in Int /\ n \in Int
        BY <1>1
    <2>2. IsFiniteSet(1 .. n) /\ Cardinality(1 .. n) = IF 1 > n THEN 0 ELSE n - 1 + 1
        BY <2>1, FS_Interval
    <2>3. QED
        BY <2>2, <1>1
<1>4. IsFiniteSet(taken) /\ Cardinality(taken) <= n
    <2>1. f \in Surjection(1 .. n, taken)
        BY DEF Surjection
    <2> HIDE DEF f, taken
    <2>2. IsFiniteSet(taken) /\ Cardinality(taken) <= Cardinality(1 .. n)
        BY <2>1, <1>3, FS_Surjection
    <2>3. QED
        BY <2>2, <1>3
<1> DEFINE S == {i \in 0 .. n : <<base, i>> \notin taken}
<1>5. S # {}
    <2>1. SUFFICES ASSUME S = {} PROVE FALSE
        OBVIOUS
    <2>2. \A i \in 0 .. n : <<base, i>> \in taken
        BY <2>1
    <2> HIDE DEF taken, f
    <2> DEFINE names == {<<base, i>> : i \in 0 .. n}
    <2> DEFINE g == [i \in 0 .. n |-> <<base, i>>]
    <2>3. names \subseteq taken
        BY <2>2
    <2>4. g \in Bijection(0 .. n, names)
        BY DEF Bijection, Injection, Surjection, IsInjective
    <2>5. IsFiniteSet(0 .. n) /\ Cardinality(0 .. n) = n + 1
        <3>1. 0 \in Int /\ n \in Int
            BY <1>1
        <3>2. IsFiniteSet(0 .. n) /\ Cardinality(0 .. n) = IF 0 > n THEN 0 ELSE n - 0 + 1
            BY <3>1, FS_Interval
        <3>3. QED
            BY <3>2, <1>1
    <2> HIDE DEF names, g
    <2>6. ExistsBijection(0 .. n, names)
        BY <2>4 DEF ExistsBijection
    <2>7. IsFiniteSet(names) /\ Cardinality(names) = n + 1
        BY <2>5, <2>6, FS_Bijection
    <2>8. Cardinality(names) <= Cardinality(taken)
        BY <2>3, <1>4, FS_Subset
    <2>9. Cardinality(taken) \in Nat
        BY <1>4, FS_CardinalityType
    <2>10. QED
        BY <2>7, <2>8, <2>9, <1>1, <1>4
<1>6. PICK i \in S : \A j \in S : i <= j
    <2>1. S \in SUBSET Nat
        BY <1>1
    <2> HIDE DEF S
    <2>2. QED
        BY <2>1, <1>5, LeastNat
<1> HIDE DEF f
<1> DEFINE fine(name) == name \notin taken /\ \A j \in 0 .. name[2] - 1 : <<base, j>> \in taken
<1>7. fine(<<base, i>>) /\ <<base, i>> \in {base} \X (0 .. n)
    <2>1. ASSUME NEW j \in 0 .. i - 1
          PROVE  <<base, j>> \in taken
        <3>1. ~(i <= j) /\ j \in 0 .. n
            BY <1>6, <1>1
        <3> HIDE DEF taken
        <3>2. QED
            BY <3>1, <1>6
    <2> HIDE DEF taken
    <2>2. QED
        BY <2>1, <1>6
<1>8. uniqueName(nodes, base) = CHOOSE name \in {base} \X (0 .. n) : fine(name)
    BY <1>2 DEF uniqueName
<1> HIDE DEF taken
<1>9. fine(uniqueName(nodes, base))
    BY <1>7, <1>8
<1>10. uniqueName(nodes, base) \notin {nodes[k].name : k \in DOMAIN nodes}
    BY <1>2, <1>9
<1>11. QED
    BY <1>1, <1>10

(***************************************************************************)
(* One node more.                                                          *)
(***************************************************************************)
LEMMA NodeAdded ==
    ASSUME NEW nodes, Distinct(nodes), NEW x, DOMAIN x = {"id", "name"}, x.id = FreshId(nodes)
    PROVE  LET new == Append(nodes, x)
           IN  /\ Distinct(new) /\ Begins(nodes, new) /\ Len(new) = Len(nodes) + 1
               /\ \A k \in 1 .. Len(nodes) : new[k] = nodes[k]
               /\ new[Len(nodes) + 1] = x
               /\ \A k \in 1 .. Len(nodes) : nodes[k].id # x.id
<1> DEFINE new == Append(nodes, x)
<1> DEFINE n == Len(nodes)
<1>1. IsSeq(nodes) /\ n \in Nat
    BY SeqElim DEF Distinct
<1>2. /\ IsSeq(new) /\ Len(new) = n + 1
      /\ \A k \in 1 .. n : new[k] = nodes[k]
      /\ new[n + 1] = x
    BY <1>1, SeqAppend
<1> HIDE DEF new
<1>3. x.id \in Nat /\ \A k \in 1 .. n : nodes[k].id < x.id /\ nodes[k].id \in Nat
    BY LastIdIs DEF FreshId, Distinct
<1>4. \A k \in 1 .. Len(new) : k \in 1 .. n \/ k = n + 1
    BY <1>1, <1>2
<1>5. \A k \in 1 .. Len(new) : DOMAIN new[k] = {"id", "name"} /\ new[k].id \in Nat
    BY <1>2, <1>3, <1>4 DEF Distinct
<1>6. \A k \in 1 .. n : nodes[k].id # x.id
    BY <1>3
<1>7. \A j, k \in 1 .. Len(new) : new[j].id = new[k].id => j = k
    BY <1>2, <1>4, <1>6 DEF Distinct
<1>8. Distinct(new)
    BY <1>2, <1>5, <1>7 DEF Distinct
<1>9. Begins(nodes, new)
    BY <1>1, <1>2 DEF Begins
<1>10. QED
    BY <1>2, <1>6, <1>8, <1>9 DEF new

(***************************************************************************)
(* `addPlace'.                                                             *)
(***************************************************************************)
LEMMA AddPlaceNet ==
    ASSUME NEW e, Told(e)
    PROVE  LET r == addPlace(e)
           IN  Told(r) /\ Graph!AddPlace(NetOf(e), NetOf(r))
<1> DEFINE r == addPlace(e)
<1> DEFINE k == Len(e.place)
<1> DEFINE x == [id |-> FreshId(e.place), name |-> uniqueName(e.place, "place")]
<1>1. /\ r.place = Append(e.place, x)
      /\ r.p_positions = Append(e.p_positions, 0)
      /\ \A f \in DOMAIN EmptyDocument \ {"place", "p_to_ts_n", "p_positions"} : r[f] = e[f]
    BY DEF addPlace, Told, Structure, EmptyDocument
<1>2. Structure(r)
    BY AddPlaceSound DEF Told
<1>3. DOMAIN x = {"id", "name"} /\ x.id = FreshId(e.place) /\ x.name = uniqueName(e.place, "place")
    OBVIOUS
<1> HIDE DEF r, x
<1>4. /\ r.transition = e.transition /\ r.t_positions = e.t_positions
      /\ r.input_n = e.input_n /\ r.output_n = e.output_n
      /\ r.priority = e.priority /\ r.output = e.output /\ r.tokens = e.tokens
    BY <1>1 DEF EmptyDocument
<1>5. /\ Distinct(r.place) /\ Begins(e.place, r.place) /\ Len(r.place) = k + 1
      /\ \A p \in 1 .. k : r.place[p] = e.place[p]
      /\ r.place[k + 1] = x
      /\ \A p \in 1 .. k : e.place[p].id # x.id
    BY <1>1, <1>3, NodeAdded DEF Told
<1>6. k \in Nat /\ \A p \in 1 .. Len(r.place) : p \in 1 .. k \/ p = k + 1
    BY <1>5, SeqElim DEF Told, Distinct
<1>7. \A p \in 1 .. k : r.p_positions[p] = e.p_positions[p]
    <2>1. IsSeq(e.p_positions) /\ Len(e.p_positions) = k
        BY DEF Told, Structure, PerPlace
    <2>2. QED
        BY <2>1, <1>1, SeqAppend
<1>8. \A p \in 1 .. k : e.place[p].name # x.name
    BY <1>3, NameIsNew DEF Told, Distinct
<1>9. Marks(r.tokens, Len(r.place)) /\ ById(r.place, r.tokens) = ById(e.place, e.tokens)
    BY <1>4, <1>5, ByIdWiden DEF Told
<1>10. Told(r)
    BY <1>2, <1>4, <1>5, <1>9 DEF Told
<1>11. TransitionsOf(r) = TransitionsOf(e)
    BY <1>4, <1>5, TransitionsStay
<1> DEFINE n == NetOf(e)
<1> DEFINE m == NetOf(r)
<1>12. m.transition = n.transition /\ m.marking = n.marking
    BY <1>9, <1>11 DEF NetOf
<1>13. /\ DOMAIN n.place = {e.place[p].id : p \in 1 .. k}
       /\ \A p \in 1 .. k : n.place[e.place[p].id] = PlaceAt(e, p)
       /\ DOMAIN m.place = {r.place[p].id : p \in 1 .. Len(r.place)}
       /\ \A p \in 1 .. Len(r.place) : m.place[r.place[p].id] = PlaceAt(r, p)
    BY <1>10, NetIs
<1> HIDE DEF n, m
<1>14. k + 1 \in 1 .. Len(r.place) /\ \A p \in 1 .. k : p \in 1 .. Len(r.place)
    BY <1>5, <1>6
<1>15. DOMAIN m.place = DOMAIN n.place \cup {x.id}
    <2>1. ASSUME NEW p \in 1 .. Len(r.place)
          PROVE  r.place[p].id \in DOMAIN n.place \cup {x.id}
        BY <1>5, <1>6, <1>13
    <2>2. ASSUME NEW p \in 1 .. k
          PROVE  e.place[p].id \in DOMAIN m.place
        BY <1>5, <1>13, <1>14
    <2>3. x.id \in DOMAIN m.place
        BY <1>5, <1>13, <1>14
    <2>4. QED
        BY <2>1, <2>2, <2>3, <1>13, SMTT(60), ZenonT(60)
<1>16. x.id \notin DOMAIN n.place /\ x.id \in DOMAIN m.place
    BY <1>5, <1>13, <1>15
<1>17. \A p \in 1 .. k : PlaceAt(r, p) = PlaceAt(e, p)
    BY <1>5, <1>7 DEF PlaceAt
<1>18. \A y \in DOMAIN n.place : m.place[y] = n.place[y]
    <2>1. \A p \in 1 .. k : m.place[e.place[p].id] = n.place[e.place[p].id]
        BY <1>5, <1>13, <1>14, <1>17, SMTT(60), ZenonT(60)
    <2>2. QED
        BY <2>1, <1>13
<1>19. m.place[x.id].name = x.name
    <2>1. m.place[r.place[k + 1].id] = PlaceAt(r, k + 1)
        BY <1>13, <1>14
    <2>2. QED
        BY <2>1, <1>5 DEF PlaceAt
<1>20. \A y \in DOMAIN n.place : n.place[y].name # m.place[x.id].name
    <2>1. \A p \in 1 .. k : PlaceAt(e, p).name = e.place[p].name
        BY DEF PlaceAt
    <2>2. \A p \in 1 .. k : n.place[e.place[p].id].name # m.place[x.id].name
        BY <2>1, <1>8, <1>13, <1>19
    <2>3. QED
        BY <2>2, <1>13
<1>21. Graph!AddPlace(n, m)
    BY <1>12, <1>15, <1>16, <1>18, <1>20 DEF Graph!AddPlace, Graph!Extends
<1>22. QED
    BY <1>10, <1>21 DEF n, m, r

(***************************************************************************)
(* A list without arcs.                                                    *)
(***************************************************************************)
LEMMA NoArcs ==
    ASSUME NEW place
    PROVE  ById(place, ArcBag(<<>>)) = EmptyBag /\ Coloured(<<>>)
<1>1. DOMAIN ArcBag(<<>>) = {}
    BY DEF ArcBag
<1>2. IsFcn(ById(place, ArcBag(<<>>))) /\ DOMAIN ById(place, ArcBag(<<>>)) = {}
    BY <1>1 DEF ById, BagToSet, IsFcn
<1>3. IsFcn(EmptyBag) /\ DOMAIN EmptyBag = {}
    BY DEF EmptyBag, SetToBag, IsFcn
<1>4. ById(place, ArcBag(<<>>)) = EmptyBag
    BY <1>2, <1>3, SameFcn
<1>5. QED
    BY <1>4 DEF Coloured

(***************************************************************************)
(* `addTransition'.                                                        *)
(***************************************************************************)
LEMMA AddTransitionNet ==
    ASSUME NEW e, Told(e)
    PROVE  LET r == addTransition(e)
           IN  Told(r) /\ Graph!AddTransition(NetOf(e), NetOf(r))
<1> DEFINE r == addTransition(e)
<1> DEFINE k == Len(e.transition)
<1> DEFINE x == [id |-> FreshId(e.transition), name |-> uniqueName(e.transition, "transition")]
<1> DEFINE empty == << >>
<1>1. /\ r.place = e.place /\ r.p_positions = e.p_positions /\ r.tokens = e.tokens
      /\ r.transition = Append(e.transition, x)
      /\ r.t_positions = Append(e.t_positions, 0)
      /\ r.input_n = Append(e.input_n, empty)
      /\ r.output_n = Append(e.output_n, empty)
      /\ r.priority = Append(e.priority, 0)
      /\ r.output = Append(e.output, "Success")
    BY DEF addTransition, Told, Structure, EmptyDocument
<1>2. Structure(r)
    BY AddTransitionSound DEF Told
<1>3. DOMAIN x = {"id", "name"} /\ x.id = FreshId(e.transition) /\ x.name = uniqueName(e.transition, "transition")
    OBVIOUS
<1>4. ById(e.place, ArcBag(empty)) = EmptyBag /\ Coloured(empty)
    BY NoArcs
<1> HIDE DEF r, x, empty
<1>5. /\ Distinct(r.transition) /\ Len(r.transition) = k + 1
      /\ \A t \in 1 .. k : r.transition[t] = e.transition[t]
      /\ r.transition[k + 1] = x
      /\ \A t \in 1 .. k : e.transition[t].id # x.id
    BY <1>1, <1>3, NodeAdded DEF Told
<1>6. k \in Nat /\ \A t \in 1 .. Len(r.transition) : t \in 1 .. k \/ t = k + 1
    BY <1>5, SeqElim DEF Told, Distinct
<1> DEFINE Longer(f) == \A t \in 1 .. k : r[f][t] = e[f][t]
<1>7. ASSUME NEW f \in {"t_positions", "input_n", "output_n", "priority", "output"}, NEW y, r[f] = Append(e[f], y)
      PROVE  Longer(f) /\ r[f][k + 1] = y
    <2>1. IsSeq(e[f]) /\ Len(e[f]) = k
        BY DEF Told, Structure, PerTransition
    <2>2. QED
        BY <2>1, <1>7, SeqAppend
<1>8. /\ Longer("t_positions") /\ Longer("input_n") /\ Longer("output_n") /\ Longer("priority") /\ Longer("output")
      /\ r.input_n[k + 1] = empty /\ r.output_n[k + 1] = empty
      /\ r.priority[k + 1] = 0 /\ r.output[k + 1] = "Success"
    BY <1>1, <1>7
<1>9. \A t \in 1 .. k : e.transition[t].name # x.name
    BY <1>3, NameIsNew DEF Told, Distinct
<1>10. Told(r)
    <2>1. ASSUME NEW t \in 1 .. Len(r.transition)
          PROVE  Coloured(r.input_n[t]) /\ Coloured(r.output_n[t]) /\ r.output[t] \in Token
        <3>1. CASE t \in 1 .. k
            BY <3>1, <1>8 DEF Told
        <3>2. CASE t = k + 1
            BY <3>2, <1>4, <1>8, TokenAssumption DEF TokenAssumption
        <3>3. QED
            BY <3>1, <3>2, <1>6
    <2>2. QED
        BY <2>1, <1>1, <1>2, <1>5 DEF Told
<1>11. \A t \in 1 .. k : TransitionAt(r, t) = TransitionAt(e, t)
    BY <1>1, <1>5, <1>8 DEF TransitionAt
<1>12. /\ TransitionAt(r, k + 1).name = x.name
       /\ TransitionAt(r, k + 1).consumes = EmptyBag /\ TransitionAt(r, k + 1).produces = EmptyBag
       /\ TransitionAt(r, k + 1).priority = 0 /\ TransitionAt(r, k + 1).output = "Success"
    BY <1>1, <1>4, <1>5, <1>8 DEF TransitionAt
<1> DEFINE n == NetOf(e)
<1> DEFINE m == NetOf(r)
<1>13. m.place = n.place /\ m.marking = n.marking
    BY <1>1, PlacesStay DEF NetOf
<1>14. /\ DOMAIN n.transition = {e.transition[t].id : t \in 1 .. k}
       /\ \A t \in 1 .. k : n.transition[e.transition[t].id] = TransitionAt(e, t)
       /\ DOMAIN m.transition = {r.transition[t].id : t \in 1 .. Len(r.transition)}
       /\ \A t \in 1 .. Len(r.transition) : m.transition[r.transition[t].id] = TransitionAt(r, t)
    BY <1>10, NetIs
<1> HIDE DEF n, m
<1>15. k + 1 \in 1 .. Len(r.transition) /\ \A t \in 1 .. k : t \in 1 .. Len(r.transition)
    BY <1>5, <1>6
<1>16. DOMAIN m.transition = DOMAIN n.transition \cup {x.id}
    <2>1. ASSUME NEW t \in 1 .. Len(r.transition)
          PROVE  r.transition[t].id \in DOMAIN n.transition \cup {x.id}
        BY <1>5, <1>6, <1>14
    <2>2. ASSUME NEW t \in 1 .. k
          PROVE  e.transition[t].id \in DOMAIN m.transition
        BY <1>5, <1>14, <1>15
    <2>3. x.id \in DOMAIN m.transition
        BY <1>5, <1>14, <1>15
    <2>4. QED
        BY <2>1, <2>2, <2>3, <1>14, SMTT(60), ZenonT(60)
<1>17. x.id \notin DOMAIN n.transition /\ x.id \in DOMAIN m.transition
    BY <1>5, <1>14, <1>16
<1>18. \A y \in DOMAIN n.transition : m.transition[y] = n.transition[y]
    BY <1>5, <1>11, <1>14, <1>15
<1>19. m.transition[x.id] = TransitionAt(r, k + 1)
    BY <1>5, <1>14, <1>15
<1>20. \A y \in DOMAIN n.transition : n.transition[y].name # m.transition[x.id].name
    <2>1. \A t \in 1 .. k : TransitionAt(e, t).name = e.transition[t].name
        BY DEF TransitionAt
    <2>2. \A t \in 1 .. k : n.transition[e.transition[t].id].name # m.transition[x.id].name
        BY <2>1, <1>9, <1>12, <1>14, <1>19
    <2>3. QED
        BY <2>2, <1>14
<1>21. \A side \in Graph!Side : m.transition[x.id][side] = Graph!EmptyBag
    BY <1>12, <1>19, GraphBags DEF Graph!Side
<1>22. Graph!AddTransition(n, m)
    BY <1>12, <1>13, <1>16, <1>17, <1>18, <1>19, <1>20, <1>21 DEF Graph!AddTransition, Graph!Extends
<1>23. QED
    BY <1>10, <1>22 DEF n, m, r

-----------------------------------------------------------------------------
(***************************************************************************)
(* Firing.                                                                 *)
(***************************************************************************)

(***************************************************************************)
(* The arcs of a list that end at place p, numbered for each colour.       *)
(***************************************************************************)
Numbered(s, p) == UNION {{c} \X (1 .. Times(s, <<p, c>>)) : c \in Token}

(***************************************************************************)
(* They are as many as the positions at which they are.                    *)
(***************************************************************************)
LEMMA NumberedAre ==
    ASSUME NEW n, NEW s, ArcsTo(s, n), Coloured(s), NEW p
    PROVE  Cardinality(Numbered(s, p)) = Cardinality({i \in 1 .. Len(s) : s[i][1] = p})
<1> DEFINE I == {i \in 1 .. Len(s) : s[i][1] = p}
<1> DEFINE at(c) == Positions(s, <<p, c>>)
<1> DEFINE h(c) == CHOOSE g : g \in Bijection(at(c), 1 .. Times(s, <<p, c>>))
<1> DEFINE f == [i \in I |-> <<s[i][2], h(s[i][2])[i]>>]
<1>1. IsSeq(s) /\ DOMAIN s = 1 .. Len(s) /\ Len(s) \in Nat
    BY SeqElim DEF ArcsTo
<1>2. ASSUME NEW c
      PROVE  h(c) \in Bijection(at(c), 1 .. Times(s, <<p, c>>))
    <2> DEFINE A == at(c)
    <2> DEFINE k == Times(s, <<p, c>>)
    <2>1. IsFiniteSet(A)
        BY <1>1, FinitePositions
    <2>2. k \in Nat /\ Cardinality(A) = k
        BY <1>1, TimesIs DEF Times
    <2>3. IsFiniteSet(1 .. k) /\ Cardinality(1 .. k) = k
        <3> HIDE DEF k
        <3>1. 1 \in Int /\ k \in Int
            BY <2>2
        <3>2. IsFiniteSet(1 .. k) /\ Cardinality(1 .. k) = IF 1 > k THEN 0 ELSE k - 1 + 1
            BY <3>1, FS_Interval
        <3>3. QED
            BY <2>2, <3>2
    <2> HIDE DEF A, k
    <2>4. ExistsBijection(A, 1 .. k)
        BY <2>1, <2>2, <2>3, FS_SameCardinalityBij
    <2>5. \E g : g \in Bijection(A, 1 .. k)
        BY <2>4 DEF ExistsBijection
    <2>6. QED
        BY <2>5 DEF A, k
<1> HIDE DEF h
<1>3. \A c : \A i \in at(c) : h(c)[i] \in 1 .. Times(s, <<p, c>>)
    BY <1>2 DEF Bijection, Injection
<1>4. \A c : \A i, j \in at(c) : h(c)[i] = h(c)[j] => i = j
    BY <1>2 DEF Bijection, Injection, IsInjective
<1>5. \A c : \A k \in 1 .. Times(s, <<p, c>>) : \E i \in at(c) : h(c)[i] = k
    BY <1>2 DEF Bijection, Surjection
<1>6. ASSUME NEW i \in I
      PROVE  s[i][2] \in Token /\ i \in at(s[i][2])
    <2>1. s[i] = <<p, s[i][2]>>
        BY DEF ArcsTo
    <2>2. QED
        BY <2>1, <1>1 DEF Positions, Coloured
<1>7. ASSUME NEW c, NEW i \in at(c)
      PROVE  i \in I /\ s[i][2] = c
    <2>1. s[i] = <<p, c>> /\ i \in 1 .. Len(s)
        BY <1>1 DEF Positions
    <2>2. QED
        BY <2>1
<1> HIDE DEF at
<1> DEFINE N == Numbered(s, p)
<1> DEFINE K(c) == 1 .. Times(s, <<p, c>>)
<1>7a. \A x : x \in N <=> \E c \in Token : x \in {c} \X K(c)
    BY DEF Numbered
<1> HIDE DEF N, K
<1>7b. \A x, c : x \in {c} \X K(c) <=> \E k \in K(c) : x = <<c, k>>
    OBVIOUS
<1>9. \A x \in N : \E c, k : x = <<c, k>>
    BY <1>7a, <1>7b
<1>8. \A c, k : <<c, k>> \in N <=> c \in Token /\ k \in 1 .. Times(s, <<p, c>>)
    <2>1. \A c, k : <<c, k>> \in N <=> c \in Token /\ k \in K(c)
        BY <1>7a, <1>7b
    <2>2. QED
        BY <2>1 DEF K
<1> HIDE DEF N
<1>10. \A i \in I : f[i] \in N
    BY <1>3, <1>6, <1>8
<1>11. ASSUME NEW i \in I, NEW j \in I, f[i] = f[j]
       PROVE  i = j
    <2>1. s[i][2] = s[j][2] /\ h(s[i][2])[i] = h(s[j][2])[j]
        BY <1>11
    <2>2. i \in at(s[i][2]) /\ j \in at(s[i][2])
        BY <1>6, <2>1
    <2>3. QED
        BY <2>1, <2>2, <1>4
<1>12. ASSUME NEW x \in N
       PROVE  \E i \in I : f[i] = x
    <2>1. PICK c, k : x = <<c, k>>
        BY <1>9
    <2>2. k \in 1 .. Times(s, <<p, c>>)
        BY <2>1, <1>8
    <2>3. PICK i \in at(c) : h(c)[i] = k
        BY <2>2, <1>5
    <2>4. i \in I /\ s[i][2] = c
        BY <1>7
    <2>5. QED
        BY <2>1, <2>3, <2>4
<1>13. f \in [I -> N]
    BY <1>10
<1>14. IsFiniteSet(I)
    <2>1. IsFiniteSet(DOMAIN s)
        BY <1>1, FinitePositions
    <2>2. I \subseteq DOMAIN s
        BY <1>1
    <2>3. QED
        BY <2>1, <2>2, FS_Subset
<1> HIDE DEF f, I
<1>15. f \in Bijection(I, N)
    BY <1>11, <1>12, <1>13 DEF Bijection, Injection, Surjection, IsInjective
<1>16. ExistsBijection(I, N)
    BY <1>15 DEF ExistsBijection
<1>17. Cardinality(N) = Cardinality(I)
    BY <1>14, <1>16, FS_Bijection
<1>18. QED
    BY <1>17 DEF N, I

(***************************************************************************)
(* How often something is in a bag.                                        *)
(***************************************************************************)
CountAt(a, bag) == IF a \in DOMAIN bag THEN bag[a] ELSE 0

(***************************************************************************)
(* The net counts like the document.                                       *)
(***************************************************************************)
LEMMA CountIs ==
    ASSUME NEW place, Distinct(place), NEW bag, Marks(bag, Len(place)), NEW p \in 1 .. Len(place), NEW c \in Token
    PROVE  /\ Graph!Count(<<place[p].id, c>>, ById(place, bag)) = CountAt(<<p, c>>, bag)
           /\ CountAt(<<p, c>>, bag) \in Nat
<1> DEFINE B == ById(place, bag)
<1> DEFINE a == <<p, c>>
<1>1. Label(place, a) = <<place[p].id, c>> /\ a \in (1 .. Len(place)) \X Token
    BY DEF Label
<1>2. /\ \A b \in DOMAIN bag : B[Label(place, b)] = bag[b]
      /\ \A b \in (1 .. Len(place)) \X Token : Label(place, b) \in DOMAIN B <=> b \in DOMAIN bag
    BY ByIdIs
<1> HIDE DEF B, a
<1>3. Graph!Count(Label(place, a), B) = CountAt(Label(place, a), B)
    BY GraphBags DEF Graph!Count, CountAt
<1>4. CountAt(Label(place, a), B) = CountAt(a, bag)
    BY <1>1, <1>2 DEF CountAt
<1>5. CountAt(a, bag) \in Nat
    BY DEF CountAt, Marks
<1>6. QED
    BY <1>1, <1>3, <1>4, <1>5 DEF B, a

(***************************************************************************)
(* Adding bags adds.                                                       *)
(***************************************************************************)
LEMMA CountPlus ==
    ASSUME NEW A, NEW B, NEW a, CountAt(a, A) \in Nat, CountAt(a, B) \in Nat
    PROVE  CountAt(a, A (+) B) = CountAt(a, A) + CountAt(a, B)
<1> DEFINE S == A (+) B
<1>1. /\ DOMAIN S = DOMAIN A \cup DOMAIN B
      /\ \A x \in DOMAIN A \cup DOMAIN B :
            S[x] = (IF x \in DOMAIN A THEN A[x] ELSE 0) + (IF x \in DOMAIN B THEN B[x] ELSE 0)
    BY PlusIs
<1> HIDE DEF S
<1>2. CASE a \in DOMAIN S
    BY <1>1, <1>2 DEF CountAt, S
<1>3. CASE a \notin DOMAIN S
    BY <1>1, <1>3 DEF CountAt, S
<1>4. QED
    BY <1>2, <1>3

(***************************************************************************)
(* A bag is within another one under whatever names.                       *)
(***************************************************************************)
LEMMA ByIdWithin ==
    ASSUME NEW place, Distinct(place), NEW A, NEW C, Marks(A, Len(place)), Marks(C, Len(place)),
           A \sqsubseteq C
    PROVE  ById(place, A) \sqsubseteq ById(place, C)
<1> DEFINE X == ById(place, A)
<1> DEFINE Y == ById(place, C)
<1>1. \A a \in DOMAIN A : a \in DOMAIN C /\ A[a] <= C[a]
    BY DEF \sqsubseteq, BagToSet
<1>2. /\ \A x \in DOMAIN X : \E a \in DOMAIN A : x = Label(place, a)
      /\ \A a \in DOMAIN A : X[Label(place, a)] = A[a]
    BY ByIdIs
<1>3. \A a \in DOMAIN C : Label(place, a) \in DOMAIN Y /\ Y[Label(place, a)] = C[a]
    BY ByIdIs
<1> HIDE DEF X, Y
<1>4. \A x \in DOMAIN X : x \in DOMAIN Y /\ X[x] <= Y[x]
    BY <1>1, <1>2, <1>3
<1>5. X \sqsubseteq Y
    BY <1>4 DEF \sqsubseteq, BagToSet
<1>6. QED
    BY <1>5 DEF X, Y

(***************************************************************************)
(* A list of arcs in one colour.                                           *)
(***************************************************************************)
Painted(arcs, c) == [i \in DOMAIN arcs |-> <<arcs[i][1], c>>]

(***************************************************************************)
(* It has at a place, in that colour, as many as there were in any.        *)
(***************************************************************************)
LEMMA PaintedArcs ==
    ASSUME NEW n, NEW arcs, ArcsTo(arcs, n), Coloured(arcs), NEW c \in Token
    PROVE  /\ ArcsTo(Painted(arcs, c), n) /\ Coloured(Painted(arcs, c))
           /\ \A p, d : CountAt(<<p, d>>, ArcBag(Painted(arcs, c)))
                            = IF d = c THEN Cardinality(Numbered(arcs, p)) ELSE 0
<1> DEFINE r == Painted(arcs, c)
<1>1. IsSeq(arcs) /\ DOMAIN arcs = 1 .. Len(arcs) /\ Len(arcs) \in Nat
    BY SeqElim DEF ArcsTo
<1>2. DOMAIN r = DOMAIN arcs /\ r = [i \in DOMAIN r |-> r[i]] /\ \A i \in DOMAIN arcs : r[i] = <<arcs[i][1], c>>
    BY DEF Painted
<1> HIDE DEF r
<1>3. IsSeq(r) /\ Len(r) = Len(arcs)
    BY <1>1, <1>2, SeqOver
<1>4. ArcsTo(r, n) /\ Coloured(r)
    <2>1. \A i \in 1 .. Len(r) : r[i][1] = arcs[i][1] /\ r[i][2] = c /\ r[i] = <<arcs[i][1], c>>
        BY <1>1, <1>2, <1>3
    <2>2. QED
        BY <2>1, <1>3 DEF ArcsTo, Coloured
<1>5. ASSUME NEW p, NEW d
      PROVE  CountAt(<<p, d>>, ArcBag(r)) = IF d = c THEN Cardinality(Numbered(arcs, p)) ELSE 0
    <2> DEFINE a == <<p, d>>
    <2>1. CountAt(a, ArcBag(r)) = Times(r, a)
        <3> HIDE DEF a
        <3>1. /\ a \in DOMAIN ArcBag(r) <=> Times(r, a) # 0
              /\ a \in DOMAIN ArcBag(r) => ArcBag(r)[a] = Times(r, a)
            BY <1>3, ArcBagIs
        <3>2. QED
            BY <3>1 DEF CountAt
    <2>2. CASE d = c
        <3>1. Positions(r, a) = {i \in 1 .. Len(arcs) : arcs[i][1] = p}
            BY <2>2, <1>1, <1>2 DEF Positions
        <3>2. QED
            BY <3>1, <2>1, <2>2, NumberedAre DEF Times
    <2>3. CASE d # c
        <3>1. Positions(r, a) = {}
            BY <2>3, <1>2 DEF Positions
        <3> HIDE DEF a
        <3>2. Times(r, a) = 0
            BY <3>1, <1>3, TimesIs
        <3>3. QED
            BY <3>2, <2>1, <2>3 DEF a
    <2>4. QED
        BY <2>2, <2>3
<1>6. QED
    BY <1>4, <1>5 DEF r

(***************************************************************************)
(* The cardinality of NetGraph is the one of the document.                 *)
(***************************************************************************)
LEMMA GraphCardinality ==
    ASSUME NEW S
    PROVE  Graph!Cardinality(S) = Cardinality(S)
BY DEF Graph!Cardinality, Cardinality

(***************************************************************************)
(* `tryFire' fires.                                                        *)
(***************************************************************************)
LEMMA TryFireNet ==
    ASSUME NEW e, Told(e), NEW t \in 1 .. Len(e.transition), canFire(t, e)
    PROVE  LET r == tryFire(t, e)
           IN  Told(r) /\ Graph!Fire(NetOf(e), NetOf(r), e.transition[t].id)
<1> DEFINE r == tryFire(t, e)
<1> DEFINE k == Len(e.place)
<1> DEFINE in == ArcBag(e.input_n[t])
<1> DEFINE out == ArcBag(Painted(e.output_n[t], e.output[t]))
<1> DEFINE left == e.tokens (-) in
<1>1. SameBut(e, r, {"tokens", "log"}) /\ r.tokens = left (+) out
    <2> DEFINE new == left (+) out
    <2> DEFINE k1 == [e EXCEPT !.tokens = new]
    <2>1. r = [k1 EXCEPT !.log = Append(e.log, <<t, e.output[t]>>)]
        BY DEF tryFire, Painted, Told, Structure, EmptyDocument
    <2> HIDE DEF new, left, out, in, r
    <2>2. DOMAIN e = DOMAIN EmptyDocument
        BY DEF Told, Structure
    <2>3. SameBut(e, r, {"tokens", "log"}) /\ r.tokens = new
        BY <2>1, <2>2 DEF SameBut, EmptyDocument
    <2>4. QED
        BY <2>3 DEF new
<1>2. Structure(r)
    BY TryFireSound DEF Told
<1> HIDE DEF r
<1>3. Distinct(e.place) /\ Marks(e.tokens, k)
    BY DEF Told
<1>4. /\ ArcsTo(e.input_n[t], k) /\ Coloured(e.input_n[t])
      /\ ArcsTo(e.output_n[t], k) /\ Coloured(e.output_n[t]) /\ e.output[t] \in Token
    BY DEF Told, Structure, ArcsSound
<1>5. Marks(in, k)
    BY <1>4, MarksOfArcs
<1>6. /\ ArcsTo(Painted(e.output_n[t], e.output[t]), k) /\ Coloured(Painted(e.output_n[t], e.output[t]))
      /\ \A p, d : CountAt(<<p, d>>, out) = IF d = e.output[t] THEN Cardinality(Numbered(e.output_n[t], p)) ELSE 0
    BY <1>4, PaintedArcs
<1>7. Marks(out, k)
    BY <1>6, MarksOfArcs
<1>8. in \sqsubseteq e.tokens
    BY DEF canFire
<1> HIDE DEF out
<1>9. Marks(left, k) /\ ById(e.place, left) = ById(e.place, e.tokens) (-) ById(e.place, in)
    <2> HIDE DEF in
    <2>1. QED
        BY <1>3, <1>5, ByIdMinus
<1>10. ById(e.place, in) \sqsubseteq ById(e.place, e.tokens)
    <2> HIDE DEF in
    <2>1. QED
        BY <1>3, <1>5, <1>8, ByIdWithin
<1> HIDE DEF left
<1>11. Marks(r.tokens, k)
    <2>1. Marks(left (+) out, k)
        BY <1>3, <1>7, <1>9, ByIdPlus
    <2>2. QED
        BY <2>1, <1>1
<1> DEFINE n == NetOf(e)
<1> DEFINE m == NetOf(r)
<1> DEFINE x == e.transition[t].id
<1>12. Told(r) /\ m.place = n.place /\ m.transition = n.transition /\ m.marking = ById(e.place, r.tokens)
    BY <1>1, <1>2, <1>11, MarkingNet
<1>13. /\ n.transition[x].consumes = ById(e.place, in)
       /\ n.transition[x].produces = ById(e.place, ArcBag(e.output_n[t]))
       /\ n.transition[x].output = e.output[t]
       /\ n.marking = ById(e.place, e.tokens)
       /\ DOMAIN n.place = {e.place[p].id : p \in 1 .. k}
    <2>1. /\ n.transition[x] = TransitionAt(e, t) /\ n.marking = ById(e.place, e.tokens)
          /\ DOMAIN n.place = {e.place[p].id : p \in 1 .. k}
        BY NetIs
    <2> HIDE DEF n, x
    <2>2. QED
        BY <2>1 DEF TransitionAt
<1> HIDE DEF in
<1>14. ASSUME NEW p \in 1 .. k
       PROVE  Graph!ArcsAt(e.place[p].id, n.transition[x].produces) = Numbered(e.output_n[t], p)
    <2> DEFINE B == ById(e.place, ArcBag(e.output_n[t]))
    <2>1. Marks(ArcBag(e.output_n[t]), k) /\ IsSeq(e.output_n[t])
        BY <1>4, MarksOfArcs DEF ArcsTo
    <2>2. ASSUME NEW c \in Token
          PROVE  Graph!Count(<<e.place[p].id, c>>, B) = Times(e.output_n[t], <<p, c>>)
        <3>1. Graph!Count(<<e.place[p].id, c>>, B) = CountAt(<<p, c>>, ArcBag(e.output_n[t]))
            BY <2>1, <1>3, CountIs
        <3> DEFINE a == <<p, c>>
        <3> HIDE DEF a
        <3>2. CountAt(a, ArcBag(e.output_n[t])) = Times(e.output_n[t], a)
            BY <2>1, ArcBagIs DEF CountAt
        <3>3. QED
            BY <3>1, <3>2 DEF a
    <2> HIDE DEF B
    <2>3. Graph!ArcsAt(e.place[p].id, B) = Numbered(e.output_n[t], p)
        BY <2>2 DEF Graph!ArcsAt, Numbered
    <2>4. QED
        BY <2>3, <1>13 DEF B
<1>15. ASSUME NEW p \in 1 .. k, NEW c \in Token
       PROVE  Graph!Count(<<e.place[p].id, c>>, m.marking)
                = Graph!Count(<<e.place[p].id, c>>, Graph!(-)(n.marking, n.transition[x].consumes))
                  + IF c = n.transition[x].output
                    THEN Cardinality(Graph!ArcsAt(e.place[p].id, n.transition[x].produces)) ELSE 0
    <2> DEFINE a == <<p, c>>
    <2> DEFINE y == <<e.place[p].id, c>>
    <2>1. Graph!Count(y, m.marking) = CountAt(a, r.tokens)
        BY <1>3, <1>11, <1>12, CountIs
    <2>2. Graph!Count(y, ById(e.place, left)) = CountAt(a, left) /\ CountAt(a, left) \in Nat
        BY <1>3, <1>9, CountIs
    <2>3. Graph!(-)(n.marking, n.transition[x].consumes) = ById(e.place, left)
        BY <1>9, <1>13, GraphBags
    <2>4. CountAt(a, out) \in Nat
        BY <1>3, <1>7, CountIs
    <2>5. CountAt(a, out) = IF c = e.output[t] THEN Cardinality(Numbered(e.output_n[t], p)) ELSE 0
        BY <1>6
    <2> HIDE DEF a, y
    <2>6. CountAt(a, r.tokens) = CountAt(a, left) + CountAt(a, out)
        BY <2>2, <2>4, <1>1, CountPlus
    <2>7. Graph!Count(y, m.marking) = Graph!Count(y, Graph!(-)(n.marking, n.transition[x].consumes)) + CountAt(a, out)
        BY <2>1, <2>2, <2>3, <2>6
    <2>8. QED
        BY <2>5, <2>7, <1>13, <1>14 DEF y
<1>16. Graph!\sqsubseteq(n.transition[x].consumes, n.marking)
    BY <1>10, <1>13, GraphBags
<1> HIDE DEF n, m, x
<1>17. Graph!Fire(n, m, x)
    <2>1. ASSUME NEW y \in DOMAIN n.place, NEW c \in Token
          PROVE  Graph!Count(<<y, c>>, m.marking)
                    = Graph!Count(<<y, c>>, Graph!(-)(n.marking, n.transition[x].consumes))
                      + IF c = n.transition[x].output
                        THEN Cardinality(Graph!ArcsAt(y, n.transition[x].produces)) ELSE 0
        BY <1>13, <1>15
    <2>2. QED
        <3>1. Graph!Fire(n, m, x) <=>
                /\ Graph!\sqsubseteq(n.transition[x].consumes, n.marking)
                /\ \A y \in DOMAIN n.place, c \in Token :
                        Graph!Count(<<y, c>>, m.marking)
                            = Graph!Count(<<y, c>>, Graph!(-)(n.marking, n.transition[x].consumes))
                              + IF c = n.transition[x].output
                                THEN Cardinality(Graph!ArcsAt(y, n.transition[x].produces)) ELSE 0
                /\ m.place = n.place
                /\ m.transition = n.transition
            BY GraphCardinality DEF Graph!Fire
        <3>2. QED
            BY <2>1, <3>1, <1>12, <1>16
<1>18. QED
    BY <1>12, <1>17 DEF r, n, m, x

-----------------------------------------------------------------------------
(***************************************************************************)
(* Removing nodes.                                                         *)
(***************************************************************************)

(***************************************************************************)
(* Concatenation with nothing and with one element.                        *)
(***************************************************************************)
LEMMA Joined ==
    ASSUME NEW s, IsSeq(s), NEW y
    PROVE  s \o << >> = s /\ << >> \o s = s /\ s \o <<y>> = Append(s, y)
<1>1. \A a, b : IsSeq(a) /\ IsSeq(b) /\ Len(a) = Len(b) /\ (\A i \in 1 .. Len(a) : a[i] = b[i]) => a = b
    BY DEF IsSeq
<1>2. IsSeq(<< >>) /\ Len(<< >>) = 0 /\ IsSeq(<<y>>) /\ Len(<<y>>) = 1 /\ <<y>>[1] = y
    BY DEF IsSeq
<1>3. Len(s) \in Nat
    BY SeqElim
<1> DEFINE empty == << >>
<1> DEFINE single == <<y>>
<1>4. IsSeq(empty) /\ Len(empty) = 0 /\ IsSeq(single) /\ Len(single) = 1 /\ single[1] = y
    BY <1>2
<1> HIDE DEF empty, single
<1>5. s \o empty = s
    <2>1. IsSeq(s \o empty) /\ Len(s \o empty) = Len(s) /\ \A i \in 1 .. Len(s) : (s \o empty)[i] = s[i]
        BY <1>3, <1>4, SeqConcat
    <2>2. QED
        BY <2>1, <1>1
<1>6. empty \o s = s
    <2>1. /\ IsSeq(empty \o s) /\ Len(empty \o s) = Len(empty) + Len(s)
          /\ \A i \in 1 .. Len(s) : (empty \o s)[Len(empty) + i] = s[i]
        BY <1>4, SeqConcat
    <2>2. Len(empty \o s) = Len(s) /\ \A i \in 1 .. Len(s) : (empty \o s)[i] = s[i]
        BY <2>1, <1>3, <1>4
    <2>3. QED
        BY <2>1, <2>2, <1>1
<1>7. s \o single = Append(s, y)
    <2>0. /\ IsSeq(s \o single) /\ Len(s \o single) = Len(s) + Len(single)
          /\ \A i \in 1 .. Len(s) : (s \o single)[i] = s[i]
          /\ \A i \in 1 .. Len(single) : (s \o single)[Len(s) + i] = single[i]
        <3>1. IsSeq(single)
            BY <1>4
        <3>2. IsSeq(s \o single) /\ Len(s \o single) = Len(s) + Len(single)
            BY <3>1, SeqConcat
        <3>3. \A i \in 1 .. Len(s) : (s \o single)[i] = s[i]
            BY <3>1, SeqConcat
        <3>4. \A i \in 1 .. Len(single) : (s \o single)[Len(s) + i] = single[i]
            BY <3>1, SeqConcat
        <3>5. QED
            BY <3>2, <3>3, <3>4
    <2>1. /\ IsSeq(s \o single) /\ Len(s \o single) = Len(s) + 1
          /\ \A i \in 1 .. Len(s) : (s \o single)[i] = s[i]
          /\ \A i \in 1 .. Len(single) : (s \o single)[Len(s) + i] = single[i]
        BY <2>0, <1>4
    <2>2. (s \o single)[Len(s) + 1] = y
        BY <2>1, <1>4
    <2>3. /\ IsSeq(Append(s, y)) /\ Len(Append(s, y)) = Len(s) + 1
          /\ \A i \in 1 .. Len(s) : Append(s, y)[i] = s[i]
          /\ Append(s, y)[Len(s) + 1] = y
        BY SeqAppend
    <2> DEFINE a == s \o single
    <2> DEFINE b == Append(s, y)
    <2>4. \A i \in 1 .. Len(s) + 1 : i \in 1 .. Len(s) \/ i = Len(s) + 1
        BY <1>3
    <2>5. IsSeq(a) /\ IsSeq(b) /\ Len(a) = Len(b) /\ \A i \in 1 .. Len(a) : a[i] = b[i]
        BY <2>1, <2>2, <2>3, <2>4
    <2> HIDE DEF a, b
    <2>6. a = b
        BY <2>5, <1>1
    <2>7. QED
        BY <2>6 DEF a, b
<1>8. QED
    BY <1>5, <1>6, <1>7 DEF empty, single

(***************************************************************************)
(* Up and Down are inverse to each other.                                  *)
(***************************************************************************)
LEMMA UpDown ==
    ASSUME NEW n \in Nat, NEW p \in 1 .. n
    PROVE  /\ \A q \in 1 .. n - 1 : Up(q, p) \in 1 .. n /\ Up(q, p) # p /\ Down(Up(q, p), p) = q
           /\ \A i \in 1 .. n : i # p => Down(i, p) \in 1 .. n - 1 /\ Up(Down(i, p), p) = i
BY DEF Up, Down

(***************************************************************************)
(* `reindex' of removePlace keeps every arc, with its place moved up, as   *)
(* often as it was there.                                                  *)
(***************************************************************************)
LEMMA ReindexTimes ==
    ASSUME NEW n \in Nat, NEW arcs, ArcsTo(arcs, n), NEW p \in 1 .. n, NEW q \in 1 .. n - 1, NEW c
    PROVE  Times(ReindexArcs(arcs, p), <<q, c>>) = Times(arcs, <<Up(q, p), c>>)
<1> DEFINE one(i) == IF arcs[i][1] = p THEN << >> ELSE << <<Down(arcs[i][1], p), arcs[i][2]>> >>
<1> DEFINE ss == [i \in DOMAIN arcs |-> one(i)]
<1> DEFINE k == Len(arcs)
<1> DEFINE y == <<q, c>>
<1> DEFINE z == <<Up(q, p), c>>
<1> DEFINE to(m) == {i \in 1 .. m : arcs[i] = z}
<1>1. IsSeq(arcs) /\ k \in Nat /\ DOMAIN arcs = 1 .. k
    BY SeqElim DEF ArcsTo
<1>2. IsSeq(ss) /\ Len(ss) = k
    <2>1. DOMAIN ss = DOMAIN arcs /\ ss = [i \in DOMAIN ss |-> ss[i]]
        OBVIOUS
    <2> HIDE DEF ss
    <2>2. QED
        BY <2>1, <1>1, SeqOver
<1>3. ReindexArcs(arcs, p) = FlattenSeq(ss)
    BY DEF ReindexArcs
<1>4. ASSUME NEW m \in 1 .. k
      PROVE  \/ ss[m] = << >> /\ arcs[m] # z
             \/ ss[m] = <<y>> /\ arcs[m] = z
             \/ \E w : ss[m] = <<w>> /\ w # y /\ arcs[m] # z
    <2>1. arcs[m] = <<arcs[m][1], arcs[m][2]>> /\ arcs[m][1] \in 1 .. n
        BY DEF ArcsTo
    <2>2. Up(q, p) # p /\ Down(Up(q, p), p) = q
        BY UpDown
    <2>3. ss[m] = one(m)
        BY <1>1
    <2> HIDE DEF ss
    <2>4. CASE arcs[m][1] = p
        BY <2>1, <2>2, <2>3, <2>4
    <2>5. CASE arcs[m][1] # p
        <3> DEFINE w == <<Down(arcs[m][1], p), arcs[m][2]>>
        <3>1. ss[m] = <<w>>
            BY <2>3, <2>5
        <3>2. Up(Down(arcs[m][1], p), p) = arcs[m][1]
            <4>1. \A i \in 1 .. n : i # p => Up(Down(i, p), p) = i
                BY UpDown
            <4> HIDE DEF w
            <4>2. QED
                BY <4>1, <2>1, <2>5
        <3>3. w = y <=> arcs[m] = z
            <4>1. w = y <=> Down(arcs[m][1], p) = q /\ arcs[m][2] = c
                OBVIOUS
            <4>2. arcs[m] = z <=> arcs[m][1] = Up(q, p) /\ arcs[m][2] = c
                BY <2>1
            <4>3. QED
                BY <4>1, <4>2, <3>2, <2>2
        <3> HIDE DEF w, y, z
        <3>4. QED
            BY <3>1, <3>3
    <2>6. QED
        BY <2>4, <2>5
<1> HIDE DEF ss, y, z
<1>5. ASSUME NEW m \in 1 .. k
      PROVE  Cardinality(to(m)) = Cardinality(to(m - 1)) + IF arcs[m] = z THEN 1 ELSE 0
    <2>1. IsFiniteSet(to(m - 1)) /\ m \notin to(m - 1)
        <3>1. IsFiniteSet(1 .. m - 1)
            <4>1. 1 \in Int /\ m - 1 \in Int
                BY <1>1
            <4>2. QED
                BY <4>1, FS_Interval
        <3>2. to(m - 1) \subseteq 1 .. m - 1
            OBVIOUS
        <3>3. m \notin 1 .. m - 1
            BY <1>1
        <3> HIDE DEF to
        <3>4. QED
            BY <3>1, <3>2, <3>3, FS_Subset
    <2>2. to(m) = IF arcs[m] = z THEN to(m - 1) \cup {m} ELSE to(m - 1)
        <3>1. 1 .. m = (1 .. m - 1) \cup {m} /\ m \in 1 .. m
            BY <1>1
        <3>2. m \notin 1 .. m - 1
            BY <1>1
        <3>3. QED
            BY <3>1, <3>2
    <2> HIDE DEF to
    <2>3. Cardinality(to(m - 1) \cup {m}) = Cardinality(to(m - 1)) + 1
        BY <2>1, FS_AddElement
    <2>4. Cardinality(to(m - 1)) \in Nat
        BY <2>1, FS_CardinalityType
    <2>5. QED
        BY <2>2, <2>3, <2>4
<1>6. CASE k = 0
    <2>1. FlattenSeq(ss) = ss /\ IsSeq(ss) /\ Len(ss) = 0
        BY <1>2, <1>6 DEF FlattenSeq
    <2>2. \A s, x : IsSeq(s) /\ Len(s) = 0 => Times(s, x) = 0
        <3>1. ASSUME NEW s, NEW x, IsSeq(s), Len(s) = 0
              PROVE  Times(s, x) = 0
            <4>1. x \notin {s[i] : i \in 1 .. Len(s)}
                BY <3>1
            <4>2. QED
                BY <4>1, <3>1, TimesIs
        <3>2. QED
            BY <3>1
    <2>3. QED
        BY <2>1, <2>2, <1>1, <1>3, <1>6 DEF y, z
<1>7. CASE k # 0
    <2> DEFINE f == CHOOSE f : Concats(ss, k, f)
    <2>1. FlattenSeq(ss) = f[k]
        BY <1>2, <1>7 DEF FlattenSeq, Concats
    <2>2. Concats(ss, k, f)
        BY <1>1, ConcatsExist
    <2> HIDE DEF f
    <2> DEFINE g(m) == IF m = 0 THEN << >> ELSE f[m]
    <2> DEFINE Good(m) == IsSeq(g(m)) /\ Times(g(m), y) = Cardinality(to(m))
    <2>3. Good(0)
        <3>1. IsSeq(<< >>) /\ Len(<< >>) = 0
            BY DEF IsSeq
        <3>2. y \notin {<< >>[i] : i \in 1 .. 0}
            OBVIOUS
        <3>3. Times(<< >>, y) = 0
            BY <3>1, <3>2, TimesIs
        <3>4. to(0) = {}
            OBVIOUS
        <3>5. Cardinality({}) = 0
            BY FS_EmptySet
        <3>6. QED
            BY <3>1, <3>3, <3>4, <3>5
    <2>4. ASSUME NEW m \in 1 .. k, Good(m - 1)
          PROVE  Good(m)
        <3>1. IsSeq(g(m - 1))
            BY <2>4
        <3>2. g(m) = g(m - 1) \o ss[m]
            <4>1. f[m] = IF m = 1 THEN ss[m] ELSE f[m - 1] \o ss[m]
                BY <2>2 DEF Concats
            <4>2. CASE m = 1
                <5>1. IsSeq(ss[m])
                    <6>1. IsSeq(<< >>) /\ \A x : IsSeq(<<x>>)
                        BY DEF IsSeq
                    <6>2. QED
                        BY <6>1, <1>4
                <5>2. << >> \o ss[m] = ss[m]
                    BY <5>1, Joined
                <5>3. QED
                    BY <4>1, <4>2, <5>2
            <4>3. CASE m # 1
                <5>1. m # 0 /\ m - 1 # 0
                    BY <4>3, <1>1
                <5>2. f[m] = f[m - 1] \o ss[m]
                    BY <4>1, <4>3
                <5>3. QED
                    BY <5>1, <5>2
            <4>4. QED
                BY <4>2, <4>3
        <3>3. Times(g(m - 1), y) \in Nat /\ Times(g(m - 1), y) = Cardinality(to(m - 1))
            BY <3>1, <2>4, TimesIs
        <3> DEFINE s == g(m - 1)
        <3>4. Cardinality(to(m)) = Cardinality(to(m - 1)) + IF arcs[m] = z THEN 1 ELSE 0
            BY <1>5
        <3> HIDE DEF to
        <3>5. g(m) = s \o ss[m]
            BY <3>2
        <3>6. IsSeq(s) /\ Times(s, y) \in Nat /\ Times(s, y) = Cardinality(to(m - 1))
            BY <3>1, <3>3
        <3>7. SUFFICES IsSeq(g(m)) /\ Times(g(m), y) = Cardinality(to(m))
            OBVIOUS
        <3> HIDE DEF g, s
        <3>8. CASE ss[m] = << >> /\ arcs[m] # z
            <4>1. g(m) = s
                BY <3>5, <3>6, <3>8, Joined
            <4>2. QED
                BY <4>1, <3>4, <3>6, <3>8
        <3>9. CASE ss[m] = <<y>> /\ arcs[m] = z
            <4>1. g(m) = Append(s, y)
                BY <3>5, <3>6, <3>9, Joined
            <4>2. IsSeq(Append(s, y)) /\ Times(Append(s, y), y) = Times(s, y) + 1
                BY <3>6, SeqAppend, TimesAppend
            <4>3. QED
                BY <4>1, <4>2, <3>4, <3>6, <3>9
        <3>10. CASE \E w : ss[m] = <<w>> /\ w # y /\ arcs[m] # z
            <4>1. PICK w : ss[m] = <<w>> /\ w # y /\ arcs[m] # z
                BY <3>10
            <4>2. g(m) = Append(s, w)
                BY <3>5, <3>6, <4>1, Joined
            <4>3. IsSeq(Append(s, w))
                BY <3>6, SeqAppend
            <4>4. Times(Append(s, w), y) = Times(s, y) + IF y = w THEN 1 ELSE 0
                BY <3>6, TimesAppend
            <4>5. QED
                BY <4>1, <4>2, <4>3, <4>4, <3>4, <3>6
        <3>11. QED
            BY <3>8, <3>9, <3>10, <1>4
    <2> HIDE DEF Good
    <2> DEFINE S == {m \in 0 .. k : ~ Good(m)}
    <2>5. S = {}
        <3>1. SUFFICES ASSUME S # {} PROVE FALSE
            OBVIOUS
        <3>2. S \in SUBSET Nat
            BY <1>1
        <3>3. PICK m \in S : \A j \in S : m <= j
            <4> HIDE DEF S
            <4>1. QED
                BY <3>1, <3>2, LeastNat
        <3>4. m # 0
            BY <2>3
        <3>5. m \in 1 .. k /\ m - 1 \in 0 .. k /\ ~(m <= m - 1)
            BY <3>4, <1>1
        <3>6. m - 1 \notin S
            <4> HIDE DEF S
            <4>1. QED
                BY <3>3, <3>5
        <3>7. Good(m - 1)
            BY <3>5, <3>6
        <3>8. QED
            BY <3>5, <3>7, <2>4
    <2>6. Good(k)
        <3>1. k \in 0 .. k
            BY <1>1
        <3>2. QED
            BY <3>1, <2>5
    <2>7. Times(f[k], y) = Cardinality(to(k))
        BY <2>6, <1>7 DEF Good
    <2>8. to(k) = Positions(arcs, z)
        BY <1>1 DEF Positions
    <2>9. QED
        BY <2>1, <2>7, <2>8, <1>3 DEF Times, y, z
<1>8. QED
    BY <1>6, <1>7

(***************************************************************************)
(* One node less.                                                          *)
(***************************************************************************)
LEMMA NodeRemoved ==
    ASSUME NEW nodes, Distinct(nodes), NEW k \in 1 .. Len(nodes)
    PROVE  LET new == RemoveAt(nodes, k)
           IN  /\ Distinct(new) /\ Len(new) = Len(nodes) - 1
               /\ \A j \in 1 .. Len(nodes) - 1 : new[j] = nodes[Up(j, k)]
               /\ Ids(new) = Ids(nodes) \ {nodes[k].id}
<1> DEFINE new == RemoveAt(nodes, k)
<1> DEFINE n == Len(nodes)
<1>1. IsSeq(nodes) /\ n \in Nat
    BY SeqElim DEF Distinct
<1>2. IsSeq(new) /\ Len(new) = n - 1 /\ \A j \in 1 .. n - 1 : new[j] = IF j < k THEN nodes[j] ELSE nodes[j + 1]
    BY <1>1, SeqRemove
<1> HIDE DEF new
<1>3. \A j \in 1 .. n - 1 : new[j] = nodes[Up(j, k)]
    BY <1>1, <1>2 DEF Up
<1>4. /\ \A q \in 1 .. n - 1 : Up(q, k) \in 1 .. n /\ Up(q, k) # k /\ Down(Up(q, k), k) = q
      /\ \A i \in 1 .. n : i # k => Down(i, k) \in 1 .. n - 1 /\ Up(Down(i, k), k) = i
    BY <1>1, UpDown
<1>5. \A j, i \in 1 .. n - 1 : Up(j, k) = Up(i, k) => j = i
    BY <1>4
<1>6. \A j \in 1 .. Len(new) : DOMAIN new[j] = {"id", "name"} /\ new[j].id \in Nat
    BY <1>2, <1>3, <1>4 DEF Distinct
<1>7. \A j, i \in 1 .. Len(new) : new[j].id = new[i].id => j = i
    <2>1. ASSUME NEW j \in 1 .. n - 1, NEW i \in 1 .. n - 1, new[j].id = new[i].id
          PROVE  j = i
        <3>1. nodes[Up(j, k)].id = nodes[Up(i, k)].id /\ Up(j, k) \in 1 .. n /\ Up(i, k) \in 1 .. n
            BY <2>1, <1>3, <1>4
        <3>2. Up(j, k) = Up(i, k)
            BY <3>1 DEF Distinct
        <3>3. QED
            BY <3>2, <1>5
    <2>2. QED
        BY <2>1, <1>2
<1>8. Distinct(new)
    BY <1>2, <1>6, <1>7 DEF Distinct
<1>9. {new[j].id : j \in 1 .. Len(new)} = {nodes[j].id : j \in 1 .. n} \ {nodes[k].id}
    <2>1. \A j \in 1 .. Len(new) : new[j].id = nodes[Up(j, k)].id /\ Up(j, k) \in 1 .. n /\ Up(j, k) # k
        BY <1>2, <1>3, <1>4
    <2>2. \A i \in 1 .. n : i # k => Down(i, k) \in 1 .. Len(new) /\ new[Down(i, k)].id = nodes[i].id
        BY <1>2, <1>3, <1>4
    <2>3. \A i \in 1 .. n : nodes[i].id = nodes[k].id <=> i = k
        BY DEF Distinct
    <2>4. ASSUME NEW x
          PROVE  (\E j \in 1 .. Len(new) : x = new[j].id) <=> (\E i \in 1 .. n : x = nodes[i].id) /\ x # nodes[k].id
        <3>1. ASSUME NEW j \in 1 .. Len(new), x = new[j].id
              PROVE  (\E i \in 1 .. n : x = nodes[i].id) /\ x # nodes[k].id
            <4>1. x = nodes[Up(j, k)].id /\ Up(j, k) \in 1 .. n /\ Up(j, k) # k
                BY <3>1, <2>1
            <4>2. QED
                BY <4>1, <2>3
        <3>2. ASSUME NEW i \in 1 .. n, x = nodes[i].id, x # nodes[k].id
              PROVE  \E j \in 1 .. Len(new) : x = new[j].id
            <4>1. i # k
                BY <3>2
            <4>2. Down(i, k) \in 1 .. Len(new) /\ new[Down(i, k)].id = x
                BY <4>1, <3>2, <2>2
            <4>3. QED
                BY <4>2
        <3>3. QED
            BY <3>1, <3>2
    <2> DEFINE L == {new[j].id : j \in 1 .. Len(new)}
    <2> DEFINE R == {nodes[j].id : j \in 1 .. n} \ {nodes[k].id}
    <2>5. \A x : x \in L <=> \E j \in 1 .. Len(new) : x = new[j].id
        OBVIOUS
    <2>6. \A x : x \in R <=> (\E i \in 1 .. n : x = nodes[i].id) /\ x # nodes[k].id
        OBVIOUS
    <2> HIDE DEF L, R
    <2>7. ASSUME NEW x
          PROVE  x \in L <=> x \in R
        BY <2>4, <2>5, <2>6
    <2>8. L = R
        BY <2>7
    <2>9. QED
        BY <2>8 DEF L, R
<1>10. Ids(new) = Ids(nodes) \ {nodes[k].id}
    <2>1. Ids(new) = {new[j].id : j \in 1 .. Len(new)}
        BY <1>8, NodeFound
    <2>2. Ids(nodes) = {nodes[j].id : j \in 1 .. n}
        BY NodeFound
    <2>3. QED
        BY <2>1, <2>2, <1>9
<1>11. QED
    BY <1>2, <1>3, <1>8, <1>10 DEF new

(***************************************************************************)
(* B is what A has elsewhere than at place p, with the places behind it    *)
(* moved up.                                                               *)
(***************************************************************************)
MovedUp(A, B, n, p) ==
    /\ IsFcn(B)
    /\ \A b \in DOMAIN B : b \in (1 .. n - 1) \X Token
    /\ \A q \in 1 .. n - 1, c \in Token : <<q, c>> \in DOMAIN B <=> <<Up(q, p), c>> \in DOMAIN A
    /\ \A q \in 1 .. n - 1, c \in Token : <<q, c>> \in DOMAIN B => B[<<q, c>>] = A[<<Up(q, p), c>>]

(***************************************************************************)
(* Told by identities, it is the same bag without p.                       *)
(***************************************************************************)
LEMMA ByIdWithout ==
    ASSUME NEW place, Distinct(place), NEW p \in 1 .. Len(place), NEW A, Marks(A, Len(place)),
           NEW B, MovedUp(A, B, Len(place), p)
    PROVE  /\ Marks(B, Len(place) - 1)
           /\ ById(RemoveAt(place, p), B) = Graph!Without(ById(place, A), place[p].id)
<1> DEFINE n == Len(place)
<1> DEFINE new == RemoveAt(place, p)
<1> DEFINE X == ById(place, A)
<1> DEFINE x == place[p].id
<1> DEFINE R == Graph!Without(X, x)
<1>1. n \in Nat
    BY SeqElim DEF Distinct
<1>2. Distinct(new) /\ Len(new) = n - 1 /\ \A j \in 1 .. n - 1 : new[j] = place[Up(j, p)]
    BY NodeRemoved
<1>3. /\ \A q \in 1 .. n - 1 : Up(q, p) \in 1 .. n /\ Up(q, p) # p /\ Down(Up(q, p), p) = q
      /\ \A i \in 1 .. n : i # p => Down(i, p) \in 1 .. n - 1 /\ Up(Down(i, p), p) = i
    BY <1>1, UpDown
<1>4. ASSUME NEW b \in DOMAIN B
      PROVE  /\ b = <<b[1], b[2]>> /\ b[1] \in 1 .. n - 1 /\ b[2] \in Token
             /\ <<Up(b[1], p), b[2]>> \in DOMAIN A /\ B[b] = A[<<Up(b[1], p), b[2]>>]
             /\ B[b] \in Nat
    <2>1. b = <<b[1], b[2]>> /\ b[1] \in 1 .. n - 1 /\ b[2] \in Token
        BY DEF MovedUp
    <2>2. <<Up(b[1], p), b[2]>> \in DOMAIN A /\ B[b] = A[<<Up(b[1], p), b[2]>>]
        BY <2>1 DEF MovedUp
    <2>3. QED
        BY <2>1, <2>2 DEF Marks
<1>5. Marks(B, n - 1)
    BY <1>4 DEF Marks, MovedUp
<1>6. /\ IsFcn(R) /\ DOMAIN R = {a \in DOMAIN X : a[1] # x} /\ \A a \in DOMAIN R : R[a] = X[a]
    BY DEF Graph!Without, IsFcn
<1>7. /\ \A y \in DOMAIN X : \E a \in DOMAIN A : y = Label(place, a)
      /\ \A a \in DOMAIN A : Label(place, a) \in DOMAIN X /\ X[Label(place, a)] = A[a]
    BY ByIdIs
<1>8. \A i \in 1 .. n : place[i].id = x <=> i = p
    BY DEF Distinct
<1> HIDE DEF R, X, x, new
<1>9. ASSUME NEW b \in DOMAIN B
      PROVE  Label(new, b) \in DOMAIN R /\ R[Label(new, b)] = B[b]
    <2> DEFINE a == <<Up(b[1], p), b[2]>>
    <2>1. a \in DOMAIN A /\ B[b] = A[a] /\ b[1] \in 1 .. n - 1
        BY <1>4
    <2>2. Label(new, b) = Label(place, a)
        BY <2>1, <1>2 DEF Label
    <2>3. Label(place, a)[1] # x
        BY <2>1, <1>3, <1>8 DEF Label
    <2> HIDE DEF a
    <2>4. QED
        BY <2>1, <2>2, <2>3, <1>6, <1>7
<1>10. ASSUME NEW y \in DOMAIN R
       PROVE  \E b \in DOMAIN B : y = Label(new, b)
    <2>1. PICK a \in DOMAIN A : y = Label(place, a)
        BY <1>6, <1>7
    <2>2. y[1] # x
        BY <1>6
    <2>3. a = <<a[1], a[2]>> /\ a[1] \in 1 .. n /\ a[2] \in Token
        BY DEF Marks
    <2>4. a[1] # p
        BY <2>1, <2>2, <2>3, <1>8 DEF Label
    <2> DEFINE q == Down(a[1], p)
    <2>5. q \in 1 .. n - 1 /\ Up(q, p) = a[1]
        BY <2>3, <2>4, <1>3
    <2> HIDE DEF q
    <2>6. <<Up(q, p), a[2]>> \in DOMAIN A
        BY <2>3, <2>5
    <2>7. <<q, a[2]>> \in DOMAIN B
        BY <2>3, <2>5, <2>6 DEF MovedUp
    <2>8. y = Label(new, <<q, a[2]>>)
        BY <2>1, <2>5, <1>2 DEF Label
    <2>9. QED
        BY <2>7, <2>8
<1>11. ById(new, B) = R
    BY <1>2, <1>5, <1>6, <1>9, <1>10, ByIdSame
<1>12. QED
    BY <1>5, <1>11 DEF new, R, X, x

(***************************************************************************)
(* `reindex' of removePlace moves arcs up,                                 *)
(***************************************************************************)
LEMMA ArcsMovedUp ==
    ASSUME NEW n \in Nat, NEW arcs, ArcsTo(arcs, n), Coloured(arcs), NEW p \in 1 .. n
    PROVE  /\ Coloured(ReindexArcs(arcs, p))
           /\ MovedUp(ArcBag(arcs), ArcBag(ReindexArcs(arcs, p)), n, p)
<1> DEFINE r == ReindexArcs(arcs, p)
<1> DEFINE A == ArcBag(arcs)
<1> DEFINE B == ArcBag(r)
<1>1. ArcsTo(r, n - 1)
    BY ReindexArcsFacts
<1>2. IsSeq(r) /\ IsSeq(arcs)
    BY <1>1 DEF ArcsTo
<1>3. \A q \in 1 .. n - 1 : \A c : Times(r, <<q, c>>) = Times(arcs, <<Up(q, p), c>>)
    <2>1. ASSUME NEW q \in 1 .. n - 1, NEW c
          PROVE  Times(r, <<q, c>>) = Times(arcs, <<Up(q, p), c>>)
        BY ReindexTimes
    <2> HIDE DEF r
    <2>2. QED
        BY <2>1
<1> HIDE DEF r
<1>4. /\ DOMAIN A = {arcs[i] : i \in 1 .. Len(arcs)}
      /\ \A a : a \in DOMAIN A <=> Times(arcs, a) # 0
      /\ \A a \in DOMAIN A : A[a] = Times(arcs, a)
    BY <1>2, ArcBagIs
<1>5. /\ IsFcn(B)
      /\ DOMAIN B = {r[i] : i \in 1 .. Len(r)}
      /\ \A a : a \in DOMAIN B <=> Times(r, a) # 0
      /\ \A a \in DOMAIN B : B[a] = Times(r, a)
    BY <1>2, ArcBagIs
<1> HIDE DEF A, B
<1>6. ASSUME NEW q \in 1 .. n - 1, NEW c
      PROVE  /\ <<q, c>> \in DOMAIN B <=> <<Up(q, p), c>> \in DOMAIN A
             /\ <<q, c>> \in DOMAIN B => B[<<q, c>>] = A[<<Up(q, p), c>>]
    <2>1. Times(r, <<q, c>>) = Times(arcs, <<Up(q, p), c>>)
        BY <1>3
    <2>2. <<q, c>> \in DOMAIN B <=> <<Up(q, p), c>> \in DOMAIN A
        BY <2>1, <1>4, <1>5
    <2>3. QED
        BY <2>1, <2>2, <1>4, <1>5
<1>7. ASSUME NEW i \in 1 .. Len(r)
      PROVE  r[i] = <<r[i][1], r[i][2]>> /\ r[i][1] \in 1 .. n - 1 /\ r[i][2] \in Token
    <2>1. r[i] = <<r[i][1], r[i][2]>> /\ r[i][1] \in 1 .. n - 1
        BY <1>1 DEF ArcsTo
    <2>2. <<r[i][1], r[i][2]>> \in DOMAIN B
        BY <2>1, <1>5
    <2>3. <<Up(r[i][1], p), r[i][2]>> \in DOMAIN A
        BY <2>1, <2>2, <1>6
    <2>4. PICK j \in 1 .. Len(arcs) : <<Up(r[i][1], p), r[i][2]>> = arcs[j]
        BY <2>3, <1>4
    <2>5. arcs[j][2] = r[i][2] /\ arcs[j][2] \in Token
        BY <2>4 DEF Coloured
    <2>6. QED
        BY <2>1, <2>5
<1>8. Coloured(r)
    BY <1>7 DEF Coloured
<1>9. \A b \in DOMAIN B : b \in (1 .. n - 1) \X Token
    <2>1. ASSUME NEW i \in 1 .. Len(r)
          PROVE  r[i] \in (1 .. n - 1) \X Token
        <3>1. <<r[i][1], r[i][2]>> \in (1 .. n - 1) \X Token
            BY <1>7
        <3>2. QED
            BY <3>1, <1>7
    <2>2. QED
        BY <2>1, <1>5
<1>10. MovedUp(A, B, n, p)
    BY <1>5, <1>6, <1>9 DEF MovedUp
<1>11. QED
    BY <1>8, <1>10 DEF A, B, r

(***************************************************************************)
(* and tokens.                                                             *)
(***************************************************************************)
LEMMA TokensMovedUp ==
    ASSUME NEW n \in Nat, NEW A, Marks(A, n), NEW p \in 1 .. n
    PROVE  MovedUp(A, ReindexTokens(A, p), n, p)
<1> DEFINE B == ReindexTokens(A, p)
<1>1. /\ IsFcn(B)
      /\ \A a : a \in DOMAIN B <=> \E b \in DOMAIN A : b[1] # p /\ a = <<Down(b[1], p), b[2]>>
      /\ \A a \in DOMAIN B : B[a] = A[<<Up(a[1], p), a[2]>>]
    BY DEF ReindexTokens, IsFcn
<1> HIDE DEF B
<1>2. /\ \A q \in 1 .. n - 1 : Up(q, p) \in 1 .. n /\ Up(q, p) # p /\ Down(Up(q, p), p) = q
      /\ \A i \in 1 .. n : i # p => Down(i, p) \in 1 .. n - 1 /\ Up(Down(i, p), p) = i
    BY UpDown
<1>3. \A b \in DOMAIN A : b = <<b[1], b[2]>> /\ b[1] \in 1 .. n /\ b[2] \in Token
    BY DEF Marks
<1>4. ASSUME NEW a \in DOMAIN B
      PROVE  a \in (1 .. n - 1) \X Token
    <2>1. PICK b \in DOMAIN A : b[1] # p /\ a = <<Down(b[1], p), b[2]>>
        BY <1>1
    <2>2. Down(b[1], p) \in 1 .. n - 1 /\ b[2] \in Token
        BY <2>1, <1>2, <1>3
    <2>3. QED
        BY <2>1, <2>2
<1>5. ASSUME NEW q \in 1 .. n - 1, NEW c \in Token
      PROVE  /\ <<q, c>> \in DOMAIN B <=> <<Up(q, p), c>> \in DOMAIN A
             /\ <<q, c>> \in DOMAIN B => B[<<q, c>>] = A[<<Up(q, p), c>>]
    <2>1. ASSUME <<q, c>> \in DOMAIN B
          PROVE  <<Up(q, p), c>> \in DOMAIN A
        <3>1. PICK b \in DOMAIN A : b[1] # p /\ <<q, c>> = <<Down(b[1], p), b[2]>>
            BY <2>1, <1>1
        <3>2. q = Down(b[1], p) /\ c = b[2]
            BY <3>1
        <3>3. Up(q, p) = b[1]
            BY <3>1, <3>2, <1>2, <1>3
        <3>4. QED
            BY <3>2, <3>3, <1>3
    <2>2. ASSUME <<Up(q, p), c>> \in DOMAIN A
          PROVE  <<q, c>> \in DOMAIN B
        <3> DEFINE b == <<Up(q, p), c>>
        <3>1. b[1] = Up(q, p) /\ b[2] = c
            OBVIOUS
        <3>2. b \in DOMAIN A
            BY <2>2
        <3> HIDE DEF b
        <3>3. b[1] # p /\ <<q, c>> = <<Down(b[1], p), b[2]>>
            BY <3>1, <1>2
        <3>4. QED
            BY <3>2, <3>3, <1>1
    <2>3. <<q, c>> \in DOMAIN B => B[<<q, c>>] = A[<<Up(q, p), c>>]
        BY <1>1
    <2>4. QED
        BY <2>1, <2>2, <2>3
<1>6. QED
    BY <1>1, <1>4, <1>5 DEF MovedUp, B

(***************************************************************************)
(* What is said of a transition when the place x is gone.                  *)
(***************************************************************************)
Bare(transition, x) ==
    [transition EXCEPT !.consumes = Graph!Without(@, x), !.produces = Graph!Without(@, x)]

(***************************************************************************)
(* `removePlace' takes the place and what is at it.                        *)
(***************************************************************************)
LEMMA RemovePlaceNet ==
    ASSUME NEW e, Told(e), NEW p \in 1 .. Len(e.place)
    PROVE  LET r == removePlace(p, e)
           IN  Told(r) /\ Graph!RemovePlace(NetOf(e), NetOf(r), e.place[p].id)
<1> DEFINE r == removePlace(p, e)
<1> DEFINE n == Len(e.place)
<1> DEFINE x == e.place[p].id
<1>1. /\ IsSeq(e.p_positions) /\ Len(e.p_positions) = n /\ n \in Nat
      /\ DOMAIN e.place = 1 .. n /\ Distinct(e.place) /\ Distinct(e.transition)
    BY SeqElim DEF Told, Structure, PerPlace
<1>2. DOMAIN e.input_n = 1 .. Len(e.transition) /\ DOMAIN e.output_n = 1 .. Len(e.transition)
    BY SeqElim DEF Told, Structure, PerTransition
<1>3. /\ r.place = RemoveAt(e.place, p)
      /\ r.p_positions = RemoveAt(e.p_positions, p)
      /\ r.tokens = ReindexTokens(e.tokens, p)
      /\ r.input_n = [t \in DOMAIN e.input_n |-> ReindexArcs(e.input_n[t], p)]
      /\ r.output_n = [t \in DOMAIN e.output_n |-> ReindexArcs(e.output_n[t], p)]
      /\ r.transition = e.transition /\ r.t_positions = e.t_positions
      /\ r.priority = e.priority /\ r.output = e.output
    BY <1>1 DEF removePlace, Told, Structure, EmptyDocument
<1>4. Structure(r)
    BY RemovePlaceSound DEF Told
<1> HIDE DEF r
<1>5. /\ Distinct(r.place) /\ Len(r.place) = n - 1
      /\ \A j \in 1 .. n - 1 : r.place[j] = e.place[Up(j, p)]
      /\ Ids(r.place) = Ids(e.place) \ {x}
    BY <1>1, <1>3, NodeRemoved
<1>6. /\ \A q \in 1 .. n - 1 : Up(q, p) \in 1 .. n /\ Up(q, p) # p
    BY <1>1, UpDown
<1>7. \A j \in 1 .. n - 1 : r.p_positions[j] = e.p_positions[Up(j, p)]
    <2>1. \A j \in 1 .. n - 1 : r.p_positions[j] = IF j < p THEN e.p_positions[j] ELSE e.p_positions[j + 1]
        BY <1>1, <1>3, SeqRemove
    <2>2. QED
        BY <2>1, <1>1 DEF Up
<1>8. ASSUME NEW field \in {"input_n", "output_n"}, NEW t \in 1 .. Len(e.transition)
      PROVE  /\ Coloured(r[field][t])
             /\ ById(r.place, ArcBag(r[field][t])) = Graph!Without(ById(e.place, ArcBag(e[field][t])), x)
    <2> DEFINE arcs == e[field][t]
    <2>1. r[field][t] = ReindexArcs(arcs, p)
        BY <1>2, <1>3
    <2>2. ArcsTo(arcs, n) /\ Coloured(arcs) /\ Marks(ArcBag(arcs), n)
        BY ArcsAre
    <2> HIDE DEF arcs
    <2>3. Coloured(r[field][t]) /\ MovedUp(ArcBag(arcs), ArcBag(r[field][t]), n, p)
        BY <2>1, <2>2, <1>1, ArcsMovedUp
    <2>4. ById(r.place, ArcBag(r[field][t])) = Graph!Without(ById(e.place, ArcBag(arcs)), x)
        BY <2>2, <2>3, <1>1, <1>3, ByIdWithout
    <2>5. QED
        BY <2>3, <2>4 DEF arcs
<1>9. Marks(r.tokens, n - 1) /\ ById(r.place, r.tokens) = Graph!Without(ById(e.place, e.tokens), x)
    <2>1. Marks(e.tokens, n)
        BY DEF Told
    <2>2. MovedUp(e.tokens, r.tokens, n, p)
        BY <2>1, <1>1, <1>3, TokensMovedUp
    <2>3. QED
        BY <2>1, <2>2, <1>1, <1>3, ByIdWithout
<1>10. Told(r)
    BY <1>3, <1>4, <1>5, <1>8, <1>9 DEF Told
<1>11. \A t \in 1 .. Len(e.transition) : TransitionAt(r, t) = Bare(TransitionAt(e, t), x)
    <2>1. ASSUME NEW t \in 1 .. Len(e.transition)
          PROVE  TransitionAt(r, t) = Bare(TransitionAt(e, t), x)
        <3>1. /\ ById(r.place, ArcBag(r.input_n[t])) = Graph!Without(ById(e.place, ArcBag(e.input_n[t])), x)
              /\ ById(r.place, ArcBag(r.output_n[t])) = Graph!Without(ById(e.place, ArcBag(e.output_n[t])), x)
            BY <1>8
        <3> DEFINE k == TransitionAt(e, t)
        <3> DEFINE C == Graph!Without(ById(e.place, ArcBag(e.input_n[t])), x)
        <3> DEFINE D == Graph!Without(ById(e.place, ArcBag(e.output_n[t])), x)
        <3>2. k.consumes = ById(e.place, ArcBag(e.input_n[t])) /\ k.produces = ById(e.place, ArcBag(e.output_n[t]))
            BY DEF TransitionAt
        <3>3. TransitionAt(r, t) = [[k EXCEPT !.consumes = C] EXCEPT !.produces = D]
            <4> HIDE DEF C, D
            <4> DEFINE h == [k EXCEPT !.consumes = C]
            <4>1. h
                    = [name |-> e.transition[t].name, at |-> e.t_positions[t], priority |-> e.priority[t],
                       output |-> e.output[t], consumes |-> C,
                       produces |-> ById(e.place, ArcBag(e.output_n[t]))]
                BY DEF TransitionAt
            <4>2. TransitionAt(r, t)
                    = [name |-> e.transition[t].name, at |-> e.t_positions[t], priority |-> e.priority[t],
                       output |-> e.output[t], consumes |-> C, produces |-> D]
                BY <3>1, <1>3 DEF TransitionAt, C, D
            <4> HIDE DEF k, h
            <4>3. TransitionAt(r, t) = [h EXCEPT !.produces = D]
                BY <4>1, <4>2
            <4>4. QED
                BY <4>3 DEF h
        <3> HIDE DEF k
        <3>4. Bare(k, x) = [[k EXCEPT !.consumes = C] EXCEPT !.produces = D]
            BY <3>2 DEF Bare
        <3>5. QED
            BY <3>3, <3>4 DEF k
    <2>2. QED
        BY <2>1
<1> DEFINE N == NetOf(e)
<1> DEFINE M == NetOf(r)
<1>12. M.marking = Graph!Without(N.marking, x)
    BY <1>9 DEF NetOf
<1>13. M.transition = [y \in DOMAIN N.transition |-> Bare(N.transition[y], x)]
    <2> DEFINE R == [y \in DOMAIN N.transition |-> Bare(N.transition[y], x)]
    <2>1. /\ DOMAIN N.transition = {e.transition[t].id : t \in 1 .. Len(e.transition)}
          /\ \A t \in 1 .. Len(e.transition) : N.transition[e.transition[t].id] = TransitionAt(e, t)
        BY NetIs
    <2> HIDE DEF N
    <2>2. IsFcn(R) /\ DOMAIN R = DOMAIN N.transition
        BY DEF IsFcn
    <2>3. DOMAIN R = {r.transition[t].id : t \in 1 .. Len(r.transition)}
        BY <2>1, <2>2, <1>3
    <2>4. \A t \in 1 .. Len(r.transition) : R[r.transition[t].id] = TransitionAt(r, t)
        BY <2>1, <1>3, <1>11
    <2> HIDE DEF R
    <2>5. TransitionsOf(r) = R
        BY <2>2, <2>3, <2>4, <1>1, <1>3, TransitionsSame
    <2>6. QED
        BY <2>5 DEF R, NetOf
<1>14. M.place = Graph!Drop(N.place, x)
    <2> DEFINE R == Graph!Drop(N.place, x)
    <2>1. /\ DOMAIN N.place = {e.place[q].id : q \in 1 .. n}
          /\ \A q \in 1 .. n : N.place[e.place[q].id] = PlaceAt(e, q)
        BY NetIs
    <2> HIDE DEF N
    <2>2. IsFcn(R) /\ DOMAIN R = DOMAIN N.place \ {x} /\ \A y \in DOMAIN R : R[y] = N.place[y]
        BY DEF IsFcn, Graph!Drop
    <2> HIDE DEF R
    <2>3. DOMAIN R = {r.place[q].id : q \in 1 .. Len(r.place)}
        <3>1. Ids(r.place) = {r.place[q].id : q \in 1 .. Len(r.place)} /\ Ids(e.place) = {e.place[q].id : q \in 1 .. n}
            BY <1>1, <1>5, NodeFound
        <3>2. QED
            BY <3>1, <2>1, <2>2, <1>5
    <2>4. ASSUME NEW q \in 1 .. Len(r.place)
          PROVE  R[r.place[q].id] = PlaceAt(r, q)
        <3>1. q \in 1 .. n - 1 /\ r.place[q].id \in DOMAIN R
            BY <2>3, <1>5
        <3>2. r.place[q] = e.place[Up(q, p)] /\ r.p_positions[q] = e.p_positions[Up(q, p)] /\ Up(q, p) \in 1 .. n
            BY <3>1, <1>5, <1>6, <1>7
        <3>3. R[r.place[q].id] = PlaceAt(e, Up(q, p))
            BY <3>1, <3>2, <2>1, <2>2
        <3>4. QED
            BY <3>2, <3>3 DEF PlaceAt
    <2>5. PlacesOf(r) = R
        BY <2>2, <2>3, <2>4, <1>5, PlacesSame
    <2>6. QED
        BY <2>5 DEF R, NetOf
<1> HIDE DEF N, M, x
<1>15. Graph!RemovePlace(N, M, x)
    BY <1>12, <1>13, <1>14 DEF Graph!RemovePlace, Bare
<1>16. QED
    BY <1>10, <1>15 DEF N, M, x, r

(***************************************************************************)
(* `removeTransition' takes the transition and nothing else.               *)
(***************************************************************************)
LEMMA RemoveTransitionNet ==
    ASSUME NEW e, Told(e), NEW t \in 1 .. Len(e.transition)
    PROVE  LET r == removeTransition(t, e)
           IN  Told(r) /\ Graph!RemoveTransition(NetOf(e), NetOf(r), e.transition[t].id)
<1> DEFINE r == removeTransition(t, e)
<1> DEFINE n == Len(e.transition)
<1> DEFINE x == e.transition[t].id
<1> DEFINE Fields == {"t_positions", "input_n", "output_n", "priority", "output"}
<1>1. /\ Distinct(e.place) /\ Distinct(e.transition) /\ n \in Nat /\ DOMAIN e.transition = 1 .. n
      /\ \A f \in Fields : IsSeq(e[f]) /\ Len(e[f]) = n
    BY SeqElim DEF Told, Structure, PerTransition
<1>2. /\ r.place = e.place /\ r.p_positions = e.p_positions /\ r.tokens = e.tokens
      /\ r.transition = RemoveAt(e.transition, t)
      /\ \A f \in Fields : r[f] = RemoveAt(e[f], t)
    BY <1>1 DEF removeTransition, Told, Structure, EmptyDocument
<1>3. Structure(r)
    BY RemoveTransitionSound DEF Told
<1> HIDE DEF r
<1>4. /\ Distinct(r.transition) /\ Len(r.transition) = n - 1
      /\ \A j \in 1 .. n - 1 : r.transition[j] = e.transition[Up(j, t)]
      /\ Ids(r.transition) = Ids(e.transition) \ {x}
    <2>1. Distinct(e.transition) /\ t \in 1 .. Len(e.transition) /\ r.transition = RemoveAt(e.transition, t)
        BY <1>1, <1>2
    <2>2. LET new == RemoveAt(e.transition, t)
          IN  /\ Distinct(new) /\ Len(new) = n - 1
              /\ \A j \in 1 .. n - 1 : new[j] = e.transition[Up(j, t)]
              /\ Ids(new) = Ids(e.transition) \ {x}
        BY <2>1, NodeRemoved
    <2>3. QED
        BY <2>1, <2>2
<1>5. \A q \in 1 .. n - 1 : Up(q, t) \in 1 .. n
    BY <1>1, UpDown
<1>6. ASSUME NEW f \in Fields, NEW j \in 1 .. n - 1
      PROVE  r[f][j] = e[f][Up(j, t)]
    <2>1. r[f][j] = IF j < t THEN e[f][j] ELSE e[f][j + 1]
        <3>1. IsSeq(e[f]) /\ Len(e[f]) = n /\ r[f] = RemoveAt(e[f], t)
            BY <1>1, <1>2
        <3>2. \A i \in 1 .. Len(e[f]) - 1 : RemoveAt(e[f], t)[i] = IF i < t THEN e[f][i] ELSE e[f][i + 1]
            BY <3>1, SeqRemove
        <3>3. QED
            BY <3>1, <3>2
    <2>2. Up(j, t) = IF j < t THEN j ELSE j + 1
        BY <1>1 DEF Up
    <2>3. QED
        BY <2>1, <2>2
<1>7. ASSUME NEW j \in 1 .. n - 1
      PROVE  /\ Coloured(r.input_n[j]) /\ Coloured(r.output_n[j]) /\ r.output[j] \in Token
             /\ TransitionAt(r, j) = TransitionAt(e, Up(j, t))
    <2>1. /\ r.t_positions[j] = e.t_positions[Up(j, t)]
          /\ r.input_n[j] = e.input_n[Up(j, t)] /\ r.output_n[j] = e.output_n[Up(j, t)]
          /\ r.priority[j] = e.priority[Up(j, t)] /\ r.output[j] = e.output[Up(j, t)]
        BY <1>6
    <2>2. r.transition[j] = e.transition[Up(j, t)] /\ Up(j, t) \in 1 .. n
        BY <1>4, <1>5
    <2>3. QED
        BY <2>1, <2>2, <1>2 DEF Told, TransitionAt
<1>8. Told(r)
    BY <1>2, <1>3, <1>4, <1>7 DEF Told
<1> DEFINE N == NetOf(e)
<1> DEFINE R == Graph!Drop(N.transition, x)
<1>9. /\ DOMAIN N.transition = {e.transition[u].id : u \in 1 .. n}
      /\ \A u \in 1 .. n : N.transition[e.transition[u].id] = TransitionAt(e, u)
    BY NetIs
<1>10. N = [place |-> PlacesOf(e), transition |-> N.transition, marking |-> ById(e.place, e.tokens)]
    BY DEF NetOf
<1> HIDE DEF N
<1>11. IsFcn(R) /\ DOMAIN R = DOMAIN N.transition \ {x} /\ \A y \in DOMAIN R : R[y] = N.transition[y]
    BY DEF IsFcn, Graph!Drop
<1> HIDE DEF R
<1>12. DOMAIN R = {r.transition[j].id : j \in 1 .. Len(r.transition)}
    <2>1. /\ Ids(r.transition) = {r.transition[j].id : j \in 1 .. Len(r.transition)}
          /\ Ids(e.transition) = {e.transition[j].id : j \in 1 .. n}
        BY <1>1, <1>4, NodeFound
    <2>2. QED
        BY <2>1, <1>4, <1>9, <1>11
<1>13. ASSUME NEW j \in 1 .. Len(r.transition)
       PROVE  R[r.transition[j].id] = TransitionAt(r, j)
    <2>1. j \in 1 .. n - 1 /\ r.transition[j].id \in DOMAIN R
        BY <1>4, <1>12
    <2>2. r.transition[j] = e.transition[Up(j, t)] /\ Up(j, t) \in 1 .. n /\ TransitionAt(r, j) = TransitionAt(e, Up(j, t))
        BY <2>1, <1>4, <1>5, <1>7
    <2>3. QED
        BY <2>1, <2>2, <1>9, <1>11
<1>14. TransitionsOf(r) = R
    BY <1>4, <1>11, <1>12, <1>13, TransitionsSame
<1>15. NetOf(r) = [place |-> PlacesOf(e), transition |-> R, marking |-> ById(e.place, e.tokens)]
    BY <1>2, <1>14, PlacesStay DEF NetOf
<1> HIDE DEF x
<1>16. NetOf(r) = [N EXCEPT !.transition = R]
    BY <1>10, <1>15
<1>17. Graph!RemoveTransition(N, NetOf(r), x)
    BY <1>16 DEF Graph!RemoveTransition, R
<1>18. QED
    BY <1>8, <1>17 DEF N, x, r

-----------------------------------------------------------------------------
(***************************************************************************)
(* Loading a parsed net.                                                   *)
(***************************************************************************)

(***************************************************************************)
(* Nodes that arrive are told apart from each other and from the ones that *)
(* are there.                                                              *)
(***************************************************************************)
LEMMA ArrivingDistinct ==
    ASSUME NEW nodes, Distinct(nodes), NEW names, IsSeq(names), NEW new, new = Arriving(names, nodes)
    PROVE  /\ Distinct(new) /\ Len(new) = Len(names)
           /\ \A j \in 1 .. Len(nodes), k \in 1 .. Len(names) : new[k].id # nodes[j].id
<1> DEFINE last == LastId(nodes)
<1>1. last \in Nat /\ \A k \in 1 .. Len(nodes) : nodes[k].id <= last
    BY LastIdIs
<1>2. Len(nodes) \in Nat /\ Len(names) \in Nat /\ DOMAIN names = 1 .. Len(names)
    BY SeqElim DEF Distinct
<1>3. IsSeq(new) /\ Len(new) = Len(names)
    BY ArrivingFacts
<1>4. \A k \in 1 .. Len(names) :
        new[k].id = last + k /\ DOMAIN new[k] = {"id", "name"}
    BY <1>2 DEF Arriving
<1> HIDE DEF last
<1>5. \A k \in 1 .. Len(names) : new[k].id \in Nat /\ new[k].id > last
    BY <1>1, <1>2, <1>4
<1>6. Distinct(new)
    BY <1>1, <1>2, <1>3, <1>4, <1>5 DEF Distinct
<1>7. \A k \in 1 .. Len(nodes) : nodes[k].id \in Nat /\ nodes[k].id <= last
    BY <1>1 DEF Distinct
<1>8. \A j \in 1 .. Len(nodes), k \in 1 .. Len(names) : new[k].id # nodes[j].id
    BY <1>1, <1>5, <1>7
<1>9. QED
    BY <1>3, <1>6, <1>8

(***************************************************************************)
(* So are all of them together.                                            *)
(***************************************************************************)
LEMMA ArrivedDistinct ==
    ASSUME NEW nodes, Distinct(nodes), NEW new, Distinct(new),
           \A j \in 1 .. Len(nodes), k \in 1 .. Len(new) : new[k].id # nodes[j].id
    PROVE  LET all == nodes \o new
           IN  /\ Distinct(all) /\ Begins(nodes, all) /\ Len(all) = Len(nodes) + Len(new)
               /\ \A k \in 1 .. Len(nodes) : all[k] = nodes[k]
<1> DEFINE all == nodes \o new
<1>1. IsSeq(nodes) /\ IsSeq(new) /\ Len(nodes) \in Nat /\ Len(new) \in Nat
    BY SeqElim DEF Distinct
<1>7. /\ IsSeq(all) /\ Len(all) = Len(nodes) + Len(new)
      /\ \A k \in 1 .. Len(nodes) : all[k] = nodes[k]
      /\ \A k \in 1 .. Len(new) : all[Len(nodes) + k] = new[k]
    BY <1>1, SeqConcat
<1> HIDE DEF all
<1>8. \A k \in 1 .. Len(nodes) : nodes[k].id \in Nat /\ DOMAIN nodes[k] = {"id", "name"}
    BY DEF Distinct
<1>9. \A k \in 1 .. Len(new) : new[k].id \in Nat /\ DOMAIN new[k] = {"id", "name"}
    BY DEF Distinct
<1>10. \A i \in 1 .. Len(all) : \/ i \in 1 .. Len(nodes)
                                \/ \E k \in 1 .. Len(new) : i = Len(nodes) + k
    <2>1. ASSUME NEW i \in 1 .. Len(all), i \notin 1 .. Len(nodes)
          PROVE  \E k \in 1 .. Len(new) : i = Len(nodes) + k
        <3>1. i - Len(nodes) \in 1 .. Len(new) /\ i = Len(nodes) + (i - Len(nodes))
            BY <2>1, <1>1, <1>7
        <3>2. QED
            BY <3>1
    <2>2. QED
        BY <2>1
<1>11. \A i \in 1 .. Len(all) : DOMAIN all[i] = {"id", "name"} /\ all[i].id \in Nat
    <2>1. ASSUME NEW i \in 1 .. Len(all)
          PROVE  DOMAIN all[i] = {"id", "name"} /\ all[i].id \in Nat
        <3>1. CASE i \in 1 .. Len(nodes)
            <4>1. all[i] = nodes[i]
                BY <3>1, <1>7
            <4>2. QED
                BY <3>1, <4>1, <1>8
        <3>2. CASE i \notin 1 .. Len(nodes)
            <4>1. PICK k \in 1 .. Len(new) : i = Len(nodes) + k
                BY <3>2, <1>10
            <4>2. all[i] = new[k]
                BY <4>1, <1>7
            <4>3. QED
                BY <4>2, <1>9
        <3>3. QED
            BY <3>1, <3>2
    <2>2. QED
        BY <2>1
<1>12. ASSUME NEW i \in 1 .. Len(all), NEW j \in 1 .. Len(all), all[i].id = all[j].id
       PROVE  i = j
    <2>1. CASE i \in 1 .. Len(nodes) /\ j \in 1 .. Len(nodes)
        <3>1. all[i] = nodes[i] /\ all[j] = nodes[j]
            BY <2>1, <1>7
        <3>2. QED
            BY <2>1, <3>1, <1>12 DEF Distinct
    <2>2. CASE i \in 1 .. Len(nodes) /\ j \notin 1 .. Len(nodes)
        <3>1. PICK k \in 1 .. Len(new) : j = Len(nodes) + k
            BY <2>2, <1>10
        <3>2. all[i] = nodes[i] /\ all[j] = new[k]
            BY <2>2, <3>1, <1>7
        <3>3. QED
            BY <2>2, <3>2, <1>12
    <2>3. CASE i \notin 1 .. Len(nodes) /\ j \in 1 .. Len(nodes)
        <3>1. PICK k \in 1 .. Len(new) : i = Len(nodes) + k
            BY <2>3, <1>10
        <3>2. all[i] = new[k] /\ all[j] = nodes[j]
            BY <2>3, <3>1, <1>7
        <3>3. QED
            BY <2>3, <3>2, <1>12
    <2>4. CASE i \notin 1 .. Len(nodes) /\ j \notin 1 .. Len(nodes)
        <3>1. PICK k \in 1 .. Len(new), l \in 1 .. Len(new) : i = Len(nodes) + k /\ j = Len(nodes) + l
            BY <2>4, <1>10
        <3>2. new[k].id = new[l].id
            BY <3>1, <1>7, <1>12
        <3>3. k = l
            BY <3>2 DEF Distinct
        <3>4. QED
            BY <3>1, <3>3
    <2>5. QED
        BY <2>1, <2>2, <2>3, <2>4
<1>13. Distinct(all)
    BY <1>7, <1>11, <1>12 DEF Distinct
<1>14. Begins(nodes, all)
    BY <1>1, <1>7 DEF Begins
<1>15. QED
    BY <1>7, <1>13, <1>14 DEF all

(***************************************************************************)
(* The arcs of a transition as the net has them.                           *)
(***************************************************************************)
LEMMA ArcEnds ==
    ASSUME NEW e, Told(e), NEW field \in {"input_n", "output_n"}, NEW t \in 1 .. Len(e.transition)
    PROVE  LET B == NetOf(e).transition[e.transition[t].id][SideOf(field)]
           IN  /\ \A x \in DOMAIN B : \E i \in 1 .. Len(e[field][t]) : x = Label(e.place, e[field][t][i])
               /\ \A i \in 1 .. Len(e[field][t]) : Label(e.place, e[field][t][i]) \in DOMAIN B
<1> DEFINE arcs == e[field][t]
<1> DEFINE bag == ArcBag(arcs)
<1> DEFINE B == NetOf(e).transition[e.transition[t].id][SideOf(field)]
<1>1. IsSeq(arcs) /\ Marks(bag, Len(e.place)) /\ B = ById(e.place, bag)
    BY ArcsAre
<1>2. Distinct(e.place)
    BY DEF Told
<1> HIDE DEF B, arcs
<1>3. DOMAIN bag = {arcs[i] : i \in 1 .. Len(arcs)}
    BY <1>1, ArcBagIs
<1> HIDE DEF bag
<1>4. /\ \A x \in DOMAIN B : \E a \in DOMAIN bag : x = Label(e.place, a)
      /\ \A a \in DOMAIN bag : Label(e.place, a) \in DOMAIN B
    BY <1>1, <1>2, ByIdIs
<1>5. /\ \A x \in DOMAIN B : \E i \in 1 .. Len(arcs) : x = Label(e.place, arcs[i])
      /\ \A i \in 1 .. Len(arcs) : Label(e.place, arcs[i]) \in DOMAIN B
    BY <1>3, <1>4
<1>6. QED
    BY <1>5 DEF B, arcs

(***************************************************************************)
(* The nodes behind the first n.                                           *)
(***************************************************************************)
IdsAfter(nodes, n) == {nodes[k].id : k \in n + 1 .. Len(nodes)}

(***************************************************************************)
(* The nodes behind the first ones have arcs, to each other only.          *)
(***************************************************************************)
LinkedAfter(e, base, n) ==
    /\ \A t \in n + 1 .. Len(e.transition) :
            /\ Len(e.input_n[t]) # 0 \/ Len(e.output_n[t]) # 0
            /\ \A field \in {"input_n", "output_n"} : \A i \in 1 .. Len(e[field][t]) :
                    e[field][t][i][1] \in base + 1 .. Len(e.place)
    /\ \A q \in base + 1 .. Len(e.place) :
            \E t \in n + 1 .. Len(e.transition), field \in {"input_n", "output_n"} :
                \E i \in 1 .. Len(e[field][t]) : e[field][t][i][1] = q

(***************************************************************************)
(* They are connected in the net.                                          *)
(***************************************************************************)
LEMMA LinkedConnected ==
    ASSUME NEW e, Told(e), NEW base \in Nat, NEW n \in Nat, LinkedAfter(e, base, n)
    PROVE  Graph!Connected(NetOf(e).transition, IdsAfter(e.place, base), IdsAfter(e.transition, n))
<1> DEFINE transition == NetOf(e).transition
<1> DEFINE places == IdsAfter(e.place, base)
<1> DEFINE transitions == IdsAfter(e.transition, n)
<1> DEFINE Fields == {"input_n", "output_n"}
<1>1. SideOf("input_n") = "consumes" /\ SideOf("output_n") = "produces"
    BY DEF SideOf
<1>2. \A side \in Graph!Side : \E field \in Fields : side = SideOf(field)
    BY <1>1 DEF Graph!Side
<1>3. \A field \in Fields : SideOf(field) \in Graph!Side
    BY <1>1 DEF Graph!Side
<1>4. Len(e.transition) \in Nat /\ Len(e.place) \in Nat
    BY SeqElim DEF Told, Distinct
<1>5. \A t \in n + 1 .. Len(e.transition) : t \in 1 .. Len(e.transition)
    BY <1>4
<1>6. ASSUME NEW t \in n + 1 .. Len(e.transition), NEW field \in Fields
      PROVE  LET B == transition[e.transition[t].id][SideOf(field)]
             IN  /\ \A x \in DOMAIN B : x[1] \in places
                 /\ Len(e[field][t]) # 0 => DOMAIN B # {}
    <2> DEFINE B == transition[e.transition[t].id][SideOf(field)]
    <2>1. /\ \A x \in DOMAIN B : \E i \in 1 .. Len(e[field][t]) : x = Label(e.place, e[field][t][i])
          /\ \A i \in 1 .. Len(e[field][t]) : Label(e.place, e[field][t][i]) \in DOMAIN B
        BY <1>5, ArcEnds
    <2>2. IsSeq(e[field][t]) /\ Len(e[field][t]) \in Nat
        BY <1>5, ArcsAre
    <2> HIDE DEF B, transition
    <2>3. ASSUME NEW x \in DOMAIN B
          PROVE  x[1] \in places
        <3>1. PICK i \in 1 .. Len(e[field][t]) : x = Label(e.place, e[field][t][i])
            BY <2>1
        <3>2. e[field][t][i][1] \in base + 1 .. Len(e.place)
            BY DEF LinkedAfter
        <3>3. x[1] = e.place[e[field][t][i][1]].id
            BY <3>1 DEF Label
        <3>4. QED
            BY <3>2, <3>3 DEF IdsAfter
    <2>4. Len(e[field][t]) # 0 => DOMAIN B # {}
        <3>1. SUFFICES ASSUME Len(e[field][t]) # 0 PROVE DOMAIN B # {}
            OBVIOUS
        <3>2. 1 \in 1 .. Len(e[field][t])
            BY <3>1, <2>2
        <3>3. QED
            BY <3>2, <2>1
    <2>5. QED
        BY <2>3, <2>4 DEF B
<1>7. ASSUME NEW t \in transitions
      PROVE  LET arcs == UNION {Graph!BagToSet(transition[t][side]) : side \in Graph!Side}
             IN  arcs # {} /\ \A a \in arcs : a[1] \in places
    <2>1. PICK k \in n + 1 .. Len(e.transition) : t = e.transition[k].id
        BY DEF IdsAfter
    <2>2. PICK field \in Fields : Len(e[field][k]) # 0
        BY DEF LinkedAfter
    <2>3. DOMAIN transition[t][SideOf(field)] # {}
        BY <2>1, <2>2, <1>6
    <2>4. \A side \in Graph!Side : \A a \in DOMAIN transition[t][side] : a[1] \in places
        <3>1. ASSUME NEW side \in Graph!Side, NEW a \in DOMAIN transition[t][side]
              PROVE  a[1] \in places
            <4>1. PICK f \in Fields : side = SideOf(f)
                BY <1>2
            <4>2. QED
                BY <4>1, <2>1, <3>1, <1>6
        <3>2. QED
            BY <3>1
    <2>5. SideOf(field) \in Graph!Side
        BY <1>3
    <2>6. \A side \in Graph!Side : Graph!BagToSet(transition[t][side]) = DOMAIN transition[t][side]
        BY GraphBags
    <2> HIDE DEF transition, places
    <2>7. QED
        BY <2>3, <2>4, <2>5, <2>6
<1>8. ASSUME NEW x \in places
      PROVE  \E t \in transitions, side \in Graph!Side, c \in Token :
                Graph!BagIn(<<x, c>>, transition[t][side])
    <2>1. PICK q \in base + 1 .. Len(e.place) : x = e.place[q].id
        BY DEF IdsAfter
    <2>2. PICK k \in n + 1 .. Len(e.transition), field \in Fields :
            \E i \in 1 .. Len(e[field][k]) : e[field][k][i][1] = q
        BY DEF LinkedAfter
    <2>3. PICK i \in 1 .. Len(e[field][k]) : e[field][k][i][1] = q
        BY <2>2
    <2>4. Label(e.place, e[field][k][i]) \in DOMAIN transition[e.transition[k].id][SideOf(field)]
        BY <1>5, ArcEnds
    <2>5. Label(e.place, e[field][k][i]) = <<x, e[field][k][i][2]>>
        BY <2>1, <2>3 DEF Label
    <2>6. e[field][k][i][2] \in Token
        BY <1>5, ArcsAre DEF Coloured
    <2>7. e.transition[k].id \in transitions
        BY DEF IdsAfter
    <2>8. Graph!BagIn(<<x, e[field][k][i][2]>>, transition[e.transition[k].id][SideOf(field)])
        BY <2>4, <2>5, GraphBags
    <2> HIDE DEF transition, transitions
    <2>9. QED
        BY <2>6, <2>7, <2>8, <1>3
<1> HIDE DEF transition, places, transitions
<1>9. Graph!Connected(transition, places, transitions)
    BY <1>7, <1>8 DEF Graph!Connected
<1>10. QED
    BY <1>9 DEF transition, places, transitions

(***************************************************************************)
(* The tokens of the net are at its places.                                *)
(***************************************************************************)
LEMMA ToldAtPlaces ==
    ASSUME NEW e, Told(e)
    PROVE  Graph!AtPlaces(NetOf(e))
<1>1. /\ DOMAIN NetOf(e).place = {e.place[p].id : p \in 1 .. Len(e.place)}
      /\ NetOf(e).marking = ById(e.place, e.tokens)
    BY NetIs
<1>2. \A x \in DOMAIN ById(e.place, e.tokens) : \E a \in DOMAIN e.tokens : x = Label(e.place, a)
    BY ByIdIs DEF Told
<1>3. \A a \in DOMAIN e.tokens : a[1] \in 1 .. Len(e.place)
    BY DEF Told, Marks
<1>4. ASSUME NEW x \in DOMAIN NetOf(e).marking
      PROVE  x[1] \in DOMAIN NetOf(e).place
    <2>1. PICK a \in DOMAIN e.tokens : x = Label(e.place, a)
        BY <1>1, <1>2, <1>4
    <2>2. x[1] = e.place[a[1]].id
        BY <2>1 DEF Label
    <2>3. QED
        BY <2>2, <1>1, <1>3
<1>5. Graph!BagToSet(NetOf(e).marking) = DOMAIN NetOf(e).marking
    BY GraphBags
<1>6. QED
    BY <1>4, <1>5 DEF Graph!AtPlaces

(***************************************************************************)
(* A file that replaces the document: new nodes, all of them connected.    *)
(***************************************************************************)
LEMMA ClearNet ==
    ASSUME NEW e, Told(e), NEW p, ParsedTold(p), NEW file
    PROVE  LET r == clearInstaller(p, file, e)
           IN  Told(r) /\ Graph!Replace(NetOf(e), NetOf(r))
<1> DEFINE r == clearInstaller(p, file, e)
<1>1. /\ r.place = Arriving(p.place, e.place)
      /\ r.transition = Arriving(p.transition, e.transition)
      /\ r.input_n = p.input_n /\ r.output_n = p.output_n
      /\ r.output = p.output /\ r.tokens = p.tokens
    BY DEF clearInstaller, Told, Structure, EmptyDocument
<1>2. Structure(r)
    BY ClearInstallerSound DEF Told, ParsedTold
<1> HIDE DEF r
<1>3. IsSeq(p.place) /\ IsSeq(p.transition) /\ Distinct(e.place) /\ Distinct(e.transition)
    BY DEF ParsedTold, ParsedSound, Told
<1>4. /\ Distinct(r.place) /\ Len(r.place) = Len(p.place)
      /\ \A j \in 1 .. Len(e.place), k \in 1 .. Len(p.place) : r.place[k].id # e.place[j].id
    BY <1>1, <1>3, ArrivingDistinct, SMTT(60), ZenonT(60)
<1>5. /\ Distinct(r.transition) /\ Len(r.transition) = Len(p.transition)
      /\ \A j \in 1 .. Len(e.transition), k \in 1 .. Len(p.transition) : r.transition[k].id # e.transition[j].id
    BY <1>1, <1>3, ArrivingDistinct, SMTT(60), ZenonT(60)
<1>6. Told(r)
    <2>1. \A t \in 1 .. Len(r.transition) :
            Coloured(r.input_n[t]) /\ Coloured(r.output_n[t]) /\ r.output[t] \in Token
        BY <1>1, <1>5 DEF ParsedTold
    <2>2. Marks(r.tokens, Len(r.place))
        BY <1>1, <1>4 DEF ParsedTold
    <2>3. QED
        BY <1>2, <1>4, <1>5, <2>1, <2>2 DEF Told
<1>7. /\ DOMAIN NetOf(e).place = {e.place[i].id : i \in 1 .. Len(e.place)}
      /\ DOMAIN NetOf(e).transition = {e.transition[i].id : i \in 1 .. Len(e.transition)}
    BY NetIs
<1>8. /\ DOMAIN NetOf(r).place = {r.place[i].id : i \in 1 .. Len(r.place)}
      /\ DOMAIN NetOf(r).transition = {r.transition[i].id : i \in 1 .. Len(r.transition)}
    BY <1>6, NetIs
<1>9. DOMAIN NetOf(r).place \cap DOMAIN NetOf(e).place = {}
    BY <1>4, <1>7, <1>8
<1>10. DOMAIN NetOf(r).transition \cap DOMAIN NetOf(e).transition = {}
    BY <1>5, <1>7, <1>8
<1>11. IdsAfter(r.place, 0) = DOMAIN NetOf(r).place /\ IdsAfter(r.transition, 0) = DOMAIN NetOf(r).transition
    BY <1>8 DEF IdsAfter
<1>12. LinkedAfter(r, 0, 0)
    <2>1. \A t \in 1 .. Len(r.transition) : \A field \in {"input_n", "output_n"} :
            \A i \in 1 .. Len(r[field][t]) : r[field][t][i][1] \in 1 .. Len(r.place)
        <3>1. \A t \in 1 .. Len(r.transition) : \A field \in {"input_n", "output_n"} : ArcsTo(r[field][t], Len(r.place))
            BY <1>6, ArcsAre
        <3>2. QED
            BY <3>1 DEF ArcsTo
    <2>2. \A t \in 1 .. Len(r.transition) : Len(r.input_n[t]) # 0 \/ Len(r.output_n[t]) # 0
        BY <1>1, <1>5 DEF ParsedTold
    <2>3. \A q \in 1 .. Len(r.place) : \E t \in 1 .. Len(r.transition), field \in {"input_n", "output_n"} :
            \E i \in 1 .. Len(r[field][t]) : r[field][t][i][1] = q
        <3>1. \A field \in {"input_n", "output_n"} : r[field] = p[field]
            BY <1>1
        <3>2. \A q \in 1 .. Len(p.place) : \E t \in 1 .. Len(p.transition), field \in {"input_n", "output_n"} :
                \E i \in 1 .. Len(p[field][t]) : p[field][t][i][1] = q
            BY DEF ParsedTold
        <3>3. ASSUME NEW q \in 1 .. Len(p.place)
              PROVE  \E t \in 1 .. Len(p.transition), field \in {"input_n", "output_n"} :
                        \E i \in 1 .. Len(r[field][t]) : r[field][t][i][1] = q
            <4>1. PICK t \in 1 .. Len(p.transition), field \in {"input_n", "output_n"} :
                    \E i \in 1 .. Len(p[field][t]) : p[field][t][i][1] = q
                BY <3>2
            <4>2. r[field] = p[field]
                BY <3>1
            <4>3. \E i \in 1 .. Len(r[field][t]) : r[field][t][i][1] = q
                BY <4>1, <4>2
            <4>4. QED
                BY <4>3
        <3>4. QED
            BY <3>3, <1>4, <1>5
    <2>4. 0 + 1 = 1
        OBVIOUS
    <2>5. QED
        BY <2>1, <2>2, <2>3, <2>4 DEF LinkedAfter
<1>13. Graph!Connected(NetOf(r).transition, DOMAIN NetOf(r).place, DOMAIN NetOf(r).transition)
    BY <1>6, <1>11, <1>12, LinkedConnected
<1>14. Graph!AtPlaces(NetOf(r))
    BY <1>6, ToldAtPlaces
<1>15. Graph!Replace(NetOf(e), NetOf(r))
    BY <1>9, <1>10, <1>13, <1>14 DEF Graph!Replace
<1>16. QED
    BY <1>6, <1>15 DEF r

(***************************************************************************)
(* The tokens of an appended net are at the places behind the first ones.  *)
(***************************************************************************)
LEMMA OffsetMarks ==
    ASSUME NEW n \in Nat, NEW base \in Nat, NEW tokens, Marks(tokens, n)
    PROVE  /\ Marks(OffsetTokens(tokens, base), base + n)
           /\ \A a \in DOMAIN OffsetTokens(tokens, base) : a[1] > base
<1> DEFINE B == OffsetTokens(tokens, base)
<1> DEFINE S == {<<b[1] + base, b[2]>> : b \in DOMAIN tokens}
<1>1. IsFcn(B) /\ DOMAIN B = S /\ \A a \in S : B[a] = tokens[<<a[1] - base, a[2]>>]
    BY DEF OffsetTokens, IsFcn
<1>2. \A b \in DOMAIN tokens : b[1] \in 1 .. n /\ b[2] \in Token /\ b = <<b[1], b[2]>> /\ tokens[b] \in Nat
    BY DEF Marks
<1> HIDE DEF B
<1>3. ASSUME NEW a \in DOMAIN B
      PROVE  a \in (1 .. base + n) \X Token /\ B[a] \in Nat /\ a[1] > base
    <2>1. PICK b \in DOMAIN tokens : a = <<b[1] + base, b[2]>>
        BY <1>1, <1>3
    <2>2. b[1] \in 1 .. n /\ b[2] \in Token /\ b = <<b[1], b[2]>> /\ tokens[b] \in Nat
        BY <1>2
    <2>3. a[1] = b[1] + base /\ a[2] = b[2]
        BY <2>1
    <2>4. a[1] - base = b[1] /\ a[1] \in 1 .. base + n /\ a[1] > base
        BY <2>2, <2>3
    <2>5. <<a[1] - base, a[2]>> = b
        BY <2>2, <2>3, <2>4
    <2>6. B[a] = tokens[b]
        BY <2>5, <1>1
    <2>7. a \in (1 .. base + n) \X Token
        BY <2>1, <2>2, <2>3, <2>4
    <2>8. QED
        BY <2>2, <2>4, <2>6, <2>7
<1>4. QED
    BY <1>1, <1>3 DEF Marks, B

(***************************************************************************)
(* What the append installer does to each list.                            *)
(***************************************************************************)
Appended(e, p, r) ==
    LET base == Len(e.place)
        n == Len(e.transition)
    IN  /\ Len(r.place) = base + Len(p.place)
        /\ Len(r.transition) = n + Len(p.transition)
        /\ r.place = e.place \o Arriving(p.place, e.place)
        /\ r.transition = e.transition \o Arriving(p.transition, e.transition)
        /\ r.tokens = e.tokens (+) OffsetTokens(p.tokens, base)
        /\ \A k \in 1 .. base : r.p_positions[k] = e.p_positions[k]
        /\ \A f \in {"t_positions", "priority", "output", "input_n", "output_n"} :
                \A t \in 1 .. n : r[f][t] = e[f][t]
        /\ \A t \in 1 .. Len(p.transition) : r.output[n + t] = p.output[t]
        /\ \A t \in 1 .. Len(p.transition), f \in {"input_n", "output_n"} :
                /\ Len(r[f][n + t]) = Len(p[f][t])
                /\ \A i \in 1 .. Len(p[f][t]) :
                        r[f][n + t][i][1] = p[f][t][i][1] + base /\ r[f][n + t][i][2] = p[f][t][i][2]
(***************************************************************************)
(* s and then t, element by element.                                       *)
(***************************************************************************)
Joins(u, s, t) ==
    /\ Len(u) = Len(s) + Len(t)
    /\ \A i \in 1 .. Len(s) : u[i] = s[i]
    /\ \A i \in 1 .. Len(t) : u[Len(s) + i] = t[i]

(***************************************************************************)
(* Concatenation does that.                                                *)
(***************************************************************************)
LEMMA JoinsIs ==
    ASSUME NEW s, NEW t, IsSeq(s), IsSeq(t)
    PROVE  Joins(s \o t, s, t)
BY SeqConcat DEF Joins

(***************************************************************************)
(* The append installer does that.                                         *)
(***************************************************************************)
LEMMA AppendLists ==
    ASSUME NEW e, Told(e), NEW p, ParsedTold(p), NEW file
    PROVE  Appended(e, p, appendInstaller(p, file, e))
<1> DEFINE r == appendInstaller(p, file, e)
<1> DEFINE base == Len(e.place)
<1> DEFINE n == Len(e.transition)
<1> DEFINE m == Len(p.transition)
<1> DEFINE offset(arcs) == [i \in DOMAIN arcs |-> <<arcs[i][1] + base, arcs[i][2]>>]
<1> DEFINE ins == [t \in DOMAIN p.input_n |-> offset(p.input_n[t])]
<1> DEFINE outs == [t \in DOMAIN p.output_n |-> offset(p.output_n[t])]
<1>1. /\ r.place = e.place \o Arriving(p.place, e.place)
      /\ r.transition = e.transition \o Arriving(p.transition, e.transition)
      /\ r.priority = e.priority \o p.priority
      /\ r.output = e.output \o p.output
      /\ r.input_n = e.input_n \o ins
      /\ r.output_n = e.output_n \o outs
      /\ r.t_positions = e.t_positions \o p.t_positions
      /\ r.p_positions = e.p_positions \o p.p_positions
      /\ r.tokens = e.tokens (+) OffsetTokens(p.tokens, base)
    BY DEF appendInstaller, Told, Structure, EmptyDocument
<1> HIDE DEF r
<1>2. /\ IsSeq(e.place) /\ IsSeq(e.p_positions) /\ Len(e.p_positions) = base /\ base \in Nat
      /\ IsSeq(e.transition) /\ n \in Nat
      /\ IsSeq(e.t_positions) /\ Len(e.t_positions) = n
      /\ IsSeq(e.input_n) /\ Len(e.input_n) = n
      /\ IsSeq(e.output_n) /\ Len(e.output_n) = n
      /\ IsSeq(e.priority) /\ Len(e.priority) = n
      /\ IsSeq(e.output) /\ Len(e.output) = n
    BY SeqElim DEF Told, Structure, PerPlace, PerTransition
<1>3. /\ IsSeq(p.place) /\ IsSeq(p.p_positions) /\ Len(p.p_positions) = Len(p.place) /\ Len(p.place) \in Nat
      /\ IsSeq(p.transition) /\ m \in Nat
      /\ IsSeq(p.t_positions) /\ Len(p.t_positions) = m
      /\ IsSeq(p.input_n) /\ Len(p.input_n) = m /\ DOMAIN p.input_n = 1 .. m
      /\ IsSeq(p.output_n) /\ Len(p.output_n) = m /\ DOMAIN p.output_n = 1 .. m
      /\ IsSeq(p.priority) /\ Len(p.priority) = m
      /\ IsSeq(p.output) /\ Len(p.output) = m
    BY SeqElim DEF ParsedTold, ParsedSound
<1>4. /\ IsSeq(Arriving(p.place, e.place)) /\ Len(Arriving(p.place, e.place)) = Len(p.place)
      /\ IsSeq(Arriving(p.transition, e.transition)) /\ Len(Arriving(p.transition, e.transition)) = m
    BY <1>3, ArrivingFacts
<1>5. IsSeq(ins) /\ Len(ins) = m /\ IsSeq(outs) /\ Len(outs) = m
    <2>1. /\ DOMAIN ins = DOMAIN p.input_n /\ ins = [i \in DOMAIN ins |-> ins[i]]
          /\ DOMAIN outs = DOMAIN p.output_n /\ outs = [i \in DOMAIN outs |-> outs[i]]
        OBVIOUS
    <2> HIDE DEF ins, outs
    <2>2. QED
        BY <2>1, <1>3, SeqOver
<1>6. /\ Joins(r.place, e.place, Arriving(p.place, e.place))
      /\ Joins(r.transition, e.transition, Arriving(p.transition, e.transition))
      /\ Joins(r.priority, e.priority, p.priority)
      /\ Joins(r.output, e.output, p.output)
      /\ Joins(r.t_positions, e.t_positions, p.t_positions)
      /\ Joins(r.p_positions, e.p_positions, p.p_positions)
    BY <1>1, <1>2, <1>3, <1>4, JoinsIs
<1>7. Len(r.place) = base + Len(p.place) /\ Len(r.transition) = n + m
    BY <1>4, <1>6 DEF Joins
<1>8. \A k \in 1 .. base : r.p_positions[k] = e.p_positions[k]
    BY <1>2, <1>6 DEF Joins
<1>9. \A t \in 1 .. n : r.t_positions[t] = e.t_positions[t] /\ r.priority[t] = e.priority[t] /\ r.output[t] = e.output[t]
    BY <1>2, <1>6 DEF Joins
<1>10. \A t \in 1 .. m : r.output[n + t] = p.output[t]
    BY <1>2, <1>3, <1>6 DEF Joins
<1>11. \A t \in 1 .. m : ins[t] = offset(p.input_n[t]) /\ outs[t] = offset(p.output_n[t])
    BY <1>3
<1> HIDE DEF ins, outs
<1>12. \A t \in 1 .. n : r.input_n[t] = e.input_n[t] /\ r.output_n[t] = e.output_n[t]
    <2>1. Joins(r.input_n, e.input_n, ins) /\ Joins(r.output_n, e.output_n, outs)
        BY <1>1, <1>2, <1>5, JoinsIs
    <2>2. QED
        BY <2>1, <1>2 DEF Joins
<1>13. \A t \in 1 .. m : r.input_n[n + t] = ins[t] /\ r.output_n[n + t] = outs[t]
    <2>1. Joins(r.input_n, e.input_n, ins) /\ Joins(r.output_n, e.output_n, outs)
        BY <1>1, <1>2, <1>5, JoinsIs
    <2>2. QED
        BY <2>1, <1>2, <1>5 DEF Joins
<1>14. \A f \in {"t_positions", "priority", "output", "input_n", "output_n"} :
            \A t \in 1 .. n : r[f][t] = e[f][t]
    BY <1>9, <1>12
<1>15. ASSUME NEW arcs, IsSeq(arcs)
       PROVE  /\ Len(offset(arcs)) = Len(arcs)
              /\ \A i \in 1 .. Len(arcs) : offset(arcs)[i][1] = arcs[i][1] + base /\ offset(arcs)[i][2] = arcs[i][2]
    <2> DEFINE s == offset(arcs)
    <2>1. DOMAIN arcs = 1 .. Len(arcs)
        BY <1>15, SeqElim
    <2>2. DOMAIN s = DOMAIN arcs /\ s = [i \in DOMAIN s |-> s[i]]
          /\ \A i \in DOMAIN arcs : s[i] = <<arcs[i][1] + base, arcs[i][2]>>
        OBVIOUS
    <2> HIDE DEF s
    <2>3. Len(s) = Len(arcs)
        BY <1>15, <2>2, SeqOver
    <2>4. QED
        BY <2>1, <2>2, <2>3 DEF s
<1> HIDE DEF offset
<1>16. ASSUME NEW t \in 1 .. m, NEW f \in {"input_n", "output_n"}
       PROVE  /\ Len(r[f][n + t]) = Len(p[f][t])
              /\ \A i \in 1 .. Len(p[f][t]) :
                    r[f][n + t][i][1] = p[f][t][i][1] + base /\ r[f][n + t][i][2] = p[f][t][i][2]
    <2>1. IsSeq(p[f][t])
        <3>1. IsSeq(p.input_n[t]) /\ IsSeq(p.output_n[t])
            BY DEF ParsedTold, ParsedSound, ArcsSound, ArcsTo
        <3>2. QED
            BY <3>1
    <2>2. r[f][n + t] = offset(p[f][t])
        <3>1. r.input_n[n + t] = offset(p.input_n[t]) /\ r.output_n[n + t] = offset(p.output_n[t])
            BY <1>11, <1>13
        <3>2. QED
            BY <3>1
    <2>3. QED
        BY <2>1, <2>2, <1>15
<1>17. QED
    BY <1>1, <1>7, <1>8, <1>10, <1>14, <1>16 DEF Appended, r

(***************************************************************************)
(* The identities of the nodes in a list.                                  *)
(***************************************************************************)
IdsAre(S, nodes) == \A x : x \in S <=> \E k \in 1 .. Len(nodes) : x = nodes[k].id

(***************************************************************************)
(* The nodes that a list has more than another one that it begins with.    *)
(***************************************************************************)
LEMMA IdsBehind ==
    ASSUME NEW nodes, Distinct(nodes), NEW more, Distinct(more), Begins(nodes, more), NEW A, NEW B,
           IdsAre(A, nodes), IdsAre(B, more)
    PROVE  IdsAfter(more, Len(nodes)) = B \ A
<1> DEFINE L == IdsAfter(more, Len(nodes))
<1> DEFINE R == B \ A
<1>1. Len(nodes) \in Nat /\ Len(more) \in Nat /\ Len(nodes) <= Len(more)
    BY SeqElim DEF Distinct, Begins
<1>2. \A k \in 1 .. Len(nodes) : k \in 1 .. Len(more) /\ more[k].id = nodes[k].id
    BY <1>1 DEF Begins
<1>3. \A j, k \in 1 .. Len(more) : more[j].id = more[k].id => j = k
    BY DEF Distinct
<1>4. \A k \in Len(nodes) + 1 .. Len(more) : k \in 1 .. Len(more) /\ k \notin 1 .. Len(nodes)
    BY <1>1
<1>5. \A k \in 1 .. Len(more) : k \notin 1 .. Len(nodes) => k \in Len(nodes) + 1 .. Len(more)
    BY <1>1
<1>6. ASSUME NEW x \in L PROVE x \in R
    <2>1. PICK k \in Len(nodes) + 1 .. Len(more) : x = more[k].id
        BY DEF IdsAfter
    <2>2. \A j \in 1 .. Len(nodes) : nodes[j].id # x
        BY <2>1, <1>2, <1>3, <1>4
    <2>3. QED
        BY <2>1, <2>2, <1>4 DEF IdsAre
<1>7. ASSUME NEW x \in R PROVE x \in L
    <2>1. PICK k \in 1 .. Len(more) : x = more[k].id
        BY DEF IdsAre
    <2>2. k \notin 1 .. Len(nodes)
        BY <2>1, <1>2 DEF IdsAre
    <2>3. QED
        BY <2>1, <2>2, <1>5 DEF IdsAfter
<1> HIDE DEF L, R
<1>8. L = R
    BY <1>6, <1>7
<1>9. QED
    BY <1>8 DEF L, R

(***************************************************************************)
(* A file that is appended: what was there stays as it was, the rest is    *)
(* new and connected among itself.                                         *)
(***************************************************************************)
LEMMA AppendTold ==
    ASSUME NEW e, Told(e), NEW p, ParsedTold(p), NEW r, Structure(r), Appended(e, p, r)
    PROVE  /\ Told(r) /\ Begins(e.place, r.place) /\ Begins(e.transition, r.transition)
           /\ \A k \in 1 .. Len(e.place) : r.place[k] = e.place[k]
           /\ \A k \in 1 .. Len(e.transition) : r.transition[k] = e.transition[k]
           /\ \A q \in 1 .. Len(e.place), c \in Token : CountAt(<<q, c>>, r.tokens) = CountAt(<<q, c>>, e.tokens)
<1> DEFINE base == Len(e.place)
<1> DEFINE n == Len(e.transition)
<1> DEFINE m == Len(p.transition)
<1> DEFINE more == OffsetTokens(p.tokens, base)
<1>1. /\ Len(r.place) = base + Len(p.place) /\ Len(r.transition) = n + m
      /\ r.place = e.place \o Arriving(p.place, e.place)
      /\ r.transition = e.transition \o Arriving(p.transition, e.transition)
      /\ r.tokens = e.tokens (+) more
    BY DEF Appended
<1>2. /\ Distinct(e.place) /\ Distinct(e.transition) /\ IsSeq(p.place) /\ IsSeq(p.transition)
      /\ base \in Nat /\ n \in Nat /\ Len(p.place) \in Nat /\ m \in Nat
    BY SeqElim DEF Told, Distinct, ParsedTold, ParsedSound
<1>3. /\ Distinct(r.place) /\ Begins(e.place, r.place)
      /\ \A k \in 1 .. base : r.place[k] = e.place[k]
    <2> DEFINE new == Arriving(p.place, e.place)
    <2>1. Distinct(new) /\ Len(new) = Len(p.place)
          /\ \A j \in 1 .. Len(e.place), k \in 1 .. Len(p.place) : new[k].id # e.place[j].id
        BY <1>2, ArrivingDistinct
    <2>2. r.place = e.place \o new
        BY <1>1
    <2> HIDE DEF new
    <2>3. \A j \in 1 .. Len(e.place), k \in 1 .. Len(new) : new[k].id # e.place[j].id
        BY <2>1
    <2>4. /\ Distinct(e.place \o new) /\ Begins(e.place, e.place \o new)
          /\ \A k \in 1 .. Len(e.place) : (e.place \o new)[k] = e.place[k]
        BY <2>1, <2>3, <1>2, ArrivedDistinct
    <2>5. QED
        BY <2>2, <2>4
<1>4. /\ Distinct(r.transition) /\ Begins(e.transition, r.transition)
      /\ \A k \in 1 .. n : r.transition[k] = e.transition[k]
    <2> DEFINE new == Arriving(p.transition, e.transition)
    <2>1. Distinct(new) /\ Len(new) = Len(p.transition)
          /\ \A j \in 1 .. Len(e.transition), k \in 1 .. Len(p.transition) : new[k].id # e.transition[j].id
        BY <1>2, ArrivingDistinct
    <2>2. r.transition = e.transition \o new
        BY <1>1
    <2> HIDE DEF new
    <2>3. \A j \in 1 .. Len(e.transition), k \in 1 .. Len(new) : new[k].id # e.transition[j].id
        BY <2>1
    <2>4. /\ Distinct(e.transition \o new) /\ Begins(e.transition, e.transition \o new)
          /\ \A k \in 1 .. Len(e.transition) : (e.transition \o new)[k] = e.transition[k]
        BY <2>1, <2>3, <1>2, ArrivedDistinct, SMTT(60), ZenonT(60)
    <2>5. QED
        BY <2>2, <2>4
<1>5. Marks(e.tokens, Len(r.place)) /\ Marks(more, Len(r.place)) /\ \A a \in DOMAIN more : a[1] > base
    <2>1. Marks(e.tokens, Len(r.place))
        BY <1>2, <1>3, ByIdWiden DEF Told
    <2>2. Marks(p.tokens, Len(p.place))
        BY DEF ParsedTold
    <2>3. QED
        BY <1>1, <1>2, <2>1, <2>2, OffsetMarks
<1> HIDE DEF more
<1>6. Marks(r.tokens, Len(r.place))
    BY <1>1, <1>3, <1>5, ByIdPlus, SMTT(60), ZenonT(60)
<1>7. ASSUME NEW q \in 1 .. base, NEW c \in Token
      PROVE  CountAt(<<q, c>>, r.tokens) = CountAt(<<q, c>>, e.tokens)
    <2>1. <<q, c>> \notin DOMAIN more
        <3>1. q <= base /\ <<q, c>>[1] = q
            BY <1>2
        <3>2. QED
            BY <3>1, <1>2, <1>5
    <2>2. CountAt(<<q, c>>, more) = 0
        BY <2>1 DEF CountAt
    <2>3. CountAt(<<q, c>>, e.tokens) \in Nat
        BY <1>2, CountIs DEF Told
    <2>4. CountAt(<<q, c>>, r.tokens) = CountAt(<<q, c>>, e.tokens) + CountAt(<<q, c>>, more)
        BY <1>1, <2>2, <2>3, CountPlus
    <2>5. QED
        BY <2>2, <2>3, <2>4
<1>8. ASSUME NEW t \in 1 .. Len(r.transition)
      PROVE  Coloured(r.input_n[t]) /\ Coloured(r.output_n[t]) /\ r.output[t] \in Token
    <2>1. CASE t \in 1 .. n
        <3>1. r.input_n[t] = e.input_n[t] /\ r.output_n[t] = e.output_n[t] /\ r.output[t] = e.output[t]
            BY <2>1 DEF Appended
        <3>2. QED
            BY <2>1, <3>1 DEF Told
    <2>2. CASE t \notin 1 .. n
        <3> DEFINE u == t - n
        <3>0. \A a, b \in Nat : \A c \in 1 .. a + b : c \notin 1 .. a => c - a \in 1 .. b /\ c = a + (c - a)
            OBVIOUS
        <3>1. u \in 1 .. m /\ t = n + u
            BY <2>2, <3>0, <1>1, <1>2
        <3> HIDE DEF u
        <3>2. /\ Len(r.input_n[t]) = Len(p.input_n[u]) /\ Len(r.output_n[t]) = Len(p.output_n[u])
              /\ \A i \in 1 .. Len(p.input_n[u]) : r.input_n[t][i][2] = p.input_n[u][i][2]
              /\ \A i \in 1 .. Len(p.output_n[u]) : r.output_n[t][i][2] = p.output_n[u][i][2]
              /\ r.output[t] = p.output[u]
            BY <3>1 DEF Appended
        <3>3. /\ \A i \in 1 .. Len(p.input_n[u]) : p.input_n[u][i][2] \in Token
              /\ \A i \in 1 .. Len(p.output_n[u]) : p.output_n[u][i][2] \in Token
              /\ p.output[u] \in Token
            BY <3>1 DEF ParsedTold, Coloured
        <3>4. QED
            BY <3>2, <3>3 DEF Coloured
    <2>3. QED
        BY <2>1, <2>2
<1>9. Told(r)
    BY <1>3, <1>4, <1>6, <1>8 DEF Told
<1>10. QED
    BY <1>3, <1>4, <1>7, <1>9

(***************************************************************************)
(* What arrives is connected among itself.                                 *)
(***************************************************************************)
LEMMA AppendLinked ==
    ASSUME NEW e, Told(e), NEW p, ParsedTold(p), NEW r, Told(r), Appended(e, p, r)
    PROVE  LinkedAfter(r, Len(e.place), Len(e.transition))
<1> DEFINE base == Len(e.place)
<1> DEFINE n == Len(e.transition)
<1> DEFINE m == Len(p.transition)
<1> DEFINE Fields == {"input_n", "output_n"}
<1>1. Len(r.place) = base + Len(p.place) /\ Len(r.transition) = n + m
    BY DEF Appended
<1>2. base \in Nat /\ n \in Nat /\ Len(p.place) \in Nat /\ m \in Nat
    BY SeqElim DEF Told, Distinct, ParsedTold, ParsedSound
<1>3. ASSUME NEW t \in 1 .. m, NEW f \in Fields
      PROVE  /\ Len(r[f][n + t]) = Len(p[f][t])
             /\ \A i \in 1 .. Len(p[f][t]) : r[f][n + t][i][1] = p[f][t][i][1] + base
    <2>1. \A u \in 1 .. Len(p.transition), g \in {"input_n", "output_n"} :
            /\ Len(r[g][Len(e.transition) + u]) = Len(p[g][u])
            /\ \A i \in 1 .. Len(p[g][u]) :
                    /\ r[g][Len(e.transition) + u][i][1] = p[g][u][i][1] + Len(e.place)
                    /\ r[g][Len(e.transition) + u][i][2] = p[g][u][i][2]
        BY DEF Appended
    <2>2. QED
        BY <2>1
<1>4. \A t \in 1 .. m, f \in Fields : \A i \in 1 .. Len(p[f][t]) : p[f][t][i][1] \in 1 .. Len(p.place)
    <2>1. \A t \in 1 .. m : ArcsTo(p.input_n[t], Len(p.place)) /\ ArcsTo(p.output_n[t], Len(p.place))
        BY DEF ParsedTold, ParsedSound, ArcsSound
    <2>2. QED
        BY <2>1 DEF ArcsTo
<1>5. /\ \A t \in 1 .. m : Len(p.input_n[t]) # 0 \/ Len(p.output_n[t]) # 0
      /\ \A q \in 1 .. Len(p.place) : \E t \in 1 .. m, f \in Fields : \E i \in 1 .. Len(p[f][t]) : p[f][t][i][1] = q
    BY DEF ParsedTold
<1> HIDE DEF base, n, m
<1>6. ASSUME NEW t \in n + 1 .. Len(r.transition)
      PROVE  /\ Len(r.input_n[t]) # 0 \/ Len(r.output_n[t]) # 0
             /\ \A f \in Fields : \A i \in 1 .. Len(r[f][t]) : r[f][t][i][1] \in base + 1 .. Len(r.place)
    <2> DEFINE u == t - n
    <2>1. u \in 1 .. m /\ t = n + u
        BY <1>1, <1>2
    <2> HIDE DEF u
    <2>2. Len(r.input_n[t]) # 0 \/ Len(r.output_n[t]) # 0
        BY <2>1, <1>3, <1>5
    <2>3. ASSUME NEW f \in Fields, NEW i \in 1 .. Len(r[f][t])
          PROVE  r[f][t][i][1] \in base + 1 .. Len(r.place)
        <3>1. i \in 1 .. Len(p[f][u]) /\ r[f][t][i][1] = p[f][u][i][1] + base
            BY <2>1, <2>3, <1>3
        <3>2. p[f][u][i][1] \in 1 .. Len(p.place)
            BY <2>1, <3>1, <1>4
        <3>3. QED
            BY <3>1, <3>2, <1>1, <1>2, SMTT(60), ZenonT(60)
    <2>4. QED
        BY <2>2, <2>3
<1>7. ASSUME NEW q \in base + 1 .. Len(r.place)
      PROVE  \E t \in n + 1 .. Len(r.transition), f \in Fields :
                \E i \in 1 .. Len(r[f][t]) : r[f][t][i][1] = q
    <2> DEFINE x == q - base
    <2>1. x \in 1 .. Len(p.place) /\ q = x + base
        BY <1>1, <1>2
    <2> HIDE DEF x
    <2>2. PICK t \in 1 .. m, f \in Fields : \E i \in 1 .. Len(p[f][t]) : p[f][t][i][1] = x
        BY <2>1, <1>5
    <2>3. PICK i \in 1 .. Len(p[f][t]) : p[f][t][i][1] = x
        BY <2>2
    <2>4. n + t \in n + 1 .. Len(r.transition)
        BY <1>1, <1>2
    <2>5. i \in 1 .. Len(r[f][n + t]) /\ r[f][n + t][i][1] = q
        BY <2>1, <2>3, <1>3
    <2>6. QED
        BY <2>4, <2>5
<1>8. QED
    BY <1>6, <1>7 DEF LinkedAfter, base, n

(***************************************************************************)
(* `appendInstaller' appends.                                              *)
(***************************************************************************)
LEMMA AppendNet ==
    ASSUME NEW e, Told(e), NEW p, ParsedTold(p), NEW file
    PROVE  LET r == appendInstaller(p, file, e)
           IN  Told(r) /\ Graph!Append(NetOf(e), NetOf(r))
<1> DEFINE r == appendInstaller(p, file, e)
<1>1. Structure(r)
    BY AppendInstallerSound DEF Told, ParsedTold
<1>2. Appended(e, p, r)
    BY AppendLists
<1> HIDE DEF r
<1>3. /\ Told(r) /\ Begins(e.place, r.place) /\ Begins(e.transition, r.transition)
      /\ \A k \in 1 .. Len(e.place) : r.place[k] = e.place[k]
      /\ \A k \in 1 .. Len(e.transition) : r.transition[k] = e.transition[k]
      /\ \A q \in 1 .. Len(e.place), c \in Token : CountAt(<<q, c>>, r.tokens) = CountAt(<<q, c>>, e.tokens)
    BY <1>1, <1>2, AppendTold
<1>4. LinkedAfter(r, Len(e.place), Len(e.transition))
    BY <1>2, <1>3, AppendLinked
<1>5. Distinct(e.place) /\ Distinct(e.transition) /\ Distinct(r.place) /\ Distinct(r.transition)
    BY <1>3 DEF Told
<1>6. /\ DOMAIN NetOf(e).place = {e.place[k].id : k \in 1 .. Len(e.place)}
      /\ DOMAIN NetOf(e).transition = {e.transition[k].id : k \in 1 .. Len(e.transition)}
      /\ \A k \in 1 .. Len(e.place) : NetOf(e).place[e.place[k].id] = PlaceAt(e, k)
      /\ \A k \in 1 .. Len(e.transition) : NetOf(e).transition[e.transition[k].id] = TransitionAt(e, k)
      /\ NetOf(e).marking = ById(e.place, e.tokens)
    BY NetIs
<1>7. /\ DOMAIN NetOf(r).place = {r.place[k].id : k \in 1 .. Len(r.place)}
      /\ DOMAIN NetOf(r).transition = {r.transition[k].id : k \in 1 .. Len(r.transition)}
      /\ \A k \in 1 .. Len(r.place) : NetOf(r).place[r.place[k].id] = PlaceAt(r, k)
      /\ \A k \in 1 .. Len(r.transition) : NetOf(r).transition[r.transition[k].id] = TransitionAt(r, k)
      /\ NetOf(r).marking = ById(r.place, r.tokens)
    BY <1>3, NetIs
<1>8. /\ IdsAfter(r.place, Len(e.place)) = DOMAIN NetOf(r).place \ DOMAIN NetOf(e).place
      /\ IdsAfter(r.transition, Len(e.transition)) = DOMAIN NetOf(r).transition \ DOMAIN NetOf(e).transition
    <2>1. /\ IdsAre(DOMAIN NetOf(e).place, e.place)
          /\ IdsAre(DOMAIN NetOf(r).place, r.place)
        BY <1>6, <1>7 DEF IdsAre
    <2>2. /\ IdsAre(DOMAIN NetOf(e).transition, e.transition)
          /\ IdsAre(DOMAIN NetOf(r).transition, r.transition)
        BY <1>6, <1>7 DEF IdsAre
    <2>3. IdsAfter(r.place, Len(e.place)) = DOMAIN NetOf(r).place \ DOMAIN NetOf(e).place
        BY <2>1, <1>3, <1>5, IdsBehind
    <2>4. IdsAfter(r.transition, Len(e.transition)) = DOMAIN NetOf(r).transition \ DOMAIN NetOf(e).transition
        BY <2>2, <1>3, <1>5, IdsBehind
    <2>5. QED
        BY <2>3, <2>4
<1>9. Len(e.place) \in Nat /\ Len(e.transition) \in Nat /\ Len(r.place) \in Nat /\ Len(r.transition) \in Nat
      /\ Len(e.place) <= Len(r.place) /\ Len(e.transition) <= Len(r.transition)
    BY <1>3, <1>5, SeqElim DEF Distinct, Begins
<1>10. Graph!Connected(NetOf(r).transition, DOMAIN NetOf(r).place \ DOMAIN NetOf(e).place,
                       DOMAIN NetOf(r).transition \ DOMAIN NetOf(e).transition)
    BY <1>3, <1>4, <1>8, <1>9, LinkedConnected
<1>11. /\ \A k \in 1 .. Len(e.place) : k \in 1 .. Len(r.place)
       /\ \A k \in 1 .. Len(e.transition) : k \in 1 .. Len(r.transition)
    BY <1>9
<1>12. ASSUME NEW k \in 1 .. Len(e.place)
       PROVE  /\ e.place[k].id \in DOMAIN NetOf(r).place
              /\ NetOf(r).place[e.place[k].id] = NetOf(e).place[e.place[k].id]
    <2>1. r.place[k] = e.place[k] /\ r.p_positions[k] = e.p_positions[k]
        BY <1>2, <1>3 DEF Appended
    <2>2. PlaceAt(r, k) = PlaceAt(e, k)
        BY <2>1 DEF PlaceAt
    <2>3. QED
        BY <2>1, <2>2, <1>6, <1>7, <1>11
<1>13. ASSUME NEW k \in 1 .. Len(e.transition)
       PROVE  /\ e.transition[k].id \in DOMAIN NetOf(r).transition
              /\ NetOf(r).transition[e.transition[k].id] = NetOf(e).transition[e.transition[k].id]
    <2>1. /\ r.transition[k] = e.transition[k] /\ r.t_positions[k] = e.t_positions[k]
          /\ r.priority[k] = e.priority[k] /\ r.output[k] = e.output[k]
          /\ r.input_n[k] = e.input_n[k] /\ r.output_n[k] = e.output_n[k]
        BY <1>2, <1>3 DEF Appended
    <2>2. Marks(ArcBag(e.input_n[k]), Len(e.place)) /\ Marks(ArcBag(e.output_n[k]), Len(e.place))
        BY ArcsAre
    <2>3. /\ ById(r.place, ArcBag(e.input_n[k])) = ById(e.place, ArcBag(e.input_n[k]))
          /\ ById(r.place, ArcBag(e.output_n[k])) = ById(e.place, ArcBag(e.output_n[k]))
        BY <2>2, <1>3, <1>5, ByIdWiden
    <2>4. TransitionAt(r, k) = TransitionAt(e, k)
        BY <2>1, <2>3 DEF TransitionAt
    <2>5. QED
        BY <2>1, <2>4, <1>6, <1>7, <1>11
<1>14. Graph!Extends(NetOf(r).place, NetOf(e).place)
    BY <1>6, <1>12 DEF Graph!Extends
<1>15. Graph!Extends(NetOf(r).transition, NetOf(e).transition)
    BY <1>6, <1>13 DEF Graph!Extends
<1>16. ASSUME NEW x \in DOMAIN NetOf(e).place, NEW c \in Token
       PROVE  Graph!Count(<<x, c>>, NetOf(r).marking) = Graph!Count(<<x, c>>, NetOf(e).marking)
    <2>1. PICK k \in 1 .. Len(e.place) : x = e.place[k].id
        BY <1>6
    <2>2. Graph!Count(<<e.place[k].id, c>>, ById(e.place, e.tokens)) = CountAt(<<k, c>>, e.tokens)
        BY <1>5, CountIs DEF Told
    <2>3. Graph!Count(<<r.place[k].id, c>>, ById(r.place, r.tokens)) = CountAt(<<k, c>>, r.tokens)
        BY <1>3, <1>5, <1>11, CountIs DEF Told
    <2>4. r.place[k].id = e.place[k].id /\ CountAt(<<k, c>>, r.tokens) = CountAt(<<k, c>>, e.tokens)
        BY <1>3
    <2>5. QED
        BY <2>1, <2>2, <2>3, <2>4, <1>6, <1>7
<1>17. Graph!AtPlaces(NetOf(r))
    BY <1>3, ToldAtPlaces
<1>18. Graph!Append(NetOf(e), NetOf(r))
    BY <1>10, <1>14, <1>15, <1>16, <1>17 DEF Graph!Append
<1>19. QED
    BY <1>3, <1>18 DEF r

-----------------------------------------------------------------------------
(***************************************************************************)
(* Saving, and the documents of the program.                               *)
(***************************************************************************)

(***************************************************************************)
(* The document that the program starts with.                              *)
(***************************************************************************)
LEMMA EmptyTold == Told(EmptyDocument) /\ LinkedAfter(EmptyDocument, 0, 0)
<1> DEFINE e == EmptyDocument
<1>1. IsSeq(<< >>) /\ Len(<< >>) = 0
    BY DEF IsSeq
<1>2. e.place = << >> /\ e.transition = << >> /\ e.tokens = EmptyBag
    BY DEF EmptyDocument
<1>3. Structure(e)
    BY EmptyDocumentSound
<1> HIDE DEF e
<1>4. Len(e.place) = 0 /\ Len(e.transition) = 0
    BY <1>1, <1>2
<1>5. Distinct(e.place) /\ Distinct(e.transition)
    BY <1>1, <1>2, <1>4 DEF Distinct
<1>6. IsFcn(e.tokens) /\ DOMAIN e.tokens = {}
    BY <1>2 DEF EmptyBag, SetToBag, IsFcn
<1>7. Marks(e.tokens, Len(e.place))
    BY <1>6 DEF Marks
<1>8. Told(e)
    BY <1>3, <1>4, <1>5, <1>7 DEF Told
<1>9. LinkedAfter(e, 0, 0)
    BY <1>4 DEF LinkedAfter
<1>10. QED
    BY <1>8, <1>9 DEF e

(***************************************************************************)
(* The marking of a place that is saved has colours that there are.        *)
(***************************************************************************)
LEMMA MarksOfColored ==
    ASSUME NEW n, NEW tokens, Marks(tokens, n), NEW p
    PROVE  \E colors \in SUBSET Token : MarksOf(p, tokens) \in [colors -> Nat]
<1> DEFINE here == {a \in BagToSet(tokens) : a[1] = p}
<1> DEFINE colors == {a[2] : a \in here}
<1>1. \A a \in DOMAIN tokens : a = <<a[1], a[2]>> /\ a[2] \in Token /\ tokens[a] \in Nat
    BY DEF Marks
<1>2. \A a \in here : a \in DOMAIN tokens /\ a[1] = p
    BY DEF BagToSet
<1>3. MarksOf(p, tokens) = [c \in colors |-> tokens[<<p, c>>]]
    BY DEF MarksOf
<1> HIDE DEF here
<1>4. ASSUME NEW c \in colors
      PROVE  c \in Token /\ tokens[<<p, c>>] \in Nat
    <2>1. PICK a \in here : c = a[2]
        OBVIOUS
    <2>2. a \in DOMAIN tokens /\ a = <<p, c>>
        BY <2>1, <1>1, <1>2
    <2>3. QED
        BY <2>1, <2>2, <1>1
<1> HIDE DEF colors
<1>5. colors \in SUBSET Token /\ MarksOf(p, tokens) \in [colors -> Nat]
    BY <1>3, <1>4
<1>6. QED
    BY <1>5

(***************************************************************************)
(* Likewise for the arcs, hence for the file.                              *)
(***************************************************************************)
LEMMA ToXmlColored ==
    ASSUME NEW e, Told(e)
    PROVE  Colored(toXml(e))
<1> DEFINE x == toXml(e)
<1> DEFINE ins(t) == [i \in DOMAIN e.input_n[t] |->
            [source |-> e.place[e.input_n[t][i][1]].name, target |-> e.transition[t].name,
             color |-> e.input_n[t][i][2], times |-> 1]]
<1> DEFINE outs(t) == [i \in DOMAIN e.output_n[t] |->
            [source |-> e.transition[t].name, target |-> e.place[e.output_n[t][i][1]].name,
             color |-> e.output_n[t][i][2], times |-> 1]]
<1> DEFINE ss == [t \in DOMAIN e.transition |-> ins(t) \o outs(t)]
<1>1. IsSeq(e.transition) /\ DOMAIN e.transition = 1 .. Len(e.transition)
    BY SeqElim DEF Told, Distinct
<1>2. /\ DOMAIN x.places = DOMAIN e.place
      /\ \A i \in DOMAIN e.place : x.places[i].marks = MarksOf(i, e.tokens)
      /\ x.arcs = FlattenSeq(ss)
    BY DEF toXml
<1> HIDE DEF x
<1>3. ASSUME NEW t \in 1 .. Len(e.transition)
      PROVE  IsSeq(ss[t]) /\ \A j \in 1 .. Len(ss[t]) : ss[t][j].color \in Token
    <2> DEFINE a == ins(t)
    <2> DEFINE b == outs(t)
    <2>1. /\ IsSeq(e.input_n[t]) /\ IsSeq(e.output_n[t])
          /\ \A i \in 1 .. Len(e.input_n[t]) : e.input_n[t][i][2] \in Token
          /\ \A i \in 1 .. Len(e.output_n[t]) : e.output_n[t][i][2] \in Token
        BY DEF Told, Structure, ArcsSound, ArcsTo, Coloured
    <2>2. /\ DOMAIN a = DOMAIN e.input_n[t] /\ a = [i \in DOMAIN a |-> a[i]]
          /\ DOMAIN b = DOMAIN e.output_n[t] /\ b = [i \in DOMAIN b |-> b[i]]
          /\ \A i \in DOMAIN a : a[i].color = e.input_n[t][i][2]
          /\ \A i \in DOMAIN b : b[i].color = e.output_n[t][i][2]
        OBVIOUS
    <2>3. ss[t] = a \o b
        BY <1>1
    <2> HIDE DEF a, b, ss
    <2>4. IsSeq(a) /\ IsSeq(b) /\ Len(a) = Len(e.input_n[t]) /\ Len(b) = Len(e.output_n[t])
        BY <2>1, <2>2, SeqOver
    <2>5. DOMAIN a = 1 .. Len(a) /\ DOMAIN b = 1 .. Len(b)
        BY <2>4, SeqElim
    <2>6. IsSeq(a \o b)
        BY <2>4, SeqConcat
    <2>7. \A j \in 1 .. Len(a \o b) : \/ \E i \in 1 .. Len(a) : (a \o b)[j] = a[i]
                                      \/ \E i \in 1 .. Len(b) : (a \o b)[j] = b[i]
        BY <2>4, ConcatElements
    <2>8. /\ \A i \in 1 .. Len(a) : a[i].color \in Token
          /\ \A i \in 1 .. Len(b) : b[i].color \in Token
        BY <2>1, <2>2, <2>4, <2>5
    <2>9. QED
        BY <2>3, <2>6, <2>7, <2>8
<1>4. IsSeq(ss) /\ Len(ss) = Len(e.transition)
    <2>1. DOMAIN ss = DOMAIN e.transition /\ ss = [t \in DOMAIN ss |-> ss[t]]
        OBVIOUS
    <2> HIDE DEF ss
    <2>2. QED
        BY <2>1, <1>1, SeqOver
<1> HIDE DEF ss
<1>5. DrawnFrom(FlattenSeq(ss), ss)
    BY <1>3, <1>4, Flatten
<1>6. IsSeq(x.arcs) /\ \A k \in 1 .. Len(x.arcs) : x.arcs[k].color \in Token
    BY <1>2, <1>3, <1>4, <1>5 DEF DrawnFrom
<1>7. \A k \in DOMAIN x.arcs : x.arcs[k].color \in Token
    BY <1>6, SeqElim
<1>8. \A i \in DOMAIN x.places : \E colors \in SUBSET Token : x.places[i].marks \in [colors -> Nat]
    <2>1. ASSUME NEW i \in DOMAIN x.places
          PROVE  \E colors \in SUBSET Token : x.places[i].marks \in [colors -> Nat]
        <3> DEFINE marks == MarksOf(i, e.tokens)
        <3>1. PICK colors \in SUBSET Token : marks \in [colors -> Nat]
            BY MarksOfColored DEF Told
        <3>2. x.places[i].marks = marks
            BY <1>2
        <3> HIDE DEF marks
        <3>3. x.places[i].marks \in [colors -> Nat]
            BY <3>1, <3>2
        <3>4. QED
            BY <3>3
    <2>2. QED
        BY <2>1
<1>9. Colored(x)
    BY <1>7, <1>8 DEF Colored
<1>10. QED
    BY <1>9 DEF x

(***************************************************************************)
(* The net of a document that consists of linked nodes.                    *)
(***************************************************************************)
LEMMA EmptyNet ==
    DOMAIN NetOf(EmptyDocument).place = {} /\ DOMAIN NetOf(EmptyDocument).transition = {}
<1> DEFINE e == EmptyDocument
<1>1. /\ DOMAIN NetOf(e).place = {e.place[p].id : p \in 1 .. Len(e.place)}
      /\ DOMAIN NetOf(e).transition = {e.transition[t].id : t \in 1 .. Len(e.transition)}
    BY EmptyTold, NetIs
<1>2. e.place = << >> /\ e.transition = << >>
    BY DEF EmptyDocument
<1> HIDE DEF e
<1>3. Len(e.place) = 0 /\ Len(e.transition) = 0
    BY <1>2
<1>4. QED
    BY <1>1, <1>3 DEF e

(***************************************************************************)
(* Which file is active is not part of the net.                            *)
(***************************************************************************)
LEMMA UpdateActiveFileNet ==
    ASSUME NEW e, Told(e), NEW file
    PROVE  Told(updateActiveFile(file, e)) /\ NetOf(updateActiveFile(file, e)) = NetOf(e)
<1> DEFINE r == updateActiveFile(file, e)
<1>1. /\ r.place = e.place /\ r.transition = e.transition /\ r.tokens = e.tokens
      /\ r.p_positions = e.p_positions /\ r.t_positions = e.t_positions
      /\ r.input_n = e.input_n /\ r.output_n = e.output_n
      /\ r.priority = e.priority /\ r.output = e.output
    BY DEF updateActiveFile, Told, Structure, EmptyDocument
<1>2. Structure(r)
    BY UpdateActiveFileSound DEF Told
<1> HIDE DEF r
<1>3. Told(r)
    BY <1>1, <1>2 DEF Told
<1>4. NetOf(r) = NetOf(e)
    BY <1>1 DEF NetOf, PlacesOf, TransitionsOf
<1>5. QED
    BY <1>3, <1>4 DEF r

(***************************************************************************)
(* The colours in the files and in the popup.                              *)
(***************************************************************************)
FilesColored ==
    /\ \A f \in File : Colored(disk[f])
    /\ popup = NoPopup \/ Colored(popup.file)

(***************************************************************************)
(* The invariant under which the document denotes a net.                   *)
(***************************************************************************)
GraphInv == StructureInv /\ NoStraysAnywhere /\ Told(doc) /\ FilesColored

(***************************************************************************)
(* It holds at first, and what is loaded at the start is connected.        *)
(***************************************************************************)
LEMMA GraphInit ==
    ASSUME Init, \A f \in File : NoStrays(Disk[f])
    PROVE  GraphInv /\ Graph!Init
<1> USE EmptyTold, EmptyNet
<1>1. StructureInv /\ NoStraysAnywhere
    BY InitSound
<1>2. FilesColored
    BY DocumentAssumption DEF DocumentAssumption, Init, FilesColored
<1>3. Told(doc) /\ Graph!Connected(NetOf(doc).transition, DOMAIN NetOf(doc).place, DOMAIN NetOf(doc).transition)
    <2>1. CASE doc = EmptyDocument
        <3>1. IdsAfter(EmptyDocument.place, 0) = {} /\ IdsAfter(EmptyDocument.transition, 0) = {}
            BY DEF IdsAfter, EmptyDocument
        <3>2. Graph!Connected(NetOf(EmptyDocument).transition, IdsAfter(EmptyDocument.place, 0),
                              IdsAfter(EmptyDocument.transition, 0))
            BY LinkedConnected
        <3>3. QED
            BY <2>1, <3>1, <3>2
    <2>2. CASE \E f \in File : \E p \in parseNet(Disk[f]) : doc = appendInstaller(p, f, EmptyDocument)
        <3>1. PICK f \in File : \E p \in parseNet(Disk[f]) : doc = appendInstaller(p, f, EmptyDocument)
            BY <2>2
        <3>2. PICK p \in parseNet(Disk[f]) : doc = appendInstaller(p, f, EmptyDocument)
            BY <3>1
        <3>3. ParsedTold(p)
            BY ParseTold, DocumentAssumption DEF DocumentAssumption
        <3>4. Told(doc) /\ Graph!Append(NetOf(EmptyDocument), NetOf(doc))
            BY <3>2, <3>3, AppendNet
        <3>5. Graph!Connected(NetOf(doc).transition, DOMAIN NetOf(doc).place \ DOMAIN NetOf(EmptyDocument).place,
                              DOMAIN NetOf(doc).transition \ DOMAIN NetOf(EmptyDocument).transition)
            BY <3>4 DEF Graph!Append
        <3>6. \A S : S \ {} = S
            OBVIOUS
        <3>7. QED
            BY <3>4, <3>5, <3>6
    <2>3. QED
        BY <2>1, <2>2 DEF Init
<1>4. Graph!AtPlaces(NetOf(doc))
    BY <1>3, ToldAtPlaces
<1>5. QED
    BY <1>1, <1>2, <1>3, <1>4 DEF GraphInv, Graph!Init

(***************************************************************************)
(* What a step that edits the document has to do to the net.               *)
(***************************************************************************)
StepsNet == Told(doc') /\ Graph!Step(NetOf(doc), NetOf(doc'))

(***************************************************************************)
(* The nodes of the net are those of the document.                         *)
(***************************************************************************)
LEMMA NodesOfNet ==
    ASSUME NEW e, Told(e)
    PROVE  /\ \A p \in 1 .. Len(e.place) : e.place[p].id \in DOMAIN NetOf(e).place
           /\ \A t \in 1 .. Len(e.transition) : e.transition[t].id \in DOMAIN NetOf(e).transition
BY NetIs

(***************************************************************************)
(* Adding and removing nodes.                                              *)
(***************************************************************************)
LEMMA NodesStep ==
    ASSUME GraphInv, AddNode \/ RemovePlace \/ RemoveTransition
    PROVE  StepsNet
<1> USE Indices DEF GraphInv
<1>0. Told(doc)
    OBVIOUS
<1>1. CASE AddNode
    <2>1. doc' = addPlace(doc) \/ doc' = addTransition(doc)
        BY <1>1 DEF AddNode, Edit
    <2>2. CASE doc' = addPlace(doc)
        BY <2>2, AddPlaceNet DEF StepsNet, Graph!Step
    <2>3. CASE doc' = addTransition(doc)
        BY <2>3, AddTransitionNet DEF StepsNet, Graph!Step
    <2>4. QED
        BY <2>1, <2>2, <2>3
<1>2. CASE RemovePlace
    <2>1. PICK p \in 1 .. Len(doc.place) : doc' = removePlace(p, doc)
        BY <1>2 DEF RemovePlace, Edit
    <2>2. Told(doc') /\ Graph!RemovePlace(NetOf(doc), NetOf(doc'), doc.place[p].id)
        BY <2>1, RemovePlaceNet
    <2>3. doc.place[p].id \in DOMAIN NetOf(doc).place
        BY NodesOfNet
    <2>4. QED
        BY <2>2, <2>3 DEF StepsNet, Graph!Step
<1>3. CASE RemoveTransition
    <2>1. PICK t \in 1 .. Len(doc.transition) : doc' = removeTransition(t, doc)
        BY <1>3 DEF RemoveTransition, Edit
    <2>2. Told(doc') /\ Graph!RemoveTransition(NetOf(doc), NetOf(doc'), doc.transition[t].id)
        BY <2>1, RemoveTransitionNet
    <2>3. doc.transition[t].id \in DOMAIN NetOf(doc).transition
        BY NodesOfNet
    <2>4. QED
        BY <2>2, <2>3 DEF StepsNet, Graph!Step
<1>4. QED
    BY <1>1, <1>2, <1>3

(***************************************************************************)
(* A step of the net that changes an arc at place x and transition t.      *)
(***************************************************************************)
LEMMA ArcStep ==
    ASSUME NEW n, NEW m, NEW x \in DOMAIN n.place, NEW t \in DOMAIN n.transition,
           NEW side \in Graph!Side, NEW c \in Token,
           \/ Graph!Connect(n, m, t, side, <<x, c>>)
           \/ Graph!Disconnect(n, m, t, side, <<x, c>>)
           \/ \E d \in Token : Graph!Recolor(n, m, t, side, <<x, c>>, d)
    PROVE  Graph!Step(n, m)
BY DEF Graph!Step

(***************************************************************************)
(* A field of arcs is a side of the transition.                            *)
(***************************************************************************)
LEMMA Sides ==
    ASSUME NEW source
    PROVE  SideOf(ArcField(source)) \in Graph!Side
BY DEF SideOf, ArcField, Graph!Side

(***************************************************************************)
(* Edits of arcs.                                                          *)
(***************************************************************************)
LEMMA ArcsStep ==
    ASSUME GraphInv, AddArc \/ RemoveArc \/ UpdateArcColor
    PROVE  StepsNet
<1> USE Indices DEF GraphInv
<1>1. CASE AddArc
    <2>1. PICK source \in Source, p \in 1 .. Len(doc.place), t \in 1 .. Len(doc.transition), c \in Token :
            doc' = addArc(source, p, t, c, doc)
        BY <1>1 DEF AddArc, Edit
    <2>2. Told(doc') /\ Graph!Connect(NetOf(doc), NetOf(doc'), doc.transition[t].id, SideOf(ArcField(source)),
                                      <<doc.place[p].id, c>>)
        BY <2>1, AddArcNet DEF Source
    <2>3. doc.place[p].id \in DOMAIN NetOf(doc).place /\ doc.transition[t].id \in DOMAIN NetOf(doc).transition
        BY NodesOfNet
    <2>4. Graph!Step(NetOf(doc), NetOf(doc'))
        BY <2>2, <2>3, Sides, ArcStep
    <2>5. QED
        BY <2>2, <2>4 DEF StepsNet
<1>2. CASE RemoveArc
    <2>0. PICK source \in Source : \E a \in ArcIndices(source) : doc' = removeArc(source, a[1], a[2], doc)
        BY <1>2 DEF RemoveArc, Edit
    <2>1. PICK i \in ArcIndices(source) : doc' = removeArc(source, i[1], i[2], doc)
        BY <2>0
    <2>2. i[1] \in 1 .. Len(doc.transition) /\ i[2] \in DOMAIN doc[ArcField(source)][i[1]]
        BY DEF ArcIndices
    <2> DEFINE t == i[1]
    <2> DEFINE a == doc[ArcField(source)][i[1]][i[2]]
    <2>3. /\ a \in (1 .. Len(doc.place)) \X Token
          /\ Told(doc')
          /\ Graph!Disconnect(NetOf(doc), NetOf(doc'), doc.transition[t].id, SideOf(ArcField(source)),
                              Label(doc.place, a))
        BY <2>1, <2>2, RemoveArcNet
    <2> HIDE DEF a
    <2>4. Label(doc.place, a) = <<doc.place[a[1]].id, a[2]>> /\ a[1] \in 1 .. Len(doc.place) /\ a[2] \in Token
        BY <2>3 DEF Label
    <2>5. doc.place[a[1]].id \in DOMAIN NetOf(doc).place /\ doc.transition[t].id \in DOMAIN NetOf(doc).transition
        BY <2>2, <2>4, NodesOfNet
    <2>6. Graph!Step(NetOf(doc), NetOf(doc'))
        BY <2>3, <2>4, <2>5, Sides, ArcStep
    <2>7. QED
        BY <2>3, <2>6 DEF StepsNet
<1>3. CASE UpdateArcColor
    <2>0. PICK c \in Token : \E a \in ArcIndices("Place") : doc' = updateArcColor("Place", a[1], a[2], c, doc)
        BY <1>3 DEF UpdateArcColor, Edit
    <2>1. PICK i \in ArcIndices("Place") : doc' = updateArcColor("Place", i[1], i[2], c, doc)
        BY <2>0
    <2>2. i[1] \in 1 .. Len(doc.transition) /\ i[2] \in DOMAIN doc[ArcField("Place")][i[1]]
        BY DEF ArcIndices
    <2> DEFINE t == i[1]
    <2> DEFINE a == doc[ArcField("Place")][i[1]][i[2]]
    <2>3. /\ a \in (1 .. Len(doc.place)) \X Token
          /\ Told(doc')
          /\ Graph!Recolor(NetOf(doc), NetOf(doc'), doc.transition[t].id, SideOf(ArcField("Place")),
                           Label(doc.place, a), c)
        BY <2>1, <2>2, UpdateArcColorNet
    <2> HIDE DEF a
    <2>4. Label(doc.place, a) = <<doc.place[a[1]].id, a[2]>> /\ a[1] \in 1 .. Len(doc.place) /\ a[2] \in Token
        BY <2>3 DEF Label
    <2>5. doc.place[a[1]].id \in DOMAIN NetOf(doc).place /\ doc.transition[t].id \in DOMAIN NetOf(doc).transition
        BY <2>2, <2>4, NodesOfNet
    <2>6. Graph!Step(NetOf(doc), NetOf(doc'))
        BY <2>3, <2>4, <2>5, Sides, ArcStep
    <2>7. QED
        BY <2>3, <2>6 DEF StepsNet
<1>4. QED
    BY <1>1, <1>2, <1>3

(***************************************************************************)
(* Edits of names, positions, priorities and colours.                      *)
(***************************************************************************)
LEMMA ValuesStep ==
    ASSUME GraphInv, UpdateTransition \/ Rename \/ MoveNode
    PROVE  StepsNet
<1> USE Indices DEF GraphInv
<1>1. CASE UpdateTransition
    <2>1. PICK t \in 1 .. Len(doc.transition) :
            \/ \E n \in Typed : doc' = updatePriority(t, n, doc)
            \/ \E c \in Token : doc' = updateTransitionOutputColor(t, c, doc)
        BY <1>1 DEF UpdateTransition, Edit
    <2>2. Told(doc') /\ Graph!Relabel(NetOf(doc), NetOf(doc'), doc.transition[t].id)
        <3>1. CASE \E n \in Typed : doc' = updatePriority(t, n, doc)
            <4>1. PICK n \in Typed : doc' = updatePriority(t, n, doc)
                BY <3>1
            <4>2. n \in Int
                BY DocumentAssumption DEF DocumentAssumption
            <4>3. QED
                BY <4>1, <4>2, UpdatePriorityNet
        <3>2. CASE \E c \in Token : doc' = updateTransitionOutputColor(t, c, doc)
            BY <3>2, UpdateOutputColorNet
        <3>3. QED
            BY <2>1, <3>1, <3>2
    <2>3. doc.transition[t].id \in DOMAIN NetOf(doc).transition
        BY NodesOfNet
    <2>4. QED
        BY <2>2, <2>3 DEF StepsNet, Graph!Step
<1>2. CASE Rename
    <2>1. PICK name \in Name : \/ \E p \in 1 .. Len(doc.place) : doc' = updatePlaceName(p, name, doc)
                               \/ \E t \in 1 .. Len(doc.transition) : doc' = updateTransitionName(t, name, doc)
        BY <1>2 DEF Rename, Edit
    <2>2. CASE \E p \in 1 .. Len(doc.place) : doc' = updatePlaceName(p, name, doc)
        <3>1. PICK p \in 1 .. Len(doc.place) : doc' = updatePlaceName(p, name, doc)
            BY <2>2
        <3>2. Told(doc') /\ Graph!Rename(NetOf(doc), NetOf(doc'), doc.place[p].id)
            BY <3>1, UpdatePlaceNameNet
        <3>3. doc.place[p].id \in DOMAIN NetOf(doc).place
            BY NodesOfNet
        <3>4. QED
            BY <3>2, <3>3 DEF StepsNet, Graph!Step
    <2>3. CASE \E t \in 1 .. Len(doc.transition) : doc' = updateTransitionName(t, name, doc)
        <3>1. PICK t \in 1 .. Len(doc.transition) : doc' = updateTransitionName(t, name, doc)
            BY <2>3
        <3>2. Told(doc') /\ Graph!Relabel(NetOf(doc), NetOf(doc'), doc.transition[t].id)
            BY <3>1, UpdateTransitionNameNet
        <3>3. doc.transition[t].id \in DOMAIN NetOf(doc).transition
            BY NodesOfNet
        <3>4. QED
            BY <3>2, <3>3 DEF StepsNet, Graph!Step
    <2>4. QED
        BY <2>1, <2>2, <2>3
<1>3. CASE MoveNode
    <2>1. PICK ts, ps : doc' = moveNode(ts, ps, doc)
        BY <1>3 DEF MoveNode, Edit
    <2>2. Told(doc') /\ Graph!Move(NetOf(doc), NetOf(doc'))
        BY <2>1, MoveNodeNet
    <2>3. QED
        BY <2>2 DEF StepsNet, Graph!Step
<1>4. QED
    BY <1>1, <1>2, <1>3

(***************************************************************************)
(* Edits of the marking.                                                   *)
(***************************************************************************)
LEMMA TokensStep ==
    ASSUME GraphInv, AddTokenToPlace \/ RemoveTokenFromPlace \/ TryFire
    PROVE  StepsNet
<1> USE Indices DEF GraphInv
<1>1. CASE AddTokenToPlace
    <2>1. PICK p \in 1 .. Len(doc.place), c \in Token : doc' = addTokenToPlace(p, c, doc)
        BY <1>1 DEF AddTokenToPlace, Edit
    <2>2. Told(doc') /\ Graph!Put(NetOf(doc), NetOf(doc'), <<doc.place[p].id, c>>)
        BY <2>1, AddTokenNet
    <2>3. doc.place[p].id \in DOMAIN NetOf(doc).place
        BY NodesOfNet
    <2>4. QED
        BY <2>2, <2>3 DEF StepsNet, Graph!Step
<1>2. CASE RemoveTokenFromPlace
    <2>1. PICK a \in DOMAIN doc.tokens : doc' = removeTokenFromPlace(a[1], a[2], doc)
        BY <1>2 DEF RemoveTokenFromPlace, Edit, BagToSet
    <2>2. /\ a \in (1 .. Len(doc.place)) \X Token
          /\ Told(doc') /\ Graph!Take(NetOf(doc), NetOf(doc'), Label(doc.place, a))
        BY <2>1, RemoveTokenNet
    <2>3. Label(doc.place, a) = <<doc.place[a[1]].id, a[2]>> /\ a[1] \in 1 .. Len(doc.place) /\ a[2] \in Token
        BY <2>2 DEF Label
    <2>4. doc.place[a[1]].id \in DOMAIN NetOf(doc).place
        BY <2>3, NodesOfNet
    <2>5. QED
        BY <2>2, <2>3, <2>4 DEF StepsNet, Graph!Step
<1>3. CASE TryFire
    <2>1. PICK t \in 1 .. Len(doc.transition) : canFire(t, doc) /\ doc' = tryFire(t, doc)
        BY <1>3 DEF TryFire, Edit
    <2>2. Told(doc') /\ Graph!Fire(NetOf(doc), NetOf(doc'), doc.transition[t].id)
        BY <2>1, TryFireNet
    <2>3. doc.transition[t].id \in DOMAIN NetOf(doc).transition
        BY NodesOfNet
    <2>4. QED
        BY <2>2, <2>3 DEF StepsNet, Graph!Step
<1>4. QED
    BY <1>1, <1>2, <1>3

(***************************************************************************)
(* Loading a file.                                                         *)
(***************************************************************************)
LEMMA LoadStep ==
    ASSUME GraphInv, Load
    PROVE  StepsNet
<1>1. PICK f \in File : \E p \in parseNet(disk[f]) :
        \/ doc' = clearInstaller(p, f, doc)
        \/ doc' = appendInstaller(p, f, doc)
    BY DEF Load, Edit
<1>2. PICK p \in parseNet(disk[f]) :
        \/ doc' = clearInstaller(p, f, doc)
        \/ doc' = appendInstaller(p, f, doc)
    BY <1>1
<1>3. ParsedTold(p)
    BY ParseTold DEF GraphInv, StructureInv, FilesSound, NoStraysAnywhere, FilesColored
<1>4. CASE doc' = clearInstaller(p, f, doc)
    BY <1>3, <1>4, ClearNet DEF GraphInv, StepsNet, Graph!Step
<1>5. CASE doc' = appendInstaller(p, f, doc)
    BY <1>3, <1>5, AppendNet DEF GraphInv, StepsNet, Graph!Step
<1>6. QED
    BY <1>2, <1>4, <1>5

(***************************************************************************)
(* Every step keeps the invariant and is one of the net, or none.          *)
(***************************************************************************)
LEMMA GraphNext ==
    ASSUME KeepsStrays = FALSE, GraphInv, [Next]_vars
    PROVE  GraphInv' /\ (Graph!Step(NetOf(doc), NetOf(doc')) \/ NetOf(doc') = NetOf(doc))
<1>1. StructureInv' /\ NoStraysAnywhere'
    BY NextSound DEF GraphInv
<1>2. CASE \/ AddNode \/ RemovePlace \/ RemoveTransition \/ AddArc \/ RemoveArc \/ UpdateArcColor
           \/ UpdateTransition \/ Rename \/ MoveNode \/ AddTokenToPlace \/ RemoveTokenFromPlace \/ TryFire
    <2>1. StepsNet
        BY <1>2, NodesStep, ArcsStep, ValuesStep, TokensStep
    <2>2. disk' = disk /\ popup' = popup
        BY <1>2, EditKeepsFiles DEF EditAction
    <2>3. QED
        BY <1>1, <2>1, <2>2 DEF StepsNet, GraphInv, FilesColored
<1>3. CASE UpdateActiveFile
    <2>1. PICK f \in File : doc' = updateActiveFile(f, doc)
        BY <1>3 DEF UpdateActiveFile, Edit
    <2>2. disk' = disk /\ popup' = popup
        BY <1>3, EditKeepsFiles DEF EditAction
    <2>3. Told(doc') /\ NetOf(doc') = NetOf(doc)
        BY <2>1, UpdateActiveFileNet DEF GraphInv
    <2>4. QED
        BY <1>1, <2>2, <2>3 DEF GraphInv, FilesColored
<1>4. CASE Load
    <2>1. StepsNet
        BY <1>4, LoadStep
    <2>2. disk' = disk /\ popup' = popup
        BY <1>4 DEF Load, Edit
    <2>3. QED
        BY <1>1, <2>1, <2>2 DEF StepsNet, GraphInv, FilesColored
<1>5. CASE RequestSave
    <2>1. doc' = doc /\ disk' = disk /\ popup'.file = toXml(doc)
        BY <1>5 DEF RequestSave
    <2>2. Colored(popup'.file)
        BY <2>1, ToXmlColored DEF GraphInv
    <2>3. QED
        BY <1>1, <2>1, <2>2 DEF GraphInv, FilesColored
<1>6. CASE Save
    <2>1. /\ popup # NoPopup /\ popup' = NoPopup
          /\ disk' = [disk EXCEPT ![popup.path] = popup.file]
          /\ doc' = updateActiveFile(popup.path, doc)
        BY <1>6 DEF Save
    <2>2. Told(doc') /\ NetOf(doc') = NetOf(doc)
        BY <2>1, UpdateActiveFileNet DEF GraphInv
    <2>3. FilesColored'
        BY <2>1 DEF GraphInv, StructureInv, FilesSound, FilesColored
    <2>4. QED
        BY <1>1, <2>2, <2>3 DEF GraphInv
<1>7. CASE CancelSave
    BY <1>1, <1>7 DEF CancelSave, GraphInv, FilesColored
<1>8. CASE UNCHANGED vars
    BY <1>1, <1>8 DEF vars, GraphInv, FilesColored
<1>9. QED
    BY <1>2, <1>3, <1>4, <1>5, <1>6, <1>7, <1>8 DEF Next

(***************************************************************************)
(* The document denotes a net whose nodes have an identity, and each edit  *)
(* changes that net as its name says: however the indices of half a dozen  *)
(* vectors are shifted by removing, loading and appending, an arc or a     *)
(* token stays at the node it was made for.  The hypotheses are the ones   *)
(* of DocumentStaysSound.                                                  *)
(***************************************************************************)
THEOREM DocumentIsGraph ==
    ASSUME KeepsStrays = FALSE, \A f \in File : NoStrays(Disk[f])
    PROVE  Spec => ImplementsNetGraph
<1>1. Init => GraphInv /\ Graph!Init
    BY GraphInit
<1>2. GraphInv /\ [Next]_vars => GraphInv' /\ [Graph!Next]_Graph!vars
    <2>1. SUFFICES ASSUME GraphInv, [Next]_vars
                   PROVE  GraphInv' /\ [Graph!Next]_Graph!vars
        OBVIOUS
    <2>2. GraphInv' /\ (Graph!Step(NetOf(doc), NetOf(doc')) \/ NetOf(doc') = NetOf(doc))
        BY <2>1, GraphNext
    <2>3. QED
        BY <2>2 DEF Graph!Next, Graph!vars
<1>3. QED
    BY <1>1, <1>2, PTL DEF Spec, ImplementsNetGraph, Graph!Spec

-----------------------------------------------------------------------------
(***************************************************************************)
(* Saving and loading.                                                     *)
(***************************************************************************)

(***************************************************************************)
(* That is so when there are as many names as nodes.                       *)
(***************************************************************************)
LEMMA NamesApart ==
    ASSUME NEW e, IsSeq(e.place), IsSeq(e.transition), DistinctNames(e)
    PROVE  OwnNames(e)
<1> DEFINE n == Len(e.place)
<1> DEFINE m == Len(e.transition)
<1> DEFINE N == {e.place[p].name : p \in 1 .. n} \cup {e.transition[t].name : t \in 1 .. m}
<1> DEFINE f == [k \in 1 .. n + m |-> IF k <= n THEN e.place[k].name ELSE e.transition[k - n].name]
<1>1. n \in Nat /\ m \in Nat /\ DOMAIN e.place = 1 .. n /\ DOMAIN e.transition = 1 .. m
    BY SeqElim
<1>2. N = NamesOf(e.place) \cup NamesOf(e.transition)
    BY <1>1 DEF NamesOf
<1>3. Cardinality(N) = n + m
    BY <1>2 DEF DistinctNames
<1>4. /\ \A p \in 1 .. n : p \in 1 .. n + m /\ f[p] = e.place[p].name
      /\ \A t \in 1 .. m : n + t \in 1 .. n + m /\ f[n + t] = e.transition[t].name
    <2> HIDE DEF n, m
    <2>1. \A p \in 1 .. n : p \in 1 .. n + m /\ p <= n
        BY <1>1
    <2>2. \A t \in 1 .. m : n + t \in 1 .. n + m /\ ~(n + t <= n) /\ n + t - n = t
        BY <1>1
    <2>3. QED
        BY <2>1, <2>2, <1>1
<1>5. \A x \in N : (\E p \in 1 .. n : x = e.place[p].name) \/ (\E t \in 1 .. m : x = e.transition[t].name)
    OBVIOUS
<1>6. /\ \A p \in 1 .. n : e.place[p].name \in N
      /\ \A t \in 1 .. m : e.transition[t].name \in N
    OBVIOUS
<1> HIDE DEF N, n, m
<1>7. f \in Surjection(1 .. n + m, N)
    <2>1. ASSUME NEW k \in 1 .. n + m
          PROVE  f[k] \in N
        <3>1. k <= n => k \in 1 .. n
            BY <1>1
        <3>2. ~(k <= n) => k - n \in 1 .. m
            BY <1>1
        <3>3. QED
            BY <3>1, <3>2, <1>6
    <2>2. f \in [1 .. n + m -> N]
        BY <2>1
    <2> HIDE DEF f
    <2>3. \A x \in N : \E k \in 1 .. n + m : f[k] = x
        BY <1>4, <1>5
    <2>4. QED
        BY <2>2, <2>3 DEF Surjection
<1> HIDE DEF f
<1>8. IsFiniteSet(1 .. n + m) /\ Cardinality(1 .. n + m) = n + m
    <2> DEFINE k == n + m
    <2>1. k \in Nat
        BY <1>1
    <2> HIDE DEF k
    <2>2. 1 \in Int /\ k \in Int
        BY <2>1
    <2>3. IsFiniteSet(1 .. k) /\ Cardinality(1 .. k) = IF 1 > k THEN 0 ELSE k - 1 + 1
        BY <2>2, FS_Interval
    <2>4. IsFiniteSet(1 .. k) /\ Cardinality(1 .. k) = k
        BY <2>1, <2>3
    <2>5. QED
        BY <2>4 DEF k
<1>9. f \in Injection(1 .. n + m, N)
    BY <1>3, <1>7, <1>8, FS_Surjection
<1>10. \A i, j \in 1 .. n + m : f[i] = f[j] => i = j
    BY <1>9 DEF Injection, IsInjective
<1>11. \A p, q \in 1 .. n : e.place[p].name = e.place[q].name => p = q
    BY <1>4, <1>10
<1>12. \A t, u \in 1 .. m : e.transition[t].name = e.transition[u].name => t = u
    <2>1. ASSUME NEW t \in 1 .. m, NEW u \in 1 .. m, e.transition[t].name = e.transition[u].name
          PROVE  t = u
        <3>1. n + t = n + u
            BY <2>1, <1>4, <1>10
        <3>2. QED
            BY <3>1, <1>1
    <2>2. QED
        BY <2>1
<1>13. \A p \in 1 .. n, t \in 1 .. m : e.place[p].name # e.transition[t].name
    <2>1. ASSUME NEW p \in 1 .. n, NEW t \in 1 .. m, e.place[p].name = e.transition[t].name
          PROVE  FALSE
        <3>1. p = n + t
            BY <2>1, <1>4, <1>10
        <3>2. QED
            BY <3>1, <1>1
    <2>2. QED
        BY <2>1
<1>14. QED
    BY <1>11, <1>12, <1>13 DEF OwnNames, n, m

(***************************************************************************)
(* A transition, told by names.                                            *)
(***************************************************************************)
Row(e, t) ==
    <<e.transition[t].name, e.t_positions[t], ArcBag(ByName(e, e.input_n[t])), ArcBag(ByName(e, e.output_n[t]))>>

(***************************************************************************)
(* The net of a document is its places and those.                          *)
(***************************************************************************)
LEMMA NamedIs ==
    ASSUME NEW e, IsSeq(e.place), IsSeq(e.transition)
    PROVE  /\ Named(e).places = {<<e.place[p].name, e.p_positions[p]>> : p \in 1 .. Len(e.place)}
           /\ Named(e).transitions = {Row(e, t) : t \in 1 .. Len(e.transition)}
<1>1. DOMAIN e.place = 1 .. Len(e.place) /\ DOMAIN e.transition = 1 .. Len(e.transition)
    BY SeqElim
<1>2. Named(e).places = {<<e.place[p].name, e.p_positions[p]>> : p \in DOMAIN e.place}
    BY DEF Named
<1>3. Named(e).transitions = {Row(e, t) : t \in DOMAIN e.transition}
    BY DEF Named, Row, ByName
<1>4. QED
    BY <1>1, <1>2, <1>3

(***************************************************************************)
(* And its tokens, at the names of their places.                           *)
(***************************************************************************)
LEMMA NamedMarking ==
    ASSUME NEW e, IsSeq(e.place), Marks(e.tokens, Len(e.place)),
           \A p, q \in 1 .. Len(e.place) : e.place[p].name = e.place[q].name => p = q
    PROVE  LET M == Named(e).marking
               At(a) == <<e.place[a[1]].name, a[2]>>
           IN  /\ IsFcn(M)
               /\ \A x \in DOMAIN M : \E a \in DOMAIN e.tokens : x = At(a)
               /\ \A a \in DOMAIN e.tokens : At(a) \in DOMAIN M /\ M[At(a)] = e.tokens[a]
<1> DEFINE M == Named(e).marking
<1> DEFINE At(a) == <<e.place[a[1]].name, a[2]>>
<1> DEFINE Where(x) == CHOOSE p \in DOMAIN e.place : e.place[p].name = x[1]
<1>1. DOMAIN e.place = 1 .. Len(e.place)
    BY SeqElim
<1>2. \A a \in DOMAIN e.tokens : a = <<a[1], a[2]>> /\ a[1] \in 1 .. Len(e.place)
    BY DEF Marks
<1>3. /\ IsFcn(M) /\ DOMAIN M = {At(a) : a \in DOMAIN e.tokens}
      /\ \A x \in DOMAIN M : M[x] = e.tokens[<<Where(x), x[2]>>]
    BY DEF Named, BagToSet, IsFcn
<1>4. ASSUME NEW a \in DOMAIN e.tokens
      PROVE  At(a) \in DOMAIN M /\ M[At(a)] = e.tokens[a]
    <2>1. At(a) \in DOMAIN M
        BY <1>3
    <2>2. At(a)[1] = e.place[a[1]].name /\ At(a)[2] = a[2]
        OBVIOUS
    <2>3. Where(At(a)) = a[1]
        BY <2>2, <1>1, <1>2
    <2> HIDE DEF Where, At, M
    <2>4. M[At(a)] = e.tokens[<<a[1], a[2]>>]
        BY <2>1, <2>2, <2>3, <1>3
    <2>5. QED
        BY <2>1, <2>4, <1>2
<1>5. \A x \in DOMAIN M : \E a \in DOMAIN e.tokens : x = At(a)
    BY <1>3
<1> HIDE DEF M
<1>6. QED
    BY <1>3, <1>4, <1>5 DEF M

(***************************************************************************)
(* A bag of arcs is empty when there is none.                              *)
(***************************************************************************)
LEMMA EmptyArcBag ==
    ASSUME NEW s, IsSeq(s)
    PROVE  ArcBag(s) = EmptyBag <=> Len(s) = 0
<1>1. DOMAIN ArcBag(s) = {s[i] : i \in 1 .. Len(s)} /\ IsFcn(ArcBag(s))
    BY ArcBagIs
<1>2. DOMAIN EmptyBag = {} /\ IsFcn(EmptyBag)
    BY DEF EmptyBag, SetToBag, IsFcn
<1>3. Len(s) \in Nat
    BY SeqElim
<1>4. DOMAIN ArcBag(s) = {} <=> Len(s) = 0
    <2>1. Len(s) = 0 => 1 .. Len(s) = {}
        OBVIOUS
    <2>2. Len(s) # 0 => 1 \in 1 .. Len(s)
        BY <1>3
    <2>3. QED
        BY <2>1, <2>2, <1>1
<1>5. CASE DOMAIN ArcBag(s) = {}
    BY <1>1, <1>2, <1>4, <1>5, SameFcn
<1>6. CASE DOMAIN ArcBag(s) # {}
    BY <1>2, <1>4, <1>6
<1>7. QED
    BY <1>5, <1>6

(***************************************************************************)
(* The sides of a transition, told by names.                               *)
(***************************************************************************)
LEMMA RowIs ==
    ASSUME NEW e, Structure(e), NEW t \in 1 .. Len(e.transition)
    PROVE  /\ (ArcBag(ByName(e, e.input_n[t])) # EmptyBag \/ ArcBag(ByName(e, e.output_n[t])) # EmptyBag) <=> HasArcs(e, t)
           /\ \A name : (\E a \in DOMAIN ArcBag(ByName(e, e.input_n[t])) \cup DOMAIN ArcBag(ByName(e, e.output_n[t])) :
                            a[1] = name)
                        <=> \/ \E i \in 1 .. Len(e.input_n[t]) : e.place[e.input_n[t][i][1]].name = name
                            \/ \E i \in 1 .. Len(e.output_n[t]) : e.place[e.output_n[t][i][1]].name = name
<1>1. ASSUME NEW arcs, IsSeq(arcs)
      PROVE  /\ ArcBag(ByName(e, arcs)) # EmptyBag <=> Len(arcs) # 0
             /\ \A name : (\E a \in DOMAIN ArcBag(ByName(e, arcs)) : a[1] = name)
                            <=> \E i \in 1 .. Len(arcs) : e.place[arcs[i][1]].name = name
    <2> DEFINE list == ByName(e, arcs)
    <2>1. DOMAIN list = DOMAIN arcs /\ list = [i \in DOMAIN list |-> list[i]]
          /\ \A i \in DOMAIN arcs : list[i] = <<e.place[arcs[i][1]].name, arcs[i][2]>>
        BY DEF ByName
    <2> HIDE DEF list
    <2>2. IsSeq(list) /\ Len(list) = Len(arcs) /\ DOMAIN arcs = 1 .. Len(arcs)
        BY <1>1, <2>1, SeqOver, SeqElim
    <2>3. ArcBag(list) # EmptyBag <=> Len(arcs) # 0
        BY <2>2, EmptyArcBag
    <2>4. DOMAIN ArcBag(list) = {list[i] : i \in 1 .. Len(list)}
        BY <2>2, ArcBagIs
    <2>5. \A i \in 1 .. Len(arcs) : list[i][1] = e.place[arcs[i][1]].name
        BY <2>1, <2>2
    <2>6. \A name : (\E a \in DOMAIN ArcBag(list) : a[1] = name)
                        <=> \E i \in 1 .. Len(arcs) : e.place[arcs[i][1]].name = name
        BY <2>2, <2>4, <2>5
    <2>7. QED
        BY <2>3, <2>6 DEF list
<1>2. IsSeq(e.input_n[t]) /\ IsSeq(e.output_n[t])
    BY DEF Structure, ArcsSound, ArcsTo
<1> DEFINE ins == e.input_n[t]
<1> DEFINE outs == e.output_n[t]
<1>3. /\ ArcBag(ByName(e, ins)) # EmptyBag <=> Len(ins) # 0
      /\ \A name : (\E a \in DOMAIN ArcBag(ByName(e, ins)) : a[1] = name)
                        <=> \E i \in 1 .. Len(ins) : e.place[ins[i][1]].name = name
    BY <1>1, <1>2
<1>4. /\ ArcBag(ByName(e, outs)) # EmptyBag <=> Len(outs) # 0
      /\ \A name : (\E a \in DOMAIN ArcBag(ByName(e, outs)) : a[1] = name)
                        <=> \E i \in 1 .. Len(outs) : e.place[outs[i][1]].name = name
    BY <1>1, <1>2
<1>5. HasArcs(e, t) <=> Len(ins) # 0 \/ Len(outs) # 0
    BY DEF HasArcs
<1> HIDE DEF ins, outs
<1> DEFINE A == DOMAIN ArcBag(ByName(e, ins))
<1> DEFINE B == DOMAIN ArcBag(ByName(e, outs))
<1>6. \A name : (\E a \in A \cup B : a[1] = name) <=> (\E a \in A : a[1] = name) \/ (\E a \in B : a[1] = name)
    <2> HIDE DEF A, B
    <2>1. QED
        OBVIOUS
<1>7. (ArcBag(ByName(e, ins)) # EmptyBag \/ ArcBag(ByName(e, outs)) # EmptyBag) <=> HasArcs(e, t)
    BY <1>3, <1>4, <1>5
<1>8. \A name : (\E a \in A \cup B : a[1] = name)
                    <=> \/ \E i \in 1 .. Len(ins) : e.place[ins[i][1]].name = name
                        \/ \E i \in 1 .. Len(outs) : e.place[outs[i][1]].name = name
    BY <1>3, <1>4, <1>6
<1>9. QED
    BY <1>7, <1>8 DEF ins, outs

(***************************************************************************)
(* The transitions that come back are those with arcs, as they were.       *)
(***************************************************************************)
LEMMA TransitionsBack ==
    ASSUME NEW e, Structure(e), OwnNames(e), NEW p \in parseNet(toXml(e)), NEW r,
           \A q \in 1 .. Len(p.place) : r.place[q].name = p.place[q],
           Len(r.transition) = Len(p.transition),
           \A t \in 1 .. Len(p.transition) : r.transition[t].name = p.transition[t],
           r.t_positions = p.t_positions, r.input_n = p.input_n, r.output_n = p.output_n
    PROVE  /\ \A t \in 1 .. Len(r.transition) : \E u \in 1 .. Len(e.transition) : HasArcs(e, u) /\ Row(r, t) = Row(e, u)
           /\ \A u \in 1 .. Len(e.transition) : HasArcs(e, u) => \E t \in 1 .. Len(r.transition) : Row(r, t) = Row(e, u)
<1> DEFINE x == toXml(e)
<1> DEFINE net == NetIn(x)
<1> DEFINE m == Len(e.transition)
<1> DEFINE n == Len(p.transition)
<1>0. ParsedFrom(p, x)
    BY ParsedBack
<1>1. /\ \A y \in DOMAIN net : \E t \in 1 .. n : p.transition[t] = y
      /\ \A t \in 1 .. n : /\ p.transition[t] \in DOMAIN net
                           /\ p.t_positions[t] = PositionIn(x, p.transition[t])
                           /\ p.input_n[t] = LookupIn(PlacesIn(x), EndsIn(x, p.transition[t], TRUE))
                           /\ p.output_n[t] = LookupIn(PlacesIn(x), EndsIn(x, p.transition[t], FALSE))
    <2> HIDE DEF x
    <2>1. QED
        BY <1>0 DEF ParsedFrom
<1>2. \A q \in 1 .. Len(PlacesIn(x)) : r.place[q].name = PlacesIn(x)[q]
    BY <1>0 DEF ParsedFrom
<1>3. \A y \in DOMAIN net : \A consumes \in BOOLEAN :
            ByName(r, LookupIn(PlacesIn(x), EndsIn(x, y, consumes))) = EndsIn(x, y, consumes)
    BY <1>2, EndsByName
<1>4. /\ \A y \in DOMAIN net : \E t \in 1 .. m : y = e.transition[t].name
      /\ \A t \in 1 .. m : e.transition[t].name \in DOMAIN net <=> HasArcs(e, t)
    BY NetInSaved
<1>5. \A t \in 1 .. m : PositionIn(x, e.transition[t].name) = e.t_positions[t]
    BY PositionsSaved
<1>6. \A t \in 1 .. m : /\ ArcBag(EndsIn(x, e.transition[t].name, TRUE)) = ArcBag(ByName(e, e.input_n[t]))
                        /\ ArcBag(EndsIn(x, e.transition[t].name, FALSE)) = ArcBag(ByName(e, e.output_n[t]))
    <2>1. ASSUME NEW t \in 1 .. m
          PROVE  /\ ArcBag(EndsIn(x, e.transition[t].name, TRUE)) = ArcBag(ByName(e, e.input_n[t]))
                 /\ ArcBag(EndsIn(x, e.transition[t].name, FALSE)) = ArcBag(ByName(e, e.output_n[t]))
        <3>1. \A consumes \in BOOLEAN : ArcBag(EndsIn(x, e.transition[t].name, consumes))
                                            = ArcBag(ByName(e, IF consumes THEN e.input_n[t] ELSE e.output_n[t]))
            BY EndsSaved
        <3> HIDE DEF x
        <3>2. ArcBag(EndsIn(x, e.transition[t].name, TRUE)) = ArcBag(ByName(e, IF TRUE THEN e.input_n[t] ELSE e.output_n[t]))
            BY <3>1, Zenon
        <3>3. ArcBag(EndsIn(x, e.transition[t].name, FALSE)) = ArcBag(ByName(e, IF FALSE THEN e.input_n[t] ELSE e.output_n[t]))
            BY <3>1, Zenon
        <3>4. QED
            BY <3>2, <3>3
    <2>2. QED
        BY <2>1
<1> HIDE DEF x, net, m, n
<1>7. ASSUME NEW t \in 1 .. n, NEW u \in 1 .. m, p.transition[t] = e.transition[u].name
      PROVE  Row(r, t) = Row(e, u)
    <2> DEFINE y == e.transition[u].name
    <2>1. y \in DOMAIN net
        BY <1>1, <1>7
    <2>2. r.transition[t].name = y
        BY <1>7 DEF n
    <2>3. r.t_positions[t] = e.t_positions[u]
        <3>1. p.t_positions[t] = PositionIn(x, y)
            BY <1>1, <1>7
        <3>2. PositionIn(x, y) = e.t_positions[u]
            BY <1>5
        <3>3. QED
            BY <3>1, <3>2
    <2>4. /\ r.input_n[t] = LookupIn(PlacesIn(x), EndsIn(x, y, TRUE))
          /\ r.output_n[t] = LookupIn(PlacesIn(x), EndsIn(x, y, FALSE))
        BY <1>1, <1>7, SMTT(60), ZenonT(60)
    <2>5. ArcBag(EndsIn(x, y, TRUE)) = ArcBag(ByName(e, e.input_n[u]))
          /\ ArcBag(EndsIn(x, y, FALSE)) = ArcBag(ByName(e, e.output_n[u]))
        BY <1>6
    <2> HIDE DEF y
    <2>6. ByName(r, r.input_n[t]) = EndsIn(x, y, TRUE)
        BY <2>1, <2>4, <1>3
    <2>7. ByName(r, r.output_n[t]) = EndsIn(x, y, FALSE)
        BY <2>1, <2>4, <1>3
    <2>8. QED
        BY <2>2, <2>3, <2>5, <2>6, <2>7 DEF Row, y
<1>8. ASSUME NEW t \in 1 .. n
      PROVE  \E u \in 1 .. m : HasArcs(e, u) /\ Row(r, t) = Row(e, u)
    <2>1. PICK u \in 1 .. m : p.transition[t] = e.transition[u].name
        BY <1>1, <1>4
    <2>2. HasArcs(e, u)
        BY <2>1, <1>1, <1>4
    <2>3. QED
        BY <2>1, <2>2, <1>7
<1>9. ASSUME NEW u \in 1 .. m, HasArcs(e, u)
      PROVE  \E t \in 1 .. n : Row(r, t) = Row(e, u)
    <2>1. e.transition[u].name \in DOMAIN net
        BY <1>4, <1>9
    <2>2. PICK t \in 1 .. n : p.transition[t] = e.transition[u].name
        BY <2>1, <1>1
    <2>3. QED
        BY <2>2, <1>7
<1>10. QED
    BY <1>8, <1>9 DEF n, m

(***************************************************************************)
(* The places that come back are those with arcs, where they were.         *)
(***************************************************************************)
LEMMA PlacesBack ==
    ASSUME NEW e, Structure(e), OwnNames(e), NEW p \in parseNet(toXml(e)), NEW r,
           Len(r.place) = Len(p.place),
           \A q \in 1 .. Len(p.place) : r.place[q].name = p.place[q],
           r.p_positions = p.p_positions
    PROVE  {<<r.place[q].name, r.p_positions[q]>> : q \in 1 .. Len(r.place)}
            = {<<e.place[q].name, e.p_positions[q]>> : q \in {q \in 1 .. Len(e.place) : Used(e, q)}}
<1> DEFINE x == toXml(e)
<1> DEFINE place == PlacesIn(x)
<1> DEFINE n == Len(e.place)
<1>1. p.place = place /\ \A q \in 1 .. Len(place) : p.p_positions[q] = PositionIn(x, place[q])
    <2>1. ParsedFrom(p, x)
        BY ParsedBack
    <2> HIDE DEF x
    <2>2. QED
        BY <2>1 DEF ParsedFrom
<1>2. /\ \A q \in 1 .. Len(place) : \E k \in 1 .. n : Used(e, k) /\ place[q] = e.place[k].name
      /\ \A k \in 1 .. n : Used(e, k) => \E q \in 1 .. Len(place) : place[q] = e.place[k].name
    BY PlacesSaved
<1>3. \A k \in 1 .. n : PositionIn(x, e.place[k].name) = e.p_positions[k]
    BY PositionsSaved
<1> HIDE DEF x, place, n
<1>4. \A q \in 1 .. Len(place), k \in 1 .. n : place[q] = e.place[k].name =>
            <<r.place[q].name, r.p_positions[q]>> = <<e.place[k].name, e.p_positions[k]>>
    BY <1>1, <1>3
<1>5. {<<r.place[q].name, r.p_positions[q]>> : q \in 1 .. Len(place)}
            = {<<e.place[q].name, e.p_positions[q]>> : q \in {q \in 1 .. n : Used(e, q)}}
    <2> DEFINE A(q) == <<r.place[q].name, r.p_positions[q]>>
    <2> DEFINE B(k) == <<e.place[k].name, e.p_positions[k]>>
    <2>1. \A q \in 1 .. Len(place), k \in 1 .. n : place[q] = e.place[k].name => A(q) = B(k)
        BY <1>4
    <2> HIDE DEF A, B
    <2>2. {A(q) : q \in 1 .. Len(place)} = {B(q) : q \in {q \in 1 .. n : Used(e, q)}}
        <3>1. ASSUME NEW q \in 1 .. Len(place)
              PROVE  \E k \in 1 .. n : Used(e, k) /\ A(q) = B(k)
            BY <2>1, <1>2
        <3>2. ASSUME NEW k \in 1 .. n, Used(e, k)
              PROVE  \E q \in 1 .. Len(place) : A(q) = B(k)
            BY <2>1, <3>2, <1>2
        <3>3. QED
            BY <3>1, <3>2
    <2>3. QED
        BY <2>2 DEF A, B
<1>6. QED
    BY <1>1, <1>5 DEF n

(***************************************************************************)
(* The tokens come back at their places.                                   *)
(***************************************************************************)
LEMMA MarkingBack ==
    ASSUME NEW e, Structure(e), OwnNames(e), Marks(e.tokens, Len(e.place)),
           \A a \in DOMAIN e.tokens : Used(e, a[1]),
           NEW p \in parseNet(toXml(e)), NEW r, IsSeq(r.place), Len(r.place) = Len(p.place),
           \A q \in 1 .. Len(p.place) : r.place[q].name = p.place[q], r.tokens = p.tokens
    PROVE  Named(r).marking = Named(e).marking
<1> DEFINE x == toXml(e)
<1> DEFINE place == PlacesIn(x)
<1> DEFINE B == TokensIn(x, place)
<1> DEFINE Read(a) == <<toIndex(place, e.place[a[1]].name), a[2]>>
<1> DEFINE M == Named(e).marking
<1> DEFINE R == Named(r).marking
<1> DEFINE InE(a) == <<e.place[a[1]].name, a[2]>>
<1> DEFINE InR(b) == <<r.place[b[1]].name, b[2]>>
<1>1. p.place = place /\ r.tokens = B
    BY ParsedBack DEF ParsedFrom
<1>2. /\ Marks(B, Len(place))
      /\ \A b \in DOMAIN B : \E a \in DOMAIN e.tokens : b = Read(a)
      /\ \A a \in DOMAIN e.tokens : Read(a) \in DOMAIN B /\ B[Read(a)] = e.tokens[a]
    BY TokensSaved
<1>3. \A k \in 1 .. Len(e.place) : Used(e, k) =>
            /\ toIndex(place, e.place[k].name) \in 1 .. Len(place)
            /\ place[toIndex(place, e.place[k].name)] = e.place[k].name
    BY PlaceFound
<1>4. \A q \in 1 .. Len(place) : toIndex(place, place[q]) = q
    BY PlacesSaved
<1> HIDE DEF x, place, B
<1>5. \A j, k \in 1 .. Len(r.place) : r.place[j].name = r.place[k].name => j = k
    BY <1>1, <1>4
<1>6. /\ IsFcn(R)
      /\ \A y \in DOMAIN R : \E b \in DOMAIN B : y = InR(b)
      /\ \A b \in DOMAIN B : InR(b) \in DOMAIN R /\ R[InR(b)] = B[b]
    <2>1. Marks(r.tokens, Len(r.place))
        BY <1>1, <1>2
    <2>2. /\ IsFcn(R)
          /\ \A y \in DOMAIN R : \E b \in DOMAIN r.tokens : y = InR(b)
          /\ \A b \in DOMAIN r.tokens : InR(b) \in DOMAIN R /\ R[InR(b)] = r.tokens[b]
        BY <2>1, <1>5, NamedMarking
    <2> HIDE DEF R, InR
    <2>3. QED
        BY <2>2, <1>1
<1>7. /\ IsFcn(M)
      /\ \A y \in DOMAIN M : \E a \in DOMAIN e.tokens : y = InE(a)
      /\ \A a \in DOMAIN e.tokens : InE(a) \in DOMAIN M /\ M[InE(a)] = e.tokens[a]
    <2>1. \A j, k \in 1 .. Len(e.place) : e.place[j].name = e.place[k].name => j = k
        BY DEF OwnNames
    <2>2. IsSeq(e.place)
        BY DEF Structure, PerPlace
    <2>3. QED
        BY <2>1, <2>2, NamedMarking
<1> HIDE DEF M, R
<1>8. ASSUME NEW a \in DOMAIN e.tokens
      PROVE  InR(Read(a)) = InE(a)
    <2>1. a[1] \in 1 .. Len(e.place) /\ Used(e, a[1])
        BY DEF Marks
    <2> DEFINE q == toIndex(place, e.place[a[1]].name)
    <2>2. q \in 1 .. Len(place) /\ place[q] = e.place[a[1]].name
        BY <2>1, <1>3
    <2> HIDE DEF q
    <2>3. r.place[q].name = e.place[a[1]].name
        BY <2>2, <1>1
    <2>4. Read(a)[1] = q /\ Read(a)[2] = a[2]
        BY DEF q
    <2> HIDE DEF Read
    <2>5. QED
        BY <2>3, <2>4
<1> HIDE DEF Read, InE, InR
<1>9. \A y : y \in DOMAIN R <=> y \in DOMAIN M
    <2>1. ASSUME NEW y \in DOMAIN R
          PROVE  y \in DOMAIN M
        BY <1>2, <1>6, <1>7, <1>8
    <2>2. ASSUME NEW y \in DOMAIN M
          PROVE  y \in DOMAIN R
        <3>1. PICK a \in DOMAIN e.tokens : y = InE(a)
            BY <1>7
        <3>2. InR(Read(a)) \in DOMAIN R
            BY <1>2, <1>6
        <3>3. QED
            BY <3>1, <3>2, <1>8
    <2>3. QED
        BY <2>1, <2>2
<1>10. ASSUME NEW y \in DOMAIN R
       PROVE  R[y] = M[y]
    <2>1. PICK a \in DOMAIN e.tokens : y = InE(a)
        BY <1>7, <1>9
    <2>2. M[y] = e.tokens[a]
        BY <2>1, <1>7
    <2>3. R[InR(Read(a))] = e.tokens[a]
        BY <1>2, <1>6
    <2>4. QED
        BY <2>1, <2>2, <2>3, <1>8
<1>11. DOMAIN R = DOMAIN M
    BY <1>9
<1>12. R = M
    BY <1>6, <1>7, <1>10, <1>11, SameFcn
<1>13. QED
    BY <1>12 DEF R, M

(***************************************************************************)
(* Every document survives that has names of its own and no stray tokens.  *)
(***************************************************************************)
LEMMA SavedBack ==
    ASSUME NEW e, Told(e), DistinctNames(e), MarkedPlacesHaveArcs(e), NEW p \in parseNet(toXml(e))
    PROVE  LET back == Named(clearInstaller(p, <<"net", "pnml">>, e))
               connected(t) == t[3] # EmptyBag \/ t[4] # EmptyBag
               used == {a[1] : a \in UNION {DOMAIN t[3] \cup DOMAIN t[4] : t \in Named(e).transitions}}
           IN  /\ back.transitions = {t \in Named(e).transitions : connected(t)}
               /\ back.places = {x \in Named(e).places : x[1] \in used}
               /\ back.marking = Named(e).marking
               /\ \A t \in DOMAIN p.priority : p.priority[t] = 0 /\ p.output[t] = "Success"
<1> DEFINE r == clearInstaller(p, <<"net", "pnml">>, e)
<1> DEFINE n == Len(e.place)
<1> DEFINE m == Len(e.transition)
<1> DEFINE In(t) == ArcBag(ByName(e, e.input_n[t]))
<1> DEFINE Out(t) == ArcBag(ByName(e, e.output_n[t]))
<1> DEFINE connected(t) == t[3] # EmptyBag \/ t[4] # EmptyBag
<1> DEFINE used == {a[1] : a \in UNION {DOMAIN t[3] \cup DOMAIN t[4] : t \in Named(e).transitions}}
<1>1. /\ Structure(e) /\ Marks(e.tokens, n)
      /\ IsSeq(e.place) /\ IsSeq(e.transition) /\ DOMAIN e.place = 1 .. n /\ DOMAIN e.transition = 1 .. m
    BY SeqElim DEF Told, Structure, PerPlace, PerTransition
<1>2. OwnNames(e)
    BY <1>1, NamesApart
<1>3. \A a \in DOMAIN e.tokens : Used(e, a[1])
    <2>1. ASSUME NEW a \in DOMAIN e.tokens
          PROVE  Used(e, a[1])
        <3>1. PICK t \in 1 .. m : \E field \in {"input_n", "output_n"} :
                    \E i \in DOMAIN e[field][t] : e[field][t][i][1] = a[1]
            BY <1>1 DEF MarkedPlacesHaveArcs, BagToSet
        <3>2. /\ DOMAIN e.input_n[t] = 1 .. Len(e.input_n[t])
              /\ DOMAIN e.output_n[t] = 1 .. Len(e.output_n[t])
            <4>1. IsSeq(e.input_n[t]) /\ IsSeq(e.output_n[t])
                BY <1>1 DEF Structure, ArcsSound, ArcsTo
            <4>2. QED
                BY <4>1, SeqElim
        <3>3. \/ \E i \in DOMAIN e.input_n[t] : e.input_n[t][i][1] = a[1]
              \/ \E i \in DOMAIN e.output_n[t] : e.output_n[t][i][1] = a[1]
            BY <3>1
        <3>4. QED
            BY <3>2, <3>3 DEF Used
    <2>2. QED
        BY <2>1
<1>4. ParsedFrom(p, toXml(e))
    BY <1>1, ParsedBack
<1>5. /\ r.place = Arriving(p.place, e.place)
      /\ r.transition = Arriving(p.transition, e.transition)
      /\ r.input_n = p.input_n /\ r.output_n = p.output_n
      /\ r.t_positions = p.t_positions /\ r.p_positions = p.p_positions
      /\ r.tokens = p.tokens
    BY DEF clearInstaller, Told, Structure, EmptyDocument
<1> HIDE DEF r
<1>6. ASSUME NEW names, IsSeq(names), NEW nodes
      PROVE  LET s == Arriving(names, nodes)
             IN  IsSeq(s) /\ Len(s) = Len(names) /\ \A k \in 1 .. Len(names) : s[k].name = names[k]
    <2> DEFINE s == Arriving(names, nodes)
    <2>1. /\ DOMAIN s = DOMAIN names /\ s = [k \in DOMAIN s |-> s[k]]
          /\ \A k \in DOMAIN names : s[k].name = names[k]
        BY DEF Arriving
    <2> HIDE DEF s
    <2>2. IsSeq(s) /\ Len(s) = Len(names) /\ DOMAIN names = 1 .. Len(names)
        BY <1>6, <2>1, SeqOver, SeqElim
    <2>3. QED
        BY <2>1, <2>2 DEF s
<1>7. /\ IsSeq(r.place) /\ Len(r.place) = Len(p.place)
      /\ \A q \in 1 .. Len(p.place) : r.place[q].name = p.place[q]
    <2>1. IsSeq(p.place)
        BY <1>4 DEF ParsedFrom
    <2>2. QED
        BY <2>1, <1>5, <1>6
<1>8. /\ IsSeq(r.transition) /\ Len(r.transition) = Len(p.transition)
      /\ \A t \in 1 .. Len(p.transition) : r.transition[t].name = p.transition[t]
    <2>1. IsSeq(p.transition)
        BY <1>4 DEF ParsedFrom
    <2>2. QED
        BY <2>1, <1>5, <1>6
<1>9. Named(e).places = {<<e.place[q].name, e.p_positions[q]>> : q \in 1 .. n}
      /\ Named(e).transitions = {Row(e, t) : t \in 1 .. m}
    BY <1>1, NamedIs
<1>10. Named(r).places = {<<r.place[q].name, r.p_positions[q]>> : q \in 1 .. Len(r.place)}
       /\ Named(r).transitions = {Row(r, t) : t \in 1 .. Len(r.transition)}
    BY <1>7, <1>8, NamedIs
<1>11. \A t \in 1 .. m : Row(e, t)[3] = In(t) /\ Row(e, t)[4] = Out(t)
    BY DEF Row
<1>12. ASSUME NEW t \in 1 .. m
       PROVE  /\ connected(Row(e, t)) <=> HasArcs(e, t)
              /\ \A name : (\E a \in DOMAIN In(t) \cup DOMAIN Out(t) : a[1] = name)
                    <=> \/ \E i \in 1 .. Len(e.input_n[t]) : e.place[e.input_n[t][i][1]].name = name
                        \/ \E i \in 1 .. Len(e.output_n[t]) : e.place[e.output_n[t][i][1]].name = name
    <2>1. (In(t) # EmptyBag \/ Out(t) # EmptyBag) <=> HasArcs(e, t)
        BY <1>1, RowIs
    <2>2. connected(Row(e, t)) <=> (In(t) # EmptyBag \/ Out(t) # EmptyBag)
        <3> HIDE DEF In, Out
        <3>1. QED
            BY <1>11
    <2>3. \A name : (\E a \in DOMAIN In(t) \cup DOMAIN Out(t) : a[1] = name)
                    <=> \/ \E i \in 1 .. Len(e.input_n[t]) : e.place[e.input_n[t][i][1]].name = name
                        \/ \E i \in 1 .. Len(e.output_n[t]) : e.place[e.output_n[t][i][1]].name = name
        BY <1>1, RowIs, SMTT(60), ZenonT(60)
    <2> HIDE DEF connected, In, Out
    <2>4. QED
        BY <2>1, <2>2, <2>3
<1> HIDE DEF connected
<1>13. Named(r).transitions = {t \in Named(e).transitions : connected(t)}
    <2>1. /\ \A t \in 1 .. Len(r.transition) : \E u \in 1 .. m : HasArcs(e, u) /\ Row(r, t) = Row(e, u)
          /\ \A u \in 1 .. m : HasArcs(e, u) => \E t \in 1 .. Len(r.transition) : Row(r, t) = Row(e, u)
        <3>1. /\ \A q \in 1 .. Len(p.place) : r.place[q].name = p.place[q]
              /\ Len(r.transition) = Len(p.transition)
              /\ \A t \in 1 .. Len(p.transition) : r.transition[t].name = p.transition[t]
              /\ r.t_positions = p.t_positions /\ r.input_n = p.input_n /\ r.output_n = p.output_n
            BY <1>5, <1>7, <1>8
        <3>2. Structure(e)
            BY <1>1
        <3> HIDE DEF n, In, Out, used
        <3>3. QED
            BY <1>2, <3>1, <3>2, TransitionsBack, SMTT(60), ZenonT(60)
    <2>2. \A u \in 1 .. m : connected(Row(e, u)) <=> HasArcs(e, u)
        BY <1>12
    <2> HIDE DEF m
    <2>3. {Row(r, t) : t \in 1 .. Len(r.transition)} = {t \in {Row(e, u) : u \in 1 .. m} : connected(t)}
        BY <2>1, <2>2
    <2>4. QED
        BY <2>3, <1>9, <1>10
<1>14. \A name : name \in used <=> \E q \in 1 .. n : Used(e, q) /\ e.place[q].name = name
    <2>1. ASSUME NEW name
          PROVE  name \in used <=> \E t \in 1 .. m : \E a \in DOMAIN In(t) \cup DOMAIN Out(t) : a[1] = name
        <3> HIDE DEF In, Out, m
        <3>1. name \in used <=> \E y \in Named(e).transitions : \E a \in DOMAIN y[3] \cup DOMAIN y[4] : a[1] = name
            OBVIOUS
        <3>2. QED
            BY <3>1, <1>9, <1>11
    <2> HIDE DEF In, Out, used
    <2>2. \A t \in 1 .. m : /\ \A i \in 1 .. Len(e.input_n[t]) : e.input_n[t][i][1] \in 1 .. n
                            /\ \A i \in 1 .. Len(e.output_n[t]) : e.output_n[t][i][1] \in 1 .. n
        BY <1>1 DEF Structure, ArcsSound, ArcsTo
    <2>3. ASSUME NEW name, name \in used
          PROVE  \E q \in 1 .. n : Used(e, q) /\ e.place[q].name = name
        <3>1. PICK t \in 1 .. m : \/ \E i \in 1 .. Len(e.input_n[t]) : e.place[e.input_n[t][i][1]].name = name
                                  \/ \E i \in 1 .. Len(e.output_n[t]) : e.place[e.output_n[t][i][1]].name = name
            BY <2>1, <2>3, <1>12
        <3>2. CASE \E i \in 1 .. Len(e.input_n[t]) : e.place[e.input_n[t][i][1]].name = name
            BY <3>2, <2>2 DEF Used
        <3>3. CASE \E i \in 1 .. Len(e.output_n[t]) : e.place[e.output_n[t][i][1]].name = name
            BY <3>3, <2>2 DEF Used
        <3>4. QED
            BY <3>1, <3>2, <3>3
    <2>4. ASSUME NEW q \in 1 .. n, Used(e, q)
          PROVE  e.place[q].name \in used
        <3>1. PICK t \in 1 .. m : \/ \E i \in 1 .. Len(e.input_n[t]) : e.input_n[t][i][1] = q
                                  \/ \E i \in 1 .. Len(e.output_n[t]) : e.output_n[t][i][1] = q
            BY <2>4 DEF Used
        <3>2. \/ \E i \in 1 .. Len(e.input_n[t]) : e.place[e.input_n[t][i][1]].name = e.place[q].name
              \/ \E i \in 1 .. Len(e.output_n[t]) : e.place[e.output_n[t][i][1]].name = e.place[q].name
            BY <3>1
        <3>3. QED
            BY <3>2, <2>1, <1>12, SMTT(60), ZenonT(60)
    <2>5. QED
        BY <2>3, <2>4
<1> HIDE DEF used
<1>15. Named(r).places = {x \in Named(e).places : x[1] \in used}
    <2>1. {<<r.place[q].name, r.p_positions[q]>> : q \in 1 .. Len(r.place)}
            = {<<e.place[q].name, e.p_positions[q]>> : q \in {q \in 1 .. n : Used(e, q)}}
        BY <1>1, <1>2, <1>5, <1>7, PlacesBack, SMTT(60), ZenonT(60)
    <2>2. \A q \in 1 .. n : e.place[q].name \in used <=> Used(e, q)
        BY <1>2, <1>14 DEF OwnNames
    <2>3. {x \in {<<e.place[q].name, e.p_positions[q]>> : q \in 1 .. n} : x[1] \in used}
            = {<<e.place[q].name, e.p_positions[q]>> : q \in {q \in 1 .. n : Used(e, q)}}
        <3> DEFINE A(q) == <<e.place[q].name, e.p_positions[q]>>
        <3>1. \A q \in 1 .. n : A(q)[1] \in used <=> Used(e, q)
            BY <2>2
        <3> HIDE DEF A, n
        <3>2. {x \in {A(q) : q \in 1 .. n} : x[1] \in used} = {A(q) : q \in {q \in 1 .. n : Used(e, q)}}
            BY <3>1
        <3>3. QED
            BY <3>2 DEF A
    <2>4. QED
        BY <2>1, <2>3, <1>9, <1>10
<1>16. Named(r).marking = Named(e).marking
    BY <1>1, <1>2, <1>3, <1>5, <1>7, MarkingBack
<1>17. \A t \in DOMAIN p.priority : p.priority[t] = 0 /\ p.output[t] = "Success"
    BY <1>4 DEF ParsedFrom
<1>18. QED
    BY <1>13, <1>15, <1>16, <1>17 DEF r, used, connected

(***************************************************************************)
(* A net whose nodes have names of their own survives saving and loading   *)
(* but for its isolated nodes, its priorities and its output colours:      *)
(* `parseNet' undoes `toXml', although the file tells nodes by name, the   *)
(* direction of an arc by its source and a place's arcs in any order.  The *)
(* hypotheses are those of DocumentIsGraph.                                *)
(***************************************************************************)
THEOREM SavedComesBack ==
    ASSUME KeepsStrays = FALSE, \A f \in File : NoStrays(Disk[f])
    PROVE  Spec => []SavedNetComesBack
<1>1. Init => GraphInv
    BY GraphInit
<1>2. GraphInv /\ [Next]_vars => GraphInv'
    BY GraphNext
<1>3. GraphInv => SavedNetComesBack
    <2>1. SUFFICES ASSUME GraphInv, DistinctNames(doc), MarkedPlacesHaveArcs(doc), NEW p \in parseNet(toXml(doc))
                   PROVE  LET back == Named(clearInstaller(p, <<"net", "pnml">>, doc))
                              connected(t) == t[3] # EmptyBag \/ t[4] # EmptyBag
                              used == {a[1] : a \in UNION {DOMAIN t[3] \cup DOMAIN t[4] : t \in Named(doc).transitions}}
                          IN  /\ back.transitions = {t \in Named(doc).transitions : connected(t)}
                              /\ back.places = {x \in Named(doc).places : x[1] \in used}
                              /\ back.marking = Named(doc).marking
                              /\ \A t \in DOMAIN p.priority : p.priority[t] = 0 /\ p.output[t] = "Success"
        BY DEF SavedNetComesBack
    <2>2. Told(doc)
        BY <2>1 DEF GraphInv
    <2>3. QED
        BY <2>1, <2>2, SavedBack
<1>4. QED
    BY <1>1, <1>2, <1>3, PTL DEF Spec
=============================================================================
