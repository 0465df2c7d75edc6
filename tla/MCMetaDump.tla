----------------------------- MODULE MCMetaDump -----------------------------
(***************************************************************************)
(* MetaDump with five classes: a leaf; an interface; a class with a base,  *)
(* a secondary base, a list of embedded leaves and a property that hides   *)
(* the base's; one with all other types; one that only inherits from a     *)
(* secondary base.  Addresses 1-9 are of the derived instance, 10-19 of    *)
(* the mixed one, 20 of the leaf, 21-22 of the last.                       *)
(* In Faulty a list holds what cannot be printed, an option links to no    *)
(* class, a container is missing, a flag is in the next byte, or a         *)
(* destructor is missing.                                                  *)
(***************************************************************************)
EXTENDS MetaDump

CONSTANTS Leaf, Face, Derived, Mixed, Heir

Container(fixed, value) == [fixed |-> fixed, value |-> value]

Prop(hash, offset, type, class) ==
    [hash |-> hash, offset |-> offset, type |-> type, class |-> class,
     described |-> FALSE, container |-> Container(0, "none"), bit |-> 0]

Of(p, fixed, value) == [p EXCEPT !.described = TRUE, !.container = Container(fixed, value)]

Record(hash, constructor, base, secondary, properties) ==
    [hash |-> hash, constructor |-> constructor, destructor |-> constructor, base |-> base,
     secondary |-> secondary, properties |-> properties]

MCMeta ==
    (Leaf    :> Record(1, TRUE, NoClass, <<>>, <<Prop(101, 0, "scalar", NoClass)>>)) @@
    (Face    :> Record(2, FALSE, NoClass, <<>>,
                       <<Prop(102, 0, "pointer", Leaf), Prop(101, 1, "scalar", NoClass)>>)) @@
    (Derived :> Record(3, TRUE, Leaf, <<[class |-> Face, offset |-> 1]>>,
                       <<Of(Prop(103, 3, "list", Leaf), -1, "embed"),
                         Prop(102, 4, "link", Leaf)>>)) @@
    (Mixed   :> Record(4, TRUE, NoClass, <<>>,
                       <<Of(Prop(104, 0, "option", Leaf), -1, "embed"),
                         Of(Prop(105, 1, "list", NoClass), 1, "scalar"),
                         [Prop(106, 2, "map", NoClass) EXCEPT !.described = TRUE],
                         [Prop(107, 3, "flag", NoClass) EXCEPT !.bit = 1],
                         Prop(108, 4, "pointer", Leaf)>>)) @@
    (Heir    :> Record(5, TRUE, NoClass, <<[class |-> Face, offset |-> 0]>>, <<>>))

MCInstance == (Leaf :> 20) @@ (Face :> 0) @@ (Derived :> 1) @@ (Mixed :> 10) @@ (Heir :> 21)

MCHeap == (Leaf :> {20}) @@ (Face :> {}) @@ (Derived :> 1 .. 9) @@ (Mixed :> 10 .. 19)
          @@ (Heir :> 21 .. 22)

MCObjects ==
    (Leaf    :> {<<Leaf, 20>>}) @@
    (Face    :> {}) @@
    (Derived :> {<<Derived, 1>>, <<Leaf, 1>>, <<Face, 2>>} \cup {<<Leaf, at>> : at \in 7 .. 9}) @@
    (Mixed   :> {<<Mixed, 10>>, <<Leaf, 10>>, <<Leaf, 19>>}) @@
    (Heir    :> {<<Heir, 21>>, <<Face, 21>>})

MCNesting == [o \in UNION {MCObjects[c] : c \in Classes} |->
                 CASE o[1] = Leaf -> 0 [] o[1] = Face -> 1 [] OTHER -> 2]

\* Every address has its own value, so that a leaf tells where it was read.
Cell(at, pointer, items, bits) ==
    [value |-> at, pointer |-> pointer, items |-> items, bits |-> bits]

MCMemories ==
    {[at \in 1 .. 22 |->
        CASE at = 2  -> Cell(at, d, <<>>, {})
          [] at = 4  -> Cell(at, 0, list, {})
          [] at = 10 -> Cell(at, 0, option, {})
          [] at = 11 -> Cell(at, 0, <<17>>, {})
          [] at = 12 -> Cell(at, 0, map, {})
          [] at = 13 -> Cell(at, 0, <<>>, bits)
          [] at = 14 -> Cell(at, m, <<>>, {})
          [] OTHER   -> Cell(at, 0, <<>>, {})] :
     d \in {0, 9}, list \in {<<>>, <<7>>, <<7, 8>>}, option \in {<<>>, <<10>>},
     map \in {<<>>, <<18>>}, bits \in {{}, {1}}, m \in {0, 19}}

MCList == <<Leaf, Face, Derived, Mixed, Heir>>

\* Ill-typed variants of it, each with one fault.
Faulty ==
    {[MCMeta EXCEPT ![Derived].properties[1].container.value = "flag"],
     [MCMeta EXCEPT ![Mixed].properties[1] = Of(Prop(104, 0, "option", NoClass), -1, "link")],
     [MCMeta EXCEPT ![Mixed].properties[2].described = FALSE],
     [MCMeta EXCEPT ![Mixed].properties[4].bit = 9],
     [MCMeta EXCEPT ![Derived].destructor = FALSE]}

MCMetas == {MCMeta} \cup Faulty
=============================================================================
