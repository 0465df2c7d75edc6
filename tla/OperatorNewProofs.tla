-------------------------- MODULE OperatorNewProofs --------------------------
(***************************************************************************)
(* What OperatorNew promises for every image: which exports are enough for *)
(* every block to go back to the allocator it came from.                   *)
(***************************************************************************)
EXTENDS OperatorNew, TLAPS

-----------------------------------------------------------------------------
(* The chains. *)

\* The hooked places of a chain of at most five operators have a first one.
LEMMA FirstExists ==
    ASSUME NEW places \in SUBSET (1..5), places # {}
    PROVE  First(places) \in places /\ \A j \in places : First(places) <= j
<1>1. \E i \in places : \A j \in places : i <= j
  <2>1. CASE 1 \in places
    BY <2>1
  <2>2. CASE 1 \notin places /\ 2 \in places
    BY <2>2
  <2>3. CASE 1 \notin places /\ 2 \notin places /\ 3 \in places
    BY <2>3
  <2>4. CASE 1 \notin places /\ 2 \notin places /\ 3 \notin places /\ 4 \in places
    BY <2>4
  <2>5. CASE \A i \in 1..4 : i \notin places
    <3>1. \A i \in places : i = 5
      BY <2>5
    <3>2. PICK i \in places : TRUE
      OBVIOUS
    <3>3. \A j \in places : i <= j
      BY <3>1
    <3> QED
      BY <3>3
  <2> QED
    BY <2>1, <2>2, <2>3, <2>4, <2>5
<1> QED
  BY <1>1 DEF First

\* A call is served by one of the three allocators.
LEMMA FamilyType ==
    ASSUME NEW verb, NEW chain, NEW hooked
    PROVE  Family(verb, chain, hooked) \in Families
BY DEF Family, Families

\* A chain all of whose operators are aligned or all are not, with one of them
\* hooked, is served by the image's operators of that kind.
LEMMA FamilyOfUniformChain ==
    ASSUME NEW verb, NEW chain, NEW hooked, NEW len \in 1..5, NEW n \in 1..len,
           DOMAIN chain = 1..len,
           <<verb, chain[n]>> \in hooked
    PROVE  /\ (\A i \in DOMAIN chain : i <= n => "align" \in chain[i]) =>
                 Family(verb, chain, hooked) = "image_aligned"
           /\ (\A i \in DOMAIN chain : i <= n => "align" \notin chain[i]) =>
                 Family(verb, chain, hooked) = "image"
<1> DEFINE places == Hooked(verb, chain, hooked)
<1>1. /\ places \in SUBSET (1..5)
      /\ n \in places
  BY DEF Hooked
<1>2. First(places) \in places /\ First(places) <= n
  BY <1>1, FirstExists
<1>3. First(places) \in DOMAIN chain
  BY <1>1, <1>2 DEF Hooked
<1> HIDE DEF places
<1>4. Family(verb, chain, hooked) =
        IF "align" \in chain[First(places)] THEN "image_aligned" ELSE "image"
  BY <1>1 DEF Family, places
<1> QED
  BY <1>2, <1>3, <1>4

\* A hooked operator is the same called directly and through its chain.
LEMMA DirectCall ==
    ASSUME NEW verb, NEW chain, NEW hooked, NEW len \in 1..5,
           DOMAIN chain = 1..len, <<verb, chain[1]>> \in hooked
    PROVE  Family(verb, <<chain[1]>>, hooked) = Family(verb, chain, hooked)
<1> DEFINE own == <<chain[1]>>
<1>1. /\ DOMAIN own = 1..1 /\ own[1] = chain[1] /\ <<verb, own[1]>> \in hooked
      /\ 1 \in 1..5 /\ 1 \in 1..1 /\ 1 \in 1..len
  OBVIOUS
<1> HIDE DEF own
<1>2. CASE "align" \in chain[1]
  <2>1. \A i \in DOMAIN own : i <= 1 => "align" \in own[i]
    BY <1>1, <1>2
  <2>2. \A i \in DOMAIN chain : i <= 1 => "align" \in chain[i]
    BY <1>2
  <2>3. Family(verb, own, hooked) = "image_aligned"
    BY <1>1, <2>1, FamilyOfUniformChain
  <2>4. Family(verb, chain, hooked) = "image_aligned"
    BY <1>1, <2>2, FamilyOfUniformChain
  <2> QED
    BY <2>3, <2>4 DEF own
<1>3. CASE "align" \notin chain[1]
  <2>1. \A i \in DOMAIN own : i <= 1 => "align" \notin own[i]
    BY <1>1, <1>3
  <2>2. \A i \in DOMAIN chain : i <= 1 => "align" \notin chain[i]
    BY <1>3
  <2>3. Family(verb, own, hooked) = "image"
    BY <1>1, <2>1, FamilyOfUniformChain
  <2>4. Family(verb, chain, hooked) = "image"
    BY <1>1, <2>2, FamilyOfUniformChain
  <2> QED
    BY <2>3, <2>4 DEF own
<1> QED
  BY <1>2, <1>3

\* Once the hooks are in, who calls makes no difference.
LEMMA CallersAgree ==
    ASSUME NEW verb, NEW chain, NEW len \in 1..5, DOMAIN chain = 1..len,
           hooks = exports \/ installing, NEW c \in Callers(verb, chain)
    PROVE  Family(verb, c, hooks) = Family(verb, chain, hooks)
<1>1. c = chain \/ (c = <<chain[1]>> /\ ~ installing /\ <<verb, c[1]>> \in exports)
  BY DEF Callers
<1>2. ASSUME c = <<chain[1]>>, ~ installing, <<verb, c[1]>> \in exports
      PROVE  Family(verb, c, hooks) = Family(verb, chain, hooks)
  <2>1. c[1] = chain[1]
    BY <1>2
  <2>2. <<verb, chain[1]>> \in hooks
    BY <1>2, <2>1
  <2> QED
    BY <1>2, <2>2, DirectCall
<1> QED
  BY <1>1, <1>2

\* With the basic new hooked, an unaligned new is the image's.
LEMMA UnalignedNew ==
    ASSUME NEW a \in NewVariants, "align" \notin a, NEW ops, <<"new", {}>> \in ops
    PROVE  NewFamily(a, ops) = "image"
<1>1. NewChain(a)[3] = {}
  BY DEF NewChain, NewVariants
<1>2. DOMAIN NewChain(a) = 1..3
  BY DEF NewChain
<1>3. \A i \in 1..3 : "align" \notin NewChain(a)[i]
  BY DEF NewChain
<1>4. <<"new", NewChain(a)[3]>> \in ops /\ 3 \in 1..5 /\ 3 \in 1..3
  BY <1>1
<1> DEFINE chain == NewChain(a)
<1>5. /\ DOMAIN chain = 1..3
      /\ <<"new", chain[3]>> \in ops
      /\ \A i \in 1..3 : i <= 3 => "align" \notin chain[i]
  BY <1>2, <1>3, <1>4
<1> HIDE DEF chain
<1>6. Family("new", chain, ops) = "image"
  BY <1>4, <1>5, FamilyOfUniformChain
<1> QED
  BY <1>6 DEF NewFamily, chain

\* With the basic aligned new hooked, an aligned new is the image's.
LEMMA AlignedNew ==
    ASSUME NEW a \in NewVariants, "align" \in a, NEW ops, <<"new", {"align"}>> \in ops
    PROVE  NewFamily(a, ops) = "image_aligned"
<1>1. NewChain(a)[3] = {"align"}
  BY DEF NewChain, NewVariants
<1>2. DOMAIN NewChain(a) = 1..3
  BY DEF NewChain
<1>3. \A i \in 1..3 : "align" \in NewChain(a)[i]
  BY DEF NewChain
<1>4. <<"new", NewChain(a)[3]>> \in ops /\ 3 \in 1..5 /\ 3 \in 1..3
  BY <1>1
<1> DEFINE chain == NewChain(a)
<1>5. /\ DOMAIN chain = 1..3
      /\ <<"new", chain[3]>> \in ops
      /\ \A i \in 1..3 : i <= 3 => "align" \in chain[i]
  BY <1>2, <1>3, <1>4
<1> HIDE DEF chain
<1>6. Family("new", chain, ops) = "image_aligned"
  BY <1>4, <1>5, FamilyOfUniformChain
<1> QED
  BY <1>6 DEF NewFamily, chain

\* With the basic delete hooked, an unaligned delete is the image's.
LEMMA UnalignedDelete ==
    ASSUME NEW d \in DeleteVariants, "align" \notin d, NEW ops, <<"delete", {}>> \in ops
    PROVE  DeleteFamily(d, ops) = "image"
<1>1. DeleteChain(d)[5] = {}
  BY DEF DeleteChain
<1>2. DOMAIN DeleteChain(d) = 1..5
  BY DEF DeleteChain
<1>3. \A i \in 1..5 : "align" \notin DeleteChain(d)[i]
  BY DEF DeleteChain
<1>4. <<"delete", DeleteChain(d)[5]>> \in ops /\ 5 \in 1..5 /\ 5 \in 1..5
  BY <1>1
<1> DEFINE chain == DeleteChain(d)
<1>5. /\ DOMAIN chain = 1..5
      /\ <<"delete", chain[5]>> \in ops
      /\ \A i \in 1..5 : i <= 5 => "align" \notin chain[i]
  BY <1>2, <1>3, <1>4
<1> HIDE DEF chain
<1>6. Family("delete", chain, ops) = "image"
  BY <1>4, <1>5, FamilyOfUniformChain
<1> QED
  BY <1>6 DEF DeleteFamily, chain

\* With a complete set hooked, an aligned delete is the image's: the second
\* operator of its chain is still aligned, and is hooked.
LEMMA AlignedDelete ==
    ASSUME NEW d \in DeleteVariants, "align" \in d, NEW ops, Complete(ops)
    PROVE  DeleteFamily(d, ops) = "image_aligned"
<1> DEFINE e == d \ {"nothrow"}
<1>1. e \in DeleteVariants /\ "align" \in e /\ "nothrow" \notin e
  BY DEF DeleteVariants
<1>2. <<"delete", e>> \in ops
  BY <1>1 DEF Complete
<1>3. DOMAIN DeleteChain(d) = 1..5 /\ DeleteChain(d)[1] = d /\ DeleteChain(d)[2] = e
  BY DEF DeleteChain
<1> DEFINE chain == DeleteChain(d)
<1>4. /\ DOMAIN chain = 1..5
      /\ <<"delete", chain[2]>> \in ops
      /\ \A i \in 1..5 : i <= 2 => "align" \in chain[i]
  BY <1>1, <1>2, <1>3
<1>5. 5 \in 1..5 /\ 2 \in 1..5
  OBVIOUS
<1> HIDE DEF chain
<1>6. Family("delete", chain, ops) = "image_aligned"
  BY <1>4, <1>5, FamilyOfUniformChain
<1> QED
  BY <1>6 DEF DeleteFamily, chain

\* An image that replaces the basic operators only gets aligned blocks of the
\* host handed to its delete: the basic set is not enough.
THEOREM BasicIsNotEnough ==
    LET ops == {<<"new", {}>>, <<"delete", {}>>}
    IN  /\ NewFamily({"align"}, ops) = "host"
        /\ DeleteFamily({"align"}, ops) = "image"
<1> DEFINE ops == {<<"new", {}>>, <<"delete", {}>>}
<1>1. NewFamily({"align"}, ops) = "host"
  <2>1. NewChain({"align"}) = <<{"align"}, {"align"}, {"align"}>>
    <3>1. {"align"} \ {"nothrow"} = {"align"} /\ {"align"} \ {"nothrow", "array"} = {"align"}
      OBVIOUS
    <3> QED
      BY <3>1 DEF NewChain
  <2>2. {"align"} # {}
    OBVIOUS
  <2>3. Hooked("new", NewChain({"align"}), ops) = {}
    BY <2>1, <2>2 DEF Hooked
  <2> QED
    BY <2>3 DEF NewFamily, Family
<1>2. DeleteFamily({"align"}, ops) = "image"
  <2> DEFINE chain == DeleteChain({"align"})
  <2>1. chain = <<{"align"}, {"align"}, {}, {}, {}>>
    <3>1. /\ {"align"} \ {"nothrow"} = {"align"}
          /\ {"align"} \ {"nothrow", "align"} = {}
          /\ {"align"} \ {"nothrow", "align", "sized"} = {}
      OBVIOUS
    <3> QED
      BY <3>1 DEF DeleteChain
  <2>2. {"align"} # {}
    OBVIOUS
  <2> DEFINE places == Hooked("delete", chain, ops)
  <2>3. places = 3..5
    BY <2>1, <2>2 DEF Hooked
  <2>4. First(places) \in 3..5
    BY <2>3, FirstExists
  <2>5. "align" \notin chain[First(places)]
    BY <2>1, <2>4
  <2> QED
    BY <2>3, <2>5 DEF DeleteFamily, Family
<1> QED
  BY <1>1, <1>2

-----------------------------------------------------------------------------
(* The invariant.  A block allocated late carries the allocator its new has   *)
(* under all the exports; a freed one went where a paired delete goes.        *)

HookInv ==
    /\ TypeOK
    /\ ~ installing => hooks = exports
    /\ \A b \in blocks : ~ b.early =>
          ~ installing /\ b.family = NewFamily(b.variants, exports)
    /\ \A f \in freed : ~ f[1].early =>
          /\ f[1].family = NewFamily(f[1].variants, exports)
          /\ \E d \in DeleteVariants : /\ Pairs(f[1].variants, d)
                                       /\ f[2] = DeleteFamily(d, exports)

\* The invariant holds of every reachable state.
THEOREM HookInvariant == Spec => []HookInv
<1>1. Init => HookInv
  BY DEF Init, HookInv, TypeOK
<1>2. HookInv /\ [Next]_vars => HookInv'
  <2> SUFFICES ASSUME HookInv, [Next]_vars PROVE HookInv'
    OBVIOUS
  <2> USE DEF HookInv
  <2>1. CASE InstallHook
    BY <2>1 DEF InstallHook, TypeOK
  <2>2. CASE InstallDone
    BY <2>2 DEF InstallDone, TypeOK
  <2>3. ASSUME NEW a \in NewVariants, New(a) PROVE HookInv'
    <3>1. PICK c \in Callers("new", NewChain(a)) :
            blocks' = blocks \cup {[variants |-> a, family |-> Family("new", c, hooks),
                                    early |-> installing]}
      BY <2>3 DEF New
    <3> DEFINE b == [variants |-> a, family |-> Family("new", c, hooks), early |-> installing]
    <3>2. /\ blocks' = blocks \cup {b}
          /\ freed' = {}
          /\ UNCHANGED <<exports, hooks, installing>>
      BY <2>3, <3>1 DEF New
    <3>3. b \in Blocks
      BY FamilyType DEF Blocks, TypeOK
    <3>4. TypeOK'
      BY <3>2, <3>3 DEF TypeOK
    <3>5. DOMAIN NewChain(a) = 1..3 /\ 3 \in 1..5
      BY DEF NewChain
    <3>6. Family("new", c, hooks) = NewFamily(a, hooks)
      BY <3>5, CallersAgree DEF NewFamily
    <3>7. ~ b.early => ~ installing /\ b.family = NewFamily(b.variants, exports)
      BY <3>6
    <3> HIDE DEF b
    <3> QED
      BY <3>2, <3>4, <3>7
  <2>4. ASSUME NEW b \in blocks, NEW d \in DeleteVariants, Delete(b, d) PROVE HookInv'
    <3>1. PICK c \in Callers("delete", DeleteChain(d)) :
            freed' = {<<b, Family("delete", c, hooks)>>}
      BY <2>4 DEF Delete
    <3>2. /\ Pairs(b.variants, d)
          /\ blocks' = blocks \ {b}
          /\ UNCHANGED <<exports, hooks, installing>>
      BY <2>4 DEF Delete
    <3>3. Family("delete", c, hooks) \in Families
      BY FamilyType
    <3>4. TypeOK'
      BY <3>1, <3>2, <3>3 DEF TypeOK
    <3>5. DOMAIN DeleteChain(d) = 1..5 /\ 5 \in 1..5
      BY DEF DeleteChain
    <3>6. Family("delete", c, hooks) = DeleteFamily(d, hooks)
      BY <3>5, CallersAgree DEF DeleteFamily
    <3>7. \A f \in freed' : ~ f[1].early =>
            /\ f[1].family = NewFamily(f[1].variants, exports)
            /\ \E e \in DeleteVariants : /\ Pairs(f[1].variants, e)
                                         /\ f[2] = DeleteFamily(e, exports)
      BY <3>1, <3>2, <3>6
    <3> QED
      BY <3>2, <3>4, <3>7
  <2>5. CASE UNCHANGED vars
    BY <2>5 DEF vars, TypeOK
  <2> QED
    BY <2>1, <2>2, <2>3, <2>4, <2>5 DEF Next
<1> QED
  BY <1>1, <1>2, PTL DEF Spec

\* The types, for every set of exports (newer.rs:292-323).
THEOREM TypeCorrect == Spec => []TypeOK
<1>1. HookInv => TypeOK
  BY DEF HookInv
<1> QED
  BY <1>1, HookInvariant, PTL

\* An unaligned block goes back to an image that replaces the basic operators.
THEOREM PlainBlocksGoBack == Spec => []PlainBlocksReturn
<1>1. HookInv => PlainBlocksReturn
  <2> SUFFICES ASSUME HookInv, Basic(exports), NEW f \in freed,
                      "align" \notin f[1].variants, ~ f[1].early
               PROVE  f[2] = f[1].family
    BY DEF PlainBlocksReturn
  <2>1. f[1].variants \in NewVariants
    BY DEF HookInv, TypeOK, Blocks
  <2>2. PICK d \in DeleteVariants : Pairs(f[1].variants, d) /\ f[2] = DeleteFamily(d, exports)
    BY DEF HookInv
  <2>3. "align" \notin d
    BY <2>2 DEF Pairs
  <2>4. <<"new", {}>> \in exports /\ <<"delete", {}>> \in exports
    BY DEF Basic
  <2>5. f[1].family = "image"
    BY <2>1, <2>4, UnalignedNew DEF HookInv
  <2>6. f[2] = "image"
    BY <2>2, <2>3, <2>4, UnalignedDelete
  <2> QED
    BY <2>5, <2>6
<1> QED
  BY <1>1, HookInvariant, PTL

\* Every block goes back to an image whose set of operators is complete.
THEOREM LateBlocksGoBack == Spec => []LateBlocksReturn
<1>1. HookInv => LateBlocksReturn
  <2> SUFFICES ASSUME HookInv, Complete(exports), NEW f \in freed, ~ f[1].early
               PROVE  f[2] = f[1].family
    BY DEF LateBlocksReturn
  <2>1. f[1].variants \in NewVariants
    BY DEF HookInv, TypeOK, Blocks
  <2>2. PICK d \in DeleteVariants : Pairs(f[1].variants, d) /\ f[2] = DeleteFamily(d, exports)
    BY DEF HookInv
  <2>3. "align" \in f[1].variants <=> "align" \in d
    BY <2>2 DEF Pairs
  <2>4. <<"new", {}>> \in exports /\ <<"delete", {}>> \in exports /\ <<"new", {"align"}>> \in exports
    BY DEF Complete, Basic
  <2>5. f[1].family = NewFamily(f[1].variants, exports)
    BY DEF HookInv
  <2>6. CASE "align" \in d
    BY <2>1, <2>2, <2>3, <2>4, <2>5, <2>6, AlignedNew, AlignedDelete
  <2>7. CASE "align" \notin d
    BY <2>1, <2>2, <2>3, <2>4, <2>5, <2>7, UnalignedNew, UnalignedDelete
  <2> QED
    BY <2>6, <2>7
<1> QED
  BY <1>1, HookInvariant, PTL
=============================================================================
