----------------------------- MODULE OperatorNew -----------------------------
(***************************************************************************)
(* The replacement of operator new and delete (src/loader/newer.rs).  The  *)
(* process exports the 20 C++ operators; each calls the operator of the    *)
(* image when install_hook was given one, and else falls back to a simpler *)
(* operator, down to malloc, posix_memalign and free.                      *)
(* The libraries of the host call these operators; the image is linked to  *)
(* those it defines itself, so that blocks pass between the two.           *)
(*                                                                         *)
(* An operator is its verb and the set of its variants, <<"new", {}>> for  *)
(* _Znwm up to <<"delete", {"array", "sized", "align"}>> for               *)
(* _ZdaPvmSt11align_val_t.                                                 *)
(***************************************************************************)
EXTENDS Integers, FiniteSets

CONSTANTS ExportSets,  \* the sets of operators an image may export
          MaxBlocks    \* bound on the blocks alive at once

NewVariants == SUBSET {"array", "align", "nothrow"}

\* C++ has no delete that is both sized and nothrow.
DeleteVariants == {d \in SUBSET {"array", "align", "nothrow", "sized"} :
                      ~ {"nothrow", "sized"} \subseteq d}

Operators == ({"new"} \X NewVariants) \cup ({"delete"} \X DeleteVariants)

ASSUME OperatorAssumption == /\ \A ops \in ExportSets : ops \subseteq Operators
                             /\ MaxBlocks \in Nat

-----------------------------------------------------------------------------
(* The operators a call tries, in order; after the last one it is native. *)

\* Variant with a plausible bug: an aligned new falls back to the plain one.
NewChainUnaligned(a) == <<a, a \ {"nothrow"}, a \ {"nothrow", "array", "align"}>>

\* nothrow goes first, then array; an aligned new stays aligned.
NewChain(a) == <<a, a \ {"nothrow"}, a \ {"nothrow", "array"}>>

\* Variant with a plausible bug: an array delete does not fall back to delete.
DeleteChainStops(d) == <<d, d \ {"nothrow"}, d \ {"nothrow", "align"},
                         d \ {"nothrow", "align", "sized"},
                         d \ {"nothrow", "align", "sized"}>>

\* nothrow, then align, then sized, then array.
DeleteChain(d) == <<d, d \ {"nothrow"}, d \ {"nothrow", "align"},
                    d \ {"nothrow", "align", "sized"}, {}>>

\* The places of a chain whose hook is installed.
Hooked(verb, chain, hooked) == {i \in DOMAIN chain : <<verb, chain[i]>> \in hooked}

First(places) == CHOOSE i \in places : \A j \in places : i <= j

\* The allocator that serves a call, by the first operator of its chain that is
\* hooked: malloc, posix_memalign and free are one; in the image the aligned
\* operators go together, and so do the others.
Family(verb, chain, hooked) ==
    LET places == Hooked(verb, chain, hooked)
    IN  IF places = {} THEN "host"
        ELSE IF "align" \in chain[First(places)] THEN "image_aligned" ELSE "image"

NewFamily(a, hooked)    == Family("new", NewChain(a), hooked)
DeleteFamily(d, hooked) == Family("delete", DeleteChain(d), hooked)

\* Forms of new and delete that C++ pairs.
Pairs(a, d) == \A v \in {"array", "align"} : v \in a <=> v \in d

\* The image replaces the basic operators.
Basic(ops) == {<<"new", {}>>, <<"delete", {}>>} \subseteq ops

\* And also the basic aligned new, and every aligned delete that the chain does
\* not reach by dropping nothrow.
Complete(ops) ==
    /\ Basic(ops)
    /\ <<"new", {"align"}>> \in ops
    /\ \A d \in DeleteVariants :
          "align" \in d /\ "nothrow" \notin d => <<"delete", d>> \in ops

-----------------------------------------------------------------------------
VARIABLES exports,    \* the operators the image exports
          hooks,      \* those whose hook is Some
          installing, \* resolve_exports is still to end
          blocks,     \* the blocks alive: variants of the new, its allocator,
                      \* and whether it was called before the hooks were in
          freed       \* the block a delete frees, with the allocator it goes to

vars == <<exports, hooks, installing, blocks, freed>>

Families == {"host", "image", "image_aligned"}

Blocks == [variants: NewVariants, family: Families, early: BOOLEAN]

Init == /\ exports \in ExportSets
        /\ hooks = {}
        /\ installing = TRUE
        /\ blocks = {}
        /\ freed = {}

\* Variant with a plausible bug: an aligned operator is stored as the plain one's.
InstallHookMisnamed == /\ installing
                       /\ \E op \in exports \ hooks :
                             hooks' = hooks \cup {op, <<op[1], op[2] \ {"align"}>>}
                       /\ UNCHANGED <<exports, installing, blocks, freed>>

\* install_hook, for the exports in whatever order the export trie has.
InstallHook == /\ installing
               /\ \E op \in exports \ hooks : hooks' = hooks \cup {op}
               /\ UNCHANGED <<exports, installing, blocks, freed>>

InstallDone == /\ installing
               /\ exports \subseteq hooks
               /\ installing' = FALSE
               /\ UNCHANGED <<exports, hooks, blocks, freed>>

\* Nobody calls an operator while resolve_exports runs: the libraries dlopen
\* brings in start before it, the image's code after it.
Calm == hooks = {} \/ ~ installing

\* A library of the host goes down the chain; the image calls its own operator.
Callers(verb, chain) ==
    {chain} \cup {own \in {<<chain[1]>>} : ~ installing /\ <<verb, own[1]>> \in exports}

New(a) == /\ Calm
          /\ Cardinality(blocks) < MaxBlocks
          /\ \E chain \in Callers("new", NewChain(a)) :
                blocks' = blocks \cup
                    {[variants |-> a, family |-> Family("new", chain, hooks),
                      early |-> installing]}
          /\ freed' = {}
          /\ UNCHANGED <<exports, hooks, installing>>

\* The caller uses a form of delete that goes with the new.
Delete(b, d) == /\ Calm
                /\ Pairs(b.variants, d)
                /\ blocks' = blocks \ {b}
                /\ \E chain \in Callers("delete", DeleteChain(d)) :
                      freed' = {<<b, Family("delete", chain, hooks)>>}
                /\ UNCHANGED <<exports, hooks, installing>>

Next == \/ InstallHook
        \/ InstallDone
        \/ \E a \in NewVariants : New(a)
        \/ \E b \in blocks, d \in DeleteVariants : Delete(b, d)

Spec == Init /\ [][Next]_vars

-----------------------------------------------------------------------------
\* Only operators the image exports are hooked, and blocks are of the allocators
\* there are (install_hook, newer.rs:292-323).
TypeOK == /\ exports \in ExportSets
          /\ hooks \subseteq exports
          /\ installing \in BOOLEAN
          /\ blocks \subseteq Blocks
          /\ freed \subseteq Blocks \X Families

\* When the image replaces the basic new and delete, an unaligned block that was
\* allocated once the hooks are in goes back to the image, whatever forms of new
\* and delete were used (the fallbacks newer.rs:71-95, 115-135, 160-192, 224-256).
PlainBlocksReturn ==
    Basic(exports) =>
        \A f \in freed : "align" \notin f[1].variants /\ ~ f[1].early =>
            f[2] = f[1].family

\* With a complete set of exports that is so of the aligned blocks too, though
\* an aligned new falls back to an aligned one and an aligned delete to one
\* that is not (newer.rs:97-113, 137-157, 194-222, 258-290).
LateBlocksReturn ==
    Complete(exports) => \A f \in freed : ~ f[1].early => f[2] = f[1].family
=============================================================================
