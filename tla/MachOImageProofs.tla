-------------------------- MODULE MachOImageProofs --------------------------
(***************************************************************************)
(* For every image a linker makes, every address mmap returns and every    *)
(* answer of the resolver: TypeOK, ImageReady, PointersInImage,            *)
(* TlvStorageApart, HooksBeforeCode and InitOrder are invariants of        *)
(* MachOImage.                                                             *)
(***************************************************************************)
EXTENDS MachOImage, WellFoundedInduction, TLAPS

(* Facts about the words a stage owes. *)

\* A word is a word: wrapping keeps values in range, and leaves alone those
\* that already are (usize::wrapping_add and wrapping_sub).
LEMMA WrapFacts == /\ \A x \in Int : Wrap(x) \in Words
                   /\ \A x \in Words : Wrap(x) = x
BY WordAssumption DEF Wrap, Words

\* What a segment leaves at a word it touches is a word.
LEMMA SegmentWordType ==
    ASSUME NEW im \in Images, NEW w \in Offsets(im),
           NEW j \in DOMAIN im.segments, Touches(im, j, w)
    PROVE  SegmentWord(im, j, w) \in Words
<1>1. WellFormed(im)
  BY ImageAssumption
<1> DEFINE s == im.segments[j]
<1>2. /\ s.vmaddr \in Int /\ s.filesize \in Int
      /\ s.data \in [1 .. s.filesize -> Words]
      /\ im.vmbase \in Int /\ w \in Int
  BY <1>1 DEF WellFormed, Words, Offsets
<1>3. CASE ZeroFilled(im, j, w)
  BY <1>3, WordAssumption DEF SegmentWord, Words
<1>4. CASE ~ ZeroFilled(im, j, w)
  <2>1. FileBacked(im, j, w)
    BY <1>4 DEF Touches
  <2>2. w - (s.vmaddr - im.vmbase) + 1 \in 1 .. s.filesize
    BY <2>1, <1>2 DEF FileBacked, Within
  <2> QED BY <2>2, <1>2, <1>4 DEF SegmentWord
<1> QED BY <1>3, <1>4

\* The segment that touches a word is the one FileWord asks.
LEMMA FileWordOwner ==
    ASSUME NEW im \in Images, NEW w \in Offsets(im),
           NEW j \in DOMAIN im.segments, Touches(im, j, w)
    PROVE  FileWord(im, w) = SegmentWord(im, j, w)
<1> DEFINE owners == {i \in DOMAIN im.segments : Touches(im, i, w)}
<1>1. j \in owners
  OBVIOUS
<1>2. \A i \in owners : i = j
  BY ImageAssumption DEF Disjoint
<1>3. (CHOOSE i \in owners : TRUE) = j
  BY <1>1, <1>2
<1> QED BY <1>1, <1>3 DEF FileWord

\* FileWord is a word.
LEMMA FileWordType ==
    ASSUME NEW im \in Images, NEW w \in Offsets(im)
    PROVE  FileWord(im, w) \in Words
<1>1. CASE \E j \in DOMAIN im.segments : Touches(im, j, w)
  <2>1. PICK j \in DOMAIN im.segments : Touches(im, j, w)
    BY <1>1
  <2> QED BY <2>1, FileWordOwner, SegmentWordType
<1>2. CASE ~ \E j \in DOMAIN im.segments : Touches(im, j, w)
  <2>1. FileWord(im, w) = 0
    BY <1>2 DEF FileWord
  <2> QED BY <2>1, WordAssumption DEF Words
<1> QED BY <1>1, <1>2

\* No import but the one that binds a word has a say in it.
LEMMA LinkedWordBinder ==
    ASSUME NEW im \in Images, NEW b, NEW res, NEW w \in Offsets(im),
           NEW j \in DOMAIN im.imports, BindsAt(im, res, j, w)
    PROVE  LinkedWord(im, b, res, w)
              = Wrap(res[im.imports[j].name] + im.imports[j].addend)
<1> DEFINE binders == {i \in DOMAIN im.imports : BindsAt(im, res, i, w)}
<1>1. j \in binders
  OBVIOUS
<1>2. \A i \in binders : i = j
  <2> SUFFICES ASSUME NEW i \in binders PROVE i = j
    OBVIOUS
  <2>1. WellFormed(im) /\ Disjoint(im)
    BY ImageAssumption
  <2>2. /\ im.imports[i].address \in Int /\ im.imports[j].address \in Int
        /\ im.vmbase \in Int
    BY <2>1 DEF WellFormed, Words
  <2>3. im.imports[i].address - im.vmbase = im.imports[j].address - im.vmbase
    BY DEF BindsAt
  <2>4. im.imports[i].address = im.imports[j].address
    BY <2>2, <2>3
  <2> QED BY <2>1, <2>4 DEF Disjoint
<1>3. (CHOOSE i \in binders : TRUE) = j
  BY <1>1, <1>2
<1> QED BY <1>1, <1>3 DEF LinkedWord

\* A word no import binds keeps what the rebase left.
LEMMA LinkedWordFree ==
    ASSUME NEW im, NEW b, NEW res, NEW w,
           \A j \in DOMAIN im.imports : ~ BindsAt(im, res, j, w)
    PROVE  LinkedWord(im, b, res, w) = SlidWord(im, b, w)
BY DEF LinkedWord

\* An image that is where it was linked needs no rebase.
LEMMA SlidAtHome ==
    ASSUME NEW im \in Images, NEW w \in Offsets(im)
    PROVE  /\ SlidWord(im, im.vmbase, w) = FileWord(im, w)
           /\ Wrap(FileWord(im, w) - im.vmbase + im.vmbase) = FileWord(im, w)
<1>1. im.vmbase \in Int
  BY ImageAssumption DEF WellFormed, Words
<1>2. FileWord(im, w) \in Words /\ FileWord(im, w) \in Int
  BY FileWordType DEF Words
<1>3. FileWord(im, w) - im.vmbase + im.vmbase = FileWord(im, w)
  BY <1>1, <1>2
<1> QED BY <1>2, <1>3, WrapFacts DEF SlidWord

-----------------------------------------------------------------------------
(* The words of the thread-local descriptors. *)

\* Offset w is written by fixup_tlv in its iteration r.
FixedBy(im, r, w) == DescriptorWord(im, r, w, 0) \/ DescriptorWord(im, r, w, 1)

\* The word after an opaq is the offset word of the same descriptor: it is in
\* the mapping, and fixup_tlv writes it in no iteration (the ranges hold whole
\* descriptors and share no word).
LEMMA OffsetWordKept ==
    ASSUME NEW im \in Images, NEW w \in Offsets(im),
           NEW r \in DOMAIN im.tlv.var_ranges, DescriptorWord(im, r, w, 1)
    PROVE  /\ w + 1 \in Offsets(im)
           /\ DescriptorWord(im, r, w + 1, 2)
           /\ \A i \in DOMAIN im.tlv.var_ranges : ~ FixedBy(im, i, w + 1)
<1> DEFINE a == im.tlv.var_ranges[r].addr - im.vmbase
           n == im.tlv.var_ranges[r].size
           x == w - a
<1>1. WellFormed(im) /\ Disjoint(im)
  BY ImageAssumption
<1>2. /\ a \in Int /\ n \in Nat /\ w \in Int /\ x \in Int
      /\ im.vmbase \in Nat /\ im.vmsize \in Nat
  BY <1>1, WordAssumption DEF WellFormed, Words, Offsets
<1>3. /\ 0 <= x /\ x < n /\ x % 3 = 1 /\ n % 3 = 0
      /\ im.tlv.var_ranges[r].addr + n <= im.vmsize
  <2>1. a <= w /\ w < a + n /\ x % 3 = 1
    BY DEF DescriptorWord, Within
  <2>2. n % 3 = 0 /\ im.tlv.var_ranges[r].addr + n <= im.vmsize
    BY <1>1 DEF Disjoint
  <2>3. 0 <= x /\ x < n
    <3> HIDE DEF a, n
    <3> QED BY <2>1, <1>2
  <2> QED BY <2>1, <2>2, <2>3
<1>4. x + 1 < n /\ (x + 1) % 3 = 2
  <2> HIDE DEF x, n
  <2> QED BY <1>2, <1>3
<1>5. (w + 1) - a = x + 1
  <2> HIDE DEF a
  <2> QED BY <1>2
<1>6. DescriptorWord(im, r, w + 1, 2)
  <2>1. a <= w + 1 /\ w + 1 < a + n
    <3> HIDE DEF a, n
    <3> QED BY <1>2, <1>3, <1>4
  <2>2. ((w + 1) - a) % 3 = 2
    BY <1>4, <1>5
  <2>3. Within(im, im.tlv.var_ranges[r].addr, im.tlv.var_ranges[r].size, w + 1)
    BY <2>1 DEF Within
  <2>4. ((w + 1) - (im.tlv.var_ranges[r].addr - im.vmbase)) % 3 = 2
    BY <2>2
  <2> HIDE DEF a, n, x
  <2> QED BY <2>3, <2>4 DEF DescriptorWord
<1>7. w + 1 \in Offsets(im)
  <2>1. w + 1 < a + n /\ a + n <= im.vmsize
    <3>1. a + n = im.tlv.var_ranges[r].addr + n - im.vmbase
      BY <1>1, <1>2 DEF WellFormed
    <3>2. w + 1 < a + n
      <4> HIDE DEF a, n
      <4> QED BY <1>2, <1>4
    <3>3. im.tlv.var_ranges[r].addr \in Nat
      BY <1>1 DEF WellFormed
    <3> QED BY <3>1, <3>2, <3>3, <1>2, <1>3
  <2>2. w \in Nat
    BY DEF Offsets
  <2> HIDE DEF a, n
  <2> QED BY <2>1, <2>2, <1>2 DEF Offsets
<1>8. ASSUME NEW i \in DOMAIN im.tlv.var_ranges, FixedBy(im, i, w + 1)
      PROVE  FALSE
  <2>1. i = r
    BY <1>1, <1>6, <1>7, <1>8 DEF FixedBy, Disjoint
  <2> QED BY <2>1, <1>6, <1>8 DEF FixedBy, DescriptorWord
<1> QED BY <1>6, <1>7, <1>8

\* What fixup_tlv owes to a word depends on the word's role only.
LEMMA ReadyWordCases ==
    ASSUME NEW im \in Images, NEW b, NEW res, NEW w \in Offsets(im)
    PROVE  /\ \A r \in DOMAIN im.tlv.var_ranges :
                 /\ DescriptorWord(im, r, w, 0) =>
                       ReadyWord(im, b, res, w) = Thunk
                 /\ DescriptorWord(im, r, w, 1) =>
                       ReadyWord(im, b, res, w)
                          = Wrap(b + im.tlv.start + LinkedWord(im, b, res, w + 1))
           /\ (\A r \in DOMAIN im.tlv.var_ranges : ~ FixedBy(im, r, w)) =>
                 ReadyWord(im, b, res, w) = LinkedWord(im, b, res, w)
<1> DEFINE Is(n) == \E r \in DOMAIN im.tlv.var_ranges : DescriptorWord(im, r, w, n)
<1>1. ~ (Is(0) /\ Is(1))
  <2>1. ASSUME NEW i \in DOMAIN im.tlv.var_ranges, DescriptorWord(im, i, w, 0),
               NEW j \in DOMAIN im.tlv.var_ranges, DescriptorWord(im, j, w, 1)
        PROVE  FALSE
    <3>1. i = j
      BY <2>1, ImageAssumption DEF Disjoint
    <3> QED BY <2>1, <3>1 DEF DescriptorWord
  <2> QED BY <2>1
<1>2. Is(0) => ReadyWord(im, b, res, w) = Thunk
  BY <1>1 DEF ReadyWord
<1>3. Is(1) => ReadyWord(im, b, res, w)
                  = Wrap(b + im.tlv.start + LinkedWord(im, b, res, w + 1))
  BY <1>1 DEF ReadyWord
<1>4. ~ Is(0) /\ ~ Is(1) => ReadyWord(im, b, res, w) = LinkedWord(im, b, res, w)
  BY DEF ReadyWord
<1> QED BY <1>2, <1>3, <1>4 DEF FixedBy

-----------------------------------------------------------------------------
(* The inductive invariant: what each loop has done to the mapping so far. *)

\* A mapping the code did not relocate is at the preferred address.
AtHome == stage # "map_image" /\ ~ should_rebase /\ stage # "error"
             => base = img.vmbase

CopyLoop ==
    stage = "copy" =>
        \A w \in Offsets(img) :
            mem[w] = IF \E j \in DOMAIN img.segments : j < k /\ Touches(img, j, w)
                     THEN FileWord(img, w)
                     ELSE 0

RebaseLoop ==
    stage = "rebase" =>
        \A w \in Offsets(img) :
            mem[w] = IF \E j \in DOMAIN img.rebase : j < k /\ RebasesAt(img, j, w)
                     THEN Wrap(FileWord(img, w) - img.vmbase + base)
                     ELSE FileWord(img, w)

ImportLoop ==
    stage = "resolve_imports" =>
        \A w \in Offsets(img) :
            mem[w] = IF \E j \in DOMAIN img.imports :
                            j < k /\ BindsAt(img, resolver, j, w)
                     THEN LinkedWord(img, base, resolver, w)
                     ELSE SlidWord(img, base, w)

ExportLoop ==
    stage = "resolve_exports" =>
        \A w \in Offsets(img) : mem[w] = LinkedWord(img, base, resolver, w)

TlvLoop ==
    stage = "fixup_tlv" =>
        \A w \in Offsets(img) :
            mem[w] = IF \E r \in DOMAIN img.tlv.var_ranges :
                            r < k /\ FixedBy(img, r, w)
                     THEN ReadyWord(img, base, resolver, w)
                     ELSE LinkedWord(img, base, resolver, w)

LoopInv == /\ TypeOK
           /\ AtHome
           /\ CopyLoop
           /\ RebaseLoop
           /\ ImportLoop
           /\ ExportLoop
           /\ TlvLoop
           /\ ImageReady

\* The lists a loop runs over are lists.
LEMMA Lists ==
    ASSUME NEW im \in Images
    PROVE  /\ IsList(im.segments) /\ IsList(im.rebase) /\ IsList(im.imports)
           /\ IsList(im.exports) /\ IsList(im.tlv.var_ranges)
BY ImageAssumption DEF WellFormed

\* map_image has begun at one of the image's addresses, with nothing loaded.
LEMMA InitLoopInv == Init => LoopInv
<1> SUFFICES ASSUME Init PROVE LoopInv
  OBVIOUS
<1>1. TypeOK
  <2>1. should_rebase \in BOOLEAN
    BY Zenon DEF Init
  <2>2. base \in Words /\ hooks \in [HookNames -> Words]
    BY WordAssumption DEF Init, Words
  <2>3. /\ img \in Images /\ resolver \in [Names -> HostAddrs \cup {0}]
        /\ stage = "map_image" /\ k = 1
    BY DEF Init
  <2> QED BY <2>1, <2>2, <2>3 DEF TypeOK, Stages
<1>2. AtHome /\ CopyLoop /\ RebaseLoop /\ ImportLoop /\ ExportLoop /\ TlvLoop
      /\ ImageReady
  BY DEF Init, AtHome, CopyLoop, RebaseLoop, ImportLoop, ExportLoop, TlvLoop,
         ImageReady
<1> QED BY <1>1, <1>2 DEF LoopInv

\* Every action keeps the variables in their types.
LEMMA TypeStep == TypeOK /\ [Next]_vars => TypeOK'
<1> SUFFICES ASSUME TypeOK, [Next]_vars PROVE TypeOK'
  OBVIOUS
<1> USE DEF TypeOK, Stages, fixed
<1>1. /\ IsList(img.segments) /\ IsList(img.rebase) /\ IsList(img.imports)
      /\ IsList(img.exports) /\ IsList(img.tlv.var_ranges)
      /\ img.vmbase \in Words /\ img.vmbase \in Int /\ 0 \in Words
      /\ base \in Int /\ Bases \subseteq Words /\ Thunk \in Words
  BY Lists, ImageAssumption, WordAssumption DEF WellFormed, Words
<1>2. CASE MapPreferred
  <2>1. should_rebase' \in BOOLEAN
    BY <1>2, Zenon DEF MapPreferred
  <2>2. mem' \in [Offsets(img) -> Words] /\ base' \in Words
    BY <1>1, <1>2 DEF MapPreferred
  <2>3. img' = img /\ resolver' = resolver /\ stage' = "copy" /\ k' = 1
        /\ hooks' = hooks
    BY <1>2 DEF MapPreferred
  <2> QED BY <2>1, <2>2, <2>3
<1>3. CASE MapAnywhere
  <2>1. should_rebase' \in BOOLEAN
    BY <1>3, Zenon DEF MapAnywhere
  <2>2. mem' \in [Offsets(img) -> Words] /\ base' \in Words
    BY <1>1, <1>3 DEF MapAnywhere
  <2>3. img' = img /\ resolver' = resolver /\ stage' = "copy" /\ k' = 1
        /\ hooks' = hooks
    BY <1>3 DEF MapAnywhere
  <2> QED BY <2>1, <2>2, <2>3
<1>4. CASE MapFails
  BY <1>4 DEF MapFails
<1>5. CASE CopySegment
  <2>1. k \in DOMAIN img.segments
    BY <1>1, <1>5 DEF CopySegment, Iterate, IsList
  <2>2. \A w \in Offsets(img) :
           (IF Touches(img, k, w) THEN SegmentWord(img, k, w) ELSE mem[w]) \in Words
    BY <2>1, <1>5, SegmentWordType DEF CopySegment, Iterate
  <2>3. mem' \in [Offsets(img) -> Words]
    BY <2>2, <1>5 DEF CopySegment
  <2> QED BY <2>3, <1>5 DEF CopySegment, Iterate
<1>6. CASE CopyDone
  BY <1>6 DEF CopyDone, Advance
<1>7. CASE RebaseOne
  <2>1. \A w \in Offsets(img) : mem[w] \in Int
    BY <1>7 DEF RebaseOne, Iterate, Words
  <2>2. \A w \in Offsets(img) :
           (IF RebasesAt(img, k, w) THEN Wrap(mem[w] - img.vmbase + base)
                                    ELSE mem[w]) \in Words
    BY <2>1, <1>1, <1>7, WrapFacts DEF RebaseOne, Iterate
  <2>3. mem' \in [Offsets(img) -> Words]
    BY <2>2, <1>7 DEF RebaseOne
  <2> QED BY <2>3, <1>7 DEF RebaseOne, Iterate
<1>8. CASE RebaseDone
  BY <1>8 DEF RebaseDone, Advance
<1>9. CASE ImportOne
  <2>1. k \in DOMAIN img.imports
    BY <1>1, <1>9 DEF ImportOne, Iterate, IsList
  <2>2. img.imports[k].addend \in Int /\ img.imports[k].name \in Names
    BY <2>1, ImageAssumption DEF WellFormed
  <2>3. \A n \in Names : resolver[n] \in Int
    <3>1. HostAddrs \cup {0} \subseteq Int
      BY WordAssumption DEF Words
    <3> QED BY <3>1
  <2>4. Wrap(resolver[img.imports[k].name] + img.imports[k].addend) \in Words
    BY <2>2, <2>3, WrapFacts
  <2>5. mem' \in [Offsets(img) -> Words]
    BY <2>4, <1>9 DEF ImportOne, Iterate
  <2> QED BY <2>5, <1>9 DEF ImportOne, Iterate
<1>10. CASE ImportsDone
  BY <1>10 DEF ImportsDone, Advance
<1>11. CASE ExportOne
  <2>1. k \in DOMAIN img.exports
    BY <1>1, <1>11 DEF ExportOne, Iterate, IsList
  <2>2. img.exports[k].address \in Int
    BY <2>1, ImageAssumption DEF WellFormed
  <2>3. Wrap(base + img.exports[k].address) \in Words
    BY <2>2, <1>1, WrapFacts
  <2>4. hooks' \in [HookNames -> Words]
    BY <2>3, <1>11 DEF ExportOne
  <2> QED BY <2>4, <1>11 DEF ExportOne, Iterate
<1>12. CASE ExportsDone
  BY <1>12 DEF ExportsDone, Advance
<1>13. CASE TlvRange
  <2>1. k \in DOMAIN img.tlv.var_ranges
    BY <1>1, <1>13 DEF TlvRange, Iterate, IsList
  <2>2. img.tlv.start \in Int
    BY ImageAssumption DEF WellFormed
  <2>3. \A w \in Offsets(img) : mem[w] \in Words /\ mem[w] \in Int
    BY <1>13 DEF TlvRange, Iterate, Words
  <2>4. ASSUME NEW w \in Offsets(img), DescriptorWord(img, k, w, 1)
        PROVE  Wrap(base + img.tlv.start + mem[w + 1]) \in Words
    <3>1. w + 1 \in Offsets(img)
      BY <2>1, <2>4, OffsetWordKept
    <3> QED BY <3>1, <2>2, <2>3, <1>1, WrapFacts
  <2>5. mem' \in [Offsets(img) -> Words]
    BY <2>3, <2>4, <1>1, <1>13 DEF TlvRange
  <2> QED BY <2>5, <1>13 DEF TlvRange, Iterate
<1>14. CASE TlvDone
  BY <1>14 DEF TlvDone, Advance
<1>15. CASE CollectInits
  BY <1>15 DEF CollectInits
<1>16. CASE RunInit
  <2>1. mem \in [Offsets(img) -> Words]
    BY <1>16 DEF RunInit, Iterate
  <2>2. mem' \in [Offsets(img) -> Words]
    BY <2>1, <1>1, <1>16 DEF RunInit, Scribbles
  <2> QED BY <2>2, <1>16 DEF RunInit, Iterate
<1>17. CASE EnterGame
  BY <1>17 DEF EnterGame
<1>18. CASE Finished
  BY <1>18 DEF Finished, vars
<1>19. CASE UNCHANGED vars
  BY <1>19 DEF vars
<1> QED BY <1>2, <1>3, <1>4, <1>5, <1>6, <1>7, <1>8, <1>9, <1>10, <1>11, <1>12,
           <1>13, <1>14, <1>15, <1>16, <1>17, <1>18, <1>19 DEF Next

\* Every action keeps the loop invariants: one step per action, and below it
\* the invariant of the loop it belongs to or hands over to.  The invariants of
\* the other loops say nothing of the stage the action leads to.
LEMMA LoopStep == LoopInv /\ [Next]_vars => LoopInv'
<1> SUFFICES ASSUME LoopInv, [Next]_vars PROVE LoopInv'
  OBVIOUS
<1> USE DEF fixed
<1>1. /\ TypeOK' /\ TypeOK
      /\ img \in Images /\ k \in Nat \ {0}
  BY TypeStep DEF LoopInv, TypeOK
<1>2. /\ IsList(img.segments) /\ IsList(img.rebase) /\ IsList(img.imports)
      /\ IsList(img.exports) /\ IsList(img.tlv.var_ranges)
  BY <1>1, Lists
<1> DEFINE Others(s) ==
        /\ s # "copy" => CopyLoop'
        /\ s # "rebase" => RebaseLoop'
        /\ s # "resolve_imports" => ImportLoop'
        /\ s # "resolve_exports" => ExportLoop'
        /\ s # "fixup_tlv" => TlvLoop'
        /\ s # "run_mod_init" => ImageReady'
<1>o. Others(stage')
  BY DEF CopyLoop, RebaseLoop, ImportLoop, ExportLoop, TlvLoop, ImageReady
<1> HIDE DEF Others
<1>3. CASE MapPreferred \/ MapAnywhere
  <2>1. stage' = "copy" /\ k' = 1 /\ img' = img
    BY <1>3 DEF MapPreferred, MapAnywhere
  <2>2. \A w \in Offsets(img) : mem'[w] = 0
    BY <1>3 DEF MapPreferred, MapAnywhere
  <2>3. AtHome'
    BY <1>3 DEF AtHome, MapPreferred, MapAnywhere
  <2>4. CopyLoop'
    BY <1>2, <2>1, <2>2 DEF CopyLoop, IsList
  <2> QED BY <1>1, <1>o, <2>1, <2>3, <2>4 DEF LoopInv, Others
<1>4. CASE MapFails
  <2>1. stage' = "error"
    BY <1>4 DEF MapFails
  <2>2. AtHome'
    BY <2>1 DEF AtHome
  <2> QED BY <1>1, <1>o, <2>1, <2>2 DEF LoopInv, Others
<1>5. CASE CopySegment
  <2>1. /\ stage = "copy" /\ stage' = "copy" /\ k' = k + 1 /\ img' = img
        /\ k \in DOMAIN img.segments
    BY <1>1, <1>2, <1>5 DEF CopySegment, Iterate, IsList
  <2>2. AtHome'
    BY <1>5, <2>1 DEF LoopInv, AtHome, CopySegment
  <2>3. ASSUME NEW w \in Offsets(img)
        PROVE  mem'[w] = IF \E j \in DOMAIN img.segments :
                                j < k + 1 /\ Touches(img, j, w)
                         THEN FileWord(img, w)
                         ELSE 0
    <3>1. mem'[w] = IF Touches(img, k, w) THEN SegmentWord(img, k, w) ELSE mem[w]
      BY <1>5 DEF CopySegment
    <3>2. CASE Touches(img, k, w)
      <4>1. mem'[w] = FileWord(img, w)
        BY <1>1, <2>1, <3>1, <3>2, FileWordOwner
      <4> QED BY <1>1, <2>1, <3>2, <4>1
    <3>3. CASE ~ Touches(img, k, w)
      <4>1. \A j \in DOMAIN img.segments :
               j < k + 1 /\ Touches(img, j, w) <=> j < k /\ Touches(img, j, w)
        BY <1>1, <1>2, <3>3 DEF IsList
      <4> QED BY <2>1, <3>1, <3>3, <4>1 DEF LoopInv, CopyLoop
    <3> QED BY <3>2, <3>3
  <2>4. CopyLoop'
    BY <2>1, <2>3 DEF CopyLoop
  <2> QED BY <1>1, <1>o, <2>1, <2>2, <2>4 DEF LoopInv, Others
<1>6. CASE CopyDone
  <2>1. /\ stage = "copy" /\ k' = 1 /\ img' = img /\ base' = base
        /\ should_rebase' = should_rebase /\ mem' = mem /\ resolver' = resolver
        /\ k > Len(img.segments)
        /\ stage' = IF should_rebase THEN "rebase" ELSE "resolve_imports"
    BY <1>6 DEF CopyDone, Advance
  <2>2. AtHome'
    BY <2>1 DEF LoopInv, AtHome
  <2>3. \A w \in Offsets(img) : mem[w] = FileWord(img, w)
    <3> SUFFICES ASSUME NEW w \in Offsets(img) PROVE mem[w] = FileWord(img, w)
      OBVIOUS
    <3>1. \A j \in DOMAIN img.segments : j < k
      BY <1>1, <1>2, <2>1 DEF IsList
    <3>2. CASE \E j \in DOMAIN img.segments : Touches(img, j, w)
      BY <2>1, <3>1, <3>2 DEF LoopInv, CopyLoop
    <3>3. CASE ~ \E j \in DOMAIN img.segments : Touches(img, j, w)
      <4>1. FileWord(img, w) = 0
        BY <3>3 DEF FileWord
      <4> QED BY <2>1, <3>3, <4>1 DEF LoopInv, CopyLoop
    <3> QED BY <3>2, <3>3
  <2>4. CASE should_rebase
    <3>1. RebaseLoop'
      BY <1>2, <2>1, <2>3, <2>4 DEF RebaseLoop, IsList
    <3> QED BY <1>1, <1>o, <2>1, <2>2, <2>4, <3>1 DEF LoopInv, Others
  <2>5. CASE ~ should_rebase
    <3>1. base = img.vmbase
      BY <2>1, <2>5 DEF LoopInv, AtHome
    <3>2. \A w \in Offsets(img) : mem[w] = SlidWord(img, base, w)
      BY <1>1, <2>3, <3>1, SlidAtHome
    <3>3. ImportLoop'
      BY <1>2, <2>1, <2>5, <3>2 DEF ImportLoop, IsList
    <3> QED BY <1>1, <1>o, <2>1, <2>2, <2>5, <3>3 DEF LoopInv, Others
  <2> QED BY <2>4, <2>5
<1>7. CASE RebaseOne
  <2>1. /\ stage = "rebase" /\ stage' = "rebase" /\ k' = k + 1
        /\ img' = img /\ base' = base /\ k \in DOMAIN img.rebase
    BY <1>1, <1>2, <1>7 DEF RebaseOne, Iterate, IsList
  <2>2. AtHome'
    BY <1>7, <2>1 DEF LoopInv, AtHome, RebaseOne
  <2>3. ASSUME NEW w \in Offsets(img)
        PROVE  mem'[w] = IF \E j \in DOMAIN img.rebase :
                                j < k + 1 /\ RebasesAt(img, j, w)
                         THEN Wrap(FileWord(img, w) - img.vmbase + base)
                         ELSE FileWord(img, w)
    <3>1. mem'[w] = IF RebasesAt(img, k, w)
                    THEN Wrap(mem[w] - img.vmbase + base) ELSE mem[w]
      BY <1>7 DEF RebaseOne
    <3>2. CASE RebasesAt(img, k, w)
      <4>1. \A j \in DOMAIN img.rebase : RebasesAt(img, j, w) => j = k
        BY <1>1, <2>1, <3>2, ImageAssumption DEF Disjoint
      <4>2. mem[w] = FileWord(img, w)
        BY <1>1, <2>1, <4>1 DEF LoopInv, RebaseLoop
      <4> QED BY <1>1, <2>1, <3>1, <3>2, <4>2
    <3>3. CASE ~ RebasesAt(img, k, w)
      <4>1. \A j \in DOMAIN img.rebase :
               j < k + 1 /\ RebasesAt(img, j, w) <=> j < k /\ RebasesAt(img, j, w)
        BY <1>1, <1>2, <3>3 DEF IsList
      <4> QED BY <2>1, <3>1, <3>3, <4>1 DEF LoopInv, RebaseLoop
    <3> QED BY <3>2, <3>3
  <2>4. RebaseLoop'
    BY <2>1, <2>3 DEF RebaseLoop
  <2> QED BY <1>1, <1>o, <2>1, <2>2, <2>4 DEF LoopInv, Others
<1>8. CASE RebaseDone
  <2>1. /\ stage = "rebase" /\ stage' = "resolve_imports" /\ k' = 1
        /\ img' = img /\ base' = base /\ mem' = mem /\ resolver' = resolver
        /\ should_rebase' = should_rebase /\ k > Len(img.rebase)
    BY <1>8 DEF RebaseDone, Advance
  <2>2. AtHome'
    BY <2>1 DEF LoopInv, AtHome
  <2>3. ASSUME NEW w \in Offsets(img)
        PROVE  mem[w] = SlidWord(img, base, w)
    <3>1. \A j \in DOMAIN img.rebase : j < k
      BY <1>1, <1>2, <2>1 DEF IsList
    <3>2. mem[w] = IF \E j \in DOMAIN img.rebase : RebasesAt(img, j, w)
                   THEN Wrap(FileWord(img, w) - img.vmbase + base)
                   ELSE FileWord(img, w)
      BY <2>1, <3>1 DEF LoopInv, RebaseLoop
    <3>3. CASE base = img.vmbase
      BY <1>1, <3>2, <3>3, SlidAtHome
    <3>4. CASE base # img.vmbase
      BY <3>2, <3>4 DEF SlidWord
    <3> QED BY <3>3, <3>4
  <2>4. ImportLoop'
    BY <1>2, <2>1, <2>3 DEF ImportLoop, IsList
  <2> QED BY <1>1, <1>o, <2>1, <2>2, <2>4 DEF LoopInv, Others
<1>9. CASE ImportOne
  <2>1. /\ stage = "resolve_imports" /\ stage' = "resolve_imports" /\ k' = k + 1
        /\ img' = img /\ base' = base /\ resolver' = resolver
        /\ k \in DOMAIN img.imports
    BY <1>1, <1>2, <1>9 DEF ImportOne, Iterate, IsList
  <2>2. AtHome'
    BY <1>9, <2>1 DEF LoopInv, AtHome, ImportOne
  <2>3. ASSUME NEW w \in Offsets(img)
        PROVE  mem'[w] = IF \E j \in DOMAIN img.imports :
                                j < k + 1 /\ BindsAt(img, resolver, j, w)
                         THEN LinkedWord(img, base, resolver, w)
                         ELSE SlidWord(img, base, w)
    <3>1. mem'[w] = IF BindsAt(img, resolver, k, w)
                    THEN Wrap(resolver[img.imports[k].name] + img.imports[k].addend)
                    ELSE mem[w]
      BY <1>9 DEF ImportOne
    <3>2. CASE BindsAt(img, resolver, k, w)
      <4>1. mem'[w] = LinkedWord(img, base, resolver, w)
        BY <1>1, <2>1, <3>1, <3>2, LinkedWordBinder
      <4> QED BY <1>1, <2>1, <3>2, <4>1
    <3>3. CASE ~ BindsAt(img, resolver, k, w)
      <4>1. \A j \in DOMAIN img.imports :
               j < k + 1 /\ BindsAt(img, resolver, j, w)
                  <=> j < k /\ BindsAt(img, resolver, j, w)
        BY <1>1, <1>2, <3>3 DEF IsList
      <4> QED BY <2>1, <3>1, <3>3, <4>1 DEF LoopInv, ImportLoop
    <3> QED BY <3>2, <3>3
  <2>4. ImportLoop'
    BY <2>1, <2>3 DEF ImportLoop
  <2> QED BY <1>1, <1>o, <2>1, <2>2, <2>4 DEF LoopInv, Others
<1>10. CASE ImportsDone
  <2>1. /\ stage = "resolve_imports" /\ stage' = "resolve_exports"
        /\ img' = img /\ base' = base /\ mem' = mem /\ resolver' = resolver
        /\ should_rebase' = should_rebase /\ k > Len(img.imports)
    BY <1>10 DEF ImportsDone, Advance
  <2>2. AtHome'
    BY <2>1 DEF LoopInv, AtHome
  <2>3. ASSUME NEW w \in Offsets(img)
        PROVE  mem[w] = LinkedWord(img, base, resolver, w)
    <3>1. \A j \in DOMAIN img.imports : j < k
      BY <1>1, <1>2, <2>1 DEF IsList
    <3>2. mem[w] = IF \E j \in DOMAIN img.imports : BindsAt(img, resolver, j, w)
                   THEN LinkedWord(img, base, resolver, w)
                   ELSE SlidWord(img, base, w)
      BY <2>1, <3>1 DEF LoopInv, ImportLoop
    <3> QED BY <3>2, LinkedWordFree
  <2>4. ExportLoop'
    BY <2>1, <2>3 DEF ExportLoop
  <2> QED BY <1>1, <1>o, <2>1, <2>2, <2>4 DEF LoopInv, Others
<1>11. CASE ExportOne
  <2>1. /\ stage = "resolve_exports" /\ stage' = "resolve_exports"
        /\ img' = img /\ base' = base /\ mem' = mem /\ resolver' = resolver
        /\ should_rebase' = should_rebase
    BY <1>11 DEF ExportOne, Iterate
  <2>2. AtHome' /\ ExportLoop'
    BY <2>1 DEF LoopInv, AtHome, ExportLoop
  <2> QED BY <1>1, <1>o, <2>1, <2>2 DEF LoopInv, Others
<1>12. CASE ExportsDone
  <2>1. /\ stage = "resolve_exports" /\ stage' = "fixup_tlv" /\ k' = 1
        /\ img' = img /\ base' = base /\ mem' = mem /\ resolver' = resolver
        /\ should_rebase' = should_rebase
    BY <1>12 DEF ExportsDone, Advance
  <2>2. AtHome'
    BY <2>1 DEF LoopInv, AtHome
  <2>3. TlvLoop'
    BY <1>2, <2>1 DEF LoopInv, ExportLoop, TlvLoop, IsList
  <2> QED BY <1>1, <1>o, <2>1, <2>2, <2>3 DEF LoopInv, Others
<1>13. CASE TlvRange
  <2>1. /\ stage = "fixup_tlv" /\ stage' = "fixup_tlv" /\ k' = k + 1
        /\ img' = img /\ base' = base /\ resolver' = resolver
        /\ k \in DOMAIN img.tlv.var_ranges
    BY <1>1, <1>2, <1>13 DEF TlvRange, Iterate, IsList
  <2>2. AtHome'
    BY <1>13, <2>1 DEF LoopInv, AtHome, TlvRange
  <2>3. ASSUME NEW w \in Offsets(img)
        PROVE  mem'[w] = IF \E r \in DOMAIN img.tlv.var_ranges :
                                r < k + 1 /\ FixedBy(img, r, w)
                         THEN ReadyWord(img, base, resolver, w)
                         ELSE LinkedWord(img, base, resolver, w)
    <3>1. mem'[w] = IF DescriptorWord(img, k, w, 0) THEN Thunk
                    ELSE IF DescriptorWord(img, k, w, 1)
                         THEN Wrap(base + img.tlv.start + mem[w + 1])
                    ELSE mem[w]
      BY <1>13 DEF TlvRange
    <3>2. CASE DescriptorWord(img, k, w, 0)
      <4>1. mem'[w] = ReadyWord(img, base, resolver, w)
        BY <1>1, <2>1, <3>1, <3>2, ReadyWordCases
      <4> QED BY <1>1, <2>1, <3>2, <4>1 DEF FixedBy
    <3>3. CASE ~ DescriptorWord(img, k, w, 0) /\ DescriptorWord(img, k, w, 1)
      <4>1. /\ w + 1 \in Offsets(img)
            /\ \A r \in DOMAIN img.tlv.var_ranges : ~ FixedBy(img, r, w + 1)
        BY <1>1, <2>1, <3>3, OffsetWordKept
      <4>2. mem[w + 1] = LinkedWord(img, base, resolver, w + 1)
        BY <2>1, <4>1 DEF LoopInv, TlvLoop
      <4>3. mem'[w] = ReadyWord(img, base, resolver, w)
        BY <1>1, <2>1, <3>1, <3>3, <4>2, ReadyWordCases
      <4> QED BY <1>1, <2>1, <3>3, <4>3 DEF FixedBy
    <3>4. CASE ~ FixedBy(img, k, w)
      <4>1. \A r \in DOMAIN img.tlv.var_ranges :
               r < k + 1 /\ FixedBy(img, r, w) <=> r < k /\ FixedBy(img, r, w)
        BY <1>1, <1>2, <3>4 DEF IsList
      <4>2. mem'[w] = mem[w]
        BY <3>1, <3>4 DEF FixedBy
      <4> QED BY <2>1, <4>1, <4>2 DEF LoopInv, TlvLoop
    <3> QED BY <3>2, <3>3, <3>4 DEF FixedBy
  <2>4. TlvLoop'
    BY <2>1, <2>3 DEF TlvLoop
  <2> QED BY <1>1, <1>o, <2>1, <2>2, <2>4 DEF LoopInv, Others
<1>14. CASE TlvDone
  <2>1. /\ stage = "fixup_tlv" /\ stage' = "run_mod_init"
        /\ img' = img /\ base' = base /\ mem' = mem /\ resolver' = resolver
        /\ should_rebase' = should_rebase /\ k > Len(img.tlv.var_ranges)
    BY <1>14 DEF TlvDone, Advance
  <2>2. AtHome'
    BY <2>1 DEF LoopInv, AtHome
  <2>3. ASSUME NEW w \in Offsets(img)
        PROVE  mem[w] = ReadyWord(img, base, resolver, w)
    <3>1. \A r \in DOMAIN img.tlv.var_ranges : r < k
      BY <1>1, <1>2, <2>1 DEF IsList
    <3>2. mem[w] = IF \E r \in DOMAIN img.tlv.var_ranges : FixedBy(img, r, w)
                   THEN ReadyWord(img, base, resolver, w)
                   ELSE LinkedWord(img, base, resolver, w)
      BY <2>1, <3>1 DEF LoopInv, TlvLoop
    <3> QED BY <1>1, <3>2, ReadyWordCases
  <2>4. ImageReady'
    BY <2>1, <2>3 DEF ImageReady
  <2> QED BY <1>1, <1>o, <2>1, <2>2, <2>4 DEF LoopInv, Others
<1>15. CASE CollectInits \/ RunInit \/ EnterGame
  <2>1. /\ stage # "map_image" /\ stage # "error"
        /\ stage' \in {"run", "game"}
        /\ img' = img /\ base' = base /\ should_rebase' = should_rebase
    BY <1>15 DEF CollectInits, RunInit, EnterGame, Iterate
  <2>2. AtHome'
    BY <2>1 DEF LoopInv, AtHome
  <2> QED BY <1>1, <1>o, <2>1, <2>2 DEF LoopInv, Others
<1>16. CASE Finished \/ UNCHANGED vars
  <2>1. /\ stage' = stage /\ k' = k /\ img' = img /\ base' = base /\ mem' = mem
        /\ resolver' = resolver /\ should_rebase' = should_rebase
    BY <1>16 DEF Finished, vars
  <2> QED
    BY <1>1, <2>1 DEF LoopInv, AtHome, CopyLoop, RebaseLoop, ImportLoop,
       ExportLoop, TlvLoop, ImageReady
<1> QED BY <1>3, <1>4, <1>5, <1>6, <1>7, <1>8, <1>9, <1>10, <1>11, <1>12, <1>13,
           <1>14, <1>15, <1>16 DEF Next

-----------------------------------------------------------------------------
(* The vector of initializers is a sequence, though FlattenSeq is defined by *)
(* recursion: induction over 1 .. n, from the well-foundedness of Nat.       *)

\* A set of numbers that is not empty has a least one.
LEMMA Smallest ==
    ASSUME NEW T, T \subseteq Nat, T # {}
    PROVE  \E n \in T : \A m \in T : n <= m
<1>1. IsWellFoundedOn(OpToRel(<, Nat), Nat)
  BY NatLessThanWellFounded
<1>2. PICK n \in T : \A m \in T : ~ (<<m, n>> \in OpToRel(<, Nat))
  BY <1>1, WFMin
<1>3. \A m \in T : ~ (m < n)
  BY <1>2 DEF OpToRel
<1> QED BY <1>3

\* What holds of the first element of a list, and of the next of each, holds of
\* all (the loops of run_mod_init, macho.rs:456-468).
LEMMA Climb ==
    ASSUME NEW n \in Nat, NEW S,
           n # 0 => 1 \in S, \A m \in 1 .. n - 1 : m \in S => m + 1 \in S
    PROVE  1 .. n \subseteq S
<1> DEFINE T == (1 .. n) \ S
<1>1. ASSUME T # {}
      PROVE  FALSE
  <2>1. T \subseteq Nat
    OBVIOUS
  <2>2. PICK m \in T : \A i \in T : m <= i
    BY <1>1, <2>1, Smallest
  <2>3. m \in 1 .. n /\ m \notin S /\ m # 1
    BY <2>2
  <2>4. m - 1 \in 1 .. n - 1 /\ m - 1 \notin T
    BY <2>2, <2>3
  <2>5. m - 1 \in S
    BY <2>4
  <2>6. (m - 1) + 1 \in S
    BY <2>4, <2>5
  <2> QED BY <2>3, <2>6
<1> QED BY <1>1

\* One step of FlattenSeq.
FlatStep(s, g, i) == IF i = 1 THEN s[i] ELSE g[i - 1] \o s[i]

\* Sequences one after the other are a sequence, of the elements they have.
LEMMA FlattenSeqType ==
    ASSUME NEW V, NEW s \in Seq(Seq(V))
    PROVE  FlattenSeq(s) \in Seq(V)
<1>1. CASE Len(s) = 0
  BY <1>1 DEF FlattenSeq
<1>2. CASE Len(s) # 0
  <2> DEFINE n == Len(s)
             Is(g, m) == g = [i \in 1 .. m |-> FlatStep(s, g, i)]
             Defined == {m \in 1 .. n : \E g : Is(g, m)}
  <2>1. n \in Nat /\ \A i \in 1 .. n : s[i] \in Seq(V)
    OBVIOUS
  <2> HIDE DEF n
  <2>2. 1 \in Defined
    <3>1. Is([i \in 1 .. 1 |-> s[i]], 1)
      BY DEF FlatStep
    <3> QED BY <3>1, <2>1, <1>2 DEF n
  <2>3. ASSUME NEW m \in 1 .. n - 1, m \in Defined
        PROVE  m + 1 \in Defined
    <3>1. PICK g : Is(g, m)
      BY <2>3
    <3> DEFINE h == [i \in 1 .. m + 1 |-> IF i < m + 1 THEN g[i] ELSE g[m] \o s[m + 1]]
    <3>2. ASSUME NEW i \in 1 .. m + 1
          PROVE  h[i] = FlatStep(s, h, i)
      <4>1. CASE i = m + 1
        BY <4>1, <2>1 DEF FlatStep
      <4>2. CASE i # m + 1
        <5>1. g[i] = FlatStep(s, g, i)
          <6>1. \A j \in 1 .. m : g[j] = FlatStep(s, g, j)
            BY <3>1
          <6>2. i \in 1 .. m
            BY <4>2, <2>1
          <6> QED BY <6>1, <6>2
        <5>2. i # 1 => h[i - 1] = g[i - 1]
          BY <4>2, <2>1
        <5>3. h[i] = g[i]
          BY <4>2, <2>1
        <5> HIDE DEF h
        <5> QED BY <4>2, <5>1, <5>2, <5>3 DEF FlatStep
      <4> QED BY <4>1, <4>2
    <3>3. Is(h, m + 1)
      BY <3>2
    <3> HIDE DEF h
    <3> QED BY <3>3, <2>1
  <2>4. n \in Defined
    <3> HIDE DEF Defined
    <3>1. 1 .. n \subseteq Defined
      BY <2>1, <2>2, <2>3, Climb
    <3> QED BY <3>1, <2>1, <1>2 DEF n
  <2>5. PICK g0 : Is(g0, n)
    BY <2>4
  <2> DEFINE f == CHOOSE g : Is(g, n)
  <2>6. Is(f, n)
    BY <2>5
  <2>7. FlattenSeq(s) = f[n]
    BY <1>2 DEF FlattenSeq, n, FlatStep
  <2> HIDE DEF f
  <2>8. \A i \in 1 .. n : f[i] = FlatStep(s, f, i)
    BY <2>6
  <2> DEFINE Good == {i \in 1 .. n : f[i] \in Seq(V)}
  <2>9. 1 \in Good
    BY <2>8, <2>1, <1>2 DEF FlatStep, n
  <2>10. ASSUME NEW m \in 1 .. n - 1, m \in Good
         PROVE  m + 1 \in Good
    <3>1. m + 1 \in 1 .. n /\ m + 1 # 1 /\ (m + 1) - 1 = m
      BY <2>1
    <3>2. f[m + 1] = f[m] \o s[m + 1]
      BY <2>8, <3>1 DEF FlatStep
    <3>3. f[m] \in Seq(V) /\ s[m + 1] \in Seq(V)
      BY <2>10, <3>1, <2>1
    <3>4. f[m + 1] \in Seq(V)
      BY <3>2, <3>3
    <3> QED BY <3>1, <3>4
  <2>11. n \in Good
    <3> HIDE DEF Good
    <3>1. 1 .. n \subseteq Good
      BY <2>1, <2>9, <2>10, Climb
    <3> QED BY <3>1, <2>1, <1>2 DEF n
  <2> QED BY <2>7, <2>11
<1> QED BY <1>1, <1>2

\* What run_mod_init collects is a vector, whatever is in the memory.
LEMMA InitsAreList ==
    ASSUME NEW im \in Images, NEW m
    PROVE  /\ Len(InitPointers(im, m)) \in Nat
           /\ DOMAIN InitPointers(im, m) = 1 .. Len(InitPointers(im, m))
           /\ InitPointers(im, m) \in Seq({m[x] : x \in Int})
<1> DEFINE V == {m[x] : x \in Int}
           Pointers(section) ==
              IF section.type = ModInitType
              THEN [i \in 1 .. section.size |->
                       m[section.addr - im.vmbase + i - 1]]
              ELSE << >>
           OfSegment(segment) ==
              FlattenSeq([n \in 1 .. Len(segment.sections) |->
                              Pointers(segment.sections[n])])
           All == [j \in 1 .. Len(im.segments) |-> OfSegment(im.segments[j])]
<1>1. WellFormed(im)
  BY ImageAssumption
<1>2. ASSUME NEW j \in DOMAIN im.segments
      PROVE  OfSegment(im.segments[j]) \in Seq(V)
  <2> DEFINE sections == im.segments[j].sections
             Each == [n \in 1 .. Len(sections) |-> Pointers(sections[n])]
  <2>1. IsList(sections)
    BY <1>1 DEF WellFormed
  <2>2. ASSUME NEW n \in 1 .. Len(sections)
        PROVE  Pointers(sections[n]) \in Seq(V)
    <3>1. sections[n].size \in Nat /\ sections[n].addr \in Nat /\ im.vmbase \in Int
      BY <1>1, <2>1 DEF WellFormed, IsList, Words
    <3>2. \A i \in 1 .. sections[n].size :
             sections[n].addr - im.vmbase + i - 1 \in Int
      BY <3>1
    <3> HIDE DEF sections
    <3>3. [i \in 1 .. sections[n].size |-> m[sections[n].addr - im.vmbase + i - 1]]
             \in [1 .. sections[n].size -> V]
      BY <3>2
    <3> HIDE DEF V
    <3>4. << >> \in Seq(V)
      OBVIOUS
    <3>5. [1 .. sections[n].size -> V] \subseteq Seq(V)
      BY <3>1
    <3> QED BY <3>3, <3>4, <3>5
  <2>3. Each \in Seq(Seq(V))
    <3> HIDE DEF V, Pointers, sections
    <3>1. Each \in [1 .. Len(sections) -> Seq(V)]
      BY <2>2
    <3>2. Len(sections) \in Nat
      BY <2>1 DEF IsList
    <3> QED BY <3>1, <3>2
  <2> HIDE DEF Each, V
  <2>4. FlattenSeq(Each) \in Seq(V)
    BY <2>3, FlattenSeqType
  <2> QED BY <2>4 DEF Each
<1>3. All \in Seq(Seq(V))
  <2> HIDE DEF V, OfSegment
  <2>1. IsList(im.segments)
    BY <1>1 DEF WellFormed
  <2>2. All \in [1 .. Len(im.segments) -> Seq(V)]
    BY <1>2, <2>1 DEF IsList
  <2>3. Len(im.segments) \in Nat
    BY <2>1 DEF IsList
  <2> QED BY <2>2, <2>3
<1>4. InitPointers(im, m) = FlattenSeq(All)
  BY DEF InitPointers
<1> HIDE DEF All, V
<1>5. FlattenSeq(All) \in Seq(V)
  BY <1>3, FlattenSeqType
<1> QED BY <1>4, <1>5 DEF V

-----------------------------------------------------------------------------
\* Whatever the image, the address and the resolver: the loop invariants hold
\* of every state of the loader (macho.rs:327-475 as called by mod.rs:13-18).
THEOREM LoopInvariant == Spec => []LoopInv
<1>1. Init => LoopInv
  BY InitLoopInv
<1>2. LoopInv /\ [Next]_vars => LoopInv'
  BY LoopStep
<1> QED BY <1>1, <1>2, PTL DEF Spec

\* The variables of the loader keep their types.
THEOREM TypeCorrect == Spec => []TypeOK
<1>1. LoopInv => TypeOK
  BY DEF LoopInv
<1> QED BY <1>1, LoopInvariant, PTL

\* When the code of the image is about to run, every word of the mapping is the
\* one the file, the slide, the bindings and the TLV fixup owe to it: nothing
\* is relocated twice, left out, or taken back by a later loop.
THEOREM ImageIsReady == Spec => []ImageReady
<1>1. LoopInv => ImageReady
  BY DEF LoopInv
<1> QED BY <1>1, LoopInvariant, PTL

-----------------------------------------------------------------------------
(* The mapping, the hooks and the code that ran.                           *)

\* A word inside the mapping is an address: nothing wraps there.
Fits == stage \notin {"map_image", "error"} => base + img.vmsize <= WordMod

Hooked(j) == /\ img.exports[j].kind = "regular"
             /\ img.exports[j].name \in HookNames

HookLoop ==
    \A j \in DOMAIN img.exports :
        /\ Hooked(j)
        /\ \/ stage = "resolve_exports" /\ j < k
           \/ stage \in {"fixup_tlv", "run_mod_init", "run", "game"}
        => InLoadedSegment(base, hooks[img.exports[j].name])

\* Nothing runs before the last two stages, and there the vector is the file's.
RunLoop ==
    /\ stage \notin {"run", "game"} => ran = << >>
    /\ stage = "run_mod_init" => k = 1
    /\ stage = "run" => /\ init = FileInits
                        /\ k <= Len(init) + 1

RunInv == Fits /\ HookLoop /\ RunLoop /\ InitOrder

\* An address of the file that is in a segment is, moved with the mapping, in
\* the same segment there, and the addition does not wrap (macho.rs:389, 421, 478).
LEMMA MovedInSegment ==
    ASSUME TypeOK, base + img.vmsize <= WordMod, NEW a \in Int, InSegment(img, a)
    PROVE  /\ base + a - img.vmbase \in Words
           /\ InLoadedSegment(base, base + a - img.vmbase)
<1>1. PICK j \in DOMAIN img.segments :
              /\ img.segments[j].filesize # 0
              /\ img.segments[j].vmaddr <= a
              /\ a < img.segments[j].vmaddr + img.segments[j].vmsize
  BY DEF InSegment
<1> DEFINE v == img.segments[j].vmaddr
           n == img.segments[j].vmsize
<1>2. /\ v \in Int /\ n \in Int /\ img.vmbase \in Nat /\ img.vmsize \in Nat
      /\ base \in Nat /\ WordMod \in Nat
  BY ImageAssumption, WordAssumption DEF WellFormed, TypeOK, Words
<1>3. img.vmbase <= v /\ v + n <= img.vmsize
  BY <1>1, LinkerAssumption DEF SelfContained, TypeOK
<1>4. v <= a /\ a < v + n
  BY <1>1
<1> HIDE DEF v, n
<1>5. base + a - img.vmbase \in Words
  BY <1>2, <1>3, <1>4 DEF Words
<1>6. base + v - img.vmbase <= base + a - img.vmbase
      /\ base + a - img.vmbase < base + v - img.vmbase + n
  BY <1>2, <1>4
<1> QED BY <1>1, <1>5, <1>6 DEF InLoadedSegment, v, n

\* Nothing runs and nothing is hooked before the image is mapped (mod.rs:29-60).
LEMMA InitRunInv == Init => RunInv
BY DEF Init, RunInv, Fits, HookLoop, RunLoop, InitOrder

\* What the earlier loops did to the mapping and the addresses is enough for
\* each step to keep the hooks inside the image and the order of the calls.
LEMMA RunStep == LoopInv /\ RunInv /\ [Next]_vars => RunInv'
<1> SUFFICES ASSUME LoopInv, RunInv, [Next]_vars PROVE RunInv'
  OBVIOUS
<1> USE DEF fixed
<1>1. /\ TypeOK /\ TypeOK' /\ img \in Images /\ k \in Nat \ {0}
      /\ base \in Nat /\ img.vmbase \in Nat /\ img.vmsize \in Nat
  BY TypeStep, ImageAssumption DEF LoopInv, TypeOK, WellFormed, Words
<1>2. /\ IsList(img.segments) /\ IsList(img.rebase) /\ IsList(img.imports)
      /\ IsList(img.exports) /\ IsList(img.tlv.var_ranges)
  BY <1>1, Lists
<1>3. CASE MapPreferred
  <2>1. /\ stage = "map_image" /\ stage' = "copy" /\ img' = img /\ ran' = ran
        /\ base' = img.vmbase
    BY <1>3 DEF MapPreferred
  <2>2. base' + img'.vmsize <= WordMod
    BY <1>1, <2>1, MapAssumption
  <2> QED BY <2>1, <2>2 DEF RunInv, Fits, HookLoop, RunLoop, InitOrder
<1>4. CASE MapAnywhere
  <2>1. /\ stage = "map_image" /\ stage' = "copy" /\ img' = img /\ ran' = ran
        /\ base' \in Bases
    BY <1>4 DEF MapAnywhere
  <2>2. base' + img'.vmsize <= WordMod
    BY <1>1, <2>1, MapAssumption
  <2> QED BY <2>1, <2>2 DEF RunInv, Fits, HookLoop, RunLoop, InitOrder
<1>5. CASE MapFails
  <2>1. /\ stage = "map_image" /\ stage' = "error" /\ ran' = ran
    BY <1>5 DEF MapFails
  <2> QED BY <2>1 DEF RunInv, Fits, HookLoop, RunLoop, InitOrder
<1>6. CASE \/ CopySegment \/ CopyDone \/ RebaseOne \/ RebaseDone \/ ImportOne
           \/ ImportsDone
  <2>1. /\ stage \in {"copy", "rebase", "resolve_imports"}
        /\ \/ stage' \in {"copy", "rebase", "resolve_imports"}
           \/ stage' = "resolve_exports" /\ k' = 1
        /\ img' = img /\ base' = base /\ ran' = ran
    BY <1>6 DEF CopySegment, CopyDone, RebaseOne, RebaseDone, ImportOne,
                ImportsDone, Iterate, Advance
  <2>2. Fits'
    BY <2>1 DEF RunInv, Fits
  <2>3. HookLoop'
    BY <1>2, <2>1 DEF HookLoop, IsList
  <2>4. RunLoop' /\ InitOrder'
    BY <2>1 DEF RunInv, RunLoop, InitOrder
  <2> QED BY <2>2, <2>3, <2>4 DEF RunInv
<1>7. CASE ExportOne
  <2> DEFINE export == img.exports[k]
  <2>1. /\ stage = "resolve_exports" /\ stage' = "resolve_exports" /\ k' = k + 1
        /\ img' = img /\ base' = base /\ ran' = ran /\ k \in DOMAIN img.exports
        /\ hooks' = [n \in HookNames |->
                        IF export.kind = "regular" /\ export.name = n
                        THEN Wrap(base + export.address)
                        ELSE hooks[n]]
    BY <1>1, <1>2, <1>7 DEF ExportOne, Iterate, IsList
  <2>2. Fits'
    BY <2>1 DEF RunInv, Fits
  <2>3. ASSUME Hooked(k)
        PROVE  InLoadedSegment(base, Wrap(base + export.address))
    <3>1. export.address \in Nat
      BY <1>1, <2>1, ImageAssumption DEF WellFormed
    <3>2. InSegment(img, img.vmbase + export.address)
      BY <1>1, <2>1, <2>3, LinkerAssumption DEF SelfContained, Hooked
    <3>3. base + img.vmsize <= WordMod
      BY <2>1 DEF RunInv, Fits
    <3> HIDE DEF export
    <3>4. base + (img.vmbase + export.address) - img.vmbase = base + export.address
      BY <1>1, <3>1
    <3>5. img.vmbase + export.address \in Int
      BY <1>1, <3>1
    <3>6. /\ base + export.address \in Words
          /\ InLoadedSegment(base, base + export.address)
      BY <1>1, <3>2, <3>3, <3>4, <3>5, MovedInSegment
    <3> QED BY <3>6, WrapFacts
  <2>4. ASSUME NEW j \in DOMAIN img.exports, Hooked(j), j < k + 1
        PROVE  InLoadedSegment(base, hooks'[img.exports[j].name])
    <3>1. CASE Hooked(k) /\ export.name = img.exports[j].name
      <4>1. hooks'[img.exports[j].name] = Wrap(base + export.address)
        BY <2>1, <3>1 DEF Hooked
      <4> QED BY <2>3, <3>1, <4>1
    <3>2. CASE ~ (Hooked(k) /\ export.name = img.exports[j].name)
      <4>1. hooks'[img.exports[j].name] = hooks[img.exports[j].name]
        BY <2>1, <2>4, <3>2 DEF Hooked
      <4>2. j < k
        BY <1>1, <1>2, <2>4, <3>2 DEF IsList
      <4> QED BY <2>1, <2>4, <4>1, <4>2 DEF RunInv, HookLoop
    <3> QED BY <3>1, <3>2
  <2>5. HookLoop'
    BY <2>1, <2>4 DEF HookLoop, Hooked, InLoadedSegment
  <2>6. RunLoop' /\ InitOrder'
    BY <2>1 DEF RunInv, RunLoop, InitOrder
  <2> QED BY <2>2, <2>5, <2>6 DEF RunInv
<1>8. CASE ExportsDone \/ TlvRange \/ TlvDone
  <2>1. /\ stage \in {"resolve_exports", "fixup_tlv"}
        /\ stage = "resolve_exports" => k > Len(img.exports)
        /\ \/ stage' = "fixup_tlv"
           \/ stage' = "run_mod_init" /\ k' = 1
        /\ img' = img /\ base' = base /\ ran' = ran /\ hooks' = hooks
    BY <1>8 DEF ExportsDone, TlvRange, TlvDone, Iterate, Advance
  <2>2. Fits'
    BY <2>1 DEF RunInv, Fits
  <2>3. \A j \in DOMAIN img.exports :
           Hooked(j) => InLoadedSegment(base, hooks[img.exports[j].name])
    <3>1. stage = "resolve_exports" => \A j \in DOMAIN img.exports : j < k
      BY <1>1, <1>2, <2>1 DEF IsList
    <3> QED BY <2>1, <3>1 DEF RunInv, HookLoop
  <2>4. HookLoop'
    BY <2>1, <2>3 DEF HookLoop, Hooked, InLoadedSegment
  <2>5. RunLoop' /\ InitOrder'
    BY <2>1 DEF RunInv, RunLoop, InitOrder
  <2> QED BY <2>2, <2>4, <2>5 DEF RunInv
<1>9. CASE CollectInits
  <2>1. /\ stage = "run_mod_init" /\ stage' = "run" /\ init' = InitPointers(img, mem)
        /\ img' = img /\ base' = base /\ ran' = ran /\ hooks' = hooks /\ k' = k
        /\ resolver' = resolver
    BY <1>9 DEF CollectInits
  <2>2. Fits' /\ HookLoop'
    BY <2>1 DEF RunInv, Fits, HookLoop, Hooked, InLoadedSegment
  <2>3. mem = [w \in Offsets(img) |-> ReadyWord(img, base, resolver, w)]
    <3>1. mem \in [Offsets(img) -> Words]
      BY <1>1, <2>1 DEF TypeOK
    <3>2. \A w \in Offsets(img) : mem[w] = ReadyWord(img, base, resolver, w)
      BY <2>1 DEF LoopInv, ImageReady
    <3> QED BY <3>1, <3>2
  <2>4. init' = FileInits /\ FileInits' = FileInits
    BY <2>1, <2>3 DEF FileInits
  <2>5. k = 1 /\ ran = << >>
    BY <2>1 DEF RunInv, RunLoop
  <2>6. Len(init') \in Nat
    BY <1>1, <2>1, InitsAreList
  <2>7. RunLoop'
    BY <2>1, <2>4, <2>5, <2>6 DEF RunLoop
  <2>8. SubSeq(FileInits', 1, 0) = << >>
    OBVIOUS
  <2>9. InitOrder'
    BY <2>1, <2>5, <2>8 DEF InitOrder
  <2> QED BY <2>2, <2>7, <2>9 DEF RunInv
<1>10. CASE RunInit
  <2>1. /\ stage = "run" /\ stage' = "run" /\ k' = k + 1 /\ k <= Len(init)
        /\ init' = init /\ ran' = Append(ran, init[k])
        /\ img' = img /\ base' = base /\ hooks' = hooks /\ resolver' = resolver
    BY <1>10 DEF RunInit, Iterate
  <2>2. Fits' /\ HookLoop'
    BY <2>1 DEF RunInv, Fits, HookLoop, Hooked, InLoadedSegment
  <2>3. FileInits' = FileInits
    BY <2>1 DEF FileInits
  <2>4. init = FileInits /\ ran = SubSeq(FileInits, 1, k - 1)
    BY <2>1 DEF RunInv, RunLoop, InitOrder
  <2>5. PICK V : FileInits \in Seq(V)
    BY <1>1, InitsAreList DEF FileInits
  <2>6. RunLoop'
    <3>1. Len(init) \in Nat
      BY <2>4, <2>5
    <3>2. k + 1 <= Len(init) + 1
      BY <1>1, <2>1, <3>1
    <3> QED BY <2>1, <2>3, <2>4, <3>2 DEF RunLoop
  <2>7. Append(SubSeq(FileInits, 1, k - 1), FileInits[k]) = SubSeq(FileInits, 1, k)
    BY <1>1, <2>1, <2>4, <2>5
  <2>8. InitOrder'
    <3>1. k' - 1 = k
      BY <1>1, <2>1
    <3> QED BY <2>1, <2>3, <2>4, <2>7, <3>1 DEF InitOrder
  <2> QED BY <2>2, <2>6, <2>8 DEF RunInv
<1>11. CASE EnterGame
  <2>1. /\ stage = "run" /\ stage' = "game" /\ k > Len(init)
        /\ ran' = Append(ran, Wrap(base + img.entry - img.vmbase))
        /\ img' = img /\ base' = base /\ hooks' = hooks /\ resolver' = resolver
    BY <1>11 DEF EnterGame
  <2>2. Fits' /\ HookLoop'
    BY <2>1 DEF RunInv, Fits, HookLoop, Hooked, InLoadedSegment
  <2>3. FileInits' = FileInits
    BY <2>1 DEF FileInits
  <2>4. init = FileInits /\ ran = SubSeq(FileInits, 1, k - 1) /\ k <= Len(init) + 1
    BY <2>1 DEF RunInv, RunLoop, InitOrder
  <2>5. PICK V : FileInits \in Seq(V)
    BY <1>1, InitsAreList DEF FileInits
  <2>6. ran = FileInits
    <3>1. k - 1 = Len(FileInits)
      BY <1>1, <2>1, <2>4, <2>5
    <3> QED BY <2>4, <2>5, <3>1
  <2>7. Wrap(base + img.entry - img.vmbase) = base + img.entry - img.vmbase
    <3>1. InSegment(img, img.entry) /\ img.entry \in Int
      BY <1>1, LinkerAssumption, ImageAssumption DEF SelfContained, WellFormed
    <3>2. base + img.vmsize <= WordMod
      BY <2>1 DEF RunInv, Fits
    <3>3. base + img.entry - img.vmbase \in Words
      BY <1>1, <3>1, <3>2, MovedInSegment
    <3> QED BY <3>3, WrapFacts
  <2>8. RunLoop' /\ InitOrder'
    BY <2>1, <2>3, <2>6, <2>7 DEF RunLoop, InitOrder
  <2> QED BY <2>2, <2>8 DEF RunInv
<1>12. CASE Finished \/ UNCHANGED vars
  <2>1. /\ stage' = stage /\ k' = k /\ img' = img /\ base' = base /\ ran' = ran
        /\ resolver' = resolver /\ hooks' = hooks /\ init' = init
    BY <1>12 DEF Finished, vars
  <2>2. Fits' /\ HookLoop'
    BY <2>1 DEF RunInv, Fits, HookLoop, Hooked, InLoadedSegment
  <2>3. RunLoop' /\ InitOrder'
    BY <2>1 DEF RunInv, RunLoop, InitOrder, FileInits
  <2> QED BY <2>2, <2>3 DEF RunInv
<1> QED BY <1>3, <1>4, <1>5, <1>6, <1>7, <1>8, <1>9, <1>10, <1>11, <1>12 DEF Next

\* The hooks are inside the image and the initializers in order in every state.
THEOREM RunInvariant == Spec => []RunInv
<1>1. Init => RunInv
  BY InitRunInv
<1>2. LoopInv /\ RunInv /\ [Next]_vars => RunInv'
  BY RunStep
<1> QED BY <1>1, <1>2, LoopInvariant, PTL DEF Spec

\* The initializers are called once each, in the order of the sections, whatever
\* the earlier ones write to the tables they were read from, and the game's entry
\* point after them (run_mod_init and get_entry, macho.rs:453-480).
THEOREM InitializersInOrder == Spec => []InitOrder
<1>1. RunInv => InitOrder
  BY DEF RunInv
<1> QED BY <1>1, RunInvariant, PTL

\* No code of the image runs before its operator new and delete are hooked, at
\* addresses of the image, whichever list of exports it has and whatever else it
\* exports (resolve_exports, macho.rs:417-429, before run_mod_init, mod.rs:15-18).
THEOREM HooksAreFirst == Spec => []HooksBeforeCode
<1>1. RunInv => HooksBeforeCode
  <2> SUFFICES ASSUME RunInv, ran # << >>, NEW j \in DOMAIN img.exports, Hooked(j)
               PROVE  InLoadedSegment(base, hooks[img.exports[j].name])
    BY DEF HooksBeforeCode, Hooked
  <2>1. stage \in {"run", "game"}
    BY DEF RunInv, RunLoop
  <2> QED BY <2>1 DEF RunInv, HookLoop
<1> QED BY <1>1, RunInvariant, PTL

-----------------------------------------------------------------------------
(* What the words of the mapping point to.                                 *)

\* A pointer that no import took over is the linker's, moved with the mapping.
LEMMA SlidPointer ==
    ASSUME TypeOK, base + img.vmsize <= WordMod,
           NEW w \in Offsets(img), NEW j \in DOMAIN img.rebase, RebasesAt(img, j, w),
           \A i \in DOMAIN img.imports : ~ BindsAt(img, resolver, i, w)
    PROVE  InLoadedSegment(base, LinkedWord(img, base, resolver, w))
<1> DEFINE a == FileWord(img, w)
<1>1. img \in Images
  BY DEF TypeOK
<1>2. a \in Int /\ a \in Words /\ base \in Int /\ img.vmbase \in Int
  BY <1>1, FileWordType, ImageAssumption DEF Words, TypeOK, WellFormed
<1>3. InSegment(img, a)
  BY <1>1, LinkerAssumption DEF SelfContained
<1>4. LinkedWord(img, base, resolver, w) = SlidWord(img, base, w)
  BY LinkedWordFree
<1>5. /\ base + a - img.vmbase \in Words
      /\ InLoadedSegment(base, base + a - img.vmbase)
  BY <1>2, <1>3, MovedInSegment
<1>6. SlidWord(img, base, w) = base + a - img.vmbase
  <2>1. CASE base = img.vmbase
    <3>1. SlidWord(img, base, w) = a
      BY <2>1 DEF SlidWord
    <3> HIDE DEF a
    <3> QED BY <1>2, <2>1, <3>1
  <2>2. CASE base # img.vmbase
    <3>1. SlidWord(img, base, w) = Wrap(a - img.vmbase + base)
      BY <2>2 DEF SlidWord
    <3> HIDE DEF a
    <3>2. a - img.vmbase + base = base + a - img.vmbase
      BY <1>2
    <3> QED BY <1>5, <3>1, <3>2, WrapFacts
  <2> QED BY <2>1, <2>2
<1> QED BY <1>4, <1>5, <1>6

\* No pointer of the rebase table is left behind at the link-time address, or
\* moved twice, by whichever of the two ways the image was mapped: unless an
\* import was bound over it, it points into the segments where they are now
\* (map_image and resolve_imports, macho.rs:338-415).
THEOREM PointersMoved == Spec => []PointersInImage
<1>1. LoopInv /\ RunInv => PointersInImage
  <2> SUFFICES ASSUME LoopInv, RunInv, stage \in Linked,
                      NEW j \in DOMAIN img.rebase, NEW w \in Offsets(img),
                      RebasesAt(img, j, w),
                      \A i \in DOMAIN img.imports : ~ BindsAt(img, resolver, i, w)
               PROVE  InLoadedSegment(base, mem[w])
    BY DEF PointersInImage
  <2>1. TypeOK /\ img \in Images /\ base + img.vmsize <= WordMod
    BY DEF LoopInv, TypeOK, RunInv, Fits, Linked
  <2>2. \A r \in DOMAIN img.tlv.var_ranges : ~ FixedBy(img, r, w)
    BY <2>1, LinkerAssumption DEF OwnThreadLocals, FixedBy
  <2>3. mem[w] = LinkedWord(img, base, resolver, w)
    BY <2>2 DEF Linked, LoopInv, ExportLoop, TlvLoop
  <2> QED BY <2>1, <2>3, SlidPointer
<1> QED BY <1>1, LoopInvariant, RunInvariant, PTL

\* The last word of a descriptor is as the file has it: dyld's, and nobody's to
\* rebase or bind.
LEMMA OffsetAsFiled ==
    ASSUME TypeOK, NEW w \in Offsets(img),
           NEW r \in DOMAIN img.tlv.var_ranges, DescriptorWord(img, r, w, 2)
    PROVE  LinkedWord(img, base, resolver, w) = FileWord(img, w)
<1>1. img \in Images
  BY DEF TypeOK
<1>2. \A i \in DOMAIN img.imports : ~ BindsAt(img, resolver, i, w)
  BY <1>1, LinkerAssumption DEF OwnThreadLocals, BindsAt
<1>3. \A j \in DOMAIN img.rebase : ~ RebasesAt(img, j, w)
  BY <1>1, LinkerAssumption DEF OwnThreadLocals
<1>4. LinkedWord(img, base, resolver, w) = SlidWord(img, base, w)
  BY <1>2, LinkedWordFree
<1> QED BY <1>3, <1>4 DEF SlidWord

\* The storage fixup_tlv gives to the descriptor whose second word is w.
LEMMA StorageOf ==
    ASSUME LoopInv, RunInv, stage = "run_mod_init", NEW w \in Descriptors
    PROVE  /\ w + 1 \in Offsets(img)
           /\ \E r \in DOMAIN img.tlv.var_ranges : DescriptorWord(img, r, w + 1, 2)
           /\ FileWord(img, w + 1) \in Nat
           /\ mem[w] = base + img.tlv.start + FileWord(img, w + 1)
           /\ img.tlv.start + FileWord(img, w + 1) < img.vmsize
           /\ img.vmsize - img.vmbase <= img.tlv.start
<1> DEFINE f == FileWord(img, w + 1)
<1>1. TypeOK /\ img \in Images /\ w \in Offsets(img)
  BY DEF LoopInv, TypeOK, Descriptors
<1>2. PICK r \in DOMAIN img.tlv.var_ranges : DescriptorWord(img, r, w, 1)
  BY DEF Descriptors
<1>3. w + 1 \in Offsets(img) /\ DescriptorWord(img, r, w + 1, 2)
  BY <1>1, <1>2, OffsetWordKept
<1>4. /\ f \in Nat /\ base \in Nat /\ img.tlv.start \in Nat /\ img.vmsize \in Nat
      /\ base + img.vmsize <= WordMod /\ WordMod \in Nat
  BY <1>1, <1>3, FileWordType, ImageAssumption, WordAssumption
     DEF Words, TypeOK, WellFormed, RunInv, Fits
<1>5. /\ img.tlv.start + f < img.vmsize
      /\ img.vmsize - img.vmbase <= img.tlv.start
  BY <1>1, <1>3, LinkerAssumption DEF OwnThreadLocals
<1>6. mem[w] = Wrap(base + img.tlv.start + f)
  <2>1. mem[w] = ReadyWord(img, base, resolver, w)
    BY <1>1 DEF LoopInv, ImageReady
  <2>2. ReadyWord(img, base, resolver, w)
           = Wrap(base + img.tlv.start + LinkedWord(img, base, resolver, w + 1))
    BY <1>1, <1>2, ReadyWordCases
  <2> QED BY <1>1, <1>3, <2>1, <2>2, OffsetAsFiled
<1>7. base + img.tlv.start + f \in Words
  <2> HIDE DEF f
  <2> QED BY <1>4, <1>5 DEF Words
<1> QED BY <1>3, <1>4, <1>5, <1>6, <1>7, WrapFacts

\* A thread-local lives inside the mapping, behind the words of the segments,
\* and no two share a word, wherever mmap put an executable that is linked at
\* 4 GiB: the absolute address that fixup_tlv uses as an offset falls behind the
\* image because vmsize is its end address and not its size (macho.rs:128, 445).
THEOREM ThreadLocalsApart == Spec => []TlvStorageApart
<1>1. LoopInv /\ RunInv => TlvStorageApart
  <2> SUFFICES ASSUME LoopInv, RunInv, stage = "run_mod_init"
               PROVE  /\ \A w \in Descriptors :
                            /\ base <= mem[w] /\ mem[w] < base + img.vmsize
                            /\ ~ InLoadedSegment(base, mem[w])
                      /\ \A v, w \in Descriptors : mem[v] = mem[w] => v = w
    BY DEF TlvStorageApart
  <2>1. /\ img \in Images /\ base \in Nat /\ img.tlv.start \in Nat
        /\ img.vmsize \in Nat /\ img.vmbase \in Nat
    BY ImageAssumption DEF LoopInv, TypeOK, WellFormed, Words
  <2>2. ASSUME NEW w \in Descriptors
        PROVE  base <= mem[w] /\ mem[w] < base + img.vmsize
    BY <2>1, StorageOf
  <2>3. ASSUME NEW w \in Descriptors, InLoadedSegment(base, mem[w])
        PROVE  FALSE
    <3>1. PICK j \in DOMAIN img.segments :
                  /\ img.segments[j].filesize # 0
                  /\ mem[w] < base + img.segments[j].vmaddr - img.vmbase
                              + img.segments[j].vmsize
      BY <2>3 DEF InLoadedSegment
    <3> DEFINE v == img.segments[j].vmaddr
               n == img.segments[j].vmsize
    <3>2. v \in Nat /\ n \in Nat /\ v + n <= img.vmsize
      BY <2>1, <3>1, ImageAssumption, LinkerAssumption DEF WellFormed, SelfContained
    <3>3. mem[w] < base + v - img.vmbase + n
      BY <3>1
    <3>4. /\ FileWord(img, w + 1) \in Nat
          /\ mem[w] = base + img.tlv.start + FileWord(img, w + 1)
          /\ img.vmsize - img.vmbase <= img.tlv.start
      BY StorageOf
    <3> HIDE DEF v, n
    <3> QED BY <2>1, <3>2, <3>3, <3>4
  <2>4. ASSUME NEW v \in Descriptors, NEW w \in Descriptors, mem[v] = mem[w]
        PROVE  v = w
    <3> DEFINE f == FileWord(img, v + 1)
               g == FileWord(img, w + 1)
    <3>1. /\ f \in Nat /\ g \in Nat
          /\ mem[v] = base + img.tlv.start + f
          /\ mem[w] = base + img.tlv.start + g
      BY StorageOf
    <3>2. f = g
      <4> HIDE DEF f, g
      <4>1. base + img.tlv.start + f = base + img.tlv.start + g
        BY <2>4, <3>1
      <4> QED BY <2>1, <3>1, <4>1
    <3>3. v + 1 = w + 1
      <4>1. PICK q \in DOMAIN img.tlv.var_ranges : DescriptorWord(img, q, v + 1, 2)
        BY StorageOf
      <4>2. PICK r \in DOMAIN img.tlv.var_ranges : DescriptorWord(img, r, w + 1, 2)
        BY StorageOf
      <4>3. v + 1 \in Offsets(img) /\ w + 1 \in Offsets(img)
        BY StorageOf
      <4>4. OwnThreadLocals(img)
        BY <2>1, LinkerAssumption
      <4> QED BY <3>2, <4>1, <4>2, <4>3, <4>4 DEF OwnThreadLocals
    <3>4. v \in Int /\ w \in Int
      BY DEF Descriptors, Offsets
    <3> QED BY <3>3, <3>4
  <2> QED BY <2>2, <2>3, <2>4
<1> QED BY <1>1, LoopInvariant, RunInvariant, PTL
=============================================================================
