----------------------------- MODULE MachOImage -----------------------------
(***************************************************************************)
(* The loading of one Mach-O image: MachOImage::map_image,                 *)
(* resolve_imports, resolve_exports, fixup_tlv, run_mod_init and get_entry *)
(* (src/loader/macho.rs), in the order src/loader/mod.rs calls them.       *)
(*                                                                         *)
(* One machine word (usize) is the unit of every address and size.  img is *)
(* what MachOImage::new returned; mem is the mapping, indexed by the       *)
(* offset from its first byte; base is the address it was mapped at.       *)
(* Each loop of the source is one action per iteration; k is its index.    *)
(***************************************************************************)
EXTENDS Integers, Sequences, SequencesExt

CONSTANTS
    Images,      \* the images that may be loaded (values of struct MachOImage)
    Names,       \* the symbol names they import
    HookNames,   \* the exports newer::install_hook knows
    HostAddrs,   \* addresses the resolver can answer with
    Bases,       \* addresses mmap can choose when it is free to
    Thunk,       \* the address of tlv_thunk
    WordMod      \* 2^64 in the code: usize arithmetic wraps at WordMod

Words == 0 .. WordMod - 1

Wrap(x) == x % WordMod

\* Section types and bind kinds the code tells apart (macho.rs:387, 463-478).
ZeroFillTypes == {"zerofill", "gb_zerofill", "thread_local_zerofill"}
ModInitType   == "mod_init_func_pointers"

-----------------------------------------------------------------------------
(* What the loops of the loader read out of an image. *)

Offsets(im) == 0 .. im.vmsize - 1

\* Offset w of the mapping lies in the file's range [addr, addr + size).
Within(im, addr, size, w) == /\ addr - im.vmbase <= w
                             /\ w < addr - im.vmbase + size

\* The loop body of map_image fills offset w with zero for segment j.
ZeroFilled(im, j, w) ==
    /\ im.segments[j].filesize # 0
    /\ \E n \in DOMAIN im.segments[j].sections :
          LET section == im.segments[j].sections[n]
          IN  /\ section.type \in ZeroFillTypes
              /\ Within(im, section.addr, section.size, w)

\* The loop body of map_image copies a word of the file to w for segment j.
FileBacked(im, j, w) ==
    LET segment == im.segments[j]
    IN  /\ segment.filesize # 0
        /\ segment.vmsize >= segment.filesize
        /\ Within(im, segment.vmaddr, segment.filesize, w)

Touches(im, j, w) == ZeroFilled(im, j, w) \/ FileBacked(im, j, w)

\* The word segment j leaves at an offset it touches: the fill comes second.
SegmentWord(im, j, w) ==
    IF ZeroFilled(im, j, w)
    THEN 0
    ELSE im.segments[j].data[w - (im.segments[j].vmaddr - im.vmbase) + 1]

\* Rebase entry j is for the pointer at offset w.
RebasesAt(im, j, w) == /\ im.rebase[j].kind = "pointer"
                       /\ w = im.rebase[j].vmaddr - im.vmbase

\* Import j is one the loader binds, and its pointer is at offset w.
BindsAt(im, res, j, w) == /\ ~ im.imports[j].is_weak
                          /\ res[im.imports[j].name] # 0
                          /\ w = im.imports[j].address - im.vmbase

\* Offset w is word n (0 thunk, 1 opaq, 2 offset) of a descriptor of TLV range r.
DescriptorWord(im, r, w, n) ==
    /\ Within(im, im.tlv.var_ranges[r].addr, im.tlv.var_ranges[r].size, w)
    /\ (w - (im.tlv.var_ranges[r].addr - im.vmbase)) % 3 = n

\* The pointers in the mod-init sections of an image whose memory is m, in order.
InitPointers(im, m) ==
    LET Pointers(section) ==
            IF section.type = ModInitType
            THEN [i \in 1 .. section.size |->
                     m[section.addr - im.vmbase + i - 1]]
            ELSE << >>
        OfSegment(segment) ==
            FlattenSeq([n \in 1 .. Len(segment.sections) |->
                            Pointers(segment.sections[n])])
    IN  FlattenSeq([j \in 1 .. Len(im.segments) |-> OfSegment(im.segments[j])])

-----------------------------------------------------------------------------
(* The word each stage owes to offset w, as a function of the image, of    *)
(* the address it was mapped at, and of the resolver's answers.            *)

FileWord(im, w) ==
    LET owners == {j \in DOMAIN im.segments : Touches(im, j, w)}
    IN  IF owners = {} THEN 0 ELSE SegmentWord(im, CHOOSE j \in owners : TRUE, w)

SlidWord(im, b, w) ==
    IF b # im.vmbase /\ \E j \in DOMAIN im.rebase : RebasesAt(im, j, w)
    THEN Wrap(FileWord(im, w) - im.vmbase + b)
    ELSE FileWord(im, w)

LinkedWord(im, b, res, w) ==
    LET binders == {j \in DOMAIN im.imports : BindsAt(im, res, j, w)}
    IN  IF binders = {}
        THEN SlidWord(im, b, w)
        ELSE LET import == im.imports[CHOOSE j \in binders : TRUE]
             IN  Wrap(res[import.name] + import.addend)

ReadyWord(im, b, res, w) ==
    LET Is(n) == \E r \in DOMAIN im.tlv.var_ranges : DescriptorWord(im, r, w, n)
    IN  IF Is(0) THEN Thunk
        ELSE IF Is(1) THEN Wrap(b + im.tlv.start + LinkedWord(im, b, res, w + 1))
        ELSE LinkedWord(im, b, res, w)

-----------------------------------------------------------------------------
(* The images a linker produces: what the code takes for granted. *)

IsList(l) == Len(l) \in Nat /\ DOMAIN l = 1 .. Len(l)

\* im is laid out as the structs of macho.rs:9-102.
WellFormed(im) ==
    /\ im.vmbase \in Words /\ im.vmsize \in Nat /\ im.entry \in Nat
    /\ IsList(im.segments) /\ IsList(im.rebase) /\ IsList(im.imports)
    /\ IsList(im.exports) /\ im.tlv.start \in Nat /\ IsList(im.tlv.var_ranges)
    /\ \A j \in DOMAIN im.segments :
          /\ im.segments[j].vmaddr \in Nat /\ im.segments[j].vmsize \in Nat
          /\ im.segments[j].filesize \in Nat
          /\ im.segments[j].data \in [1 .. im.segments[j].filesize -> Words]
          /\ IsList(im.segments[j].sections)
          /\ \A n \in DOMAIN im.segments[j].sections :
                /\ im.segments[j].sections[n].addr \in Nat
                /\ im.segments[j].sections[n].size \in Nat
    /\ \A j \in DOMAIN im.rebase : im.rebase[j].vmaddr \in Nat
    /\ \A j \in DOMAIN im.imports :
          /\ im.imports[j].name \in Names
          /\ im.imports[j].address \in Nat
          /\ im.imports[j].addend \in Int
          /\ im.imports[j].is_weak \in BOOLEAN
    /\ \A j \in DOMAIN im.exports : im.exports[j].address \in Nat
    /\ \A j \in DOMAIN im.tlv.var_ranges :
          /\ im.tlv.var_ranges[j].addr \in Nat
          /\ im.tlv.var_ranges[j].size \in Nat

\* No two segments, relocations of a kind, or descriptor ranges share a word.
Disjoint(im) ==
    /\ \A w \in Offsets(im), i, j \in DOMAIN im.segments :
          Touches(im, i, w) /\ Touches(im, j, w) => i = j
    /\ \A w \in Offsets(im), i, j \in DOMAIN im.rebase :
          RebasesAt(im, i, w) /\ RebasesAt(im, j, w) => i = j
    /\ \A i, j \in DOMAIN im.imports :
          im.imports[i].address = im.imports[j].address => i = j
    /\ \A w \in Offsets(im), i, j \in DOMAIN im.tlv.var_ranges, m, n \in 0 .. 2 :
          DescriptorWord(im, i, w, m) /\ DescriptorWord(im, j, w, n) => i = j
    /\ \A i \in DOMAIN im.tlv.var_ranges :
          /\ im.tlv.var_ranges[i].size % 3 = 0
          /\ im.tlv.var_ranges[i].addr + im.tlv.var_ranges[i].size <= im.vmsize

\* The link-time address a is in a segment the loader maps.
InSegment(im, a) == \E j \in DOMAIN im.segments :
                       /\ im.segments[j].filesize # 0
                       /\ im.segments[j].vmaddr <= a
                       /\ a < im.segments[j].vmaddr + im.segments[j].vmsize

\* vmbase and vmsize are the lowest and the highest address of the segments that
\* are mapped (macho.rs:121-129), and what the linker refers to is in one of them.
SelfContained(im) ==
    /\ \A j \in DOMAIN im.segments : im.segments[j].filesize # 0 =>
          /\ im.vmbase <= im.segments[j].vmaddr
          /\ im.segments[j].vmaddr + im.segments[j].vmsize <= im.vmsize
    /\ \A w \in Offsets(im), j \in DOMAIN im.rebase :
          RebasesAt(im, j, w) => InSegment(im, FileWord(im, w))
    /\ \A j \in DOMAIN im.exports :
          im.exports[j].kind = "regular" /\ im.exports[j].name \in HookNames
          => InSegment(im, im.vmbase + im.exports[j].address)
    /\ InSegment(im, im.entry)

\* The linker's descriptors: the last word is an offset in the template, and
\* dyld's to read only; no two are the same.  An image with thread-locals is an
\* executable, linked at 4 GiB and shorter than that.
OwnThreadLocals(im) ==
    /\ \A w \in Offsets(im), j \in DOMAIN im.rebase, r \in DOMAIN im.tlv.var_ranges :
          RebasesAt(im, j, w) => \A n \in 0 .. 2 : ~ DescriptorWord(im, r, w, n)
    /\ \A w \in Offsets(im), r \in DOMAIN im.tlv.var_ranges :
          DescriptorWord(im, r, w, 2) =>
             /\ \A j \in DOMAIN im.imports : w # im.imports[j].address - im.vmbase
             /\ im.tlv.start + FileWord(im, w) < im.vmsize
             /\ im.vmsize - im.vmbase <= im.tlv.start
    /\ \A v, w \in Offsets(im), q, r \in DOMAIN im.tlv.var_ranges :
          /\ DescriptorWord(im, q, v, 2) /\ DescriptorWord(im, r, w, 2)
          /\ FileWord(im, v) = FileWord(im, w)
          => v = w

ASSUME WordAssumption == /\ WordMod \in Nat \ {0}
                         /\ Thunk \in Words
                         /\ HostAddrs \subseteq Words
                         /\ 0 \notin HostAddrs
                         /\ Bases \subseteq Words
ASSUME ImageAssumption == \A im \in Images : WellFormed(im) /\ Disjoint(im)
ASSUME LinkerAssumption == \A im \in Images : SelfContained(im) /\ OwnThreadLocals(im)

\* What mmap returns ends inside the address space.
ASSUME MapAssumption ==
    \A im \in Images : \A b \in Bases \cup {im.vmbase} : b + im.vmsize <= WordMod

-----------------------------------------------------------------------------
VARIABLES
    img,             \* the parsed image
    resolver,        \* what stubs::resolve answers for each name, 0 for null
    stage,           \* the function being executed
    k,               \* index of its loop
    base,            \* address of the mapping
    should_rebase,
    mem,             \* contents of the mapping
    hooks,           \* the operator hooks of newer.rs, 0 for None
    init,            \* the vector of run_mod_init
    ran              \* the code addresses called so far, in order

vars == <<img, resolver, stage, k, base, should_rebase, mem, hooks, init, ran>>
fixed == <<img, resolver>>

Stages == {"map_image", "copy", "rebase", "resolve_imports", "resolve_exports",
           "fixup_tlv", "run_mod_init", "run", "game", "error"}

Init == /\ img \in Images
        /\ resolver \in [Names -> HostAddrs \cup {0}]
        /\ stage = "map_image"
        /\ k = 1
        /\ base = 0
        /\ should_rebase = FALSE
        /\ mem = << >>
        /\ hooks = [n \in HookNames |-> 0]
        /\ init = << >>
        /\ ran = << >>

\* Variant with a plausible bug: the next loop starts one before its list.
AdvanceToZero(from, list, to) == /\ stage = from
                                 /\ k > Len(list)
                                 /\ stage' = to
                                 /\ k' = 0
                                 /\ UNCHANGED <<fixed, base, should_rebase, mem,
                                                hooks, init, ran>>

\* The loop of stage `from` is over: the code goes on with stage `to`.
Advance(from, list, to) == /\ stage = from
                           /\ k > Len(list)
                           /\ stage' = to
                           /\ k' = 1
                           /\ UNCHANGED <<fixed, base, should_rebase, mem,
                                          hooks, init, ran>>

\* Variant with a plausible bug: the index is not advanced.
IterateStuck(in, list) == /\ stage = in
                          /\ k <= Len(list)
                          /\ k' = k
                          /\ stage' = stage

\* One iteration of the loop of stage `in` over `list`.
Iterate(in, list) == /\ stage = in
                     /\ k <= Len(list)
                     /\ k' = k + 1
                     /\ stage' = stage

-----------------------------------------------------------------------------
(* Variants of the actions below, each with a plausible bug. *)

\* The pointer is not taken back to an offset before the base is added.
RebaseOneNoBase ==
    /\ Iterate("rebase", img.rebase)
    /\ mem' = [w \in Offsets(img) |->
                  IF RebasesAt(img, k, w) THEN Wrap(mem[w] + base) ELSE mem[w]]
    /\ UNCHANGED <<fixed, base, should_rebase, hooks, init, ran>>

\* The addend of the binding is lost.
ImportOneNoAddend ==
    /\ Iterate("resolve_imports", img.imports)
    /\ mem' = [w \in Offsets(img) |->
                  IF BindsAt(img, resolver, k, w)
                  THEN resolver[img.imports[k].name]
                  ELSE mem[w]]
    /\ UNCHANGED <<fixed, base, should_rebase, hooks, init, ran>>

\* The offset of an export is treated as a link-time address.
ExportOneLinkTime ==
    /\ Iterate("resolve_exports", img.exports)
    /\ LET export == img.exports[k]
       IN  hooks' = [n \in HookNames |->
                        IF export.kind = "regular" /\ export.name = n
                        THEN Wrap(base + export.address - img.vmbase)
                        ELSE hooks[n]]
    /\ UNCHANGED <<fixed, base, should_rebase, mem, init, ran>>

\* The storage is put where the template is, and not where it is free.
TlvRangeOnTemplate ==
    /\ Iterate("fixup_tlv", img.tlv.var_ranges)
    /\ mem' = [w \in Offsets(img) |->
                  IF DescriptorWord(img, k, w, 0) THEN Thunk
                  ELSE IF DescriptorWord(img, k, w, 1)
                       THEN Wrap(base + img.tlv.start - img.vmbase + mem[w + 1])
                  ELSE mem[w]]
    /\ UNCHANGED <<fixed, base, should_rebase, hooks, init, ran>>

\* Each initializer is looked up when its turn comes.
RunInitUncollected ==
    /\ Iterate("run", init)
    /\ ran' = Append(ran, InitPointers(img, mem)[k])
    /\ mem' \in {mem} \cup
                {[mem EXCEPT ![w] = v] : w \in Offsets(img), v \in {0, base}}
    /\ UNCHANGED <<fixed, base, should_rebase, hooks, init>>

-----------------------------------------------------------------------------
(* map_image *)

\* The preferred address is free: no relocation is needed.
MapPreferred == /\ stage = "map_image"
                /\ base' = img.vmbase
                /\ should_rebase' = FALSE
                /\ mem' = [w \in Offsets(img) |-> 0]
                /\ stage' = "copy"
                /\ k' = 1
                /\ UNCHANGED <<fixed, hooks, init, ran>>

\* It is not: the system chooses the address.
MapAnywhere == /\ stage = "map_image"
               /\ base' \in Bases
               /\ should_rebase' = TRUE
               /\ mem' = [w \in Offsets(img) |-> 0]
               /\ stage' = "copy"
               /\ k' = 1
               /\ UNCHANGED <<fixed, hooks, init, ran>>

\* Both attempts fail, and map_image returns the second error.
MapFails == /\ stage = "map_image"
            /\ stage' = "error"
            /\ UNCHANGED <<fixed, k, base, should_rebase, mem, hooks, init, ran>>

CopySegment == /\ Iterate("copy", img.segments)
               /\ mem' = [w \in Offsets(img) |->
                             IF Touches(img, k, w) THEN SegmentWord(img, k, w)
                                                   ELSE mem[w]]
               /\ UNCHANGED <<fixed, base, should_rebase, hooks, init, ran>>

CopyDone == Advance("copy", img.segments,
                    IF should_rebase THEN "rebase" ELSE "resolve_imports")

RebaseOne ==
    /\ Iterate("rebase", img.rebase)
    /\ mem' = [w \in Offsets(img) |->
                  IF RebasesAt(img, k, w)
                  THEN Wrap(mem[w] - img.vmbase + base)
                  ELSE mem[w]]
    /\ UNCHANGED <<fixed, base, should_rebase, hooks, init, ran>>

RebaseDone == Advance("rebase", img.rebase, "resolve_imports")

-----------------------------------------------------------------------------
(* resolve_imports, resolve_exports, fixup_tlv *)

ImportOne ==
    /\ Iterate("resolve_imports", img.imports)
    /\ LET import == img.imports[k]
       IN  mem' = [w \in Offsets(img) |->
                      IF BindsAt(img, resolver, k, w)
                      THEN Wrap(resolver[import.name] + import.addend)
                      ELSE mem[w]]
    /\ UNCHANGED <<fixed, base, should_rebase, hooks, init, ran>>

ImportsDone == Advance("resolve_imports", img.imports, "resolve_exports")

\* install_hook stores the address when it knows the name, and drops it if not.
ExportOne ==
    /\ Iterate("resolve_exports", img.exports)
    /\ LET export == img.exports[k]
       IN  hooks' = [n \in HookNames |->
                        IF export.kind = "regular" /\ export.name = n
                        THEN Wrap(base + export.address)
                        ELSE hooks[n]]
    /\ UNCHANGED <<fixed, base, should_rebase, mem, init, ran>>

ExportsDone == Advance("resolve_exports", img.exports, "fixup_tlv")

\* Every descriptor of a range: thunk and opaq are written, offset is kept.
TlvRange ==
    /\ Iterate("fixup_tlv", img.tlv.var_ranges)
    /\ mem' = [w \in Offsets(img) |->
                  IF DescriptorWord(img, k, w, 0) THEN Thunk
                  ELSE IF DescriptorWord(img, k, w, 1)
                       THEN Wrap(base + img.tlv.start + mem[w + 1])
                  ELSE mem[w]]
    /\ UNCHANGED <<fixed, base, should_rebase, hooks, init, ran>>

TlvDone == Advance("fixup_tlv", img.tlv.var_ranges, "run_mod_init")

-----------------------------------------------------------------------------
(* run_mod_init, get_entry *)

\* All the pointers are read before the first of them is called.
CollectInits == /\ stage = "run_mod_init"
                /\ init' = InitPointers(img, mem)
                /\ stage' = "run"
                /\ UNCHANGED <<fixed, k, base, should_rebase, mem, hooks, ran>>

\* The code of the image runs in the process and may write to its own memory:
\* one word of it, or none.
Scribbles == {mem} \cup
             {[mem EXCEPT ![w] = v] : w \in Offsets(img), v \in {0, base}}

\* An initializer runs to its end.
RunInit == /\ Iterate("run", init)
           /\ ran' = Append(ran, init[k])
           /\ mem' \in Scribbles
           /\ UNCHANGED <<fixed, base, should_rebase, hooks, init>>

\* run_until_alert(get_entry(image)): the game has control from here on.
EnterGame == /\ stage = "run"
             /\ k > Len(init)
             /\ ran' = Append(ran, Wrap(base + img.entry - img.vmbase))
             /\ stage' = "game"
             /\ UNCHANGED <<fixed, k, base, should_rebase, mem, hooks, init>>

Finished == stage \in {"game", "error"} /\ UNCHANGED vars

Next == \/ MapPreferred \/ MapAnywhere \/ MapFails
        \/ CopySegment \/ CopyDone
        \/ RebaseOne \/ RebaseDone
        \/ ImportOne \/ ImportsDone
        \/ ExportOne \/ ExportsDone
        \/ TlvRange \/ TlvDone
        \/ CollectInits \/ RunInit \/ EnterGame
        \/ Finished

Spec == Init /\ [][Next]_vars

\* The loader is one thread that nothing blocks; initializers return.
FairSpec == Spec /\ WF_vars(Next)

-----------------------------------------------------------------------------
\* The loader only ever indexes words of the mapping, starts every loop at its
\* first element, and computes addresses that fit usize (macho.rs:327-475).
TypeOK == /\ img \in Images
          /\ resolver \in [Names -> HostAddrs \cup {0}]
          /\ stage \in Stages
          /\ k \in Nat \ {0}
          /\ base \in Words
          /\ should_rebase \in BOOLEAN
          /\ stage \notin {"map_image", "error"} => mem \in [Offsets(img) -> Words]
          /\ hooks \in [HookNames -> Words]

Linked == {"resolve_exports", "fixup_tlv"}

\* When the image's own code is about to run, every word of the mapping is the
\* one the file, the slide, the bindings and the TLV fixup owe to it,
\* whichever way mmap went and whatever the resolver answered
\* (map_image, resolve_imports and fixup_tlv together, macho.rs:327-451).
ImageReady ==
    stage = "run_mod_init" =>
        \A w \in Offsets(img) : mem[w] = ReadyWord(img, base, resolver, w)

\* Where the loaded segments of the image live in the process.
InLoadedSegment(b, a) ==
    \E j \in DOMAIN img.segments :
        LET s == img.segments[j]
        IN  /\ s.filesize # 0
            /\ b + s.vmaddr - img.vmbase <= a
            /\ a < b + s.vmaddr - img.vmbase + s.vmsize

\* No pointer of the rebase table is left behind at the link-time address:
\* unless an import was bound over it, it points into the segments where they
\* are now (the rebase loop and the choice of should_rebase, macho.rs:338-396).
PointersInImage ==
    stage \in Linked =>
        \A j \in DOMAIN img.rebase, w \in Offsets(img) :
            /\ RebasesAt(img, j, w)
            /\ \A i \in DOMAIN img.imports : ~ BindsAt(img, resolver, i, w)
            => InLoadedSegment(base, mem[w])

\* The storage fixup_tlv gives to a thread-local variable.  `start` is a
\* link-time address used as an offset of the mapping.
Descriptors == {w \in Offsets(img) : \E r \in DOMAIN img.tlv.var_ranges :
                                        DescriptorWord(img, r, w, 1)}

\* A thread-local lives inside the mapping, off the words of the segments, and
\* no two share a word.  It is so only because vmsize is the end address of
\* the image and not its size: the absolute address used as an offset by
\* fixup_tlv (macho.rs:445) falls behind the image (macho.rs:128, 345).
TlvStorageApart ==
    stage = "run_mod_init" =>
        /\ \A w \in Descriptors :
              /\ base <= mem[w] /\ mem[w] < base + img.vmsize
              /\ ~ InLoadedSegment(base, mem[w])
        /\ \A v, w \in Descriptors : mem[v] = mem[w] => v = w

\* The code addresses the file wants called: its initializers, moved.
FileInits == InitPointers(img, [w \in Offsets(img) |->
                                    ReadyWord(img, base, resolver, w)])

\* The initializers are called once each, in the order of the sections, and
\* what the earlier ones write to the pointer tables changes nothing: they
\* were all read first (run_mod_init, macho.rs:453-475).
InitOrder ==
    /\ stage = "run" => ran = SubSeq(FileInits, 1, k - 1)
    /\ stage = "game" => ran = Append(FileInits,
                                      base + img.entry - img.vmbase)

\* No code of the image runs before its operator new and delete are hooked, at
\* addresses of the image (resolve_exports precedes run_mod_init, mod.rs:15-18).
HooksBeforeCode ==
    ran # << >> =>
        \A j \in DOMAIN img.exports :
            img.exports[j].kind = "regular" /\ img.exports[j].name \in HookNames
            => InLoadedSegment(base, hooks[img.exports[j].name])

\* The loader always comes to the game's entry point or to the error of mmap.
Terminates == <>(stage \in {"game", "error"})
=============================================================================
