-------------------------- MODULE MachOParseProofs --------------------------
(***************************************************************************)
(* For every file goblin can read and either arithmetic of the build: what *)
(* the loader keeps of segments and sections (SectionsInside) and of the   *)
(* thread-local template (TlvTemplate); and for every file a linker wrote, *)
(* that its rebase table is decoded as it was meant (RebaseExact).         *)
(***************************************************************************)
EXTENDS MachOParse, WellFoundedInduction, TLAPS

\* What goblin has read of a section and of a segment.
SectionType == [addr: Words, size: Words, type: STRING]

SegmentType == [vmaddr: Words, vmsize: Words, filesize: Words, sections: Seq(SectionType)]

\* Arithmetic stays a word, and does not wrap inside the address space.
LEMMA WordsStay ==
    /\ WordMod \in Nat \ {0} /\ Words \subseteq Nat
    /\ \A x \in Int : Wrap(x) \in Words
    /\ \A x \in Words : Wrap(x) = x
<1>1. WordMod \in Nat \ {0}
  BY FileAssumed DEF FileAssumption
<1> QED BY <1>1 DEF Words, Wrap

\* Once around it there is no difference.
LEMMA WordsTurn == \A x \in Words : Wrap(x + WordMod) = x /\ Wrap(x - WordMod) = x
<1>1. WordMod \in Nat \ {0}
  BY FileAssumed DEF FileAssumption
<1> QED BY <1>1 DEF Words, Wrap

-----------------------------------------------------------------------------
(* Segments and sections. *)

\* What the loader keeps of a segment.
KeptSegment == SegmentType

\* Every section of a segment ends inside of it, but for the ends that wrapped.
Inside(seg) == \A n \in DOMAIN seg.sections :
                  \/ seg.sections[n].addr + seg.sections[n].size <= seg.vmaddr + seg.vmsize
                  \/ ~ checks /\ Overflows(seg.sections[n])

\* What is loaded of a segment lies between vmbase and the end of the image.
Covered(seg) == seg.filesize # 0 => /\ vmbase <= seg.vmaddr
                                    /\ seg.vmaddr + seg.vmsize <= vmsize

LayoutInv == /\ file \in Files
             /\ k \in Nat
             /\ stage = "segments" => k > 0
             /\ vmbase \in Nat /\ vmsize \in Nat
             /\ segments \in Seq(KeptSegment)
             /\ \A j \in DOMAIN segments : Inside(segments[j]) /\ Covered(segments[j])

\* A copied segment keeps its place, and its sections are clipped to it.
Copy(seg) == [seg EXCEPT !.sections = [n \in DOMAIN @ |-> Clipped(seg, @[n])]]

\* The lesser and the greater of two numbers.
LEMMA LeastFacts ==
    ASSUME NEW x \in Int, NEW y \in Int
    PROVE  /\ Least(x, y) \in {x, y} /\ Least(x, y) <= x /\ Least(x, y) <= y
           /\ Most(x, y) \in {x, y} /\ x <= Most(x, y) /\ y <= Most(x, y)
BY DEF Least, Most

\* A function on the indices of a sequence is a sequence.
LEMMA FunctionSeq ==
    ASSUME NEW S, NEW n \in Nat, NEW f \in [1 .. n -> S]
    PROVE  f \in Seq(S) /\ DOMAIN f = 1 .. n /\ Len(f) = n
OBVIOUS

\* What is collected is appended.
LEMMA Concatenated ==
    ASSUME NEW S, NEW s \in Seq(S), NEW t \in Seq(S)
    PROVE  /\ s \o t \in Seq(S) /\ Len(s \o t) = Len(s) + Len(t)
           /\ \A i \in 1 .. Len(s) + Len(t) :
                 (s \o t)[i] = IF i <= Len(s) THEN s[i] ELSE t[i - Len(s)]
OBVIOUS

\* A clipped section ends in its segment; if its end wraps it is left as it was
\* (macho.rs:132).
LEMMA ClippedInside ==
    ASSUME NEW seg \in SegmentType, seg.vmaddr + seg.vmsize \in Words,
           NEW s \in SectionType, s.addr <= seg.vmaddr + seg.vmsize
    PROVE  /\ Clipped(seg, s) \in SectionType
           /\ \/ Clipped(seg, s).addr + Clipped(seg, s).size <= seg.vmaddr + seg.vmsize
              \/ Overflows(s) /\ Clipped(seg, s) = s
<1> DEFINE end == seg.vmaddr + seg.vmsize
           sum == s.addr + s.size
           size == Wrap(Least(end, Wrap(sum)) - s.addr)
<1>1. /\ WordMod \in Nat \ {0} /\ end \in 0 .. WordMod - 1 /\ s.addr <= end
      /\ s.addr \in 0 .. WordMod - 1 /\ s.size \in 0 .. WordMod - 1
  BY WordsStay DEF SectionType, Words
<1>2. Clipped(seg, s) = [s EXCEPT !.size = size]
  BY DEF Clipped
<1>3. sum \in Int /\ Wrap(sum) \in Words
  BY <1>1, WordsStay
<1> HIDE DEF end
<1>4. CASE Overflows(s)
  <2>1. sum - WordMod \in Words /\ sum - WordMod < s.addr
    BY <1>1, <1>4 DEF Overflows, Words
  <2>2. Wrap(sum) = sum - WordMod
    <3>1. Wrap((sum - WordMod) + WordMod) = sum - WordMod
      BY <2>1, WordsTurn
    <3>2. (sum - WordMod) + WordMod = sum
      BY <1>1
    <3> QED BY <3>1, <3>2
  <2>3. Least(end, Wrap(sum)) = sum - WordMod
    BY <1>1, <2>1, <2>2 DEF Least
  <2>4. (sum - WordMod) - s.addr = s.size - WordMod
    BY <1>1
  <2>5. size = s.size
    BY <1>1, <2>3, <2>4, WordsTurn DEF Words
  <2> HIDE DEF size
  <2> QED BY <1>2, <1>4, <2>5 DEF SectionType
<1>5. CASE ~ Overflows(s)
  <2>1. Wrap(sum) = sum
    BY <1>5, WordsStay DEF Overflows
  <2>2. /\ Least(end, sum) - s.addr \in Words
        /\ s.addr + (Least(end, sum) - s.addr) <= end
    BY <1>1, <1>5 DEF Least, Words, Overflows
  <2>3. size = Least(end, sum) - s.addr
    BY <2>1, <2>2, WordsStay
  <2>4. size \in Words /\ s.addr + size <= end
    BY <2>2, <2>3
  <2> HIDE DEF size
  <2> QED BY <1>2, <2>4 DEF SectionType, end
<1> QED BY <1>4, <1>5

\* What the loader copies of a segment lies in it (macho.rs:124-157).
LEMMA CopiedInside ==
    ASSUME NEW seg \in SegmentType, seg.vmaddr + seg.vmsize \in Words,
           \A n \in DOMAIN seg.sections :
              /\ seg.sections[n] \in SectionType
              /\ seg.sections[n].addr <= seg.vmaddr + seg.vmsize
              /\ checks => ~ Overflows(seg.sections[n])
    PROVE  /\ Copy(seg) \in KeptSegment /\ Inside(Copy(seg))
           /\ Copy(seg).filesize = seg.filesize
           /\ Copy(seg).vmaddr = seg.vmaddr /\ Copy(seg).vmsize = seg.vmsize
<1> DEFINE kept == [n \in DOMAIN seg.sections |-> Clipped(seg, seg.sections[n])]
<1>1. Copy(seg) = [seg EXCEPT !.sections = kept]
  BY DEF Copy
<1>2. seg.sections \in Seq(SectionType)
  BY DEF SegmentType
<1>3. \A n \in DOMAIN seg.sections :
         /\ kept[n] \in SectionType
         /\ \/ kept[n].addr + kept[n].size <= seg.vmaddr + seg.vmsize
            \/ ~ checks /\ Overflows(kept[n])
  BY ClippedInside
<1>4. DOMAIN seg.sections = 1 .. Len(seg.sections) /\ Len(seg.sections) \in Nat
  BY <1>2
<1>5. kept \in Seq(SectionType) /\ DOMAIN kept = DOMAIN seg.sections
  <2>1. kept \in [1 .. Len(seg.sections) -> SectionType]
    BY <1>3, <1>4
  <2> HIDE DEF kept
  <2> QED BY <2>1, <1>4, FunctionSeq
<1> HIDE DEF kept
<1>6. /\ Copy(seg) \in KeptSegment /\ Copy(seg).sections = kept
      /\ Copy(seg).filesize = seg.filesize
      /\ Copy(seg).vmaddr = seg.vmaddr /\ Copy(seg).vmsize = seg.vmsize
  BY <1>1, <1>5 DEF SegmentType, KeptSegment
<1> QED BY <1>3, <1>5, <1>6 DEF Inside

\* Before the first segment the image is empty.
LEMMA InitLayout == Init => LayoutInv
BY FileAssumed DEF Init, LayoutInv, FileAssumption

\* A segment of a file is as goblin reads it.
LEMMA FileSegments ==
    ASSUME file \in Files
    PROVE  /\ file.segments \in Seq(SegmentType)
           /\ \A j \in DOMAIN file.segments : file.segments[j] \in SegmentType
<1>1. file.segments \in Seq(SegmentType)
  BY FileAssumed DEF FileAssumption, SegmentType, SectionType
<1> QED BY <1>1

\* Copying a segment keeps those before it inside the image: its bounds only grow.
LEMMA SegmentStep == ASSUME LayoutInv, Segment PROVE LayoutInv'
<1> DEFINE seg == file.segments[k]
<1>1. /\ file' = file /\ checks' = checks
      /\ k' = k + 1 /\ k' \in Nat /\ k' > 0 /\ stage' = stage
  BY DEF LayoutInv, Segment, given
<1>2. seg \in SegmentType /\ k \in DOMAIN file.segments
  <2>1. k \in DOMAIN file.segments
    BY FileSegments DEF LayoutInv, Segment
  <2> QED BY <2>1, FileSegments DEF LayoutInv
<1>3. /\ segments' = Append(segments, Copy(seg))
      /\ vmbase' = IF seg.filesize # 0 THEN Least(vmbase, seg.vmaddr) ELSE vmbase
      /\ vmsize' = IF seg.filesize # 0 THEN Most(vmsize, seg.vmaddr + seg.vmsize) ELSE vmsize
  BY DEF Segment, Copy
<1>4. seg.vmaddr \in Nat /\ seg.vmsize \in Nat
  BY <1>2 DEF SegmentType, Words
<1>5. /\ vmbase' \in Nat /\ vmsize' \in Nat /\ vmbase' <= vmbase /\ vmsize <= vmsize'
      /\ seg.filesize # 0 => vmbase' <= seg.vmaddr /\ seg.vmaddr + seg.vmsize <= vmsize'
  <2> HIDE DEF seg
  <2>1. vmbase \in Nat /\ vmsize \in Nat /\ seg.vmaddr + seg.vmsize \in Nat
    BY <1>4 DEF LayoutInv
  <2> QED BY <1>3, <1>4, <2>1, LeastFacts
<1>6. /\ Copy(seg) \in KeptSegment /\ Inside(Copy(seg))
      /\ Copy(seg).filesize = seg.filesize
      /\ Copy(seg).vmaddr = seg.vmaddr /\ Copy(seg).vmsize = seg.vmsize
  <2>1. seg.sections \in Seq(SectionType)
    BY <1>2 DEF SegmentType
  <2>2. \A n \in DOMAIN seg.sections : seg.sections[n] \in SectionType
    BY <2>1
  <2>3. /\ seg.vmaddr + seg.vmsize \in Words
        /\ \A n \in DOMAIN seg.sections :
              seg.sections[n].addr \in seg.vmaddr .. seg.vmaddr + seg.vmsize
    BY <1>2, FileAssumed DEF FileAssumption, LayoutInv
  <2>4. \A n \in DOMAIN seg.sections : checks => ~ Overflows(seg.sections[n])
    BY DEF Segment, CannotClip
  <2>5. \A n \in DOMAIN seg.sections : seg.sections[n].addr <= seg.vmaddr + seg.vmsize
    BY <2>3
  <2> HIDE DEF seg
  <2> QED BY <1>2, <2>2, <2>3, <2>4, <2>5, CopiedInside
<1> HIDE DEF seg
<1>7. /\ segments' \in Seq(KeptSegment)
      /\ \A j \in DOMAIN segments' : \/ j \in DOMAIN segments /\ segments'[j] = segments[j]
                                     \/ segments'[j] = Copy(seg)
  BY <1>3, <1>6 DEF LayoutInv
<1>8. \A j \in DOMAIN segments : segments[j] \in KeptSegment
  BY DEF LayoutInv
<1>9. \A j \in DOMAIN segments' : Inside(segments'[j]) /\ Covered(segments[j])'
  <2> SUFFICES ASSUME NEW j \in DOMAIN segments'
               PROVE  Inside(segments'[j]) /\ Covered(segments[j])'
    OBVIOUS
  <2>1. CASE j \in DOMAIN segments /\ segments'[j] = segments[j]
    <3>1. Inside(segments[j]) /\ Covered(segments[j]) /\ segments[j] \in KeptSegment
      BY <2>1, <1>8 DEF LayoutInv
    <3>2. segments[j].vmaddr \in Nat /\ segments[j].vmsize \in Nat
      BY <3>1 DEF KeptSegment, SegmentType, Words
    <3>3. vmbase \in Nat /\ vmsize \in Nat
      BY DEF LayoutInv
    <3> QED BY <2>1, <3>1, <3>2, <3>3, <1>5 DEF Covered
  <2>2. CASE segments'[j] = Copy(seg)
    BY <2>2, <1>5, <1>6 DEF Covered
  <2> QED BY <2>1, <2>2, <1>7
<1>10. (\A j \in DOMAIN segments : Inside(segments[j]) /\ Covered(segments[j]))'
  BY <1>1, <1>9 DEF Inside, Overflows
<1> QED BY <1>1, <1>5, <1>7, <1>10 DEF LayoutInv

\* The actions after the segments leave the layout alone.
LayoutStays == UNCHANGED <<given, layout>> /\ stage' # "segments" /\ k' \in Nat

\* Only the loop over segments touches them; what follows it reads them.
LEMMA OthersKeepLayout ==
    ASSUME LayoutInv, [Next]_vars, ~ Segment
    PROVE  LayoutInv'
<1>1. CASE UNCHANGED vars
  BY <1>1 DEF LayoutInv, Inside, Overflows, Covered, vars
<1>2. CASE Next
  <2>1. k \in Nat
    BY DEF LayoutInv
  <2>2. ASSUME SegmentsDone \/ TlvSection \/ TlvDone
       PROVE  LayoutStays
    BY <2>1, <2>2 DEF LayoutStays, SegmentsDone, TlvSection, TlvDone, given, layout
  <2>3. ASSUME SkipCommand \/ StartRebase \/ EndRebase \/ Parsed
       PROVE  LayoutStays
    BY <2>1, <2>3 DEF LayoutStays, SkipCommand, StartRebase, EndRebase, Parsed, given, layout
  <2>4. ASSUME OpDone \/ SetType \/ SetSegment \/ AddAddr \/ DoRebase
       PROVE  LayoutStays
    BY <2>1, <2>4 DEF LayoutStays, OpDone, SetType, SetSegment, AddAddr, DoRebase,
                      Executing, Executed, given, layout
  <2>5. ASSUME SegmentFails \/ DoRebaseFails \/ UnknownOpcode
       PROVE  LayoutStays
    BY <2>1, <2>5 DEF LayoutStays, SegmentFails, DoRebaseFails, UnknownOpcode, Fail,
                      given, layout
  <2>6. ASSUME Finished
       PROVE  LayoutStays
    BY <2>1, <2>6 DEF LayoutStays, Finished, vars, given, layout
  <2>7. LayoutStays
    BY <1>2, <2>2, <2>3, <2>4, <2>5, <2>6 DEF Next
  <2>8. /\ file' = file /\ checks' = checks /\ vmbase' = vmbase /\ vmsize' = vmsize /\ segments' = segments
        /\ stage' # "segments" /\ k' \in Nat
    BY <2>7 DEF LayoutStays, given, layout
  <2> QED BY <2>8 DEF LayoutInv, Inside, Overflows, Covered
<1> QED BY <1>1, <1>2

\* The mapping holds every loaded segment, and each section stays inside its own
\* segment, however large the file says it is (macho.rs:124-157): what
\* map_image copies and zero-fills is in bounds.  The exception is a section whose
\* end does not fit u64, in a build that wraps; one that checks stops there.
THEOREM SegmentsInBounds == Spec => []SectionsInside
<1>1. LayoutInv /\ [Next]_vars => LayoutInv'
  BY SegmentStep, OthersKeepLayout
<1>2. LayoutInv => SectionsInside
  <2> SUFFICES ASSUME LayoutInv, NEW j \in DOMAIN segments, segments[j].filesize # 0
               PROVE  /\ vmbase <= segments[j].vmaddr
                      /\ segments[j].vmaddr - vmbase + segments[j].vmsize <= vmsize
                      /\ \A n \in DOMAIN segments[j].sections :
                            LET s == segments[j].sections[n]
                            IN  \/ s.addr + s.size <= segments[j].vmaddr + segments[j].vmsize
                                \/ ~ checks /\ Overflows(s)
    BY DEF SectionsInside
  <2>1. segments[j] \in KeptSegment
    BY DEF LayoutInv
  <2>2. segments[j].vmaddr \in Nat /\ segments[j].vmsize \in Nat /\ vmbase \in Nat
    BY <2>1 DEF LayoutInv, KeptSegment, SegmentType, Words
  <2>3. Inside(segments[j]) /\ Covered(segments[j])
    BY DEF LayoutInv
  <2> QED BY <2>2, <2>3 DEF LayoutInv, Inside, Covered
<1> QED BY <1>1, <1>2, InitLayout, PTL DEF Spec

-----------------------------------------------------------------------------
(* The sections of a file, one segment after the other. *)

\* A set of numbers that is not empty has a least one.
LEMMA Smallest ==
    ASSUME NEW T, T \subseteq Nat, T # {}
    PROVE  \E n \in T : \A m \in T : n <= m
<1>1. IsWellFoundedOn(OpToRel(<, Nat), Nat)
  BY NatLessThanWellFounded
<1>2. PICK n \in T : \A m \in T : ~ (<<m, n>> \in OpToRel(<, Nat))
  BY <1>1, WFMin
<1>3. \A m \in T : ~ (m < n)
  BY <1>2 DEF OpToRel
<1> QED BY <1>3

\* What FlattenSeq has of the first sequences of ss, from what it has of fewer.
Joined(g, ss, i) == IF i = 1 THEN ss[i] ELSE g[i - 1] \o ss[i]

Flattening(g, ss, n) == g = [i \in 1 .. n |-> Joined(g, ss, i)]

\* There is such a function: FlattenSeq is defined by recursion.
LEMMA FlatteningExists ==
    ASSUME NEW S, NEW ss \in Seq(Seq(S)), Len(ss) # 0
    PROVE  \E g : Flattening(g, ss, Len(ss))
<1> DEFINE N == Len(ss)
           Solved(n) == \E g : Flattening(g, ss, n)
           T == {n \in 1 .. N : ~ Solved(n)}
<1> SUFFICES Solved(N)
  OBVIOUS
<1>1. N \in Nat \ {0} /\ N \in 1 .. N
  OBVIOUS
<1> HIDE DEF Solved, N
<1>2. T \subseteq Nat
  BY <1>1
<1> SUFFICES ASSUME T # {} PROVE FALSE
  BY <1>1
<1>3. PICK n \in T : \A m \in T : n <= m
  <2> HIDE DEF T
  <2> QED BY <1>2, Smallest
<1>4. n \in 1 .. N /\ ~ Solved(n)
  BY <1>3
<1>5. CASE n = 1
  <2> DEFINE g == [i \in 1 .. 1 |-> ss[i]]
  <2>1. \A i \in 1 .. 1 : g[i] = Joined(g, ss, i)
    BY DEF Joined
  <2>2. g = [i \in 1 .. 1 |-> g[i]]
    OBVIOUS
  <2>3. Flattening(g, ss, 1)
    BY <2>1, <2>2, Zenon DEF Flattening
  <2> QED BY <1>4, <1>5, <2>3 DEF Solved
<1>6. CASE n # 1
  <2>1. n - 1 \in 1 .. N /\ n - 1 \notin T
    <3>1. n - 1 < n /\ n - 1 \in 1 .. N
      BY <1>1, <1>4, <1>6
    <3> HIDE DEF T
    <3> QED BY <1>3, <1>2, <3>1
  <2>2. Solved(n - 1)
    BY <2>1
  <2>3. PICK h : Flattening(h, ss, n - 1)
    BY <2>2 DEF Solved
  <2> DEFINE g == [i \in 1 .. n |-> IF i = n THEN h[n - 1] \o ss[n] ELSE h[i]]
  <2>4. \A i \in 1 .. n - 1 : h[i] = Joined(h, ss, i)
    BY <2>3 DEF Flattening
  <2>5. \A i \in 1 .. n : g[i] = Joined(g, ss, i)
    BY <2>4, <1>4, <1>6 DEF Joined
  <2>6. g = [i \in 1 .. n |-> g[i]]
    OBVIOUS
  <2>7. Flattening(g, ss, n)
    BY <2>5, <2>6, Zenon DEF Flattening
  <2> QED BY <1>4, <2>7 DEF Solved
<1> QED BY <1>5, <1>6

\* FlattenSeq of sequences over S is one.
LEMMA FlattenType ==
    ASSUME NEW S, NEW ss \in Seq(Seq(S))
    PROVE  FlattenSeq(ss) \in Seq(S)
<1>1. CASE Len(ss) = 0
  <2>1. FlattenSeq(ss) = ss
    BY <1>1 DEF FlattenSeq
  <2>2. ss = << >>
    BY <1>1
  <2> QED BY <2>1, <2>2
<1>2. CASE Len(ss) # 0
  <2> DEFINE N == Len(ss)
             F == CHOOSE g : Flattening(g, ss, N)
             T == {n \in 1 .. N : F[n] \notin Seq(S)}
  <2>1. N \in Nat \ {0}
    BY <1>2
  <2>2. FlattenSeq(ss) = F[N]
    BY <1>2, Zenon DEF FlattenSeq, Flattening, Joined
  <2>3. Flattening(F, ss, N)
    BY <1>2, FlatteningExists, Zenon
  <2> HIDE DEF F
  <2>4. \A n \in 1 .. N : F[n] = Joined(F, ss, n)
    BY <2>3 DEF Flattening
  <2>5. T = {}
    <3> SUFFICES ASSUME T # {} PROVE FALSE
      OBVIOUS
    <3>1. PICK n \in T : \A m \in T : n <= m
      <4>1. T \subseteq Nat
        BY <2>1
      <4> HIDE DEF T
      <4> QED BY <4>1, Smallest
    <3>2. n \in 1 .. N /\ F[n] \notin Seq(S)
      BY <3>1
    <3>3. ss[n] \in Seq(S)
      BY <3>2
    <3>4. CASE n = 1
      BY <2>4, <3>2, <3>3, <3>4 DEF Joined
    <3>5. CASE n # 1
      <4>1. n - 1 \in 1 .. N /\ n - 1 \notin T
        BY <2>1, <3>1, <3>2, <3>5
      <4>2. F[n - 1] \in Seq(S)
        BY <4>1
      <4>3. F[n] = F[n - 1] \o ss[n]
        BY <2>4, <3>2, <3>5 DEF Joined
      <4> QED BY <3>2, <3>3, <4>2, <4>3
    <3> QED BY <3>4, <3>5
  <2> QED BY <2>1, <2>2, <2>5
<1> QED BY <1>1, <1>2

\* The second walk sees sections as goblin reads them, none of them at address 0.
Placed == [addr: Words \ {0}, size: Words, type: STRING]

\* All sections of a file, in the order of its segments (macho.rs:210-211).
LEMMA SectionsType ==
    ASSUME file \in Files
    PROVE  Sections \in Seq(Placed) /\ \A n \in DOMAIN Sections : Sections[n] \in Placed
<1> DEFINE ss == [j \in DOMAIN file.segments |-> file.segments[j].sections]
<1>1. ASSUME NEW j \in DOMAIN file.segments
      PROVE  file.segments[j].sections \in Seq(Placed)
  <2> DEFINE seg == file.segments[j]
  <2>1. seg \in SegmentType
    BY FileSegments
  <2>2. \A n \in DOMAIN seg.sections : seg.sections[n].addr # 0
    BY FileAssumed DEF FileAssumption
  <2>3. seg.sections \in Seq(SectionType)
    BY <2>1 DEF SegmentType
  <2> HIDE DEF seg
  <2>4. \A n \in DOMAIN seg.sections : seg.sections[n] \in SectionType
    BY <2>3
  <2>5. \A n \in DOMAIN seg.sections : seg.sections[n] \in Placed
    BY <2>2, <2>4 DEF SectionType, Placed
  <2>6. seg.sections \in Seq(Placed)
    BY <2>3, <2>5
  <2> QED BY <2>6 DEF seg
<1>2. file.segments \in Seq(SegmentType)
  BY FileSegments
<1>3. ss \in [1 .. Len(file.segments) -> Seq(Placed)] /\ Len(file.segments) \in Nat
  BY <1>1, <1>2
<1>4. ss \in Seq(Seq(Placed))
  <2> HIDE DEF ss
  <2> QED BY <1>3, FunctionSeq
<1>5. Sections = FlattenSeq(ss)
  BY DEF Sections
<1> HIDE DEF ss
<1>6. Sections \in Seq(Placed)
  BY <1>4, <1>5, FlattenType
<1> QED BY <1>6

-----------------------------------------------------------------------------
(* The template of thread-local storage. *)

Used == {n \in DOMAIN Sections : Sections[n].type \in Templates}

\* The sections of the template that the walk has seen.
Seen == IF stage = "segments" THEN {}
        ELSE IF stage = "tlv" THEN {n \in Used : n < k}
        ELSE Used

Ending(n) == Sections[n].addr + Sections[n].size

\* None of the sections of T that follow n begins below it.
NoneLower(T, n) == \A m \in T : n <= m => Sections[n].addr <= Sections[m].addr

\* A template from start to start + size, made of the sections of T.
Made(T, start, size) ==
    /\ start \in Nat /\ size \in Nat
    /\ T = {} => start = 0 /\ size = 0
    /\ \A n \in T : start <= Sections[n].addr
    /\ T # {} => \E n \in T : start = Sections[n].addr
    /\ \A n \in T : NoneLower(T, n) /\ Ending(n) \in Words => Ending(n) <= start + size

Ranges == Seq([addr: Words, size: Words])

TlvType == [start: Nat, size: Nat, var_ranges: Ranges, func_ranges: Ranges]

TlvInv == /\ file \in Files
          /\ k \in Nat
          /\ stage \in {"segments", "tlv"} => k > 0
          /\ tlv \in TlvType
          /\ stage # "error" => Made(Seen, tlv.start, tlv.size)

\* Before the first segment no section of the template has been seen.
LEMMA InitTlv == Init => TlvInv
<1> SUFFICES ASSUME Init PROVE TlvInv
  OBVIOUS
<1>1. /\ file \in Files /\ k = 1 /\ stage = "segments" /\ tlv.start = 0 /\ tlv.size = 0
      /\ tlv \in TlvType
  BY DEF Init, TlvType, Ranges
<1>2. Seen = {}
  BY <1>1 DEF Seen
<1> QED BY <1>1, <1>2 DEF TlvInv, Made

\* Enough whole pairs of pointers for x of them.
LEMMA RoundedUp == \A x \in Nat : /\ ((x + 1) \div 2) * 2 \in Nat
                                 /\ x <= ((x + 1) \div 2) * 2
OBVIOUS

\* A section of the template moves the start down to its own address, if it is
\* lower, and the template reaches to the section's end.
LEMMA TemplateStep ==
    ASSUME NEW T, T \subseteq DOMAIN Sections, NEW x \in DOMAIN Sections,
           \A n \in DOMAIN Sections : Sections[n] \in Placed,
           \A n \in T : n < x,
           DOMAIN Sections \subseteq Nat,
           tlv \in TlvType, Made(T, tlv.start, tlv.size)
    PROVE  LET new == Template(Sections[x])
           IN  /\ new \in TlvType
               /\ Made(T \cup {x}, new.start, new.size)
<1> DEFINE s == Sections[x]
           start == TemplateStart(s)
           room == Wrap(Wrap(s.addr + s.size) - start)
           size == (Wrap(room + 1) \div 2) * 2
           size2 == IF tlv.size = 0 \/ size > tlv.size THEN size ELSE tlv.size
           new == Template(s)
<1>1. \A n \in DOMAIN Sections : /\ Sections[n].addr \in Nat \ {0} /\ Sections[n].size \in Nat
                                 /\ Ending(n) \in Nat
  BY DEF Placed, Words, Ending
<1>2. tlv.start \in Nat /\ tlv.size \in Nat
  BY DEF TlvType
<1>3. /\ start \in Nat /\ start <= s.addr
      /\ start = s.addr \/ (start = tlv.start /\ tlv.start # 0)
      /\ tlv.start # 0 => start <= tlv.start
  <2>1. s.addr \in Nat
    BY <1>1
  <2>2. start = IF tlv.start = 0 \/ s.addr < tlv.start THEN s.addr ELSE tlv.start
    BY DEF TemplateStart
  <2> HIDE DEF s, start
  <2> QED BY <2>1, <2>2, <1>2
<1>4. size \in Nat /\ (s.addr + s.size \in Words => s.addr + s.size - start <= size)
  <2>1. start \in Nat \ {0} /\ s.addr \in Nat /\ s.size \in Nat /\ start <= s.addr
    BY <1>1, <1>3
  <2>2. Wrap(s.addr + s.size) \in Nat
    <3>1. s.addr + s.size \in Int
      BY <2>1
    <3> QED BY <3>1, WordsStay
  <2>3. room \in Nat
    <3> HIDE DEF start, s
    <3>1. Wrap(s.addr + s.size) - start \in Int
      BY <2>1, <2>2
    <3> QED BY <3>1, WordsStay
  <2>4. Wrap(room + 1) \in Nat
    <3> HIDE DEF room
    <3>1. room + 1 \in Int
      BY <2>3
    <3> QED BY <3>1, WordsStay
  <2>5. size \in Nat
    <3> HIDE DEF room
    <3> QED BY <2>4
  <2>6. ASSUME s.addr + s.size \in Words
        PROVE  s.addr + s.size - start <= size
    <3>1. s.addr + s.size - start \in Words /\ s.addr + s.size - start + 1 \in Words
      <4> HIDE DEF start, s
      <4> QED BY <2>1, <2>6, WordsStay DEF Words
    <3>2. room = s.addr + s.size - start
      <4> HIDE DEF start, s
      <4>1. Wrap(s.addr + s.size) = s.addr + s.size
        BY <2>6, WordsStay
      <4>2. Wrap(s.addr + s.size - start) = s.addr + s.size - start
        BY <3>1, WordsStay
      <4> QED BY <2>1, <4>1, <4>2
    <3>3. room + 1 \in Words
      BY <3>1, <3>2
    <3> HIDE DEF room
    <3>4. Wrap(room + 1) = room + 1
      BY <3>3, WordsStay
    <3>5. room <= ((room + 1) \div 2) * 2
      BY <2>3, RoundedUp
    <3> QED BY <3>2, <3>4, <3>5
  <2> QED BY <2>5, <2>6
<1>5. size2 \in Nat /\ size <= size2 /\ tlv.size <= size2
  <2> HIDE DEF size, room
  <2> QED BY <1>2, <1>4
<1>6. new = [tlv EXCEPT !.start = start, !.size = size2]
  BY DEF Template
<1>7. new \in TlvType /\ new.start = start /\ new.size = size2
  <2> HIDE DEF start, size2, new
  <2> QED BY <1>3, <1>5, <1>6 DEF TlvType
<1>8. T # {} => tlv.start # 0
  BY <1>1 DEF Made
<1>9. s.addr = Sections[x].addr /\ s.addr + s.size = Ending(x)
  BY DEF Ending
<1>10. T = {} => start = s.addr
  BY DEF Made, TemplateStart
<1> HIDE DEF start, room, size, size2, new, s
<1>11. \A n \in T \cup {x} : start <= Sections[n].addr
  <2> SUFFICES ASSUME NEW n \in T PROVE start <= Sections[n].addr
    BY <1>3, <1>9
  <2>1. tlv.start <= Sections[n].addr /\ Sections[n].addr \in Nat
    BY <1>1 DEF Made
  <2> QED BY <2>1, <1>1, <1>2, <1>3, <1>8
<1>12. \E n \in T \cup {x} : start = Sections[n].addr
  BY <1>3, <1>9, <1>10 DEF Made
<1>13. ASSUME NEW n \in T \cup {x}, NoneLower(T \cup {x}, n), Ending(n) \in Words
       PROVE  Ending(n) <= start + size2
  <2>1. CASE n = x
    <3>1. s.addr \in Nat /\ s.size \in Nat /\ s.addr + s.size = Ending(n)
      BY <2>1, <1>1, <1>9 DEF s
    <3> QED BY <3>1, <1>3, <1>4, <1>5, <1>13
  <2>2. CASE n \in T
    <3>1. Sections[n].addr <= s.addr
      BY <1>9, <1>13, <2>2 DEF NoneLower
    <3>2. tlv.start <= Sections[n].addr /\ tlv.start # 0
      BY <2>2, <1>8 DEF Made
    <3>3. NoneLower(T, n)
      BY <1>13 DEF NoneLower
    <3>4. Ending(n) <= tlv.start + tlv.size
      BY <1>13, <2>2, <3>3 DEF Made
    <3>5. tlv.start <= start
      BY <3>1, <3>2, <1>1, <1>2, <1>3, <2>2
    <3>6. Ending(n) \in Nat
      BY <2>2, <1>1
    <3> QED BY <3>4, <3>5, <3>6, <1>2, <1>3, <1>5
  <2> QED BY <2>1, <2>2
<1>14. Made(T \cup {x}, start, size2)
  BY <1>3, <1>5, <1>11, <1>12, <1>13 DEF Made
<1> QED BY <1>7, <1>14 DEF new, s

\* A section of the second walk changes the template, a list of ranges, or nothing.
LEMMA TlvSectionStep == ASSUME TlvInv, TlvSection PROVE TlvInv'
<1> DEFINE s == Sections[k]
           range == [addr |-> s.addr, size |-> s.size]
<1>1. /\ file' = file /\ stage = "tlv" /\ stage' = "tlv" /\ k' = k + 1
      /\ k \in Nat \ {0} /\ k' \in Nat \ {0} /\ k <= Len(Sections)
  BY DEF TlvInv, TlvSection, given
<1>2. /\ Sections \in Seq(Placed) /\ \A n \in DOMAIN Sections : Sections[n] \in Placed
      /\ Sections' = Sections
  BY <1>1, SectionsType DEF TlvInv, Sections
<1>3. k \in DOMAIN Sections /\ DOMAIN Sections \subseteq Nat
  BY <1>1, <1>2
<1>4. s \in Placed /\ range \in [addr: Words, size: Words]
  BY <1>2, <1>3 DEF Placed
<1>5. Seen = {n \in Used : n < k} /\ Seen' = {n \in Used : n < k + 1}
  BY <1>1, <1>2 DEF Seen, Used
<1>6. Seen' = IF s.type \in Templates THEN Seen \cup {k} ELSE Seen
  BY <1>1, <1>3, <1>5 DEF Used
<1>7. tlv \in TlvType /\ Made(Seen, tlv.start, tlv.size)
  BY <1>1 DEF TlvInv
<1>8. tlv' \in TlvType /\ Made(Seen', tlv'.start, tlv'.size)
  <2>1. CASE s.type \in Templates
    <3>1. tlv' = Template(s)
      BY <2>1 DEF TlvSection, Templates
    <3>2. Seen \subseteq DOMAIN Sections /\ \A n \in Seen : n < k
      BY <1>5 DEF Used
    <3>3. /\ Template(s) \in TlvType
          /\ Made(Seen \cup {k}, Template(s).start, Template(s).size)
      <4> DEFINE T == Seen
      <4> HIDE DEF T
      <4>1. /\ T \subseteq DOMAIN Sections /\ \A n \in T : n < k
            /\ Made(T, tlv.start, tlv.size)
        BY <3>2, <1>7 DEF T
      <4>2. /\ Template(Sections[k]) \in TlvType
            /\ Made(T \cup {k}, Template(Sections[k]).start, Template(Sections[k]).size)
        BY <4>1, <1>2, <1>3, <1>7, TemplateStep
      <4> QED BY <4>2 DEF T
    <3> QED BY <3>1, <3>3, <1>6, <2>1
  <2>2. CASE s.type \notin Templates
    <3>1. \/ tlv' = [tlv EXCEPT !.var_ranges = Append(@, range)]
          \/ tlv' = [tlv EXCEPT !.func_ranges = Append(@, range)]
          \/ tlv' = tlv
      BY <2>2 DEF TlvSection
    <3>2. /\ tlv.var_ranges \in Ranges /\ tlv.func_ranges \in Ranges
      BY <1>7 DEF TlvType
    <3>3. /\ Append(tlv.var_ranges, range) \in Ranges
          /\ Append(tlv.func_ranges, range) \in Ranges
      <4> HIDE DEF range
      <4> QED BY <3>2, <1>4 DEF Ranges
    <3>4. tlv' \in TlvType /\ tlv'.start = tlv.start /\ tlv'.size = tlv.size
      <4> HIDE DEF range
      <4> QED BY <3>1, <3>3, <1>7 DEF TlvType
    <3> QED BY <3>4, <1>6, <1>7, <2>2
  <2> QED BY <2>1, <2>2
<1>9. Made(Seen', tlv'.start, tlv'.size) <=> Made(Seen, tlv.start, tlv.size)'
  BY <1>2 DEF Made, NoneLower, Ending
<1> QED BY <1>1, <1>8, <1>9 DEF TlvInv

\* After the walk the template stays, and before it nothing has been seen.
LEMMA OthersKeepTlv ==
    ASSUME TlvInv, [Next]_vars, ~ TlvSection
    PROVE  TlvInv'
<1> DEFINE Stays == /\ file' = file /\ tlv' = tlv /\ k' \in Nat
                    /\ stage' \in {"segments", "tlv"} => k' > 0
                    /\ stage' # "error" => stage # "error" /\ Seen' = Seen
<1>1. k \in Nat /\ (stage = "segments" => k > 0) /\ Sections \in Seq(Placed)
  BY SectionsType DEF TlvInv
<1>2. file' = file => Sections' = Sections /\ Used' = Used
  BY DEF Sections, Used
<1>3. ASSUME UNCHANGED vars
      PROVE  Stays
  BY <1>2, <1>3 DEF vars, Seen, TlvInv
<1>4. ASSUME Segment
      PROVE  Stays
  BY <1>1, <1>4 DEF Segment, Seen, given
<1>5. ASSUME SegmentsDone
      PROVE  Stays
  <2>1. Seen = {} /\ Seen' = {n \in Used' : n < 1}
    BY <1>5 DEF SegmentsDone, Seen
  <2>2. Used' = Used /\ Used \subseteq Nat \ {0}
    BY <1>1, <1>2, <1>5 DEF SegmentsDone, given, Used
  <2>3. \A n \in Used : ~ (n < 1)
    BY <2>2
  <2>4. Seen' = Seen
    BY <2>1, <2>2, <2>3
  <2> QED BY <1>5, <2>4 DEF SegmentsDone, given
<1>6. ASSUME TlvDone
      PROVE  Stays
  <2>1. Used' = Used /\ \A n \in Used : n \in 1 .. Len(Sections) /\ Len(Sections) \in Nat
    BY <1>1, <1>2, <1>6 DEF TlvDone, given, Used
  <2>2. \A n \in Used : n < k
    BY <2>1, <1>1, <1>6 DEF TlvDone
  <2>3. Seen = Used /\ Seen' = Used
    BY <2>1, <2>2, <1>6 DEF TlvDone, Seen
  <2> QED BY <1>1, <1>6, <2>3 DEF TlvDone, given
<1>7. ASSUME /\ stage \notin {"segments", "tlv", "error"} /\ stage' \notin {"segments", "tlv"}
             /\ file' = file /\ tlv' = tlv /\ k' \in Nat
      PROVE  Stays
  BY <1>2, <1>7 DEF Seen
<1> HIDE DEF Stays
<1>8. ASSUME SkipCommand \/ StartRebase \/ EndRebase \/ Parsed
      PROVE  Stays
  BY <1>1, <1>7, <1>8 DEF SkipCommand, StartRebase, EndRebase, Parsed, given
<1>9. ASSUME OpDone \/ SetType \/ SetSegment \/ AddAddr \/ DoRebase
      PROVE  Stays
  BY <1>1, <1>7, <1>9 DEF OpDone, SetType, SetSegment, AddAddr, DoRebase,
                          Executing, Executed, given
<1>10. ASSUME SegmentFails \/ DoRebaseFails \/ UnknownOpcode
       PROVE  Stays
  BY <1>1, <1>10 DEF Stays, SegmentFails, DoRebaseFails, UnknownOpcode, Fail, given
<1>11. ASSUME Finished
       PROVE  Stays
  BY <1>3, <1>11 DEF Finished
<1>12. Stays
  BY <1>3, <1>4, <1>5, <1>6, <1>8, <1>9, <1>10, <1>11 DEF Next
<1>13. /\ file' = file /\ tlv' = tlv /\ k' \in Nat
       /\ stage' # "error" => stage # "error" /\ Seen' = Seen
       /\ stage' \in {"segments", "tlv"} => k' > 0
  BY <1>12 DEF Stays
<1>14. stage' # "error" => Made(Seen, tlv.start, tlv.size)'
  <2>1. Sections' = Sections
    BY <1>2, <1>13
  <2> QED BY <1>13, <2>1 DEF TlvInv, Made, NoneLower, Ending
<1> QED BY <1>13, <1>14 DEF TlvInv

\* The template of thread-local storage begins at the lowest of its sections, in
\* whatever order the file has them, and reaches to the end of each that no lower
\* one follows and whose end fits u64 (macho.rs:209-229).
THEOREM TemplateHoldsSections == Spec => []TlvTemplate
<1>1. TlvInv /\ [Next]_vars => TlvInv'
  BY TlvSectionStep, OthersKeepTlv
<1>2. TlvInv => TlvTemplate
  <2> SUFFICES ASSUME TlvInv, stage \in {"commands", "rebase", "done"}, NEW n \in Used
               PROVE  /\ tlv.start <= Sections[n].addr
                      /\ \E m \in Used : tlv.start = Sections[m].addr
                      /\ /\ ~ Overflows(Sections[n])
                         /\ \A m \in Used : n <= m => Sections[n].addr <= Sections[m].addr
                         => Sections[n].addr + Sections[n].size <= tlv.start + tlv.size
    BY DEF TlvTemplate, Used
  <2>1. Seen = Used
    BY DEF Seen
  <2> QED BY <2>1 DEF TlvInv, Made, NoneLower, Ending, Overflows
<1> QED BY <1>1, <1>2, InitTlv, PTL DEF Spec

-----------------------------------------------------------------------------
(* The rebase table. *)

\* The segments that are kept are those of the file, in order.
InOrder ==
    /\ stage = "segments" => k <= Len(file.segments) + 1 /\ Len(segments) = k - 1
    /\ stage \notin {"segments", "error"} => Len(segments) = Len(file.segments)
    /\ \A j \in DOMAIN segments : segments[j].vmaddr = file.segments[j].vmaddr

KeptInv == LayoutInv /\ InOrder

\* Before the first segment none is kept.
LEMMA InitKept == Init => KeptInv
<1> SUFFICES ASSUME Init PROVE KeptInv
  OBVIOUS
<1>1. LayoutInv
  BY InitLayout
<1>2. Len(file.segments) \in Nat
  BY <1>1, FileSegments DEF LayoutInv
<1> QED BY <1>1, <1>2 DEF Init, KeptInv, InOrder

\* A segment is copied behind the others, and keeps its address (macho.rs:124-157).
LEMMA KeptStep == KeptInv /\ [Next]_vars => KeptInv'
<1> SUFFICES ASSUME KeptInv, [Next]_vars PROVE KeptInv'
  OBVIOUS
<1>1. LayoutInv /\ InOrder /\ LayoutInv'
  BY SegmentStep, OthersKeepLayout DEF KeptInv
<1>2. /\ file \in Files /\ k \in Nat /\ Len(file.segments) \in Nat /\ Len(segments) \in Nat
      /\ DOMAIN segments = 1 .. Len(segments)
  BY <1>1, FileSegments DEF LayoutInv
<1>3. CASE Segment
  <2> DEFINE seg == file.segments[k]
  <2>1. /\ stage = "segments" /\ stage' = "segments" /\ file' = file /\ k' = k + 1
        /\ k <= Len(file.segments) /\ k > 0
        /\ segments' = Append(segments, Copy(seg))
    BY <1>1, <1>3 DEF Segment, Copy, given, LayoutInv
  <2>2. seg \in SegmentType
    BY <1>2, <2>1, FileSegments
  <2>3. Copy(seg).vmaddr = seg.vmaddr
    BY <2>2 DEF Copy, SegmentType
  <2>4. segments \in Seq(KeptSegment) /\ Len(segments) = k - 1
    BY <1>1, <2>1 DEF LayoutInv, InOrder
  <2>5. PICK c : c = Copy(seg)
    OBVIOUS
  <2>6. /\ Len(segments') = k /\ DOMAIN segments' = 1 .. k
        /\ \A j \in 1 .. k : segments'[j] = IF j = k THEN c ELSE segments[j]
    BY <1>2, <2>1, <2>4, <2>5
  <2>7. \A j \in DOMAIN segments' : segments'[j].vmaddr = file.segments[j].vmaddr
    BY <1>1, <1>2, <2>3, <2>4, <2>5, <2>6 DEF InOrder
  <2> HIDE DEF seg
  <2> QED BY <1>1, <1>2, <2>1, <2>6, <2>7 DEF KeptInv, InOrder
<1>4. CASE ~ Segment
  <2>1. \/ UNCHANGED <<file, segments, stage, k>>
        \/ /\ UNCHANGED <<file, segments>> /\ stage' # "segments" /\ stage # "error"
           /\ stage = "segments" => k > Len(file.segments) \/ stage' = "error"
    <3>1. CASE UNCHANGED vars
      BY <3>1 DEF vars
    <3>2. CASE SegmentsDone
      BY <3>2 DEF SegmentsDone, given, layout
    <3>3. CASE TlvSection \/ TlvDone
      BY <3>3 DEF TlvSection, TlvDone, given, layout
    <3>4. CASE SkipCommand \/ StartRebase \/ EndRebase \/ Parsed
      BY <3>4 DEF SkipCommand, StartRebase, EndRebase, Parsed, given, layout
    <3>5. CASE OpDone \/ SetType \/ SetSegment \/ AddAddr \/ DoRebase
      BY <3>5 DEF OpDone, SetType, SetSegment, AddAddr, DoRebase, Executing, Executed,
                  given, layout
    <3>6. CASE SegmentFails \/ DoRebaseFails \/ UnknownOpcode
      BY <3>6 DEF SegmentFails, DoRebaseFails, UnknownOpcode, Fail, given, layout
    <3>7. CASE Finished
      BY <3>7 DEF Finished, vars
    <3> QED BY <1>4, <3>1, <3>2, <3>3, <3>4, <3>5, <3>6, <3>7 DEF Next
  <2>2. /\ file' = file /\ segments' = segments
        /\ \/ stage' = stage /\ k' = k
           \/ /\ stage' # "segments" /\ stage # "error"
              /\ stage = "segments" => k > Len(file.segments) \/ stage' = "error"
    BY <2>1
  <2>3. stage' \notin {"segments", "error"} => Len(segments) = Len(file.segments)
    BY <1>1, <1>2, <2>2 DEF InOrder
  <2> QED BY <1>1, <2>2, <2>3 DEF KeptInv, InOrder
<1> QED BY <1>3, <1>4

\* The interpreter has the first m of the pointers that the linker meant.
Collected(m) == Len(rebase) = m /\ \A i \in 1 .. m : rebase[i] = file.pointers[i]

Registers(r) == kind = r.kind /\ segment = r.segment /\ offset = r.offset

\* It is at piece n: before it, when the type is set, when the place is, and when
\* the pointers are made but it has not advanced.
AtPiece(n) == /\ k = From(file, n) /\ Registers(Before(file, n))
              /\ Collected(First(file, n))

Typed(n) == LET p == file.pieces[n]
            IN  /\ k = p.move /\ kind = p.kind
                /\ segment = Before(file, n).segment /\ offset = Before(file, n).offset
                /\ Collected(p.first)

Moved(n) == LET p == file.pieces[n]
            IN  /\ k = p.repeat
                /\ kind = p.kind /\ segment = p.segment /\ offset = p.start
                /\ Collected(p.first)

Repeated(n) == LET p == file.pieces[n]
               IN  /\ k = p.repeat + 1 /\ k < From(file, n + 1)
                   /\ kind = p.kind /\ segment = p.segment /\ offset = Behind(p)
                   /\ Collected(p.first + p.count)

\* Or it is behind the pieces.
Padded == k >= file.padding /\ Collected(Len(file.pointers))

Interpreting == \/ Padded
                \/ \E n \in DOMAIN file.pieces :
                      AtPiece(n) \/ Typed(n) \/ Moved(n) \/ Repeated(n)

PointerType == [kind: STRING, vmaddr: Words]

IsTable(c) == c \in 1 .. Len(file.commands) /\ file.commands[c].kind = "dyld_info"

TableInv ==
    file.linked =>
        /\ rebase \in Seq(PointerType) /\ command \in Nat \ {0}
        /\ stage \in {"segments", "tlv", "commands", "rebase", "done"}
        /\ stage \in {"segments", "tlv"} => command = 1 /\ rebase = << >>
        /\ stage = "commands" =>
              \A c \in 1 .. Len(file.commands) :
                 IsTable(c) => rebase = IF command <= c THEN << >> ELSE file.pointers
        /\ stage = "rebase" => IsTable(command) /\ Interpreting
        /\ stage = "done" => rebase = file.pointers

\* What the linker's contract says of the one table.
LEMMA TheTable ==
    ASSUME file \in Files, file.linked
    PROVE  /\ file.pointers \in Seq(PointerType)
           /\ Len(file.commands) \in Nat
           /\ \E c \in 1 .. Len(file.commands) :
                 /\ IsTable(c) /\ \A d : IsTable(d) => d = c
                 /\ LinkersTable(file, file.commands[c].program)
                 /\ Len(file.commands[c].program) \in Nat
<1>1. WrittenByLinker(file)
  BY FileAssumed DEF FileAssumption
<1>2. PICK c \in 1 .. Len(file.commands) :
          /\ Len(file.commands[c].program) \in Nat
          /\ \A d \in 1 .. Len(file.commands) : file.commands[d].kind = "dyld_info" <=> d = c
          /\ LinkersTable(file, file.commands[c].program)
  BY <1>1 DEF WrittenByLinker
<1>3. Len(file.commands) \in Nat
  BY <1>1 DEF WrittenByLinker
<1>4. file.pointers \in Seq(PointerType)
  BY <1>2 DEF LinkersTable, PointerType
<1>5. IsTable(c) /\ \A d : IsTable(d) => d = c
  BY <1>2 DEF IsTable
<1> QED BY <1>2, <1>3, <1>4, <1>5

\* While the interpreter runs, that is its program.
LEMMA TheProgram ==
    ASSUME file \in Files, file.linked, IsTable(command)
    PROVE  LinkersTable(file, Program) /\ Len(Program) \in Nat
BY TheTable DEF Program

\* What the contract says of a piece.
LEMMA PieceGiven ==
    ASSUME NEW program, LinkersTable(file, program), Len(program) \in Nat,
           NEW n \in DOMAIN file.pieces, NEW p, p = file.pieces[n]
    PROVE  /\ p \in Pieces
           /\ Encodes(program, p, Before(file, n), From(file, n + 1))
           /\ Covers(file, p)
           /\ From(file, n) = p.from /\ First(file, n) = p.first
           /\ First(file, n + 1) = p.first + p.count
           /\ Before(file, n + 1) = AfterPiece(p)
           /\ n \in Nat \ {0} /\ n <= Len(file.pieces) /\ Len(file.pieces) \in Nat
           /\ From(file, n + 1) \in Nat
<1>1. file.pieces \in Seq(Pieces)
  BY DEF LinkersTable
<1>2. p \in Pieces /\ n \in 1 .. Len(file.pieces) /\ Len(file.pieces) \in Nat
  BY <1>1
<1>3. /\ Encodes(program, p, Before(file, n), From(file, n + 1)) /\ Covers(file, p)
      /\ First(file, n + 1) = p.first + p.count
  BY DEF LinkersTable
<1>4. From(file, n) = p.from /\ First(file, n) = p.first
  BY <1>2 DEF From, First
<1>5. Before(file, n + 1) = AfterPiece(p)
  BY <1>2 DEF Before
<1>6. From(file, n + 1) \in Nat
  <2>1. file.padding \in Nat
    BY DEF LinkersTable
  <2>2. n + 1 <= Len(file.pieces) => file.pieces[n + 1] \in Pieces
    BY <1>1, <1>2
  <2> QED BY <2>1, <2>2 DEF From, Pieces
<1> QED BY <1>2, <1>3, <1>4, <1>5, <1>6

\* The end of a piece is the beginning of the next, or of the padding.
LEMMA NextPiece ==
    ASSUME file' = file, NEW n \in 1 .. Len(file.pieces) + 1, Len(file.pieces) \in Nat,
           file.pieces \in Seq(Pieces),
           k' = From(file, n),
           kind' = Before(file, n).kind, segment' = Before(file, n).segment,
           offset' = Before(file, n).offset,
           NEW m, m = First(file, n), Len(rebase') = m,
           \A i \in 1 .. m : rebase'[i] = file.pointers[i],
           file.padding \in Nat
    PROVE  Interpreting'
<1>1. CASE n <= Len(file.pieces)
  <2>1. n \in DOMAIN file.pieces
    BY <1>1
  <2>2. AtPiece(n)'
    BY DEF AtPiece, Registers, Collected, From, First, Before, AfterPiece, Behind
  <2> QED BY <2>1, <2>2 DEF Interpreting
<1>2. CASE n > Len(file.pieces)
  <2>1. k' = file.padding /\ m = Len(file.pointers)
    BY <1>2 DEF From, First
  <2>2. Padded'
    BY <2>1 DEF Padded, Collected
  <2> QED BY <2>2 DEF Interpreting
<1> QED BY <1>1, <1>2

\* The handler that runs is that of the opcode (macho.rs:243-308).
LEMMA Dispatch ==
    ASSUME Next, stage = "rebase", k \in Nat, Len(Program) \in Nat
    PROVE  /\ k > Len(Program) => EndRebase
           /\ k <= Len(Program) =>
                 /\ Opcode.op = "done" => OpDone
                 /\ Opcode.op = "set_type" => SetType
                 /\ Opcode.op = "set_segment" => SetSegment
                 /\ Opcode.op \in Adding => AddAddr
                 /\ Opcode.op \in Repeating => DoRebase \/ DoRebaseFails
<1>1. ~ (Segment \/ SegmentFails \/ SegmentsDone \/ TlvSection \/ TlvDone)
  BY DEF Segment, SegmentFails, SegmentsDone, TlvSection, TlvDone
<1>2. ~ (SkipCommand \/ StartRebase \/ Parsed \/ Finished)
  BY DEF SkipCommand, StartRebase, Parsed, Finished
<1>3. \/ EndRebase \/ OpDone \/ SetType \/ SetSegment \/ AddAddr
      \/ DoRebase \/ DoRebaseFails \/ UnknownOpcode
  BY <1>1, <1>2 DEF Next
<1>4. CASE k > Len(Program)
  <2>1. ~ (OpDone \/ SetType \/ SetSegment \/ AddAddr)
    BY <1>4 DEF OpDone, SetType, SetSegment, AddAddr, Executing
  <2>2. ~ (DoRebase \/ DoRebaseFails \/ UnknownOpcode)
    BY <1>4 DEF DoRebase, DoRebaseFails, UnknownOpcode, Executing
  <2> QED BY <1>3, <1>4, <2>1, <2>2
<1>5. CASE k <= Len(Program)
  <2>1. ~ EndRebase
    BY <1>5 DEF EndRebase
  <2>2. /\ OpDone => Opcode.op = "done"
        /\ SetType => Opcode.op = "set_type"
        /\ SetSegment => Opcode.op = "set_segment"
        /\ AddAddr => Opcode.op \in Adding
    BY DEF OpDone, SetType, SetSegment, AddAddr, Executing, Adding
  <2>3. /\ DoRebase => Opcode.op \in Repeating
        /\ DoRebaseFails => Opcode.op \in Repeating
        /\ UnknownOpcode => Opcode.op = "unknown"
    BY DEF DoRebase, DoRebaseFails, UnknownOpcode, Executing
  <2>4. PICK o : o = Opcode.op
    OBVIOUS
  <2> QED BY <1>3, <1>5, <2>1, <2>2, <2>3, <2>4 DEF Adding, Repeating
<1> QED BY <1>4, <1>5

\* What an opcode of a piece is, by its place in it.
LEMMA OpcodesOfPiece ==
    ASSUME NEW p \in Pieces, NEW a, NEW to,
           Len(Program) \in Nat, Encodes(Program, p, a, to)
    PROVE  /\ p.from \in Nat /\ p.move \in Nat /\ p.repeat \in Nat /\ to \in Nat
           /\ p.from <= p.move /\ p.move <= p.repeat /\ p.repeat < to /\ to <= Len(Program) + 1
           /\ p.move = p.from => p.kind = a.kind
           /\ k = p.from /\ p.move # p.from =>
                 p.move = k + 1 /\ Opcode.op = "set_type" /\ Opcode.imm = p.kind
           /\ p.repeat = p.move => p.segment = a.segment /\ p.start = a.offset
           /\ k = p.move /\ p.repeat # p.move =>
                 /\ p.repeat = k + 1
                 /\ \/ /\ Opcode.op = "set_segment"
                       /\ Opcode.imm = p.segment /\ Opcode.uleb = p.start
                    \/ /\ Opcode.op \in Adding
                       /\ p.segment = a.segment /\ p.start = a.offset + Opcode.uleb
           /\ k = p.repeat => Repeats(Opcode, p)
           /\ to = p.repeat + 1 => p.advance = 0
           /\ k = p.repeat + 1 /\ k < to =>
                 to = k + 1 /\ Opcode.op \in Adding /\ Opcode.uleb = p.advance
<1>1. p.from \in Nat /\ p.move \in Nat /\ p.repeat \in Nat /\ p.from <= p.move /\ p.move <= p.repeat
      /\ to \in Nat /\ p.repeat < to /\ to <= Len(Program) + 1
  <2>1. p.from \in Nat /\ p.move \in Nat /\ p.repeat \in Nat
    BY DEF Pieces
  <2>2. /\ p.move = p.from \/ p.move = p.from + 1
        /\ p.repeat = p.move \/ p.repeat = p.move + 1
        /\ to = p.repeat + 1 \/ to = p.repeat + 2
        /\ to <= Len(Program) + 1
    BY Zenon DEF Encodes
  <2> QED BY <2>1, <2>2
<1>2. k = p.from /\ p.move # p.from =>
         p.move = k + 1 /\ Opcode.op = "set_type" /\ Opcode.imm = p.kind
  BY <1>1 DEF Encodes, Opcode
<1>3. k = p.move /\ p.repeat # p.move =>
         /\ p.repeat = k + 1
         /\ \/ /\ Opcode.op = "set_segment"
               /\ Opcode.imm = p.segment /\ Opcode.uleb = p.start
            \/ /\ Opcode.op \in Adding
               /\ p.segment = a.segment /\ p.start = a.offset + Opcode.uleb
  <2> SUFFICES ASSUME k = p.move, p.repeat # p.move
               PROVE  /\ p.repeat = k + 1
                      /\ \/ /\ Opcode.op = "set_segment"
                            /\ Opcode.imm = p.segment /\ Opcode.uleb = p.start
                         \/ /\ Opcode.op \in Adding
                            /\ p.segment = a.segment /\ p.start = a.offset + Opcode.uleb
    OBVIOUS
  <2>1. p.repeat = k + 1
    BY DEF Encodes
  <2>2. k \in p.move .. p.repeat - 1
    BY <1>1, <2>1
  <2>3. \A n \in p.move .. p.repeat - 1 :
           \/ /\ Program[n].op = "set_segment"
              /\ Program[n].imm = p.segment /\ Program[n].uleb = p.start
           \/ /\ Program[n].op \in Adding
              /\ p.segment = a.segment /\ p.start = a.offset + Program[n].uleb
    BY Zenon DEF Encodes
  <2> QED BY Zenon, <2>1, <2>2, <2>3 DEF Opcode
<1>4. k = p.repeat + 1 /\ k < to =>
         to = k + 1 /\ Opcode.op \in Adding /\ Opcode.uleb = p.advance
  BY <1>1 DEF Encodes, Opcode
<1> QED BY <1>1, <1>2, <1>3, <1>4 DEF Encodes, Opcode

\* An index of the table is before the padding as long as it is in a piece.
LEMMA PieceReduces ==
    ASSUME NEW n \in DOMAIN file.pieces, NEW p, p = file.pieces[n],
           From(file, n) = p.from, First(file, n) = p.first,
           p.move = p.from => p.kind = Before(file, n).kind,
           p.repeat = p.move =>
              p.segment = Before(file, n).segment /\ p.start = Before(file, n).offset
    PROVE  /\ AtPiece(n) /\ p.move = p.from => Typed(n)
           /\ Typed(n) /\ p.repeat = p.move => Moved(n)
BY DEF AtPiece, Registers, Typed, Moved

\* The place of a piece, and the one behind it, are inside the address space.
LEMMA PieceFits ==
    ASSUME NEW p \in Pieces, Covers(file, p)
    PROVE  /\ p.start \in Words /\ p.count * p.stride \in Nat
           /\ Behind(p) \in Words /\ Behind(p) + p.advance \in Words
<1>1. p.start \in Nat /\ p.count \in Nat /\ p.stride \in Nat /\ p.advance \in Nat
  BY DEF Pieces
<1>2. PICK x : x = p.count * p.stride
  OBVIOUS
<1>3. x \in Nat
  BY <1>1, <1>2
<1>4. p.start + x + p.advance \in Words
  BY <1>2 DEF Covers, AfterPiece, Behind
<1>5. Behind(p) = p.start + x
  BY <1>2 DEF Behind
<1>6. WordMod \in Nat
  BY FileAssumed DEF FileAssumption
<1> QED BY <1>1, <1>2, <1>3, <1>4, <1>5, <1>6 DEF Words

\* An opcode that repeats the pointers of a piece has its count and its stride.
LEMMA CountAndStride ==
    ASSUME NEW p \in Pieces, Repeats(Opcode, p)
    PROVE  Opcode.op \in Repeating /\ Count = p.count /\ Stride = p.stride
<1>1. PICK o : o = Opcode
  OBVIOUS
<1>2. p.count \in Nat /\ p.stride \in Nat \ {0}
  BY DEF Pieces
<1>3. \/ o.op = "do_skipping" /\ o.count = p.count /\ o.skip = p.stride - 1
      \/ o.op \in {"do_imm", "do_uleb"} /\ o.count = p.count /\ p.stride = 1
      \/ o.op = "do_add_addr" /\ p.count = 1 /\ o.skip = p.stride - 1
  BY <1>1 DEF Repeats
<1>4. Count = IF o.op = "do_add_addr" THEN 1 ELSE o.count
  BY <1>1 DEF Count
<1>5. Stride = IF o.op \in {"do_add_addr", "do_skipping"} THEN 1 + o.skip ELSE 1
  BY <1>1 DEF Stride
<1> QED BY <1>1, <1>2, <1>3, <1>4, <1>5 DEF Repeating

\* The repetition of a piece fails in no build (macho.rs:282-308), and collects
\* what the linker meant.
LEMMA RepeatStep ==
    ASSUME KeptInv, stage = "rebase", rebase \in Seq(PointerType),
           file.pointers \in Seq(PointerType),
           NEW n \in DOMAIN file.pieces, NEW p \in Pieces, p = file.pieces[n],
           Covers(file, p), Repeats(Opcode, p), Moved(n),
           DoRebase \/ DoRebaseFails
    PROVE  /\ file' = file /\ command' = command /\ stage' = "rebase" /\ k' = k + 1
           /\ kind' = p.kind /\ segment' = p.segment /\ offset' = Behind(p)
           /\ rebase' \in Seq(PointerType)
           /\ Len(rebase') = p.first + p.count
           /\ \A i \in 1 .. p.first + p.count : rebase'[i] = file.pointers[i]
<1>1. /\ p.first \in Nat /\ p.count \in Nat /\ p.stride \in Nat /\ p.segment \in Nat
      /\ p.start \in Nat /\ WordMod \in Nat \ {0}
  BY FileAssumed DEF Pieces, FileAssumption
<1>2. Count = p.count /\ Stride = p.stride
  BY CountAndStride
<1>3. /\ kind = p.kind /\ segment = p.segment /\ offset = p.start
      /\ Len(rebase) = p.first /\ \A i \in 1 .. p.first : rebase[i] = file.pointers[i]
  BY DEF Moved, Collected
<1>4. Behind(p) \in Words /\ Behind(p) = p.start + p.count * p.stride
  BY PieceFits DEF Behind
<1>5. segment + 1 \in DOMAIN segments
      /\ segments[segment + 1].vmaddr = file.segments[p.segment + 1].vmaddr
  <2>1. DOMAIN segments = DOMAIN file.segments
    <3>1. segments \in Seq(KeptSegment) /\ Len(segments) = Len(file.segments)
      BY DEF KeptInv, LayoutInv, InOrder
    <3>2. file.segments \in Seq(SegmentType)
      BY FileSegments DEF KeptInv, LayoutInv
    <3> QED BY <3>1, <3>2
  <2> QED BY <1>3, <2>1 DEF Covers, KeptInv, InOrder
<1>6. ~ CannotRepeat
  <2>1. ~ (offset + Count * Stride >= WordMod)
    <3>1. offset + Count * Stride = Behind(p)
      BY <1>2, <1>3, <1>4
    <3> QED BY <1>1, <1>4, <3>1 DEF Words
  <2> QED BY <1>5, <2>1 DEF CannotRepeat
<1>7. DoRebase
  BY <1>6 DEF DoRebaseFails
<1> DEFINE made == [i \in 1 .. p.count |->
                      [kind |-> kind,
                       vmaddr |-> Wrap(segments[segment + 1].vmaddr + offset
                                          + (i - 1) * Stride)]]
<1>8. /\ file' = file /\ command' = command /\ stage' = stage /\ k' = k + 1
      /\ kind' = kind /\ segment' = segment /\ offset' = Wrap(offset + Count * Stride)
      /\ rebase' = rebase \o made
  BY <1>2, <1>7 DEF DoRebase, Executed, given
<1>9. offset' = Behind(p)
  BY <1>2, <1>3, <1>4, <1>8, WordsStay
<1>10. \A i \in 1 .. p.count : made[i] = file.pointers[p.first + i]
                               /\ made[i] \in PointerType
  <2> SUFFICES ASSUME NEW i \in 1 .. p.count
               PROVE  made[i] = file.pointers[p.first + i] /\ made[i] \in PointerType
    OBVIOUS
  <2>1. PICK x : x = (i - 1) * p.stride
    OBVIOUS
  <2>2. x \in Nat
    BY <1>1, <2>1
  <2>3. PICK v : v = file.segments[p.segment + 1].vmaddr
    OBVIOUS
  <2>4. v \in Nat
    <3>1. file.segments \in Seq(SegmentType) /\ p.segment + 1 \in DOMAIN file.segments
      BY FileSegments DEF KeptInv, LayoutInv, Covers
    <3>2. file.segments[p.segment + 1] \in SegmentType
      BY <3>1
    <3>3. v \in Words
      BY <2>3, <3>2 DEF SegmentType
    <3> QED BY <1>1, <3>3 DEF Words
  <2>5. file.pointers[p.first + i] = [kind |-> p.kind, vmaddr |-> v + (p.start + x)]
    BY <2>1, <2>3 DEF Covers
  <2>6. file.pointers[p.first + i] \in PointerType
    <3>1. p.first + i \in 1 .. Len(file.pointers)
      <4>1. p.first + p.count <= Len(file.pointers) /\ Len(file.pointers) \in Nat
        BY DEF Covers
      <4> QED BY <1>1, <4>1
    <3> QED BY <3>1
  <2>7. v + (p.start + x) \in Words
    BY <2>5, <2>6 DEF PointerType
  <2>8. v + p.start + x = v + (p.start + x)
    BY <1>1, <2>2, <2>4
  <2>9. made[i] = [kind |-> p.kind, vmaddr |-> Wrap(v + p.start + x)]
    BY <1>2, <1>3, <1>5, <2>1, <2>3
  <2> QED BY <2>5, <2>6, <2>7, <2>8, <2>9, WordsStay
<1>11. made \in Seq(PointerType) /\ Len(made) = p.count
  <2>1. made \in [1 .. p.count -> PointerType]
    BY <1>10
  <2> HIDE DEF made
  <2> QED BY <1>1, <2>1, FunctionSeq
<1> HIDE DEF made
<1>12. /\ rebase' \in Seq(PointerType) /\ Len(rebase') = p.first + p.count
       /\ \A i \in 1 .. p.first + p.count :
             rebase'[i] = IF i <= p.first THEN rebase[i] ELSE made[i - p.first]
  <2>1. Len(rebase) = p.first /\ Len(made) = p.count /\ rebase' = rebase \o made
    BY <1>3, <1>8, <1>11
  <2>2. /\ rebase \o made \in Seq(PointerType)
        /\ Len(rebase \o made) = Len(rebase) + Len(made)
        /\ \A i \in 1 .. Len(rebase) + Len(made) :
              (rebase \o made)[i] = IF i <= Len(rebase) THEN rebase[i] ELSE made[i - Len(rebase)]
    BY Zenon, <1>11, Concatenated
  <2> QED BY Zenon, <2>1, <2>2
<1>13. \A i \in 1 .. p.first + p.count : rebase'[i] = file.pointers[i]
  <2> SUFFICES ASSUME NEW i \in 1 .. p.first + p.count
               PROVE  rebase'[i] = file.pointers[i]
    OBVIOUS
  <2>1. CASE i <= p.first
    BY <1>1, <1>3, <1>12, <2>1
  <2>2. CASE i > p.first
    <3>1. i - p.first \in 1 .. p.count /\ p.first + (i - p.first) = i
      BY <1>1, <2>2
    <3>2. rebase'[i] = made[i - p.first]
      BY <1>1, <1>12, <2>2
    <3>3. made[i - p.first] = file.pointers[p.first + (i - p.first)]
      BY <1>10, <3>1
    <3> QED BY <3>1, <3>2, <3>3
  <2> QED BY <1>1, <2>1, <2>2
<1> QED BY <1>3, <1>8, <1>9, <1>12, <1>13

\* The type of a piece is set before its place (macho.rs:246-254).
LEMMA TypeStep ==
    ASSUME SetType, NEW n \in DOMAIN file.pieces, NEW p, p = file.pieces[n],
           From(file, n) = p.from, First(file, n) = p.first,
           AtPiece(n), p.move = k + 1, Opcode.imm = p.kind
    PROVE  Typed(n)'
<1>1. /\ file' = file /\ k' = k + 1 /\ kind' = Opcode.imm
      /\ segment' = segment /\ offset' = offset /\ rebase' = rebase
  BY DEF SetType, Executed, given
<1>2. /\ segment = Before(file, n).segment /\ offset = Before(file, n).offset
      /\ Collected(p.first)
  BY DEF AtPiece, Registers
<1>3. Before(file', n) = Before(file, n) /\ p = file'.pieces[n]
  BY <1>1
<1> QED BY <1>1, <1>2, <1>3 DEF Typed, Collected, Before, AfterPiece, Behind

\* The place of a piece is set, or the last one is moved (macho.rs:255-281).
LEMMA PlaceStep ==
    ASSUME SetSegment \/ AddAddr, NEW n \in DOMAIN file.pieces,
           NEW p, p = file.pieces[n], p.start \in Words,
           Typed(n), p.repeat = k + 1,
           SetSegment => Opcode.imm = p.segment /\ Opcode.uleb = p.start,
           AddAddr => /\ p.segment = Before(file, n).segment
                      /\ p.start = Before(file, n).offset + Opcode.uleb
    PROVE  Moved(n)'
<1>1. /\ kind = p.kind /\ Collected(p.first)
      /\ segment = Before(file, n).segment /\ offset = Before(file, n).offset
  BY DEF Typed
<1>2. CASE SetSegment
  <2>1. /\ file' = file /\ k' = k + 1 /\ kind' = kind /\ rebase' = rebase
        /\ segment' = p.segment /\ offset' = p.start
    BY <1>2 DEF SetSegment, Executed, given
  <2> QED BY <1>1, <2>1 DEF Moved, Collected
<1>3. CASE AddAddr
  <2>1. /\ file' = file /\ k' = k + 1 /\ kind' = kind /\ rebase' = rebase
        /\ segment' = p.segment /\ offset' = Wrap(p.start)
    BY <1>1, <1>3 DEF AddAddr, Executed, given
  <2>2. offset' = p.start
    BY <2>1, WordsStay
  <2> QED BY <1>1, <2>1, <2>2 DEF Moved, Collected
<1> QED BY <1>2, <1>3

\* An opcode of the interpreter brings it further in the table, or to its end
\* with all the pointers that the linker meant (macho.rs:231-311).
LEMMA InterpreterStep ==
    ASSUME KeptInv, file.linked, IsTable(command), stage = "rebase", Interpreting,
           rebase \in Seq(PointerType), Next
    PROVE  \/ /\ file' = file /\ command' = command /\ stage' = "rebase"
              /\ rebase' \in Seq(PointerType) /\ Interpreting'
           \/ EndRebase /\ rebase = file.pointers
<1>1. /\ file \in Files /\ k \in Nat
      /\ LinkersTable(file, Program) /\ Len(Program) \in Nat
      /\ file.pointers \in Seq(PointerType)
  BY TheProgram, TheTable DEF KeptInv, LayoutInv
<1>2. /\ file.pieces \in Seq(Pieces) /\ file.padding \in Nat
      /\ \A n \in file.padding .. Len(Program) : Program[n].op = "done"
  BY <1>1 DEF LinkersTable
<1>3. CASE Padded
  <2>1. k >= file.padding /\ Len(rebase) = Len(file.pointers)
        /\ \A i \in 1 .. Len(file.pointers) : rebase[i] = file.pointers[i]
    BY <1>3 DEF Padded, Collected
  <2>2. CASE k > Len(Program)
    <3>1. rebase = file.pointers
      BY <1>1, <2>1
    <3> QED BY <1>1, <2>2, <3>1, Dispatch
  <2>3. CASE k <= Len(Program)
    <3>1. Opcode.op = "done"
      BY <1>1, <1>2, <2>1, <2>3 DEF Opcode
    <3>2. OpDone
      BY <1>1, <2>3, <3>1, Dispatch
    <3>3. /\ file' = file /\ command' = command /\ stage' = stage /\ k' = k + 1
          /\ rebase' = rebase
      BY <3>2 DEF OpDone, Executed, given
    <3>4. Padded'
      BY <1>1, <1>2, <2>1, <3>3 DEF Padded, Collected
    <3> QED BY <3>3, <3>4 DEF Interpreting
  <2> QED BY <1>1, <2>2, <2>3
<1>4. ASSUME NEW n \in DOMAIN file.pieces,
             AtPiece(n) \/ Typed(n) \/ Moved(n) \/ Repeated(n)
      PROVE  /\ file' = file /\ command' = command /\ stage' = "rebase"
             /\ rebase' \in Seq(PointerType) /\ Interpreting'
  <2>1. PICK p : p = file.pieces[n]
    OBVIOUS
  <2>2. PICK a, to : a = Before(file, n) /\ to = From(file, n + 1)
    OBVIOUS
  <2>3. /\ p \in Pieces /\ Encodes(Program, p, a, to) /\ Covers(file, p)
        /\ From(file, n) = p.from /\ First(file, n) = p.first
        /\ First(file, n + 1) = p.first + p.count /\ Before(file, n + 1) = AfterPiece(p)
        /\ n + 1 \in 1 .. Len(file.pieces) + 1 /\ Len(file.pieces) \in Nat
    <3>1. /\ p \in Pieces /\ Encodes(Program, p, a, to) /\ Covers(file, p)
          /\ From(file, n) = p.from /\ First(file, n) = p.first
          /\ First(file, n + 1) = p.first + p.count /\ Before(file, n + 1) = AfterPiece(p)
          /\ n \in Nat \ {0} /\ n <= Len(file.pieces) /\ Len(file.pieces) \in Nat
      BY <1>1, <2>1, <2>2, PieceGiven
    <3> QED BY <3>1
  <2>4. /\ p.from \in Nat /\ p.move \in Nat /\ p.repeat \in Nat /\ to \in Nat
        /\ p.from <= p.move /\ p.move <= p.repeat /\ p.repeat < to /\ to <= Len(Program) + 1
        /\ p.move = p.from => p.kind = a.kind
        /\ k = p.from /\ p.move # p.from =>
              p.move = k + 1 /\ Opcode.op = "set_type" /\ Opcode.imm = p.kind
        /\ p.repeat = p.move => p.segment = a.segment /\ p.start = a.offset
        /\ k = p.move /\ p.repeat # p.move =>
              /\ p.repeat = k + 1
              /\ \/ /\ Opcode.op = "set_segment"
                    /\ Opcode.imm = p.segment /\ Opcode.uleb = p.start
                 \/ /\ Opcode.op \in Adding
                    /\ p.segment = a.segment /\ p.start = a.offset + Opcode.uleb
        /\ k = p.repeat => Repeats(Opcode, p)
        /\ to = p.repeat + 1 => p.advance = 0
        /\ k = p.repeat + 1 /\ k < to =>
              to = k + 1 /\ Opcode.op \in Adding /\ Opcode.uleb = p.advance
    BY Zenon, <1>1, <2>3, OpcodesOfPiece
  <2>5. /\ AtPiece(n) /\ p.move = p.from => Typed(n)
        /\ Typed(n) /\ p.repeat = p.move => Moved(n)
    BY <2>1, <2>2, <2>3, <2>4, PieceReduces
  <2>6. /\ p.start \in Words /\ p.count * p.stride \in Nat
        /\ Behind(p) \in Words /\ Behind(p) + p.advance \in Words
    BY <2>3, PieceFits
  <2>7. CASE AtPiece(n) /\ p.move # p.from
    <3>1. k = p.from
      BY <2>3, <2>7 DEF AtPiece
    <3>2. SetType
      BY <1>1, <2>4, <2>7, <3>1, Dispatch
    <3>3. Typed(n)'
      BY <2>1, <2>3, <2>4, <2>7, <3>1, <3>2, TypeStep
    <3>4. /\ file' = file /\ command' = command /\ stage' = "rebase" /\ rebase' = rebase
      BY <3>2 DEF SetType, Executed, given
    <3> QED BY <3>3, <3>4 DEF Interpreting
  <2>8. CASE Typed(n) /\ p.repeat # p.move
    <3>1. k = p.move
      BY <2>1, <2>8 DEF Typed
    <3>2. /\ k <= Len(Program) /\ p.repeat = k + 1
          /\ \/ /\ Opcode.op = "set_segment" /\ SetSegment
                /\ Opcode.imm = p.segment /\ Opcode.uleb = p.start
             \/ /\ Opcode.op \in Adding /\ AddAddr
                /\ p.segment = a.segment /\ p.start = a.offset + Opcode.uleb
      BY <1>1, <2>4, <2>8, <3>1, Dispatch
    <3>3. /\ SetSegment => Opcode.op = "set_segment"
          /\ AddAddr => Opcode.op \in Adding
      BY DEF SetSegment, AddAddr, Executing, Adding
    <3>4. "set_segment" \notin Adding
      BY DEF Adding
    <3>5. /\ SetSegment => Opcode.imm = p.segment /\ Opcode.uleb = p.start
          /\ AddAddr => p.segment = a.segment /\ p.start = a.offset + Opcode.uleb
      BY Zenon, <3>2, <3>3, <3>4
    <3>6. Moved(n)'
      BY <2>1, <2>2, <2>6, <2>8, <3>2, <3>5, PlaceStep
    <3>7. /\ file' = file /\ command' = command /\ stage' = "rebase" /\ rebase' = rebase
      BY <3>2 DEF SetSegment, AddAddr, Executed, given
    <3> QED BY <3>6, <3>7 DEF Interpreting
  <2>9. CASE Moved(n)
    <3>1. k = p.repeat
      BY <2>1, <2>9 DEF Moved
    <3>2. Repeats(Opcode, p) /\ k <= Len(Program)
      BY <1>1, <2>4, <3>1
    <3>3. DoRebase \/ DoRebaseFails
      BY <1>1, <2>3, <3>2, CountAndStride, Dispatch
    <3>4. /\ file' = file /\ command' = command /\ stage' = "rebase" /\ k' = k + 1
          /\ kind' = p.kind /\ segment' = p.segment /\ offset' = Behind(p)
          /\ rebase' \in Seq(PointerType)
          /\ Len(rebase') = p.first + p.count
          /\ \A i \in 1 .. p.first + p.count : rebase'[i] = file.pointers[i]
      BY <1>1, <2>1, <2>3, <2>9, <3>2, <3>3, RepeatStep
    <3>5. CASE to = k + 1
      <4>1. p.advance = 0
        BY <2>4, <3>1, <3>5
      <4>2. Behind(p) + p.advance = Behind(p)
        BY <2>6, <4>1 DEF Words
      <4>3. /\ kind' = Before(file, n + 1).kind /\ segment' = Before(file, n + 1).segment
            /\ offset' = Before(file, n + 1).offset
        BY <2>3, <3>4, <4>2 DEF AfterPiece
      <4>4. k' = From(file, n + 1)
        BY <2>2, <3>4, <3>5
      <4>5. Interpreting'
        BY <1>2, <2>3, <3>4, <4>3, <4>4, NextPiece
      <4> QED BY <3>4, <4>5
    <3>6. CASE to # k + 1
      <4>1. k' < From(file, n + 1)
        BY <1>1, <2>2, <2>4, <3>1, <3>4, <3>6
      <4>2. p = file'.pieces[n] /\ From(file', n + 1) = From(file, n + 1)
        BY <2>1, <3>4
      <4>3. Repeated(n)'
        BY <3>1, <3>4, <4>1, <4>2 DEF Repeated, Collected, From, Behind
      <4> QED BY <3>4, <4>3 DEF Interpreting
    <3> QED BY <3>5, <3>6
  <2>10. CASE Repeated(n)
    <3>1. /\ k = p.repeat + 1 /\ k < to
          /\ kind = p.kind /\ segment = p.segment /\ offset = Behind(p)
          /\ Collected(p.first + p.count)
      BY <2>1, <2>2, <2>10 DEF Repeated
    <3>2. to = k + 1 /\ Opcode.op \in Adding /\ Opcode.uleb = p.advance /\ k <= Len(Program)
      BY <1>1, <2>4, <3>1
    <3>3. AddAddr
      BY <1>1, <3>2, Dispatch
    <3>4. /\ file' = file /\ command' = command /\ stage' = "rebase" /\ k' = k + 1
          /\ kind' = kind /\ segment' = segment /\ rebase' = rebase
          /\ offset' = Wrap(Behind(p) + p.advance)
      BY <3>1, <3>2, <3>3 DEF AddAddr, Executed, given
    <3>5. offset' = Behind(p) + p.advance
      BY <2>6, <3>4, WordsStay
    <3>6. /\ kind' = Before(file, n + 1).kind /\ segment' = Before(file, n + 1).segment
          /\ offset' = Before(file, n + 1).offset
      BY <2>3, <3>1, <3>4, <3>5 DEF AfterPiece
    <3>7. /\ Len(rebase') = p.first + p.count
          /\ \A i \in 1 .. p.first + p.count : rebase'[i] = file.pointers[i]
      BY <3>1, <3>4 DEF Collected
    <3>8. k' = From(file, n + 1)
      BY <2>2, <3>2, <3>4
    <3>9. Interpreting'
      BY <1>2, <2>3, <3>4, <3>6, <3>7, <3>8, NextPiece
    <3> QED BY <3>4, <3>9
  <2> QED BY <1>4, <2>5, <2>7, <2>8, <2>9, <2>10
<1> QED BY <1>3, <1>4 DEF Interpreting

\* A step of another loop leaves the interpreter where it is.
LEMMA Unmoved ==
    ASSUME Interpreting, file' = file, k' = k, kind' = kind, segment' = segment,
           offset' = offset, rebase' = rebase
    PROVE  Interpreting'
BY DEF Interpreting, Padded, AtPiece, Typed, Moved, Repeated, Registers, Collected,
       From, First, Before, AfterPiece, Behind

\* Nothing is collected before the table is found.
LEMMA InitTable == Init => TableInv
BY DEF Init, TableInv

\* The one table is found, interpreted and left (macho.rs:231-317).
LEMMA TableStep == KeptInv /\ TableInv /\ [Next]_vars => TableInv'
<1> SUFFICES ASSUME KeptInv, TableInv, [Next]_vars, file'.linked PROVE TableInv'
  BY DEF TableInv
<1> DEFINE Goal == /\ rebase' \in Seq(PointerType) /\ command' \in Nat \ {0}
                   /\ stage' \in {"segments", "tlv", "commands", "rebase", "done"}
                   /\ stage' \in {"segments", "tlv"} => command' = 1 /\ rebase' = << >>
                   /\ stage' = "commands" =>
                         \A c \in 1 .. Len(file'.commands) :
                            IsTable(c)' => rebase' = IF command' <= c THEN << >>
                                                     ELSE file'.pointers
                   /\ stage' = "rebase" => IsTable(command)' /\ Interpreting'
                   /\ stage' = "done" => rebase' = file'.pointers
<1> SUFFICES Goal
  BY DEF TableInv
<1>1. file' = file
  <2>1. CASE UNCHANGED vars
    BY <2>1 DEF vars
  <2>2. CASE Segment \/ SegmentsDone \/ TlvSection \/ TlvDone
    BY <2>2 DEF Segment, SegmentsDone, TlvSection, TlvDone, given
  <2>3. CASE SkipCommand \/ StartRebase \/ EndRebase \/ Parsed
    BY <2>3 DEF SkipCommand, StartRebase, EndRebase, Parsed, given
  <2>4. CASE OpDone \/ SetType \/ SetSegment \/ AddAddr \/ DoRebase
    BY <2>4 DEF OpDone, SetType, SetSegment, AddAddr, DoRebase, Executed, given
  <2>5. CASE SegmentFails \/ DoRebaseFails \/ UnknownOpcode
    BY <2>5 DEF SegmentFails, DoRebaseFails, UnknownOpcode, Fail, given
  <2>6. CASE Finished
    BY <2>6 DEF Finished, vars
  <2> QED BY <2>1, <2>2, <2>3, <2>4, <2>5, <2>6 DEF Next
<1>2. /\ file \in Files /\ file.linked
      /\ rebase \in Seq(PointerType) /\ command \in Nat \ {0}
      /\ stage \in {"segments", "tlv", "commands", "rebase", "done"}
      /\ stage \in {"segments", "tlv"} => command = 1 /\ rebase = << >>
      /\ stage = "commands" =>
            \A c \in 1 .. Len(file.commands) :
               IsTable(c) => rebase = IF command <= c THEN << >> ELSE file.pointers
      /\ stage = "rebase" => IsTable(command) /\ Interpreting
      /\ stage = "done" => rebase = file.pointers
  BY <1>1 DEF TableInv, KeptInv, LayoutInv
<1>3. \A c : IsTable(c)' <=> IsTable(c)
  BY <1>1 DEF IsTable
<1>4. PICK t \in 1 .. Len(file.commands) :
         /\ IsTable(t) /\ \A d : IsTable(d) => d = t
         /\ LinkersTable(file, file.commands[t].program)
  BY <1>2, TheTable
<1>5. Len(file.commands) \in Nat
  BY <1>2, TheTable
<1>6. CASE UNCHANGED vars \/ Finished
  <2>1. UNCHANGED vars
    BY <1>6 DEF Finished
  <2>2. /\ k' = k /\ kind' = kind /\ segment' = segment /\ offset' = offset
        /\ rebase' = rebase /\ stage' = stage /\ command' = command
    BY <2>1 DEF vars
  <2>3. Interpreting => Interpreting'
    BY <1>1, <2>2, Unmoved
  <2>4. IsTable(command) => IsTable(command)'
    BY <1>1, <2>2 DEF IsTable
  <2> QED BY <1>1, <1>2, <1>3, <2>2, <2>3, <2>4
<1>7. CASE Segment \/ SegmentsDone \/ TlvSection
  <2>1. /\ stage \in {"segments", "tlv"} /\ stage' \in {"segments", "tlv"}
        /\ command' = command /\ rebase' = rebase
    BY <1>7 DEF Segment, SegmentsDone, TlvSection
  <2> QED BY <1>2, <2>1
<1>8. CASE TlvDone
  <2>1. /\ stage = "tlv" /\ stage' = "commands" /\ command' = command /\ rebase' = rebase
    BY <1>8 DEF TlvDone
  <2> QED BY <1>1, <1>2, <2>1
<1>9. CASE SkipCommand
  <2>1. /\ stage = "commands" /\ stage' = "commands" /\ ~ IsTable(command)
        /\ command' = command + 1 /\ rebase' = rebase
    BY <1>9 DEF SkipCommand, IsTable
  <2>2. \A c \in 1 .. Len(file.commands) :
           IsTable(c) => (command' <= c <=> command <= c)
    BY <1>2, <2>1
  <2> QED BY <1>1, <1>2, <1>3, <2>1, <2>2
<1>10. CASE StartRebase
  <2>1. /\ stage = "commands" /\ stage' = "rebase" /\ IsTable(command)
        /\ command' = command /\ rebase' = rebase /\ k' = 1
        /\ kind' = "pointer" /\ segment' = 0 /\ offset' = 0
    BY <1>2, <1>10 DEF StartRebase, IsTable
  <2>2. rebase = << >>
    BY <1>2, <2>1 DEF IsTable
  <2>3. /\ From(file, 1) = 1 /\ First(file, 1) = 0 /\ Before(file, 1) = AtStart
        /\ file.pieces \in Seq(Pieces) /\ file.padding \in Nat
    BY <1>4 DEF LinkersTable, Before
  <2>4. 1 \in 1 .. Len(file.pieces) + 1 /\ Len(file.pieces) \in Nat
    BY <2>3
  <2>5. /\ kind' = Before(file, 1).kind /\ segment' = Before(file, 1).segment
        /\ offset' = Before(file, 1).offset
    BY <2>1, <2>3 DEF AtStart
  <2>6. /\ Len(rebase') = First(file, 1)
        /\ \A i \in 1 .. First(file, 1) : rebase'[i] = file.pointers[i]
    BY <2>1, <2>2, <2>3
  <2>7. Interpreting'
    BY <1>1, <2>1, <2>3, <2>4, <2>5, <2>6, NextPiece
  <2>8. IsTable(command)'
    BY <1>1, <2>1 DEF IsTable
  <2> QED BY <1>2, <2>1, <2>7, <2>8
<1>11. CASE Parsed
  <2>1. /\ stage = "commands" /\ stage' = "done" /\ command > Len(file.commands)
        /\ command' = command /\ rebase' = rebase
    BY <1>11 DEF Parsed
  <2>2. ~ (command <= t)
    BY <1>2, <1>5, <2>1
  <2>3. rebase = file.pointers
    BY <1>2, <1>4, <2>1, <2>2
  <2> QED BY <1>1, <1>2, <2>1, <2>3
<1>12. CASE stage = "rebase" /\ Next
  <2>1. CASE /\ file' = file /\ command' = command /\ stage' = "rebase"
             /\ rebase' \in Seq(PointerType) /\ Interpreting'
    <3>1. IsTable(command)'
      BY <1>2, <1>12, <2>1 DEF IsTable
    <3> QED BY <1>2, <2>1, <3>1
  <2>2. CASE EndRebase /\ rebase = file.pointers
    <3>1. /\ stage' = "commands" /\ command' = command + 1 /\ rebase' = file.pointers
          /\ rebase' = rebase
      BY <2>2 DEF EndRebase
    <3>2. command = t
      BY <1>2, <1>4, <1>12
    <3>3. \A c \in 1 .. Len(file.commands) : IsTable(c) => ~ (command' <= c)
      BY <1>2, <1>4, <3>1, <3>2
    <3> QED BY <1>1, <1>2, <1>3, <3>1, <3>3
  <2> QED BY <1>2, <1>12, <2>1, <2>2, InterpreterStep
<1>13. ~ SegmentFails
  <2>1. ASSUME SegmentFails
        PROVE  FALSE
    <3>1. stage = "segments" /\ k <= Len(file.segments) /\ CannotClip
      BY <2>1 DEF SegmentFails
    <3>2. k \in DOMAIN file.segments
      BY <3>1, FileSegments DEF KeptInv, LayoutInv
    <3>3. WrittenByLinker(file)
      BY <1>2, FileAssumed DEF FileAssumption
    <3> QED BY <3>1, <3>2, <3>3 DEF WrittenByLinker, CannotClip
  <2> QED BY <2>1
<1>14. CASE Next /\ stage # "rebase"
  <2>1. ~ EndRebase
    BY <1>14 DEF EndRebase
  <2>2. ~ (OpDone \/ SetType \/ SetSegment \/ AddAddr)
    BY <1>14 DEF OpDone, SetType, SetSegment, AddAddr, Executing
  <2>3. ~ (DoRebase \/ DoRebaseFails \/ UnknownOpcode)
    BY <1>14 DEF DoRebase, DoRebaseFails, UnknownOpcode, Executing
  <2> QED BY <1>6, <1>7, <1>8, <1>9, <1>10, <1>11, <1>13, <1>14, <2>1, <2>2, <2>3 DEF Next
<1> QED BY <1>6, <1>12, <1>14

\* The table that a linker writes is read without a failure, and what it meant to
\* be relocated is collected, kinds and order included, whatever opcodes it chose
\* for it and in either build (macho.rs:231-311).
THEOREM TableDecoded == Spec => []RebaseExact
<1>1. KeptInv /\ TableInv /\ [Next]_vars => (KeptInv /\ TableInv)'
  BY KeptStep, TableStep
<1>2. KeptInv /\ TableInv => RebaseExact
  BY DEF TableInv, RebaseExact
<1>3. Init => KeptInv /\ TableInv
  BY InitKept, InitTable
<1> QED BY <1>1, <1>2, <1>3, PTL DEF Spec
=============================================================================
