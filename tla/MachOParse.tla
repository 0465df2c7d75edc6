----------------------------- MODULE MachOParse -----------------------------
(***************************************************************************)
(* MachOImage::new (src/loader/macho.rs:117-325): what the loader keeps of *)
(* the load commands of a file, and the interpreter of rebase opcodes that *)
(* finds the pointers to relocate.  Reading the commands themselves is the *)
(* work of the goblin crate; imports and exports are copied as it has them.*)
(*                                                                         *)
(* The unit of addresses and sizes is the pointer, as in MachOImage.  An   *)
(* opcode is read with its operands at once.                               *)
(***************************************************************************)
EXTENDS Integers, Sequences, SequencesExt

CONSTANTS Files,    \* the files that may be read
          WordMod   \* u64 arithmetic wraps here

Words == 0 .. WordMod - 1

Wrap(x) == x % WordMod

-----------------------------------------------------------------------------
(* The table a linker writes, by pieces.  Each sets what it has to of the   *)
(* registers, repeats pointers of one segment, kind and stride, and may      *)
(* advance once more.                                                       *)

Pieces == [from: Nat, move: Nat, repeat: Nat, \* indices of its opcodes
           first: Nat,                         \* pointers before it
           kind: STRING, segment: Nat, start: Nat,
           count: Nat, stride: Nat \ {0}, advance: Nat]

Adding == {"add_addr", "add_addr_scaled"}

Repeats(opcode, piece) ==
    \/ /\ opcode.op = "do_skipping"
       /\ opcode.count = piece.count /\ opcode.skip = piece.stride - 1
    \/ /\ opcode.op \in {"do_imm", "do_uleb"}
       /\ opcode.count = piece.count /\ piece.stride = 1
    \/ /\ opcode.op = "do_add_addr"
       /\ piece.count = 1 /\ opcode.skip = piece.stride - 1

AtStart == [kind |-> "pointer", segment |-> 0, offset |-> 0]

Behind(piece) == piece.start + piece.count * piece.stride

AfterPiece(piece) == [kind |-> piece.kind, segment |-> piece.segment,
                      offset |-> Behind(piece) + piece.advance]

\* The opcodes of a piece, up to `to`, with the registers `at` before them.
Encodes(program, piece, at, to) ==
    /\ piece.move \in {piece.from, piece.from + 1}
    /\ piece.repeat \in {piece.move, piece.move + 1}
    /\ to \in {piece.repeat + 1, piece.repeat + 2} /\ to <= Len(program) + 1
    /\ piece.move = piece.from => piece.kind = at.kind
    /\ \A n \in piece.from .. piece.move - 1 :
          program[n].op = "set_type" /\ program[n].imm = piece.kind
    /\ piece.repeat = piece.move => piece.segment = at.segment /\ piece.start = at.offset
    /\ \A n \in piece.move .. piece.repeat - 1 :
          \/ /\ program[n].op = "set_segment"
             /\ program[n].imm = piece.segment /\ program[n].uleb = piece.start
          \/ /\ program[n].op \in Adding
             /\ piece.segment = at.segment /\ piece.start = at.offset + program[n].uleb
    /\ Repeats(program[piece.repeat], piece)
    /\ to = piece.repeat + 1 => piece.advance = 0
    /\ \A n \in piece.repeat + 1 .. to - 1 :
          program[n].op \in Adding /\ program[n].uleb = piece.advance

\* The pointers of a piece are those the linker meant, inside the address space.
Covers(file, piece) ==
    /\ piece.segment + 1 \in DOMAIN file.segments
    /\ AfterPiece(piece).offset \in Words
    /\ piece.first + piece.count <= Len(file.pointers)
    /\ \A i \in 1 .. piece.count :
          file.pointers[piece.first + i] =
              [kind |-> piece.kind,
               vmaddr |-> file.segments[piece.segment + 1].vmaddr
                             + (piece.start + (i - 1) * piece.stride)]

\* Where piece n begins, when the last one is followed by the padding; and how
\* many pointers and which registers there are before it.
From(file, n)   == IF n <= Len(file.pieces) THEN file.pieces[n].from ELSE file.padding
First(file, n)  == IF n <= Len(file.pieces) THEN file.pieces[n].first
                                            ELSE Len(file.pointers)
Before(file, n) == IF n = 1 THEN AtStart ELSE AfterPiece(file.pieces[n - 1])

LinkersTable(file, program) ==
    /\ file.pointers \in Seq([kind: STRING, vmaddr: Words])
    /\ file.pieces \in Seq(Pieces)
    /\ From(file, 1) = 1 /\ First(file, 1) = 0
    /\ \A n \in DOMAIN file.pieces :
          LET piece == file.pieces[n]
          IN  /\ Encodes(program, piece, Before(file, n), From(file, n + 1))
              /\ Covers(file, piece)
              /\ First(file, n + 1) = piece.first + piece.count
    /\ file.padding \in 1 .. Len(program) + 1
    /\ \A n \in file.padding .. Len(program) : program[n].op = "done"

\* A section ends outside of the address space.
Overflows(sect) == sect.addr + sect.size \notin Words

\* A linker writes one table, and sections that end in the address space.
WrittenByLinker(file) ==
    /\ \A j \in DOMAIN file.segments : \A n \in DOMAIN file.segments[j].sections :
          ~ Overflows(file.segments[j].sections[n])
    /\ Len(file.commands) \in Nat
    /\ \E c \in 1 .. Len(file.commands) :
          /\ Len(file.commands[c].program) \in Nat
          /\ \A d \in 1 .. Len(file.commands) : file.commands[d].kind = "dyld_info" <=> d = c
          /\ LinkersTable(file, file.commands[c].program)

\* A file has segments with their sections, and commands: programs of rebase
\* opcodes (dyld_info) or something else.  The linker that wrote it, if one
\* did, meant `pointers` to be relocated.  Sections start in their segment, and
\* __PAGEZERO has none, so that none is at address 0.
FileAssumption ==
    /\ WordMod \in Nat \ {0}
    /\ \A file \in Files :
          /\ file.segments \in Seq([vmaddr: Words, vmsize: Words, filesize: Words,
                                    sections: Seq([addr: Words, size: Words, type: STRING])])
          /\ \A j \in DOMAIN file.segments :
                LET s == file.segments[j]
                IN  /\ s.vmaddr + s.vmsize \in Words
                    /\ \A n \in DOMAIN s.sections :
                          s.sections[n].addr \in (s.vmaddr .. s.vmaddr + s.vmsize) \ {0}
          /\ file.linked \in BOOLEAN /\ (file.linked => WrittenByLinker(file))

ASSUME FileAssumed == FileAssumption

VARIABLES file,    \* the file that is read
          checks,  \* whether the build panics on arithmetic overflow (the dev
                   \* profile does, the release profile wraps)
          stage,   \* the loop that runs, or the end: "done", "error"
          k,       \* its index: of a segment, a section, an opcode
          command, \* index of the load command
          vmbase, vmsize, segments, tlv, rebase, \* the image
          kind, segment, offset                  \* registers of the interpreter

vars == <<file, checks, stage, k, command, vmbase, vmsize, segments, tlv, rebase,
          kind, segment, offset>>

given     == <<file, checks>>
layout    == <<vmbase, vmsize, segments>>
registers == <<kind, segment, offset>>

Init == /\ file \in Files /\ checks \in BOOLEAN
        /\ stage = "segments" /\ k = 1 /\ command = 1
        /\ vmbase = WordMod - 1 /\ vmsize = 0 /\ segments = << >>
        /\ tlv = [start |-> 0, size |-> 0, var_ranges |-> << >>, func_ranges |-> << >>]
        /\ rebase = << >>
        /\ kind = "pointer" /\ segment = 0 /\ offset = 0

Least(x, y) == IF x < y THEN x ELSE y
Most(x, y)  == IF x > y THEN x ELSE y

-----------------------------------------------------------------------------
(* Segments, sections and thread-local storage. *)

\* Variant with a plausible bug: sections keep their size.
ClippedNot(seg, sect) == sect

\* A section ends where its segment does at the latest; but an end that wraps is the
\* lesser, and the section keeps its size.
Clipped(seg, sect) ==
    [sect EXCEPT !.size =
        Wrap(Least(seg.vmaddr + seg.vmsize, Wrap(sect.addr + @)) - sect.addr)]

\* The sum of a section's end panics.
CannotClip == checks /\ \E n \in DOMAIN file.segments[k].sections :
                           Overflows(file.segments[k].sections[n])

\* A panic, or the Err of new.
Fail == /\ stage' = "error"
        /\ UNCHANGED <<given, k, command, layout, tlv, rebase, registers>>

SegmentFails == stage = "segments" /\ k <= Len(file.segments) /\ CannotClip /\ Fail

\* One segment is copied; those with contents extend the image.
Segment == /\ stage = "segments" /\ k <= Len(file.segments) /\ ~ CannotClip
           /\ LET seg == file.segments[k]
              IN  /\ segments' = Append(segments,
                        [seg EXCEPT !.sections = [n \in DOMAIN @ |-> Clipped(seg, @[n])]])
                  /\ vmbase' = IF seg.filesize # 0 THEN Least(vmbase, seg.vmaddr) ELSE vmbase
                  /\ vmsize' = IF seg.filesize # 0 THEN Most(vmsize, seg.vmaddr + seg.vmsize)
                                                   ELSE vmsize
           /\ k' = k + 1
           /\ UNCHANGED <<given, stage, command, tlv, rebase, registers>>

SegmentsDone == /\ stage = "segments" /\ k > Len(file.segments)
                /\ stage' = "tlv" /\ k' = 1
                /\ UNCHANGED <<given, command, layout, tlv, rebase, registers>>

\* The second walk goes over the sections as the file has them.
Sections == FlattenSeq([j \in DOMAIN file.segments |-> file.segments[j].sections])

Templates == {"thread_local_regular", "thread_local_zerofill"}

\* Variant with a plausible bug: the start is that of the first section.
TemplateStartFirst(sect) == IF tlv.start = 0 THEN sect.addr ELSE tlv.start

TemplateStart(sect) == IF tlv.start = 0 \/ sect.addr < tlv.start THEN sect.addr ELSE tlv.start

\* The template's size is rounded up to 16 bytes, two pointers.  A build that checks
\* has panicked on a section whose end wraps.
Template(sect) ==
    LET start == TemplateStart(sect)
        size  == (Wrap(Wrap(Wrap(sect.addr + sect.size) - start) + 1) \div 2) * 2
    IN  [tlv EXCEPT !.start = start,
                    !.size = IF @ = 0 \/ size > @ THEN size ELSE @]

TlvSection ==
    /\ stage = "tlv" /\ k <= Len(Sections)
    /\ LET sect  == Sections[k]
           range == [addr |-> sect.addr, size |-> sect.size]
       IN  tlv' = CASE sect.type \in Templates -> Template(sect)
                    [] sect.type = "thread_local_variables" ->
                          [tlv EXCEPT !.var_ranges = Append(@, range)]
                    [] sect.type = "thread_local_init_function_pointers" ->
                          [tlv EXCEPT !.func_ranges = Append(@, range)]
                    [] OTHER -> tlv
    /\ k' = k + 1
    /\ UNCHANGED <<given, stage, command, layout, rebase, registers>>

TlvDone == /\ stage = "tlv" /\ k > Len(Sections)
           /\ stage' = "commands"
           /\ UNCHANGED <<given, k, command, layout, tlv, rebase, registers>>

-----------------------------------------------------------------------------
(* The load commands. *)

SkipCommand == /\ stage = "commands" /\ command <= Len(file.commands)
               /\ file.commands[command].kind # "dyld_info"
               /\ command' = command + 1
               /\ UNCHANGED <<given, stage, k, layout, tlv, rebase, registers>>

StartRebase == /\ stage = "commands" /\ command <= Len(file.commands)
               /\ file.commands[command].kind = "dyld_info"
               /\ stage' = "rebase" /\ k' = 1
               /\ kind' = "pointer" /\ segment' = 0 /\ offset' = 0
               /\ UNCHANGED <<given, command, layout, tlv, rebase>>

Program == file.commands[command].program

EndRebase == /\ stage = "rebase" /\ k > Len(Program)
             /\ stage' = "commands" /\ command' = command + 1
             /\ UNCHANGED <<given, k, layout, tlv, rebase, registers>>

Parsed == /\ stage = "commands" /\ command > Len(file.commands)
          /\ stage' = "done"
          /\ UNCHANGED <<given, k, command, layout, tlv, rebase, registers>>

-----------------------------------------------------------------------------
(* The rebase opcodes. *)

Opcode == Program[k]

Executing(ops) == stage = "rebase" /\ k <= Len(Program) /\ Opcode.op \in ops

Executed == /\ k' = k + 1
            /\ UNCHANGED <<given, stage, command, layout, tlv>>

\* REBASE_OPCODE_DONE finishes nothing: the loop runs to rebase_size.
OpDone == /\ Executing({"done"})
          /\ Executed /\ UNCHANGED <<rebase, registers>>

SetType == /\ Executing({"set_type"})
           /\ kind' = Opcode.imm
           /\ Executed /\ UNCHANGED <<rebase, segment, offset>>

SetSegment == /\ Executing({"set_segment"})
              /\ segment' = Opcode.imm /\ offset' = Opcode.uleb
              /\ Executed /\ UNCHANGED <<rebase, kind>>

\* ADD_ADDR_ULEB and ADD_ADDR_IMM_SCALED wrap in every build.
AddAddr == /\ Executing({"add_addr", "add_addr_scaled"})
           /\ offset' = Wrap(offset + Opcode.uleb)
           /\ Executed /\ UNCHANGED <<rebase, kind, segment>>

\* The DO_REBASE opcodes: how many pointers, and how far apart.
Repeating == {"do_imm", "do_uleb", "do_add_addr", "do_skipping"}

Count  == IF Opcode.op = "do_add_addr" THEN 1 ELSE Opcode.count

\* Variant with a plausible bug: the skip includes the pointer.
StrideOfSkip == IF Opcode.op \in {"do_add_addr", "do_skipping"} THEN Opcode.skip ELSE 1

Stride == IF Opcode.op \in {"do_add_addr", "do_skipping"} THEN 1 + Opcode.skip ELSE 1

\* segments[segment] is out of range, or a checked addition overflows.
CannotRepeat == \/ Count > 0 /\ segment + 1 \notin DOMAIN segments
                \/ checks /\ offset + Count * Stride >= WordMod

DoRebase ==
    /\ Executing(Repeating) /\ ~ CannotRepeat
    /\ rebase' = rebase \o
          [n \in 1 .. Count |->
              [kind |-> kind,
               vmaddr |-> Wrap(segments[segment + 1].vmaddr + offset + (n - 1) * Stride)]]
    /\ offset' = Wrap(offset + Count * Stride)
    /\ Executed /\ UNCHANGED <<kind, segment>>

DoRebaseFails == Executing(Repeating) /\ CannotRepeat /\ Fail

UnknownOpcode == Executing({"unknown"}) /\ Fail

Finished == stage \in {"done", "error"} /\ UNCHANGED vars

Next == \/ Segment \/ SegmentFails \/ SegmentsDone
        \/ TlvSection \/ TlvDone
        \/ SkipCommand \/ StartRebase \/ EndRebase \/ Parsed
        \/ OpDone \/ SetType \/ SetSegment \/ AddAddr
        \/ DoRebase \/ DoRebaseFails \/ UnknownOpcode
        \/ Finished

Spec == Init /\ [][Next]_vars

-----------------------------------------------------------------------------
\* What the linker meant to be relocated is what the interpreter collects, in
\* order, kinds included, whatever mix of opcodes the linker used for it and
\* whatever zeros pad the table; and it never fails on such a table, nor does
\* the build's arithmetic make a difference (macho.rs:231-311).
RebaseExact ==
    file.linked => /\ stage # "error"
                   /\ stage = "done" => rebase = file.pointers

\* The mapping holds every loaded segment, and the sections stay inside their
\* own: what map_image copies and zero-fills is in bounds (it would panic), and
\* nothing of another segment; except that a build that wraps lets sections go on
\* that end outside of the address space (macho.rs:124-157 against 355-377).
SectionsInside ==
    stage = "done" =>
        \A j \in DOMAIN segments :
            segments[j].filesize # 0 =>
                /\ vmbase <= segments[j].vmaddr
                /\ segments[j].vmaddr - vmbase + segments[j].vmsize <= vmsize
                /\ \A n \in DOMAIN segments[j].sections :
                      LET s == segments[j].sections[n]
                      IN  \/ s.addr + s.size <= segments[j].vmaddr + segments[j].vmsize
                          \/ ~ checks /\ Overflows(s)

\* The template of thread-local storage begins at the lowest of its sections, in
\* whatever order they come, and reaches to the end of each that no lower one
\* follows, if that end does not wrap: to the end of all when they ascend
\* (macho.rs:209-229).
TlvTemplate ==
    LET used == {n \in DOMAIN Sections : Sections[n].type \in Templates}
    IN  stage \in {"commands", "rebase", "done"} =>
            \A n \in used :
                /\ tlv.start <= Sections[n].addr
                /\ \E m \in used : tlv.start = Sections[m].addr
                /\ /\ ~ Overflows(Sections[n])
                   /\ \A m \in used : n <= m => Sections[n].addr <= Sections[m].addr
                   => Sections[n].addr + Sections[n].size <= tlv.start + tlv.size
=============================================================================
