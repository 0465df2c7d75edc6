---------------------------- MODULE MCMachOParse ----------------------------
(***************************************************************************)
(* MachOParse on files a linker writes and on others.  Their layout has a  *)
(* __PAGEZERO, code, and data with thread-locals; in another layout the    *)
(* sections come in descending order, and the last one reaches past the    *)
(* end of its segment; in the third, sections end outside of the address   *)
(* space, at and behind its end.                                           *)
(* A linker covers its pointers by runs of a regular stride, in the order  *)
(* of their addresses, and has several encodings for each run: some are    *)
(* one piece in the sense of MachOParse, some a piece for each pointer.    *)
(***************************************************************************)
EXTENDS MachOParse

CONSTANT WordBits

MCWordMod == 2 ^ WordBits

Section(a, n, t) == [addr |-> a, size |-> n, type |-> t]
Part(a, n, f, sections) ==
    [vmaddr |-> a, vmsize |-> n, filesize |-> f, sections |-> sections]

Ascending ==
    << Part(0, 8, 0, << >>),
       Part(8, 4, 4, <<Section(8, 4, "regular")>>),
       Part(12, 12, 10,
            <<Section(12, 4, "regular"), Section(16, 3, "thread_local_variables"),
              Section(19, 1, "thread_local_regular"),
              Section(20, 2, "thread_local_zerofill"), Section(22, 1, "zerofill"),
              Section(23, 1, "thread_local_init_function_pointers")>>) >>

Descending ==
    << Part(0, 8, 0, << >>),
       Part(16, 12, 12, <<Section(22, 3, "thread_local_zerofill"),
                          Section(19, 1, "thread_local_regular"),
                          Section(16, 2, "regular")>>),
       Part(8, 4, 4, <<Section(9, 27, "regular")>>) >>

Endless ==
    << Part(8, 12, 12, <<Section(9, 2, "thread_local_regular"),
                         Section(10, MCWordMod - 10, "thread_local_zerofill"),
                         Section(11, MCWordMod - 2, "regular")>>) >>

\* Runs of pointers of a segment, by their offsets.
Runs == [segment: {1, 2}, kind: {"pointer", "text_absolute32"}, start: {0, 6},
         count: {1, 3}, stride: {1, 2}]

RunEnd(run) == run.start + run.count * run.stride

\* What may come before the repeating opcodes of a run, after register values.
Types(run, at) ==
    {<<[op |-> "set_type", imm |-> run.kind]>>} \cup
    {none \in {<< >>} : run.kind = at.kind}

Positions(run, at) ==
    LET delta == run.start - at.offset
    IN  {<<[op |-> "set_segment", imm |-> run.segment, uleb |-> run.start]>>} \cup
        {add \in {<<[op |-> op, uleb |-> delta]>> : op \in {"add_addr", "add_addr_scaled"}} :
            run.segment = at.segment /\ delta >= 0}

\* The opcodes that repeat, with what each piece covers.
Bodies(run) ==
    LET Start(n) == run.start + (n - 1) * run.stride
        Body(op, n, count, stride, tail) ==
            [repeat |-> op, start |-> Start(n), count |-> count, stride |-> stride,
             tail |-> tail]
        All(op) == <<Body(op, 1, run.count, run.stride, << >>)>>
    IN  {All([op |-> "do_skipping", count |-> run.count, skip |-> run.stride - 1]),
         [n \in 1 .. run.count |->
             Body([op |-> "do_add_addr", skip |-> run.stride - 1], n, 1, run.stride, << >>)]}
        \cup
        (IF run.stride = 1
         THEN {All([op |-> op, count |-> run.count]) : op \in {"do_imm", "do_uleb"}}
         ELSE {[n \in 1 .. run.count |->
                   Body([op |-> "do_imm", count |-> 1], n, 1, 1,
                        <<[op |-> "add_addr", uleb |-> run.stride - 1]>>)]})

\* An encoded run: the pieces with their opcodes.
Encodings(run, at) ==
    {[n \in DOMAIN body |->
        [type |-> IF n = 1 THEN t ELSE << >>, move |-> IF n = 1 THEN p ELSE << >>,
         body |-> body[n], run |-> run]] :
        t \in Types(run, at), p \in Positions(run, at), body \in Bodies(run)}

Opcodes(coded) == coded.type \o coded.move \o <<coded.body.repeat>> \o coded.body.tail

Table(codeds) == FlattenSeq([n \in DOMAIN codeds |-> Opcodes(codeds[n])])

Piece(codeds, n) ==
    LET c    == codeds[n]
        from == 1 + Len(Table(SubSeq(codeds, 1, n - 1)))
        move == from + Len(c.type)
    IN  [from |-> from, move |-> move, repeat |-> move + Len(c.move),
         first |-> FoldLeft(LAMBDA sum, d : sum + d.body.count, 0, SubSeq(codeds, 1, n - 1)),
         kind |-> c.run.kind, segment |-> c.run.segment,
         start |-> c.body.start, count |-> c.body.count, stride |-> c.body.stride,
         advance |-> IF c.body.tail = << >> THEN 0 ELSE c.body.tail[1].uleb]

AtEnd(run) == [kind |-> run.kind, segment |-> run.segment, offset |-> RunEnd(run)]

Pointers(parts, run) ==
    [n \in 1 .. run.count |->
        [kind |-> run.kind,
         vmaddr |-> parts[run.segment + 1].vmaddr + run.start + (n - 1) * run.stride]]

\* The second run is behind the first, or in the other segment.
Pairs == {pair \in [1 .. 2 -> Runs] :
             /\ pair[1].start = 0 /\ pair[1].count = 3
             /\ pair[2].kind = "pointer" /\ pair[1].stride + pair[2].stride = 3
             /\ \/ pair[1].segment < pair[2].segment
                \/ pair[1].segment = pair[2].segment /\ RunEnd(pair[1]) <= pair[2].start}

Padding == {<< >>, [n \in 1 .. 2 |-> [op |-> "done"]]}

DyldInfo(program) == [kind |-> "dyld_info", program |-> program]
Other             == [kind |-> "other", program |-> << >>]

Linked(parts, codeds, pad, pointers) ==
    [segments |-> parts, commands |-> <<Other, DyldInfo(Table(codeds) \o pad)>>,
     linked |-> TRUE, pointers |-> pointers,
     pieces |-> [n \in DOMAIN codeds |-> Piece(codeds, n)],
     padding |-> Len(Table(codeds)) + 1]

LinkedFiles ==
    {Linked(Ascending, a \o b, pad,
            Pointers(Ascending, pair[1]) \o Pointers(Ascending, pair[2])) :
        <<pair, a, b, pad>> \in
            UNION {{pair} \X Encodings(pair[1], AtStart) \X
                   Encodings(pair[2], AtEnd(pair[1])) \X Padding : pair \in Pairs}}

\* Tables no linker writes, and two of them in a file.
OddPrograms ==
    {<<[op |-> "unknown"]>>,
     <<[op |-> "set_segment", imm |-> 5, uleb |-> 0], [op |-> "do_uleb", count |-> 0],
       [op |-> "do_uleb", count |-> 1]>>,
     <<[op |-> "set_segment", imm |-> 1, uleb |-> MCWordMod - 2],
       [op |-> "do_imm", count |-> 3]>>,
     <<[op |-> "set_segment", imm |-> 2, uleb |-> MCWordMod - 1],
       [op |-> "add_addr", uleb |-> 2], [op |-> "do_add_addr", skip |-> 2]>>}

OddFiles ==
    {[segments |-> l, commands |-> <<DyldInfo(p), DyldInfo(q)>>, linked |-> FALSE,
      pointers |-> << >>] : l \in {Ascending, Descending, Endless}, p, q \in OddPrograms}

MCFiles == LinkedFiles \cup OddFiles
=============================================================================
