--------------------------- MODULE MetaDumpProofs ---------------------------
(***************************************************************************)
(* For all metadata, and all memory laid out as it says: the dump reads in *)
(* the instance that is alive and nowhere else (ReadsLive), with well-     *)
(* typed metadata it panics on maps only (PanicsOnMaps), and the document  *)
(* that is written has the defaults it should (DefaultsRight).             *)
(*                                                                         *)
(* For the last, each call that is left says something (Says), later calls *)
(* hide what earlier ones said under the same keys (AllGive), and what the *)
(* document will have once all are done (WillHave) is the same before and  *)
(* after each call.  It is what the reference definition says when the     *)
(* first call for an instance is made, and what the document has when no   *)
(* call is left.                                                           *)
(***************************************************************************)
EXTENDS MetaDump, WellFoundedInduction, TLAPS

(* Lists of tasks. *)

\* What is in a list, and that it is one.
Elements(s) == {s[i] : i \in DOMAIN s}

IsASeq(s) == s \in Seq(Elements(s))

\* A function on 1 .. n is a sequence of its values.
LEMMA IndexedSeq ==
    ASSUME NEW s, NEW n \in Nat, DOMAIN s = 1 .. n, s = [i \in 1 .. n |-> s[i]]
    PROVE  IsASeq(s)
<1>1. s \in [1 .. n -> Elements(s)]
  BY DEF Elements
<1> QED BY <1>1 DEF IsASeq

\* A sequence over some set is one over its elements.
LEMMA OwnElements == ASSUME NEW S, NEW s \in Seq(S)
                     PROVE  IsASeq(s) /\ Elements(s) \subseteq S
<1>1. s \in [1 .. Len(s) -> S] /\ Len(s) \in Nat
  OBVIOUS
<1>2. s = [i \in 1 .. Len(s) |-> s[i]] /\ DOMAIN s = 1 .. Len(s)
  BY <1>1
<1> QED BY <1>1, <1>2, IndexedSeq DEF Elements

\* The elements of a concatenation are those of its parts.
LEMMA Joined ==
    ASSUME NEW s, NEW t, IsASeq(s), IsASeq(t)
    PROVE  IsASeq(s \o t) /\ Elements(s \o t) \subseteq Elements(s) \cup Elements(t)
<1> DEFINE S == Elements(s) \cup Elements(t)
<1>1. s \in Seq(S) /\ t \in Seq(S)
  <2>1. Elements(s) \subseteq S /\ Elements(t) \subseteq S
    OBVIOUS
  <2> HIDE DEF S
  <2>2. s \in Seq(Elements(s)) /\ t \in Seq(Elements(t))
    BY DEF IsASeq
  <2> QED BY <2>1, <2>2
<1> HIDE DEF S
<1>2. s \o t \in Seq(S)
  BY <1>1
<1>3. IsASeq(s \o t) /\ Elements(s \o t) \subseteq S
  BY <1>2, OwnElements
<1> QED BY <1>3 DEF S

\* What is left of a list that is not empty.
LEMMA HeadAndTail ==
    ASSUME NEW s, IsASeq(s), s # << >>
    PROVE  /\ Head(s) \in Elements(s)
           /\ IsASeq(Tail(s)) /\ Elements(Tail(s)) \subseteq Elements(s)
<1>1. s \in Seq(Elements(s))
  BY DEF IsASeq
<1>2. Len(s) \in Nat \ {0} /\ DOMAIN s = 1 .. Len(s) /\ Head(s) = s[1]
  BY <1>1
<1>3. Head(s) \in Elements(s)
  BY <1>2 DEF Elements
<1> DEFINE S == Elements(s)
<1>4. s \in Seq(S)
  BY <1>1
<1> HIDE DEF S
<1>5. Tail(s) \in Seq(S)
  BY <1>4
<1>6. IsASeq(Tail(s)) /\ Elements(Tail(s)) \subseteq S
  BY <1>5, OwnElements
<1> QED BY <1>3, <1>6 DEF S

\* The lists of no task and of one.
LEMMA ShortSeq == /\ IsASeq(<< >>) /\ Elements(<< >>) = {}
                  /\ \A t : IsASeq(<<t>>) /\ Elements(<<t>>) = {t}
BY DEF IsASeq, Elements

-----------------------------------------------------------------------------
(* The calls that are left. *)

\* An item lies in an instance of c with its object.
ItemLies(c, mem, type, class, at) ==
    at \in Heap[c] /\ ObjectsAt(mem, type, class, at) \subseteq Objects[c]

\* A call reads where the instance alive has what the call is about; and with
\* well-typed metadata its type is one the call knows.
Right(t) ==
    /\ t.at \in Heap[live]
    /\ \/ t.do = "class" /\ <<t.class, t.at>> \in Objects[live]
       \/ /\ t.do = "prop" /\ PropLies(live, memory, t.prop, t.at)
          /\ PropObjects(memory, t.prop, t.at) \subseteq Objects[live]
          /\ WellTyped => WellTypedProp(t.prop)
       \/ /\ t.do = "item" /\ ItemLies(live, memory, t.type, t.class, t.at)
          /\ WellTyped => t.type \in Nestable /\ Classed(t.type, t.class)

DumpInv == /\ meta \in Metas /\ memory \in Memories
           /\ index \in Nat \ {0}
           /\ IsASeq(tasks)
           /\ phase = "next" => tasks = << >>
           /\ phase = "dumping" => live \in Classes /\ meta[live].constructor
           /\ tasks # << >> => live \in Classes
           /\ \A t \in Elements(tasks) : Right(t)
           /\ PanicsOnMaps

\* At the start there is no call.
LEMMA InitDump == Init => DumpInv
BY ShortSeq DEF Init, DumpInv, PanicsOnMaps

\* An instance is an object of its class.
LEMMA InstanceGiven ==
    ASSUME meta \in Metas, memory \in Memories, NEW c \in Classes, meta[c].constructor
    PROVE  <<c, Instance[c]>> \in Objects[c]
BY MemoryAssumed DEF MemoryAssumption

\* An object of the instance: its class has metadata, it lies there, and so do its
\* bases and what its properties hold.
LEMMA ObjectGiven ==
    ASSUME NEW m \in Metas, NEW mem \in Memories, NEW c \in Classes,
           NEW class, NEW at, <<class, at>> \in Objects[c]
    PROVE  /\ class \in Classes /\ at \in Heap[c]
           /\ Inner(m, mem, <<class, at>>)
                 \subseteq {o \in Objects[c] : Nesting[o] < Nesting[<<class, at>>]}
           /\ m[class].base # NoClass => <<m[class].base, at>> \in Inner(m, mem, <<class, at>>)
           /\ \A i \in DOMAIN m[class].secondary :
                 <<m[class].secondary[i].class, at + m[class].secondary[i].offset>>
                    \in Inner(m, mem, <<class, at>>)
           /\ \A i \in DOMAIN m[class].properties :
                 LET p == m[class].properties[i]
                 IN  /\ PropLies(c, mem, p, at + p.offset)
                     /\ PropObjects(mem, p, at + p.offset) \subseteq Inner(m, mem, <<class, at>>)
<1> DEFINE o == <<class, at>>
<1>1. o[1] = class /\ o[2] = at
  OBVIOUS
<1>2. Objects[c] \subseteq Classes \X Nat /\ ObjectLies(c, m, mem, o)
  BY MemoryAssumed DEF MemoryAssumption
<1>3. class \in Classes
  BY <1>2
<1>4. Inner(m, mem, o) =
         {<<base, at>> : base \in {m[class].base} \ {NoClass}}
         \cup {<<m[class].secondary[i].class, at + m[class].secondary[i].offset>> :
              i \in DOMAIN m[class].secondary}
         \cup UNION {PropObjects(mem, m[class].properties[i],
                                at + m[class].properties[i].offset) :
                    i \in DOMAIN m[class].properties}
  BY <1>1, Zenon DEF Inner
<1>5. /\ at \in Heap[c]
      /\ Inner(m, mem, o) \subseteq {inner \in Objects[c] : Nesting[inner] < Nesting[o]}
      /\ \A i \in DOMAIN m[class].properties :
            LET p == m[class].properties[i] IN PropLies(c, mem, p, at + p.offset)
  BY <1>1, <1>2, Zenon DEF ObjectLies
<1> HIDE DEF o
<1>6. m[class].base # NoClass => <<m[class].base, at>> \in Inner(m, mem, o)
  BY <1>4
<1>7. \A i \in DOMAIN m[class].secondary :
         <<m[class].secondary[i].class, at + m[class].secondary[i].offset>> \in Inner(m, mem, o)
  BY <1>4
<1>8. ASSUME NEW i \in DOMAIN m[class].properties
      PROVE  PropObjects(mem, m[class].properties[i], at + m[class].properties[i].offset)
                \subseteq Inner(m, mem, o)
  BY <1>4
<1> QED BY <1>3, <1>5, <1>6, <1>7, <1>8 DEF o

\* A call that returns leaves its place to those it makes.
LEMMA CallsStep ==
    ASSUME DumpInv, phase = "dumping", tasks # << >>,
           NEW more, IsASeq(more), \A t \in Elements(more) : Right(t),
           tasks' = more \o Tail(tasks), UNCHANGED <<given, index, phase, live>>
    PROVE  DumpInv'
<1>1. /\ IsASeq(Tail(tasks)) /\ Elements(Tail(tasks)) \subseteq Elements(tasks)
  BY HeadAndTail DEF DumpInv
<1>2. IsASeq(tasks') /\ Elements(tasks') \subseteq Elements(more) \cup Elements(Tail(tasks))
  BY <1>1, Joined
<1>3. meta' = meta /\ memory' = memory /\ live' = live /\ index' = index /\ phase' = phase
  BY DEF given
<1>4. \A t \in Elements(tasks') : Right(t)
  BY <1>1, <1>2 DEF DumpInv
<1>5. \A t : Right(t)' = Right(t)
  BY <1>3 DEF Right, WellTyped
<1>6. IsASeq(tasks)' /\ Elements(tasks)' = Elements(tasks')
  BY <1>2 DEF IsASeq, Elements
<1>7. PanicsOnMaps'
  BY <1>3 DEF PanicsOnMaps
<1>8. (\A t \in Elements(tasks) : Right(t))'
  BY <1>4, <1>5, <1>6
<1> QED BY <1>3, <1>6, <1>7, <1>8 DEF DumpInv

\* The next call is right.
LEMMA NextCall ==
    ASSUME DumpInv, NEW kind, Calling(kind)
    PROVE  /\ Right(Task) /\ Task.do = kind /\ phase = "dumping" /\ tasks # << >>
           /\ live \in Classes /\ meta \in Metas /\ memory \in Memories
BY HeadAndTail DEF DumpInv, Calling, Task

\* A class's call makes those of its bases and its properties, in their places.
LEMMA PropertiesStep == ASSUME DumpInv, DumpProperties PROVE DumpInv'
<1>1. /\ Right(Task) /\ Task.do = "class" /\ phase = "dumping" /\ tasks # << >>
      /\ live \in Classes /\ meta \in Metas /\ memory \in Memories
  BY NextCall DEF DumpProperties
<1>2. Task.class \in Classes /\ <<Task.class, Task.at>> \in Objects[live]
  BY <1>1, ObjectGiven DEF Right
<1> DEFINE m == meta[Task.class]
           base == IF m.base = NoClass THEN <<>>
                   ELSE <<ClassTask(m.base, Task.at, Task.path)>>
           inherited(i) == ClassTask(m.secondary[i].class,
                                     Task.at + m.secondary[i].offset, Task.path)
           secondary == [i \in DOMAIN m.secondary |-> inherited(i)]
           prop(i) == PropTask(m.properties[i], Task.at + m.properties[i].offset,
                               Append(Task.path, m.properties[i].hash))
           own == [i \in DOMAIN m.properties |-> prop(i)]
<1>3. tasks' = base \o secondary \o own \o Tail(tasks)
  BY DEF DumpProperties
<1>4. /\ m.base # NoClass => <<m.base, Task.at>> \in Objects[live]
      /\ \A i \in DOMAIN m.secondary :
            <<m.secondary[i].class, Task.at + m.secondary[i].offset>> \in Objects[live]
      /\ \A i \in DOMAIN m.properties :
            LET p == m.properties[i]
            IN  /\ PropLies(live, memory, p, Task.at + p.offset)
                /\ PropObjects(memory, p, Task.at + p.offset) \subseteq Objects[live]
  BY <1>1, <1>2, ObjectGiven
<1>5. IsASeq(base) /\ \A t \in Elements(base) : Right(t)
  <2>1. CASE m.base = NoClass
    BY <2>1, ShortSeq
  <2>2. CASE m.base # NoClass
    <3>1. Right(ClassTask(m.base, Task.at, Task.path))
      BY <2>2, <1>1, <1>4, ObjectGiven DEF Right, ClassTask
    <3> QED BY <2>2, <3>1, ShortSeq
  <2> QED BY <2>1, <2>2
<1>6. IsASeq(secondary) /\ \A t \in Elements(secondary) : Right(t)
  <2>1. Len(m.secondary) \in Nat /\ DOMAIN m.secondary = 1 .. Len(m.secondary)
    BY <1>1, <1>2, MetaAssumed DEF MetaAssumption
  <2>2. IsASeq(secondary)
    BY <2>1, IndexedSeq
  <2>3. ASSUME NEW i \in DOMAIN m.secondary
        PROVE  Right(inherited(i))
    <3> DEFINE o == <<m.secondary[i].class, Task.at + m.secondary[i].offset>>
    <3>1. o \in Objects[live]
      BY <1>4
    <3>2. Task.at + m.secondary[i].offset \in Heap[live]
      BY <1>1, <3>1, ObjectGiven
    <3> QED BY <3>1, <3>2 DEF Right, ClassTask
  <2> QED BY <2>2, <2>3 DEF Elements
<1>7. IsASeq(own) /\ \A t \in Elements(own) : Right(t)
  <2>1. Len(m.properties) \in Nat /\ DOMAIN m.properties = 1 .. Len(m.properties)
    BY <1>1, <1>2, MetaAssumed DEF MetaAssumption
  <2>2. IsASeq(own)
    BY <2>1, IndexedSeq
  <2>3. ASSUME NEW i \in DOMAIN m.properties
        PROVE  Right(prop(i))
    <3>1. /\ PropLies(live, memory, m.properties[i], Task.at + m.properties[i].offset)
          /\ PropObjects(memory, m.properties[i], Task.at + m.properties[i].offset)
                \subseteq Objects[live]
      BY <1>4
    <3>2. Task.at + m.properties[i].offset \in Heap[live]
      BY <3>1, Zenon DEF PropLies
    <3>3. WellTyped => WellTypedProp(m.properties[i])
      BY <1>2 DEF WellTyped
    <3>4. /\ prop(i).do = "prop" /\ prop(i).prop = m.properties[i]
          /\ prop(i).at = Task.at + m.properties[i].offset
      BY DEF PropTask
    <3> HIDE DEF prop, m
    <3> QED BY <3>1, <3>2, <3>3, <3>4 DEF Right
  <2> QED BY <2>2, <2>3 DEF Elements
<1> DEFINE more == base \o secondary \o own
<1> HIDE DEF base, secondary, own, m
<1>8. IsASeq(more) /\ \A t \in Elements(more) : Right(t)
  <2>1. /\ IsASeq(base \o secondary)
        /\ Elements(base \o secondary) \subseteq Elements(base) \cup Elements(secondary)
    BY <1>5, <1>6, Joined
  <2>2. /\ IsASeq(more)
        /\ Elements(more) \subseteq Elements(base \o secondary) \cup Elements(own)
    BY <2>1, <1>7, Joined
  <2> QED BY <2>1, <2>2, <1>5, <1>6, <1>7
<1> HIDE DEF more
<1>9. tasks' = more \o Tail(tasks) /\ UNCHANGED <<given, index, phase, live>>
  BY <1>3 DEF more, DumpProperties
<1> QED BY <1>1, <1>8, <1>9, CallsStep

\* A call returns and makes no other, or becomes another right one.
LEMMA OneCall ==
    ASSUME DumpInv, phase = "dumping", tasks # << >>,
           \/ \E leaf : Return(leaf, << >>)
           \/ \E leaf, task : Right(task) /\ Return(leaf, <<task>>)
           \/ \E task : Right(task) /\ Become(task)
    PROVE  DumpInv'
<1>1. ASSUME NEW more, IsASeq(more), \A t \in Elements(more) : Right(t),
             tasks' = more \o Tail(tasks), UNCHANGED <<given, index, phase, live>>
      PROVE  DumpInv'
  BY <1>1, CallsStep
<1>2. CASE \E leaf : Return(leaf, << >>)
  BY <1>1, <1>2, ShortSeq DEF Return
<1>3. CASE \E leaf, task : Right(task) /\ Return(leaf, <<task>>)
  <2>1. PICK leaf, task : Right(task) /\ Return(leaf, <<task>>)
    BY <1>3
  <2>2. IsASeq(<<task>>) /\ \A t \in Elements(<<task>>) : Right(t)
    BY <2>1, ShortSeq
  <2>3. tasks' = <<task>> \o Tail(tasks) /\ UNCHANGED <<given, index, phase, live>>
    BY <2>1 DEF Return
  <2> QED BY <1>1, <2>2, <2>3
<1>4. CASE \E task : Right(task) /\ Become(task)
  <2>1. PICK task : Right(task) /\ Become(task)
    BY <1>4
  <2>2. IsASeq(<<task>>) /\ \A t \in Elements(<<task>>) : Right(t)
    BY <2>1, ShortSeq
  <2>3. tasks' = <<task>> \o Tail(tasks) /\ UNCHANGED <<given, index, phase, live>>
    BY <2>1 DEF Become
  <2> QED BY <1>1, <2>2, <2>3
<1> QED BY <1>2, <1>3, <1>4

\* A container has the size that its items have.
LEMMA FilledSize ==
    ASSUME NEW container, NEW cell, Filled(container, cell)
    PROVE  /\ Size(container, cell) = Len(cell.items) /\ Len(cell.items) \in Nat
           /\ DOMAIN cell.items = 1 .. Len(cell.items)
           /\ cell.items = << >> <=> Len(cell.items) = 0
           /\ \A i \in DOMAIN cell.items : cell.items[i] \in Nat
<1>1. cell.items \in Seq(Nat)
  BY DEF Filled
<1> QED BY <1>1 DEF Filled, Size

\* A list makes a call for each of its items, where the item is.
LEMMA ListStep == ASSUME DumpInv, DumpList PROVE DumpInv'
<1> DEFINE p == Task.prop
           n == Size(p.container, memory[Task.at])
           item(i) == ItemTask(p.container.value, p.class, memory[Task.at].items[i],
                               Append(Task.path, i))
           more == [i \in 1 .. n |-> item(i)]
<1>1. /\ Right(Task) /\ Task.do = "prop" /\ phase = "dumping" /\ tasks # << >>
      /\ p.type = "list" /\ p.described
  BY NextCall DEF DumpList
<1>2. /\ PropLies(live, memory, p, Task.at)
      /\ PropObjects(memory, p, Task.at) \subseteq Objects[live]
      /\ WellTyped => WellTypedProp(p)
  BY <1>1 DEF Right
<1>3. n = Len(memory[Task.at].items) /\ n \in Nat /\ DOMAIN memory[Task.at].items = 1 .. n
  BY <1>1, <1>2, FilledSize DEF PropLies
<1>4. PropObjects(memory, p, Task.at) =
          UNION {ObjectsAt(memory, p.container.value, p.class, memory[Task.at].items[i]) :
                 i \in DOMAIN memory[Task.at].items}
  BY <1>1 DEF PropObjects
<1>5. /\ n \in Nat
      /\ \A i \in 1 .. n :
            ItemLies(live, memory, p.container.value, p.class, memory[Task.at].items[i])
  <2> HIDE DEF n, p
  <2>1. \A i \in 1 .. n :
           /\ memory[Task.at].items[i] \in Heap[live]
           /\ ObjectsAt(memory, p.container.value, p.class, memory[Task.at].items[i])
                 \subseteq Objects[live]
    BY <1>1, <1>2, <1>3, <1>4 DEF PropLies
  <2> QED BY <1>3, <2>1 DEF ItemLies
<1>6. WellTyped => p.container.value \in Nestable /\ Classed(p.container.value, p.class)
  BY <1>1, <1>2 DEF WellTypedProp
<1>7. ASSUME NEW i \in 1 .. n
      PROVE  Right(item(i))
  <2>1. /\ item(i).do = "item" /\ item(i).type = p.container.value
        /\ item(i).class = p.class /\ item(i).at = memory[Task.at].items[i]
    BY DEF ItemTask
  <2>2. item(i).at \in Heap[live]
    BY <1>5, <2>1, Zenon DEF ItemLies
  <2> HIDE DEF item, p, n
  <2> QED BY <1>5, <1>6, <2>1, <2>2 DEF Right
<1>8. IsASeq(more)
  <2> HIDE DEF n, item
  <2> QED BY <1>5, IndexedSeq
<1>9. \A t \in Elements(more) : Right(t)
  BY <1>7 DEF Elements
<1>10. tasks' = more \o Tail(tasks) /\ UNCHANGED <<given, index, phase, live>>
  BY DEF DumpList, Return
<1> HIDE DEF more
<1> QED BY <1>1, <1>8, <1>9, <1>10, CallsStep

\* An item is where the property is: of an option that has one, and of the types
\* that are passed on.
LEMMA ItemStep == ASSUME DumpInv, DumpOption \/ DumpOther PROVE DumpInv'
<1> DEFINE p == Task.prop
<1>1. /\ Right(Task) /\ Task.do = "prop" /\ phase = "dumping" /\ tasks # << >>
      /\ PropLies(live, memory, p, Task.at)
      /\ PropObjects(memory, p, Task.at) \subseteq Objects[live]
      /\ WellTyped => WellTypedProp(p)
  <2>1. Right(Task) /\ Task.do = "prop" /\ phase = "dumping" /\ tasks # << >>
    BY NextCall DEF DumpOption, DumpOther
  <2> QED BY <2>1 DEF Right
<1>2. ASSUME NEW type, ItemLies(live, memory, type, p.class, Task.at),
             WellTyped => type \in Nestable /\ Classed(type, p.class)
      PROVE  Right(ItemTask(type, p.class, Task.at, Task.path))
  <2> DEFINE item == ItemTask(type, p.class, Task.at, Task.path)
  <2>1. /\ item.do = "item" /\ item.type = type
        /\ item.class = p.class /\ item.at = Task.at
    BY DEF ItemTask
  <2>2. item.at \in Heap[live]
    BY <1>2, <2>1, Zenon DEF ItemLies
  <2> HIDE DEF item, p
  <2>3. Right(item)
    BY <1>2, <2>1, <2>2 DEF Right
  <2> QED BY <2>3 DEF item, p
<1>3. CASE DumpOption
  <2>1. p.type = "option" /\ p.described
    BY <1>3 DEF DumpOption
  <2>2. CASE Size(p.container, memory[Task.at]) = 0
    <3>1. \E leaf : Return(leaf, << >>)
      BY <1>3, <2>2 DEF DumpOption
    <3> QED BY <1>1, <3>1, OneCall
  <2>3. CASE Size(p.container, memory[Task.at]) # 0
    <3>1. ItemLies(live, memory, p.container.value, p.class, Task.at)
      <4>1. memory[Task.at].items # << >>
        BY <1>1, <2>1, <2>3, FilledSize DEF PropLies
      <4>2. PropObjects(memory, p, Task.at)
               = ObjectsAt(memory, p.container.value, p.class, Task.at)
        BY <2>1, <4>1 DEF PropObjects
      <4> QED BY <1>1, <4>2 DEF PropLies, ItemLies
    <3>2. WellTyped => p.container.value \in Nestable /\ Classed(p.container.value, p.class)
      BY <1>1, <2>1 DEF WellTypedProp
    <3>3. Become(ItemTask(p.container.value, p.class, Task.at, Task.path))
      BY <1>3, <2>3 DEF DumpOption
    <3>4. Right(ItemTask(p.container.value, p.class, Task.at, Task.path))
      BY <1>2, <3>1, <3>2
    <3> QED BY <1>1, <3>3, <3>4, OneCall
  <2> QED BY <2>2, <2>3
<1>4. CASE DumpOther
  <2>1. p.type \notin {"list", "map", "option", "flag"}
    BY <1>4 DEF DumpOther
  <2>2. ItemLies(live, memory, p.type, p.class, Task.at)
    <3>1. PropObjects(memory, p, Task.at) = ObjectsAt(memory, p.type, p.class, Task.at)
      BY <2>1 DEF PropObjects
    <3> QED BY <1>1, <3>1 DEF PropLies, ItemLies
  <2>3. WellTyped => p.type \in Nestable /\ Classed(p.type, p.class)
    BY <1>1, <2>1 DEF WellTypedProp
  <2>4. Become(ItemTask(p.type, p.class, Task.at, Task.path))
    BY <1>4 DEF DumpOther
  <2>5. Right(ItemTask(p.type, p.class, Task.at, Task.path))
    BY <1>2, <2>2, <2>3
  <2> QED BY <1>1, <2>4, <2>5, OneCall
<1> QED BY <1>3, <1>4

\* A panic keeps the calls that are left, and happens on a map or on metadata
\* that no compiler makes.
LEMMA PanicStep ==
    ASSUME DumpInv, Panic,
           WellTyped => /\ Task.do = "prop" /\ Task.prop.type = "map"
                        /\ memory[Task.at].items # << >>
    PROVE  DumpInv'
<1>1. /\ meta' = meta /\ memory' = memory /\ live' = live /\ index' = index
      /\ tasks' = tasks /\ phase' = "panic"
  BY DEF Panic, given
<1>2. \A t : Right(t)' = Right(t)
  BY <1>1 DEF Right, WellTyped
<1>3. IsASeq(tasks)' /\ Elements(tasks)' = Elements(tasks)
  BY <1>1 DEF DumpInv, IsASeq, Elements
<1>4. PanicsOnMaps'
  BY <1>1 DEF PanicsOnMaps, Task, WellTyped
<1>5. (\A t \in Elements(tasks) : Right(t))'
  BY <1>2, <1>3 DEF DumpInv
<1> QED BY <1>1, <1>3, <1>4, <1>5 DEF DumpInv

\* A property that is read here returns, or panics on a map that is not empty.
LEMMA PropertyStep ==
    ASSUME DumpInv, DumpUndescribed \/ DumpMap \/ DumpFlag
    PROVE  DumpInv'
<1>1. /\ Right(Task) /\ Task.do = "prop" /\ phase = "dumping" /\ tasks # << >>
      /\ WellTyped => WellTypedProp(Task.prop)
  <2>1. Right(Task) /\ Task.do = "prop" /\ phase = "dumping" /\ tasks # << >>
    BY NextCall DEF DumpUndescribed, DumpMap, DumpFlag
  <2> QED BY <2>1 DEF Right
<1>2. CASE DumpUndescribed
  <2>1. /\ Task.prop.type \in {"list", "map", "option"} /\ ~ Task.prop.described /\ Panic
    BY <1>2 DEF DumpUndescribed
  <2>2. ~ WellTyped
    BY <1>1, <2>1 DEF WellTypedProp
  <2> QED BY <2>1, <2>2, PanicStep
<1>3. CASE DumpMap
  <2>1. CASE memory[Task.at].items = << >>
    <3>1. \E leaf : Return(leaf, << >>)
      BY <1>3, <2>1 DEF DumpMap
    <3> QED BY <1>1, <3>1, OneCall
  <2>2. CASE memory[Task.at].items # << >>
    BY <1>1, <1>3, <2>2, PanicStep DEF DumpMap
  <2> QED BY <2>1, <2>2
<1>4. CASE DumpFlag
  <2>1. CASE ~ (checks /\ Task.prop.bit > 7)
    <3>1. \E leaf : Return(leaf, << >>)
      BY <1>4, <2>1 DEF DumpFlag
    <3> QED BY <1>1, <3>1, OneCall
  <2>2. CASE checks /\ Task.prop.bit > 7
    <3>1. Panic /\ Task.prop.type = "flag"
      BY Zenon, <1>4, <2>2 DEF DumpFlag
    <3>2. Task.prop.bit > 7
      BY Zenon, <2>2
    <3>3. ~ WellTyped
      BY <1>1, <3>1, <3>2 DEF WellTypedProp
    <3> QED BY <3>1, <3>3, PanicStep
  <2> QED BY <2>1, <2>2
<1> QED BY <1>2, <1>3, <1>4

\* An item is copied, or makes the call of the object that lies there.
LEMMA ItemCallStep ==
    ASSUME DumpInv, DumpScalar \/ DumpLink \/ DumpEmbed \/ DumpPointer \/ DumpUnnestable
    PROVE  DumpInv'
<1>1. /\ Right(Task) /\ Task.do = "item" /\ phase = "dumping" /\ tasks # << >>
      /\ live \in Classes /\ meta \in Metas /\ memory \in Memories
  BY NextCall DEF DumpScalar, DumpLink, DumpEmbed, DumpPointer, DumpUnnestable
<1>2. /\ ItemLies(live, memory, Task.type, Task.class, Task.at)
      /\ WellTyped => Task.type \in Nestable /\ Classed(Task.type, Task.class)
  BY <1>1 DEF Right
<1>3. ASSUME Panic, Task.type \in {"link", "embed", "pointer"} => Task.class = NoClass,
             Task.type \notin {"scalar"}
      PROVE  DumpInv'
  <2>1. ~ WellTyped
    BY <1>2, <1>3, MetaAssumed DEF MetaAssumption, Nestable, Classed
  <2> QED BY <1>3, <2>1, PanicStep
<1>4. ASSUME NEW at, <<Task.class, at>> \in Objects[live]
      PROVE  Right(ClassTask(Task.class, at, Task.path))
  <2>1. at \in Heap[live]
    BY <1>1, <1>4, ObjectGiven
  <2> QED BY <1>4, <2>1 DEF Right, ClassTask
<1>5. CASE DumpScalar
  <2>1. \E leaf : Return(leaf, << >>)
    BY <1>5 DEF DumpScalar
  <2> QED BY <1>1, <2>1, OneCall
<1>6. CASE DumpLink
  <2>1. Task.type = "link"
    BY <1>6 DEF DumpLink
  <2>2. CASE Task.class = NoClass
    BY <1>3, <1>6, <2>1, <2>2 DEF DumpLink
  <2>3. CASE Task.class # NoClass
    <3>1. \E leaf : Return(leaf, << >>)
      BY <1>6, <2>3 DEF DumpLink
    <3> QED BY <1>1, <3>1, OneCall
  <2> QED BY <2>2, <2>3
<1>7. CASE DumpEmbed
  <2>1. Task.type = "embed"
    BY <1>7 DEF DumpEmbed
  <2>2. CASE Task.class = NoClass
    BY <1>3, <1>7, <2>1, <2>2 DEF DumpEmbed
  <2>3. CASE Task.class # NoClass
    <3>1. <<Task.class, Task.at>> \in Objects[live]
      BY <1>2, <2>1, <2>3 DEF ItemLies, ObjectsAt
    <3>2. Right(ClassTask(Task.class, Task.at, Task.path))
      BY <1>4, <3>1
    <3>3. \E leaf : Return(leaf, <<ClassTask(Task.class, Task.at, Task.path)>>)
      BY <1>7, <2>3 DEF DumpEmbed
    <3> QED BY <1>1, <3>2, <3>3, OneCall
  <2> QED BY <2>2, <2>3
<1>8. CASE DumpPointer
  <2> DEFINE to == memory[Task.at].pointer
  <2>1. Task.type = "pointer"
    BY <1>8 DEF DumpPointer
  <2>2. CASE Task.class = NoClass
    BY <1>3, <1>8, <2>1, <2>2 DEF DumpPointer
  <2>3. CASE Task.class # NoClass /\ to = 0
    <3>1. \E leaf : Return(leaf, << >>)
      BY <1>8, <2>3 DEF DumpPointer
    <3> QED BY <1>1, <3>1, OneCall
  <2>4. CASE Task.class # NoClass /\ to # 0
    <3>1. <<Task.class, to>> \in Objects[live]
      BY <1>2, <2>1, <2>4 DEF ItemLies, ObjectsAt
    <3>2. Right(ClassTask(Task.class, to, Task.path))
      BY <1>4, <3>1
    <3>3. \E leaf : Return(leaf, <<ClassTask(Task.class, to, Task.path)>>)
      BY <1>8, <2>4 DEF DumpPointer
    <3> QED BY <1>1, <3>2, <3>3, OneCall
  <2> QED BY <2>2, <2>3, <2>4
<1>9. CASE DumpUnnestable
  <2>1. Task.type \in {"none", "list", "map", "option", "flag"} /\ Panic
    BY <1>9 DEF DumpUnnestable
  <2> QED BY <1>3, <2>1
<1> QED BY <1>5, <1>6, <1>7, <1>8, <1>9

-----------------------------------------------------------------------------
(* The instances. *)

\* The class that is to be dumped is one.
LEMMA ListedClass == ASSUME DumpInv, index <= Len(List) PROVE Class \in Classes
BY MetaAssumed DEF DumpInv, Class, MetaAssumption

\* A class without instance, the end of one, and the end of the list.
LEMMA NoCallStep ==
    ASSUME DumpInv, DumpNothing \/ DestroyInstance \/ Write
    PROVE  DumpInv'
<1>1. /\ meta' = meta /\ memory' = memory /\ index' \in Nat \ {0}
      /\ tasks' = << >> /\ phase' \in {"next", "written"}
  BY DEF DumpInv, DumpNothing, DestroyInstance, Write, given
<1>2. IsASeq(tasks') /\ Elements(tasks') = {}
  BY <1>1, ShortSeq
<1>3. IsASeq(tasks)' /\ Elements(tasks)' = {}
  BY <1>2 DEF IsASeq, Elements
<1>4. PanicsOnMaps'
  BY <1>1 DEF PanicsOnMaps
<1> QED BY <1>1, <1>3, <1>4 DEF DumpInv

\* The first call reads the new instance; what cannot be destroyed is ill-typed.
LEMMA InstanceStep ==
    ASSUME DumpInv, CreateInstance \/ DestroyFails
    PROVE  DumpInv'
<1>1. CASE CreateInstance
  <2>1. PICK task : task = ClassTask(Class, Instance[Class], <<meta[Class].hash>>)
    OBVIOUS
  <2>2. /\ Class \in Classes /\ meta[Class].constructor /\ live' = Class
        /\ tasks' = <<task>> /\ phase' = "dumping" /\ index' = index
        /\ meta' = meta /\ memory' = memory
    BY <1>1, <2>1, ListedClass DEF CreateInstance, given
  <2>3. <<Class, Instance[Class]>> \in Objects[Class]
    BY <2>2, InstanceGiven DEF DumpInv
  <2>4. Instance[Class] \in Heap[Class]
    BY <2>2, <2>3, ObjectGiven DEF DumpInv
  <2>5. /\ task.do = "class" /\ task.class = Class /\ task.at = Instance[Class]
    BY <2>1 DEF ClassTask
  <2>6. task.at \in Heap[live'] /\ <<task.class, task.at>> \in Objects[live']
    BY <2>2, <2>3, <2>4, <2>5
  <2>7. Right(task)'
    BY <2>5, <2>6 DEF Right
  <2>8. IsASeq(tasks') /\ Elements(tasks') = {task}
    BY <2>2, ShortSeq
  <2>9. IsASeq(tasks)' /\ Elements(tasks)' = {task}
    BY <2>8 DEF IsASeq, Elements
  <2>10. (\A t \in Elements(tasks) : Right(t))'
    BY <2>9, <2>7
  <2>11. PanicsOnMaps'
    BY <2>2 DEF PanicsOnMaps
  <2> QED BY <2>2, <2>9, <2>10, <2>11 DEF DumpInv
<1>2. CASE DestroyFails
  <2>1. /\ live \in Classes /\ meta[live].constructor /\ ~ meta[live].destructor /\ Panic
    BY <1>2 DEF DumpInv, DestroyFails
  <2>2. ~ WellTyped
    BY <2>1 DEF WellTyped
  <2> QED BY <2>1, <2>2, PanicStep
<1> QED BY <1>1, <1>2

\* Every step keeps the calls right.
LEMMA DumpStep == DumpInv /\ [Next]_vars => DumpInv'
<1> SUFFICES ASSUME DumpInv, [Next]_vars PROVE DumpInv'
  OBVIOUS
<1>1. CASE UNCHANGED vars
  <2>1. \A t : Right(t)' = Right(t)
    BY <1>1 DEF Right, WellTyped, vars
  <2>2. IsASeq(tasks)' /\ Elements(tasks)' = Elements(tasks)
    BY <1>1 DEF DumpInv, IsASeq, Elements, vars
  <2>3. (\A t \in Elements(tasks) : Right(t))'
    BY <2>1, <2>2 DEF DumpInv
  <2>4. PanicsOnMaps'
    BY <1>1 DEF DumpInv, PanicsOnMaps, Task, WellTyped, vars
  <2> QED BY <1>1, <2>2, <2>3, <2>4 DEF DumpInv, vars
<1>2. CASE DumpNothing \/ DestroyInstance \/ Write
  BY <1>2, NoCallStep
<1>3. CASE CreateInstance \/ DestroyFails
  BY <1>3, InstanceStep
<1>4. CASE Dumping
  BY <1>4, PropertiesStep, PropertyStep, ListStep, ItemStep, ItemCallStep DEF Dumping
<1> QED BY <1>1, <1>2, <1>3, <1>4 DEF Next

\* What every state of the dump satisfies.
LEMMA DumpInvariant == Spec => []DumpInv
BY InitDump, DumpStep, PTL DEF Spec

\* No call is left that reads outside the instance that is alive and what belongs
\* to it, whatever the metadata says (meta_dump.rs:69-75, 153-260).
THEOREM DumpReadsLive == Spec => []ReadsLive
<1>1. DumpInv => ReadsLive
  <2> SUFFICES ASSUME DumpInv, NEW i \in DOMAIN tasks
               PROVE  live # NoClass /\ tasks[i].at \in Heap[live]
    BY DEF ReadsLive
  <2>1. tasks[i] \in Elements(tasks) /\ tasks # << >>
    BY DEF Elements
  <2>2. live \in Classes /\ Right(tasks[i])
    BY <2>1 DEF DumpInv
  <2> QED BY <2>2, MetaAssumed DEF Right, MetaAssumption
<1> QED BY <1>1, DumpInvariant, PTL

\* With well-typed metadata the dump panics on a map that is not empty, and on
\* nothing else (the panics and expects of meta_dump.rs:81-151).
THEOREM DumpPanicsOnMaps == Spec => []PanicsOnMaps
<1>1. DumpInv => PanicsOnMaps
  BY DEF DumpInv
<1> QED BY <1>1, DumpInvariant, PTL

-----------------------------------------------------------------------------
(* Paths of the document. *)

\* A path is of hashes of classes and properties, and of places in lists.
Path == Seq(Nat)

\* Paths are equal by their keys.
LEMMA SamePath ==
    ASSUME NEW p \in Path, NEW q \in Path, Len(p) = Len(q),
           \A i \in 1 .. Len(p) : p[i] = q[i]
    PROVE  p = q
<1>1. /\ p \in [1 .. Len(p) -> Nat] /\ q \in [1 .. Len(q) -> Nat]
  BY DEF Path
<1> QED BY <1>1

\* What it is to be under a path, which Map::insert takes away.
LEMMA PrefixMeans ==
    ASSUME NEW p \in Path, NEW q \in Path
    PROVE  IsPrefix(p, q) <=> Len(p) <= Len(q) /\ \A i \in 1 .. Len(p) : p[i] = q[i]
<1>1. Len(p) \in Nat /\ Len(q) \in Nat
  BY DEF Path
<1>2. CASE Len(p) <= Len(q)
  <2> DEFINE s == SubSeq(p, 1, Len(p))
             t == SubSeq(q, 1, Len(p))
  <2>1. /\ s \in Seq(Nat) /\ Len(s) = Len(p) /\ \A i \in 1 .. Len(p) : s[i] = p[i]
        /\ t \in Seq(Nat) /\ Len(t) = Len(p) /\ \A i \in 1 .. Len(p) : t[i] = q[i]
    BY <1>1, <1>2 DEF Path
  <2>2. IsPrefix(p, q) <=> s = t
    BY <1>2 DEF IsPrefix
  <2> HIDE DEF s, t
  <2>3. (\A i \in 1 .. Len(p) : p[i] = q[i]) => s = t
    BY <1>1, <2>1, SamePath DEF Path
  <2> QED BY <1>2, <2>1, <2>2, <2>3
<1>3. CASE ~ (Len(p) <= Len(q))
  BY <1>3 DEF IsPrefix
<1> QED BY <1>2, <1>3

\* A path that goes on from another one.
LEMMA GoesOn ==
    ASSUME NEW p \in Path, NEW w \in Path
    PROVE  /\ p \o w \in Path /\ IsPrefix(p, p \o w)
           /\ w = << >> => p \o w = p
           /\ w # << >> => Len(p \o w) > Len(p) /\ (p \o w)[Len(p) + 1] = w[1]
<1>1. /\ p \o w \in Seq(Nat) /\ Len(p \o w) = Len(p) + Len(w)
      /\ Len(p) \in Nat /\ Len(w) \in Nat
      /\ \A i \in 1 .. Len(p) : (p \o w)[i] = p[i]
  BY DEF Path
<1>2. IsPrefix(p, p \o w)
  <2>1. PICK q : q = p \o w
    OBVIOUS
  <2>2. q \in Path /\ Len(p) <= Len(q) /\ \A i \in 1 .. Len(p) : p[i] = q[i]
    BY <1>1, <2>1 DEF Path
  <2> QED BY <2>1, <2>2, PrefixMeans
<1>3. w # << >> => Len(w) > 0 /\ (p \o w)[Len(p) + 1] = w[1]
  BY DEF Path
<1>4. w = << >> => p \o w = p
  BY DEF Path
<1> QED BY <1>1, <1>2, <1>3, <1>4 DEF Path

\* A path that goes on by one key.
LEMMA OneFurther ==
    ASSUME NEW p \in Path, NEW k \in Nat, NEW q \in Path
    PROVE  /\ Append(p, k) \in Path /\ Len(Append(p, k)) = Len(p) + 1 /\ Len(p) \in Nat
           /\ IsPrefix(Append(p, k), q) <=>
                 IsPrefix(p, q) /\ Len(q) > Len(p) /\ q[Len(p) + 1] = k
<1>1. /\ Append(p, k) \in Path /\ Len(Append(p, k)) = Len(p) + 1
      /\ Len(p) \in Nat /\ Len(q) \in Nat
      /\ \A i \in 1 .. Len(p) + 1 : Append(p, k)[i] = IF i = Len(p) + 1 THEN k ELSE p[i]
  BY DEF Path
<1>2. IsPrefix(Append(p, k), q) <=>
         /\ Len(p) + 1 <= Len(q)
         /\ \A i \in 1 .. Len(p) + 1 : (IF i = Len(p) + 1 THEN k ELSE p[i]) = q[i]
  BY <1>1, PrefixMeans
<1>3. IsPrefix(p, q) <=> Len(p) <= Len(q) /\ \A i \in 1 .. Len(p) : p[i] = q[i]
  BY PrefixMeans
<1> QED BY <1>1, <1>2, <1>3

\* Under a key and then on is on by that key.
LEMMA KeyFirst ==
    ASSUME NEW p \in Path, NEW k \in Nat, NEW w \in Path
    PROVE  /\ <<k>> \o w \in Path /\ <<k>> \o w # << >> /\ (<<k>> \o w)[1] = k
           /\ Append(p, k) \o w = p \o (<<k>> \o w)
<1>1. <<k>> \in Seq(Nat) /\ w \in Seq(Nat) /\ p \in Seq(Nat)
  BY DEF Path
<1>2. /\ <<k>> \o w \in Seq(Nat) /\ Len(<<k>> \o w) = Len(w) + 1 /\ (<<k>> \o w)[1] = k
      /\ \A i \in 1 .. Len(w) + 1 : (<<k>> \o w)[i] = IF i = 1 THEN k ELSE w[i - 1]
  BY <1>1
<1>3. PICK kw : kw = <<k>> \o w
  OBVIOUS
<1>4. /\ Append(p, k) \in Seq(Nat) /\ Len(Append(p, k)) = Len(p) + 1
      /\ \A i \in 1 .. Len(p) + 1 : Append(p, k)[i] = IF i = Len(p) + 1 THEN k ELSE p[i]
  BY <1>1
<1>5. PICK pk : pk = Append(p, k)
  OBVIOUS
<1>6. pk \o w = p \o kw
  <2>1. /\ pk \o w \in Seq(Nat) /\ Len(pk \o w) = Len(p) + 1 + Len(w)
        /\ \A i \in 1 .. Len(p) + 1 + Len(w) :
              (pk \o w)[i] = IF i <= Len(p) + 1 THEN pk[i] ELSE w[i - (Len(p) + 1)]
    BY <1>1, <1>4, <1>5
  <2>2. /\ p \o kw \in Seq(Nat) /\ Len(p \o kw) = Len(p) + (Len(w) + 1)
        /\ \A i \in 1 .. Len(p) + (Len(w) + 1) :
              (p \o kw)[i] = IF i <= Len(p) THEN p[i] ELSE kw[i - Len(p)]
    BY <1>1, <1>2, <1>3
  <2>3. Len(p) \in Nat /\ Len(w) \in Nat
    BY <1>1
  <2>4. ASSUME NEW i \in 1 .. Len(p) + 1 + Len(w)
        PROVE  (pk \o w)[i] = (p \o kw)[i]
    <3>1. CASE i <= Len(p)
      BY <1>4, <1>5, <2>1, <2>2, <2>3, <3>1
    <3>2. CASE i = Len(p) + 1
      BY <1>2, <1>3, <1>4, <1>5, <2>1, <2>2, <2>3, <3>2
    <3>3. CASE i > Len(p) + 1
      <4>1. i - Len(p) \in 1 .. Len(w) + 1 /\ i - Len(p) # 1
            /\ i - Len(p) - 1 = i - (Len(p) + 1)
        BY <2>3, <3>3
      <4>2. kw[i - Len(p)] = w[i - Len(p) - 1]
        BY <1>2, <1>3, <4>1
      <4>3. (pk \o w)[i] = w[i - (Len(p) + 1)]
        BY <2>1, <2>3, <3>3
      <4>4. (p \o kw)[i] = kw[i - Len(p)]
        BY <2>2, <2>3, <3>3
      <4> QED BY <4>1, <4>2, <4>3, <4>4
    <3>4. i \in Int /\ Len(p) \in Int
      BY <2>3
    <3>5. i <= Len(p) \/ i = Len(p) + 1 \/ i > Len(p) + 1
      BY <3>4
    <3> QED BY Zenon, <3>1, <3>2, <3>3, <3>5
  <2>5. Len(pk \o w) = Len(p \o kw)
    BY <2>1, <2>2, <2>3
  <2>6. PICK s, t : s = pk \o w /\ t = p \o kw
    OBVIOUS
  <2>7. s \in Path /\ t \in Path /\ Len(s) = Len(t) /\ \A i \in 1 .. Len(s) : s[i] = t[i]
    BY <2>1, <2>2, <2>4, <2>5, <2>6 DEF Path
  <2> QED BY <2>6, <2>7, SamePath
<1>7. <<k>> \o w # << >>
  BY <1>1, <1>2
<1> QED BY <1>2, <1>3, <1>5, <1>6, <1>7 DEF Path

-----------------------------------------------------------------------------
(* What objects have: Members is defined by recursion, and objects do not   *)
(* nest in themselves.                                                      *)

\* A set of numbers that is not empty has a least one.
LEMMA Smallest ==
    ASSUME NEW T, T \subseteq Nat, T # {}
    PROVE  \E n \in T : \A m \in T : n <= m
<1>1. IsWellFoundedOn(OpToRel(<, Nat), Nat)
  BY NatLessThanWellFounded
<1>2. PICK n \in T : \A m \in T : ~ (<<m, n>> \in OpToRel(<, Nat))
  BY <1>1, WFMin
<1>3. \A m \in T : ~ (m < n)
  BY <1>2 DEF OpToRel
<1> QED BY <1>3

\* What an item says depends on the object it holds, and on no other.
LEMMA ItemDepends ==
    ASSUME NEW g, NEW h, NEW mem, NEW type, NEW class, NEW at,
           \A x \in ObjectsAt(mem, type, class, at) : g[x] = h[x]
    PROVE  ItemSays(g, mem, type, class, at) = ItemSays(h, mem, type, class, at)
<1>1. CASE class # NoClass /\ type = "embed"
  <2>1. <<class, at>> \in ObjectsAt(mem, type, class, at)
    BY <1>1 DEF ObjectsAt
  <2>2. g[<<class, at>>] = h[<<class, at>>]
    BY <2>1
  <2> QED BY <1>1, <2>2 DEF ItemSays
<1>2. CASE class # NoClass /\ type = "pointer"
  <2>1. mem[at].pointer # 0 => <<class, mem[at].pointer>> \in ObjectsAt(mem, type, class, at)
    BY <1>2 DEF ObjectsAt
  <2>2. mem[at].pointer # 0 => g[<<class, mem[at].pointer>>] = h[<<class, mem[at].pointer>>]
    BY <2>1
  <2> QED BY <1>2, <2>2 DEF ItemSays
<1>3. CASE ~ (class # NoClass /\ type \in {"embed", "pointer"})
  BY <1>3 DEF ItemSays
<1> QED BY <1>1, <1>2, <1>3

\* What a property says depends on the objects it holds.
LEMMA PropDepends ==
    ASSUME NEW g, NEW h, NEW mem, NEW p, NEW at,
           \A x \in PropObjects(mem, p, at) : g[x] = h[x]
    PROVE  PropSays(g, mem, p, at) = PropSays(h, mem, p, at)
<1>1. CASE p.type = "list" /\ p.described
  <2>1. PropObjects(mem, p, at) =
           UNION {ObjectsAt(mem, p.container.value, p.class, mem[at].items[i]) :
                  i \in DOMAIN mem[at].items}
    BY <1>1 DEF PropObjects
  <2>2. \A i \in DOMAIN mem[at].items :
           ItemSays(g, mem, p.container.value, p.class, mem[at].items[i])
             = ItemSays(h, mem, p.container.value, p.class, mem[at].items[i])
    BY <2>1, ItemDepends
  <2>3. UNION {Under(i, ItemSays(g, mem, p.container.value, p.class, mem[at].items[i])) :
               i \in DOMAIN mem[at].items}
          = UNION {Under(i, ItemSays(h, mem, p.container.value, p.class, mem[at].items[i])) :
                   i \in DOMAIN mem[at].items}
    BY <2>2, Zenon
  <2> QED BY <1>1, <2>3 DEF PropSays
<1>2. CASE p.type = "option" /\ p.described
  <2>1. mem[at].items # << >> =>
           ItemSays(g, mem, p.container.value, p.class, at)
             = ItemSays(h, mem, p.container.value, p.class, at)
    BY <1>2, ItemDepends DEF PropObjects
  <2> QED BY <1>2, <2>1 DEF PropSays
<1>3. CASE p.type \in {"map", "flag"}
  BY <1>3 DEF PropSays
<1>4. CASE p.type \notin {"map", "flag"} /\ ~ (p.type \in {"list", "option"} /\ p.described)
  <2>1. PropObjects(mem, p, at) = ObjectsAt(mem, p.type, p.class, at)
    BY <1>4 DEF PropObjects
  <2>2. ItemSays(g, mem, p.type, p.class, at) = ItemSays(h, mem, p.type, p.class, at)
    BY <2>1, ItemDepends
  <2> QED BY <1>4, <2>2 DEF PropSays
<1> QED BY <1>1, <1>2, <1>3, <1>4

\* An object is one of an instance's, and what it is made of nests less.
LEMMA ObjectNests ==
    ASSUME NEW m \in Metas, NEW mem \in Memories, NEW o \in AllObjects
    PROVE  /\ o = <<o[1], o[2]>> /\ o[1] \in Classes /\ Nesting[o] \in Nat
           /\ \A x \in Inner(m, mem, o) : x \in AllObjects /\ Nesting[x] < Nesting[o]
<1>1. PICK c \in Classes : o \in Objects[c]
  BY DEF AllObjects
<1>2. o = <<o[1], o[2]>>
  BY <1>1, MemoryAssumed DEF MemoryAssumption
<1>3. o[1] \in Classes /\ Inner(m, mem, o) \subseteq {x \in Objects[c] : Nesting[x] < Nesting[o]}
  <2>1. <<o[1], o[2]>> \in Objects[c]
    BY <1>1, <1>2
  <2>2. /\ o[1] \in Classes
        /\ Inner(m, mem, <<o[1], o[2]>>)
              \subseteq {x \in Objects[c] : Nesting[x] < Nesting[<<o[1], o[2]>>]}
    BY Zenon, <2>1, ObjectGiven
  <2> QED BY Zenon, <1>2, <2>2
<1>4. Nesting[o] \in Nat
  BY MemoryAssumed DEF MemoryAssumption
<1> QED BY <1>2, <1>3, <1>4 DEF AllObjects

\* The parts of an object depend on what it is made of.
LEMMA PartsDepend ==
    ASSUME NEW g, NEW h, NEW m \in Metas, NEW mem \in Memories, NEW o \in AllObjects,
           \A x \in AllObjects : Nesting[x] < Nesting[o] => g[x] = h[x]
    PROVE  Parts(g, m, mem, o) = Parts(h, m, mem, o)
<1>1. PICK c \in Classes : o \in Objects[c]
  BY DEF AllObjects
<1>2. /\ o = <<o[1], o[2]>> /\ \A x \in Inner(m, mem, o) : g[x] = h[x]
  BY ObjectNests
<1> DEFINE d == m[o[1]]
<1>3. /\ d.base # NoClass => <<d.base, o[2]>> \in Inner(m, mem, o)
      /\ \A i \in DOMAIN d.secondary :
            <<d.secondary[i].class, o[2] + d.secondary[i].offset>> \in Inner(m, mem, o)
      /\ \A i \in DOMAIN d.properties :
            PropObjects(mem, d.properties[i], o[2] + d.properties[i].offset)
               \subseteq Inner(m, mem, o)
  <2>1. <<o[1], o[2]>> \in Objects[c]
    BY <1>1, <1>2
  <2>2. PICK n : n = Inner(m, mem, <<o[1], o[2]>>)
    OBVIOUS
  <2>3. /\ d.base # NoClass => <<d.base, o[2]>> \in n
        /\ \A i \in DOMAIN d.secondary :
              <<d.secondary[i].class, o[2] + d.secondary[i].offset>> \in n
        /\ \A i \in DOMAIN d.properties :
              PropObjects(mem, d.properties[i], o[2] + d.properties[i].offset) \subseteq n
    BY <2>1, <2>2, ObjectGiven
  <2>4. n = Inner(m, mem, o)
    BY <1>2, <2>2
  <2> QED BY <2>3, <2>4
<1> DEFINE base(f) == IF d.base = NoClass THEN <<>> ELSE <<f[<<d.base, o[2]>>]>>
           secondary(f) == [i \in DOMAIN d.secondary |->
                              f[<<d.secondary[i].class, o[2] + d.secondary[i].offset>>]]
           says(f, i) == PropSays(f, mem, d.properties[i], o[2] + d.properties[i].offset)
           own(f) == [i \in DOMAIN d.properties |-> Under(d.properties[i].hash, says(f, i))]
<1>4. base(g) = base(h)
  BY <1>2, <1>3
<1>5. secondary(g) = secondary(h)
  BY <1>2, <1>3
<1>6. \A i \in DOMAIN d.properties : says(g, i) = says(h, i)
  BY <1>2, <1>3, PropDepends
<1>7. own(g) = own(h)
  <2> HIDE DEF says
  <2> QED BY <1>6
<1>8. \A f : Parts(f, m, mem, o) = base(f) \o secondary(f) \o own(f)
  BY DEF Parts
<1> HIDE DEF base, secondary, own
<1> QED BY <1>4, <1>5, <1>7, <1>8

\* A function that satisfies the recursion for objects of a nesting below n.
Solves(g, m, mem, n) ==
    \A o \in AllObjects : Nesting[o] < n => g[o] = Latest(Parts(g, m, mem, o))

\* There is one for each n.
LEMMA SolutionExists ==
    ASSUME NEW m \in Metas, NEW mem \in Memories, NEW n \in Nat
    PROVE  \E g : Solves(g, m, mem, n)
<1> DEFINE Solved(i) == \E g : Solves(g, m, mem, i)
           T == {i \in Nat : ~ Solved(i)}
<1> SUFFICES T = {}
  OBVIOUS
<1> SUFFICES ASSUME T # {} PROVE FALSE
  OBVIOUS
<1>1. PICK i \in T : \A j \in T : i <= j
  <2>1. T \subseteq Nat
    OBVIOUS
  <2> HIDE DEF T
  <2> QED BY <2>1, Smallest
<1>2. i \in Nat /\ ~ Solved(i)
  BY <1>1
<1>3. i # 0
  <2>1. Solves(<< >>, m, mem, 0)
    BY MemoryAssumed DEF Solves, MemoryAssumption
  <2> QED BY <1>2, <2>1
<1>4. Solved(i - 1)
  <2>1. i - 1 \in Nat /\ ~ (i <= i - 1)
    BY <1>2, <1>3
  <2> HIDE DEF Solved
  <2> QED BY <1>1, <2>1
<1>5. PICK h : Solves(h, m, mem, i - 1)
  BY <1>4
<1> DEFINE g == [o \in AllObjects |-> IF Nesting[o] < i - 1 THEN h[o]
                                      ELSE Latest(Parts(h, m, mem, o))]
<1>6. \A o \in AllObjects : /\ Nesting[o] \in Nat
                            /\ Nesting[o] < i - 1 => g[o] = h[o]
                            /\ ~ (Nesting[o] < i - 1) => g[o] = Latest(Parts(h, m, mem, o))
  BY MemoryAssumed DEF MemoryAssumption
<1> HIDE DEF g
<1>7. Solves(g, m, mem, i)
  <2> SUFFICES ASSUME NEW o \in AllObjects, Nesting[o] < i
               PROVE  g[o] = Latest(Parts(g, m, mem, o))
    BY DEF Solves
  <2>1. g[o] = Latest(Parts(h, m, mem, o))
    BY <1>5, <1>6 DEF Solves
  <2>2. \A x \in AllObjects : Nesting[x] < Nesting[o] => g[x] = h[x]
    BY <1>2, <1>6
  <2>3. Parts(g, m, mem, o) = Parts(h, m, mem, o)
    BY <2>2, PartsDepend
  <2> QED BY <2>1, <2>3
<1> QED BY <1>2, <1>7

\* Where two satisfy it they are the same.
LEMMA SolutionsAgree ==
    ASSUME NEW m \in Metas, NEW mem \in Memories, NEW i \in Nat, NEW j \in Nat,
           NEW g, NEW h, Solves(g, m, mem, i), Solves(h, m, mem, j),
           NEW o \in AllObjects, Nesting[o] < i, Nesting[o] < j
    PROVE  g[o] = h[o]
<1> DEFINE Differs(x) == Nesting[x] < i /\ Nesting[x] < j /\ g[x] # h[x]
           T == {Nesting[x] : x \in {y \in AllObjects : Differs(y)}}
<1> SUFFICES ASSUME Differs(o) PROVE FALSE
  OBVIOUS
<1>1. T \subseteq Nat /\ Nesting[o] \in T
  BY MemoryAssumed DEF MemoryAssumption
<1>2. PICK n \in T : \A k \in T : n <= k
  <2> HIDE DEF T
  <2> QED BY <1>1, Smallest
<1>3. PICK x \in AllObjects : Differs(x) /\ n = Nesting[x]
  BY <1>2
<1>4. \A y \in AllObjects : Nesting[y] < Nesting[x] => g[y] = h[y]
  <2> SUFFICES ASSUME NEW y \in AllObjects, Nesting[y] < Nesting[x], g[y] # h[y] PROVE FALSE
    OBVIOUS
  <2>1. Nesting[x] \in Nat /\ Nesting[y] \in Nat
    BY MemoryAssumed DEF MemoryAssumption
  <2>2. Differs(y)
    BY <1>3, <2>1
  <2>3. Nesting[y] \in T
    BY <2>2
  <2>4. n <= Nesting[y]
    BY <1>2, <2>3
  <2> QED BY <1>3, <2>1, <2>4
<1>5. Parts(g, m, mem, x) = Parts(h, m, mem, x)
  BY <1>4, PartsDepend
<1>6. g[x] = Latest(Parts(g, m, mem, x)) /\ h[x] = Latest(Parts(h, m, mem, x))
  BY <1>3 DEF Solves
<1> QED BY <1>3, <1>5, <1>6

\* So there is one for all objects, and what the document should say of an object
\* is what its parts say, the latest first.
LEMMA MembersUnfold ==
    ASSUME NEW m \in Metas, NEW mem \in Memories, NEW o \in AllObjects
    PROVE  MembersOf(m, mem)[o] = Latest(Parts(MembersOf(m, mem), m, mem, o))
<1> DEFINE Solution(f) == f = [x \in AllObjects |-> Latest(Parts(f, m, mem, x))]
           G(n) == CHOOSE g : Solves(g, m, mem, n)
           F == [x \in AllObjects |-> G(Nesting[x] + 1)[x]]
<1>1. \A x \in AllObjects : Nesting[x] \in Nat /\ F[x] = G(Nesting[x] + 1)[x]
  BY MemoryAssumed DEF MemoryAssumption
<1>2. \A n \in Nat : Solves(G(n), m, mem, n)
  BY SolutionExists
<1>3. ASSUME NEW x \in AllObjects
      PROVE  F[x] = Latest(Parts(F, m, mem, x))
  <2> HIDE DEF F, G
  <2>1. PICK g : g = G(Nesting[x] + 1)
    OBVIOUS
  <2>2. Nesting[x] + 1 \in Nat /\ Nesting[x] < Nesting[x] + 1
    BY <1>1
  <2>3. Solves(g, m, mem, Nesting[x] + 1)
    BY <1>2, <2>1, <2>2
  <2>4. g[x] = Latest(Parts(g, m, mem, x)) /\ F[x] = g[x]
    BY <1>1, <2>1, <2>2, <2>3 DEF Solves
  <2>5. ASSUME NEW y \in AllObjects, Nesting[y] < Nesting[x]
        PROVE  F[y] = g[y]
    <3>1. PICK h : h = G(Nesting[y] + 1)
      OBVIOUS
    <3>2. /\ Nesting[y] + 1 \in Nat /\ Nesting[y] < Nesting[y] + 1
          /\ Nesting[y] < Nesting[x] + 1
      BY <1>1, <2>5
    <3>3. Solves(h, m, mem, Nesting[y] + 1) /\ F[y] = h[y]
      BY <1>1, <1>2, <3>1, <3>2
    <3> QED BY <2>2, <2>3, <3>2, <3>3, SolutionsAgree
  <2>6. Parts(F, m, mem, x) = Parts(g, m, mem, x)
    BY <2>5, PartsDepend
  <2> QED BY <2>4, <2>6
<1>4. Solution(F)
  <2>1. F = [x \in AllObjects |-> F[x]]
    OBVIOUS
  <2> HIDE DEF F
  <2> QED BY <1>3, <2>1, Zenon
<1>5. MembersOf(m, mem) = CHOOSE f : Solution(f)
  BY Zenon DEF MembersOf
<1>6. Solution(MembersOf(m, mem))
  <2> HIDE DEF F, Solution
  <2> QED BY <1>4, <1>5, Zenon
<1> QED BY <1>6, Zenon

\* Places in a concatenation.
LEMMA PlacesOfTwo ==
    ASSUME NEW s, NEW t, IsASeq(s), IsASeq(t)
    PROVE  /\ Len(s) \in Nat /\ Len(t) \in Nat
           /\ IsASeq(s \o t) /\ Len(s \o t) = Len(s) + Len(t)
           /\ DOMAIN (s \o t) = 1 .. Len(s) + Len(t)
           /\ \A i \in 1 .. Len(s) + Len(t) :
                 (s \o t)[i] = IF i <= Len(s) THEN s[i] ELSE t[i - Len(s)]
<1> DEFINE S == Elements(s) \cup Elements(t)
<1>1. s \in Seq(S) /\ t \in Seq(S)
  <2>1. Elements(s) \subseteq S /\ Elements(t) \subseteq S
    OBVIOUS
  <2> HIDE DEF S
  <2>2. s \in Seq(Elements(s)) /\ t \in Seq(Elements(t))
    BY DEF IsASeq
  <2> QED BY <2>1, <2>2
<1> HIDE DEF S
<1>2. IsASeq(s \o t)
  BY Joined
<1> QED BY <1>1, <1>2

\* Three lists put together, as the calls that a class makes are.
Joins(s, a, b, c) ==
    /\ Len(a) \in Nat /\ Len(b) \in Nat /\ Len(c) \in Nat
    /\ IsASeq(s) /\ Len(s) = Len(a) + Len(b) + Len(c)
    /\ DOMAIN s = 1 .. Len(a) + Len(b) + Len(c)
    /\ \A i \in 1 .. Len(a) + Len(b) + Len(c) :
          s[i] = IF i <= Len(a) THEN a[i]
                 ELSE IF i <= Len(a) + Len(b) THEN b[i - Len(a)]
                 ELSE c[i - (Len(a) + Len(b))]

\* Places in a concatenation of three.
LEMMA PlacesOfThree ==
    ASSUME NEW a, NEW b, NEW c, IsASeq(a), IsASeq(b), IsASeq(c)
    PROVE  Joins(a \o b \o c, a, b, c)
<1>1. PICK ab : ab = a \o b
  OBVIOUS
<1>2. /\ Len(a) \in Nat /\ Len(b) \in Nat /\ IsASeq(ab) /\ Len(ab) = Len(a) + Len(b)
      /\ \A i \in 1 .. Len(a) + Len(b) :
            ab[i] = IF i <= Len(a) THEN a[i] ELSE b[i - Len(a)]
  BY <1>1, PlacesOfTwo
<1>3. PICK s : s = ab \o c
  OBVIOUS
<1>4. /\ Len(c) \in Nat /\ IsASeq(s) /\ Len(s) = Len(ab) + Len(c)
      /\ DOMAIN s = 1 .. Len(ab) + Len(c)
      /\ \A i \in 1 .. Len(ab) + Len(c) :
            s[i] = IF i <= Len(ab) THEN ab[i] ELSE c[i - Len(ab)]
  BY <1>2, <1>3, PlacesOfTwo
<1>5. \A i \in 1 .. Len(a) + Len(b) + Len(c) :
         s[i] = IF i <= Len(a) THEN a[i]
                ELSE IF i <= Len(a) + Len(b) THEN b[i - Len(a)]
                ELSE c[i - (Len(a) + Len(b))]
  BY <1>2, <1>4
<1>6. Joins(s, a, b, c)
  BY <1>2, <1>4, <1>5 DEF Joins
<1> QED BY Zenon, <1>1, <1>3, <1>6

\* A set of entries of a document, and one of entries under some key.
Entries(S) == \A v \in S : v = <<v[1], v[2]>> /\ v[1] \in Path

Keyed(S) == Entries(S) /\ \A v \in S : v[1] # << >> /\ v[1][1] \in Nat

\* Entries under a key.
LEMMA UnderKeyed ==
    ASSUME NEW k \in Nat, NEW S, Entries(S)
    PROVE  /\ Keyed(Under(k, S))
           /\ \A v \in Under(k, S) : v[1][1] = k
           /\ Keys(Under(k, S)) = {key \in {k} : S # {}}
<1>1. ASSUME NEW v \in Under(k, S)
      PROVE  v = <<v[1], v[2]>> /\ v[1] \in Path /\ v[1] # << >> /\ v[1][1] = k
  <2>1. PICK w \in S : v = <<<<k>> \o w[1], w[2]>>
    BY DEF Under
  <2>2. w[1] \in Path
    BY DEF Entries
  <2>3. PICK kw : kw = <<k>> \o w[1]
    OBVIOUS
  <2>4. kw \in Path /\ kw # << >> /\ kw[1] = k
    BY <2>2, <2>3, KeyFirst
  <2>5. v = <<kw, w[2]>>
    BY <2>1, <2>3
  <2> QED BY <2>4, <2>5
<1>2. S # {} => Under(k, S) # {}
  BY DEF Under
<1>3. S = {} => Under(k, S) = {}
  BY DEF Under
<1>4. Keyed(Under(k, S))
  BY <1>1 DEF Keyed, Entries
<1>5. Keys(Under(k, S)) = {key \in {k} : S # {}}
  BY <1>1, <1>2, <1>3 DEF Keys
<1> QED BY <1>1, <1>4, <1>5

\* A leaf alone.
LEMMA AloneEntries == ASSUME NEW leaf PROVE Entries(Alone(leaf))
<1>1. << >> \in Path
  BY DEF Path
<1>2. PICK none : none = << >>
  OBVIOUS
<1>3. Alone(leaf) = {<<none, leaf>>}
  BY <1>2 DEF Alone
<1> QED BY <1>1, <1>2, <1>3 DEF Entries

\* What an item says, when its object is known.
LEMMA ItemEntries ==
    ASSUME NEW g, NEW mem, NEW type, NEW class, NEW at,
           \A x \in ObjectsAt(mem, type, class, at) : Keyed(g[x])
    PROVE  Entries(ItemSays(g, mem, type, class, at))
<1>1. CASE class # NoClass /\ type = "embed"
  <2>1. Keyed(g[<<class, at>>])
    BY <1>1 DEF ObjectsAt
  <2>2. Entries(Alone(<<"object">>) \cup g[<<class, at>>])
    BY <2>1, AloneEntries DEF Entries, Keyed
  <2> QED BY <1>1, <2>2 DEF ItemSays
<1>2. CASE class # NoClass /\ type = "pointer"
  <2>1. mem[at].pointer # 0 => Keyed(g[<<class, mem[at].pointer>>])
    BY <1>2 DEF ObjectsAt
  <2>2. mem[at].pointer # 0 =>
           Entries(Alone(<<"object">>) \cup g[<<class, mem[at].pointer>>])
    BY <2>1, AloneEntries DEF Entries, Keyed
  <2> QED BY <1>2, <2>2, AloneEntries DEF ItemSays
<1>3. CASE type \in {"scalar", "link"}
  BY <1>3, AloneEntries DEF ItemSays
<1>4. CASE type \notin {"scalar", "link"} /\ ~ (class # NoClass /\ type \in {"embed", "pointer"})
  BY <1>4 DEF ItemSays, Entries
<1> QED BY <1>1, <1>2, <1>3, <1>4

\* What a property says.
LEMMA PropEntries ==
    ASSUME NEW g, NEW mem, NEW p, NEW at, NEW c, PropLies(c, mem, p, at),
           \A x \in PropObjects(mem, p, at) : Keyed(g[x])
    PROVE  Entries(PropSays(g, mem, p, at))
<1>1. CASE p.type = "list" /\ p.described
  <2>1. PropObjects(mem, p, at) =
           UNION {ObjectsAt(mem, p.container.value, p.class, mem[at].items[i]) :
                  i \in DOMAIN mem[at].items}
    BY <1>1 DEF PropObjects
  <2>2. DOMAIN mem[at].items \subseteq Nat
    BY <1>1, FilledSize DEF PropLies
  <2> DEFINE says(i) == ItemSays(g, mem, p.container.value, p.class, mem[at].items[i])
  <2>3. \A i \in DOMAIN mem[at].items : Entries(says(i))
    BY <2>1, ItemEntries
  <2> HIDE DEF says
  <2>4. \A i \in DOMAIN mem[at].items : Entries(Under(i, says(i)))
    BY <2>2, <2>3, UnderKeyed DEF Keyed
  <2>5. Entries(Alone(<<"list">>) \cup UNION {Under(i, says(i)) : i \in DOMAIN mem[at].items})
    BY <2>4, AloneEntries DEF Entries
  <2>6. PropSays(g, mem, p, at) =
           Alone(<<"list">>) \cup UNION {Under(i, says(i)) : i \in DOMAIN mem[at].items}
    BY <1>1 DEF PropSays, says
  <2> QED BY <2>5, <2>6
<1>2. CASE p.type = "option" /\ p.described
  <2>1. mem[at].items # << >> => Entries(ItemSays(g, mem, p.container.value, p.class, at))
    BY <1>2, ItemEntries DEF PropObjects
  <2> QED BY <1>2, <2>1, AloneEntries DEF PropSays
<1>3. CASE p.type \in {"map", "flag"}
  BY <1>3, AloneEntries DEF PropSays
<1>4. CASE p.type \notin {"map", "flag"} /\ ~ (p.type \in {"list", "option"} /\ p.described)
  <2>1. PropObjects(mem, p, at) = ObjectsAt(mem, p.type, p.class, at)
    BY <1>4 DEF PropObjects
  <2>2. Entries(ItemSays(g, mem, p.type, p.class, at))
    BY <2>1, ItemEntries
  <2> QED BY <1>4, <2>2 DEF PropSays
<1> QED BY <1>1, <1>2, <1>3, <1>4

\* The parts of an object: those of its bases and those of its properties.
LEMMA PartsAre ==
    ASSUME NEW g, NEW m \in Metas, NEW mem \in Memories, NEW o \in AllObjects
    PROVE  LET d == m[o[1]]
               base == IF d.base = NoClass THEN <<>> ELSE <<g[<<d.base, o[2]>>]>>
               secondary == [i \in DOMAIN d.secondary |->
                   g[<<d.secondary[i].class, o[2] + d.secondary[i].offset>>]]
               own == [i \in DOMAIN d.properties |->
                          LET p == d.properties[i]
                          IN  Under(p.hash, PropSays(g, mem, p, o[2] + p.offset))]
           IN  /\ Parts(g, m, mem, o) = base \o secondary \o own
               /\ IsASeq(base) /\ IsASeq(secondary) /\ IsASeq(own)
               /\ Len(secondary) = Len(d.secondary) /\ Len(own) = Len(d.properties)
               /\ DOMAIN d.secondary = 1 .. Len(d.secondary)
               /\ DOMAIN d.properties = 1 .. Len(d.properties)
               /\ Len(d.secondary) \in Nat /\ Len(d.properties) \in Nat
<1> DEFINE d == m[o[1]]
           base == IF d.base = NoClass THEN <<>> ELSE <<g[<<d.base, o[2]>>]>>
           inherited(i) == g[<<d.secondary[i].class, o[2] + d.secondary[i].offset>>]
           secondary == [i \in DOMAIN d.secondary |-> inherited(i)]
           said(i) == LET p == d.properties[i]
                      IN  Under(p.hash, PropSays(g, mem, p, o[2] + p.offset))
           own == [i \in DOMAIN d.properties |-> said(i)]
<1>1. /\ Len(d.secondary) \in Nat /\ DOMAIN d.secondary = 1 .. Len(d.secondary)
      /\ Len(d.properties) \in Nat /\ DOMAIN d.properties = 1 .. Len(d.properties)
  <2>1. o[1] \in Classes
    BY ObjectNests
  <2> QED BY <2>1, MetaAssumed DEF MetaAssumption
<1>2. Parts(g, m, mem, o) = base \o secondary \o own
  BY Zenon DEF Parts
<1>3. IsASeq(base)
  BY ShortSeq
<1>4. IsASeq(secondary) /\ Len(secondary) = Len(d.secondary)
  <2> HIDE DEF inherited
  <2>1. IsASeq(secondary)
    BY <1>1, IndexedSeq
  <2> QED BY <1>1, <2>1
<1>5. IsASeq(own) /\ Len(own) = Len(d.properties)
  <2> HIDE DEF said
  <2>1. IsASeq(own)
    BY <1>1, IndexedSeq
  <2> QED BY <1>1, <2>1
<1> QED BY Zenon, <1>1, <1>2, <1>3, <1>4, <1>5

\* An object's properties lie in the instance, so that its parts are entries under
\* keys when those of what it is made of are.
LEMMA PartsKeyed ==
    ASSUME NEW g, NEW m \in Metas, NEW mem \in Memories, NEW o \in AllObjects,
           \A x \in Inner(m, mem, o) : Keyed(g[x])
    PROVE  /\ IsASeq(Parts(g, m, mem, o))
           /\ \A i \in DOMAIN Parts(g, m, mem, o) : Keyed(Parts(g, m, mem, o)[i])
<1> DEFINE d == m[o[1]]
           base == IF d.base = NoClass THEN <<>> ELSE <<g[<<d.base, o[2]>>]>>
           inherited(i) == g[<<d.secondary[i].class, o[2] + d.secondary[i].offset>>]
           secondary == [i \in DOMAIN d.secondary |-> inherited(i)]
           said(i) == PropSays(g, mem, d.properties[i], o[2] + d.properties[i].offset)
           own == [i \in DOMAIN d.properties |-> Under(d.properties[i].hash, said(i))]
<1>1. /\ Parts(g, m, mem, o) = base \o secondary \o own
      /\ IsASeq(base) /\ IsASeq(secondary) /\ IsASeq(own)
  BY Zenon, PartsAre
<1>2. PICK c \in Classes : o \in Objects[c]
  BY DEF AllObjects
<1>3. o = <<o[1], o[2]>>
  BY ObjectNests
<1>4. /\ d.base # NoClass => <<d.base, o[2]>> \in Inner(m, mem, o)
      /\ \A i \in DOMAIN d.secondary :
            <<d.secondary[i].class, o[2] + d.secondary[i].offset>> \in Inner(m, mem, o)
      /\ \A i \in DOMAIN d.properties :
            /\ PropLies(c, mem, d.properties[i], o[2] + d.properties[i].offset)
            /\ PropObjects(mem, d.properties[i], o[2] + d.properties[i].offset)
                  \subseteq Inner(m, mem, o)
      /\ o[1] \in Classes
  <2>1. <<o[1], o[2]>> \in Objects[c]
    BY <1>2, <1>3
  <2>2. PICK n : n = Inner(m, mem, <<o[1], o[2]>>)
    OBVIOUS
  <2>3. /\ d.base # NoClass => <<d.base, o[2]>> \in n
        /\ \A i \in DOMAIN d.secondary :
              <<d.secondary[i].class, o[2] + d.secondary[i].offset>> \in n
        /\ \A i \in DOMAIN d.properties :
              /\ PropLies(c, mem, d.properties[i], o[2] + d.properties[i].offset)
              /\ PropObjects(mem, d.properties[i], o[2] + d.properties[i].offset) \subseteq n
        /\ o[1] \in Classes
    BY <2>1, <2>2, ObjectGiven
  <2>4. n = Inner(m, mem, o)
    BY <1>3, <2>2
  <2> QED BY <2>3, <2>4
<1>5. \A t \in Elements(base) : Keyed(t)
  <2>1. d.base # NoClass => Keyed(g[<<d.base, o[2]>>])
    BY <1>4
  <2>2. PICK x : x = g[<<d.base, o[2]>>]
    OBVIOUS
  <2>3. d.base # NoClass => base = <<x>>
    BY <2>2
  <2>4. d.base = NoClass => base = << >>
    OBVIOUS
  <2> HIDE DEF base
  <2> QED BY <2>1, <2>2, <2>3, <2>4, ShortSeq
<1>6. \A t \in Elements(secondary) : Keyed(t)
  <2>1. \A i \in DOMAIN d.secondary : Keyed(inherited(i))
    BY <1>4
  <2> HIDE DEF inherited
  <2> QED BY <2>1 DEF Elements
<1>7. \A t \in Elements(own) : Keyed(t)
  <2>1. ASSUME NEW i \in DOMAIN d.properties
        PROVE  Keyed(Under(d.properties[i].hash, said(i)))
    <3>1. Entries(said(i))
      <4>1. PICK p, at : p = d.properties[i] /\ at = o[2] + d.properties[i].offset
        OBVIOUS
      <4>2. PropLies(c, mem, p, at) /\ \A x \in PropObjects(mem, p, at) : Keyed(g[x])
        BY <1>4, <4>1
      <4>3. Entries(PropSays(g, mem, p, at))
        BY <4>2, PropEntries
      <4> QED BY <4>1, <4>3
    <3>2. d.properties[i].hash \in Nat
      BY <1>4, MetaAssumed DEF MetaAssumption
    <3> HIDE DEF said
    <3> QED BY <3>1, <3>2, UnderKeyed
  <2> HIDE DEF said
  <2> QED BY <2>1 DEF Elements
<1> HIDE DEF base, secondary, own
<1>8. /\ IsASeq(base \o secondary \o own)
      /\ \A t \in Elements(base \o secondary \o own) : Keyed(t)
  <2>1. /\ IsASeq(base \o secondary)
        /\ Elements(base \o secondary) \subseteq Elements(base) \cup Elements(secondary)
    BY <1>1, Joined
  <2>2. PICK s : s = base \o secondary
    OBVIOUS
  <2>3. IsASeq(s \o own) /\ Elements(s \o own) \subseteq Elements(s) \cup Elements(own)
    BY <1>1, <2>1, <2>2, Joined
  <2> QED BY <1>5, <1>6, <1>7, <2>1, <2>2, <2>3
<1> QED BY <1>1, <1>8 DEF Elements

\* What is said of every object is entries under keys.
LEMMA MembersKeyed ==
    ASSUME NEW m \in Metas, NEW mem \in Memories, NEW o \in AllObjects
    PROVE  Keyed(MembersOf(m, mem)[o])
<1>1. PICK g : g = MembersOf(m, mem)
  OBVIOUS
<1> DEFINE Other(x) == ~ Keyed(g[x])
           T == {Nesting[x] : x \in {y \in AllObjects : Other(y)}}
<1> SUFFICES ASSUME Other(o) PROVE FALSE
  BY <1>1
<1>2. T \subseteq Nat /\ Nesting[o] \in T
  BY MemoryAssumed DEF MemoryAssumption
<1>3. PICK n \in T : \A k \in T : n <= k
  <2> HIDE DEF T
  <2> QED BY <1>2, Smallest
<1>4. PICK x \in AllObjects : Other(x) /\ n = Nesting[x]
  BY <1>3
<1>5. \A y \in Inner(m, mem, x) : Keyed(g[y])
  <2> SUFFICES ASSUME NEW y \in Inner(m, mem, x), ~ Keyed(g[y]) PROVE FALSE
    OBVIOUS
  <2>1. y \in AllObjects /\ Nesting[y] < Nesting[x]
    BY ObjectNests
  <2>2. Nesting[x] \in Nat /\ Nesting[y] \in Nat
    BY <2>1, MemoryAssumed DEF MemoryAssumption
  <2>3. Nesting[y] \in T
    BY <2>1
  <2>4. n <= Nesting[y]
    BY <1>3, <2>3
  <2> QED BY <1>4, <2>1, <2>2, <2>4
<1>6. PICK parts : parts = Parts(g, m, mem, x)
  OBVIOUS
<1>7. \A i \in DOMAIN parts : Keyed(parts[i])
  BY <1>5, <1>6, PartsKeyed
<1>8. g[x] = Latest(parts)
  BY <1>1, <1>6, MembersUnfold
<1>9. Keyed(Latest(parts))
  BY <1>7 DEF Latest, Keyed, Entries
<1> QED BY <1>4, <1>8, <1>9

-----------------------------------------------------------------------------
(* What the calls that are left will put in the document. *)

\* What a call says, when an object has what g says of it.
Says(g, mem, t) ==
    CASE t.do = "class" -> g[<<t.class, t.at>>]
      [] t.do = "prop"  -> PropSays(g, mem, t.prop, t.at)
      [] OTHER          -> ItemSays(g, mem, t.type, t.class, t.at)

\* Of the entries of S under path one has leaf l at q.
Holds(S, path, q, l) == \E v \in S : q = path \o v[1] /\ l = v[2]

\* Of the entries of S under path some has a key that q goes on with.
Hides(S, path, q) == \E v \in S : IsPrefix(Append(path, v[1][1]), q)

\* A call will put leaf l at q, before the calls after it.
Gives(g, mem, t, q, l) == Holds(Says(g, mem, t), t.path, q, l)

\* A call will replace what is at q: of an object the members alone.
Touches(g, mem, t, q) ==
    IF t.do = "class" THEN Hides(Says(g, mem, t), t.path, q)
    ELSE Says(g, mem, t) # {} /\ IsPrefix(t.path, q)

\* Some call of s will replace what is at q.
AnyTouches(g, mem, s, q) == \E i \in 1 .. Len(s) : Touches(g, mem, s[i], q)

\* The calls of s will have put leaf l at q.
AllGive(g, mem, s, q, l) ==
    \E i \in 1 .. Len(s) :
        /\ Gives(g, mem, s[i], q, l)
        /\ \A j \in 1 .. Len(s) : j > i => ~ Touches(g, mem, s[j], q)

\* What the calls of t leave of what those of s before them put there.
LEMMA OneAfterTheOther ==
    ASSUME NEW g, NEW mem, NEW s, NEW t, IsASeq(s), IsASeq(t), NEW q, NEW l
    PROVE  /\ AnyTouches(g, mem, s \o t, q)
                 <=> AnyTouches(g, mem, s, q) \/ AnyTouches(g, mem, t, q)
           /\ AllGive(g, mem, s \o t, q, l)
                 <=> \/ AllGive(g, mem, t, q, l)
                     \/ AllGive(g, mem, s, q, l) /\ ~ AnyTouches(g, mem, t, q)
<1> DEFINE n == Len(s)
           k == Len(t)
           T(x) == Touches(g, mem, x, q)
           G(x) == Gives(g, mem, x, q, l)
<1>1. PICK st : st = s \o t
  OBVIOUS
<1>2. /\ n \in Nat /\ k \in Nat /\ Len(st) = n + k
      /\ \A i \in 1 .. n + k : st[i] = IF i <= n THEN s[i] ELSE t[i - n]
  BY <1>1, PlacesOfTwo
<1> HIDE DEF n, k
<1>3. /\ \A i \in 1 .. n : i \in 1 .. n + k /\ st[i] = s[i]
      /\ \A i \in 1 .. k : i + n \in 1 .. n + k /\ i + n > n /\ st[i + n] = t[i]
      /\ \A i \in 1 .. n + k : i > n => i - n \in 1 .. k /\ st[i] = t[i - n]
      /\ \A i \in 1 .. n + k : i <= n => i \in 1 .. n /\ st[i] = s[i]
  <2>1. ASSUME NEW i \in 1 .. k
        PROVE  i + n \in 1 .. n + k /\ i + n > n /\ st[i + n] = t[i]
    <3>1. i + n \in 1 .. n + k /\ ~ (i + n <= n) /\ i + n - n = i
      BY <1>2
    <3> QED BY <1>2, <3>1
  <2> QED BY <1>2, <2>1
<1>4. AnyTouches(g, mem, st, q) <=> AnyTouches(g, mem, s, q) \/ AnyTouches(g, mem, t, q)
  <2>1. /\ AnyTouches(g, mem, st, q) <=> \E i \in 1 .. n + k : T(st[i])
        /\ AnyTouches(g, mem, s, q) <=> \E i \in 1 .. n : T(s[i])
        /\ AnyTouches(g, mem, t, q) <=> \E i \in 1 .. k : T(t[i])
    BY <1>2 DEF AnyTouches, n, k
  <2> HIDE DEF T
  <2>2. ASSUME NEW i \in 1 .. n + k, T(st[i])
        PROVE  (\E j \in 1 .. n : T(s[j])) \/ (\E j \in 1 .. k : T(t[j]))
    <3>1. i <= n \/ i > n
      BY <1>2
    <3> QED BY <1>3, <2>2, <3>1
  <2>3. (\E i \in 1 .. n : T(s[i])) => \E i \in 1 .. n + k : T(st[i])
    BY <1>3
  <2>4. (\E i \in 1 .. k : T(t[i])) => \E i \in 1 .. n + k : T(st[i])
    BY <1>3
  <2> QED BY <2>1, <2>2, <2>3, <2>4
<1>5. AllGive(g, mem, st, q, l)
         <=> \/ AllGive(g, mem, t, q, l)
             \/ AllGive(g, mem, s, q, l) /\ ~ AnyTouches(g, mem, t, q)
  <2>1. /\ AllGive(g, mem, st, q, l) <=>
              \E i \in 1 .. n + k : G(st[i]) /\ \A j \in 1 .. n + k : j > i => ~ T(st[j])
        /\ AllGive(g, mem, s, q, l) <=>
              \E i \in 1 .. n : G(s[i]) /\ \A j \in 1 .. n : j > i => ~ T(s[j])
        /\ AllGive(g, mem, t, q, l) <=>
              \E i \in 1 .. k : G(t[i]) /\ \A j \in 1 .. k : j > i => ~ T(t[j])
        /\ AnyTouches(g, mem, t, q) <=> \E i \in 1 .. k : T(t[i])
    BY <1>2 DEF AnyTouches, AllGive, n, k
  <2> HIDE DEF T, G
  <2>2. ASSUME NEW i \in 1 .. n + k, G(st[i]),
               \A j \in 1 .. n + k : j > i => ~ T(st[j])
        PROVE  \/ \E x \in 1 .. k : G(t[x]) /\ \A j \in 1 .. k : j > x => ~ T(t[j])
               \/ /\ \E x \in 1 .. n : G(s[x]) /\ \A j \in 1 .. n : j > x => ~ T(s[j])
                  /\ ~ \E j \in 1 .. k : T(t[j])
    <3>1. CASE i <= n
      <4>1. \A j \in 1 .. n : j > i => ~ T(s[j])
        BY <1>3, <2>2
      <4>2. \A j \in 1 .. k : j + n > i
        BY <1>2, <3>1
      <4>3. \A j \in 1 .. k : ~ T(t[j])
        BY <1>3, <2>2, <4>2
      <4> QED BY <1>3, <2>2, <3>1, <4>1, <4>3
    <3>2. CASE i > n
      <4>1. i - n \in 1 .. k /\ G(t[i - n])
        BY <1>3, <2>2, <3>2
      <4>2. \A j \in 1 .. k : j > i - n => j + n > i
        BY <1>2
      <4>3. \A j \in 1 .. k : j > i - n => ~ T(t[j])
        BY <1>3, <2>2, <4>2
      <4> QED BY <4>1, <4>3
    <3> QED BY <1>2, <3>1, <3>2
  <2>3. ASSUME NEW x \in 1 .. k, G(t[x]), \A j \in 1 .. k : j > x => ~ T(t[j])
        PROVE  \E i \in 1 .. n + k : G(st[i]) /\ \A j \in 1 .. n + k : j > i => ~ T(st[j])
    <3>1. x + n \in 1 .. n + k /\ G(st[x + n])
      BY <1>3, <2>3
    <3>2. ASSUME NEW j \in 1 .. n + k, j > x + n
          PROVE  ~ T(st[j])
      <4>1. j > n /\ j - n > x
        BY <1>2, <3>2
      <4> QED BY <1>3, <2>3, <4>1
    <3> QED BY <3>1, <3>2
  <2>4. ASSUME NEW x \in 1 .. n, G(s[x]), \A j \in 1 .. n : j > x => ~ T(s[j]),
               ~ \E j \in 1 .. k : T(t[j])
        PROVE  \E i \in 1 .. n + k : G(st[i]) /\ \A j \in 1 .. n + k : j > i => ~ T(st[j])
    <3>1. ASSUME NEW j \in 1 .. n + k, j > x
          PROVE  ~ T(st[j])
      <4>1. CASE j <= n
        BY <1>3, <2>4, <3>1, <4>1
      <4>2. CASE j > n
        BY <1>3, <2>4, <4>2
      <4> QED BY <1>2, <4>1, <4>2
    <3> QED BY <1>3, <2>4, <3>1
  <2> QED BY Zenon, <2>1, <2>2, <2>3, <2>4
<1> QED BY <1>1, <1>4, <1>5

\* No call gives and replaces nothing, and one alone what it does.
LEMMA NoneOrOne ==
    ASSUME NEW g, NEW mem, NEW q, NEW l
    PROVE  /\ ~ AnyTouches(g, mem, << >>, q) /\ ~ AllGive(g, mem, << >>, q, l)
           /\ \A t : /\ AnyTouches(g, mem, <<t>>, q) <=> Touches(g, mem, t, q)
                     /\ AllGive(g, mem, <<t>>, q, l) <=> Gives(g, mem, t, q, l)
<1>1. Len(<< >>) = 0 /\ \A t : Len(<<t>>) = 1 /\ <<t>>[1] = t
  OBVIOUS
<1>2. ~ AnyTouches(g, mem, << >>, q) /\ ~ AllGive(g, mem, << >>, q, l)
  BY <1>1 DEF AnyTouches, AllGive
<1>3. ASSUME NEW t
      PROVE  /\ AnyTouches(g, mem, <<t>>, q) <=> Touches(g, mem, t, q)
             /\ AllGive(g, mem, <<t>>, q, l) <=> Gives(g, mem, t, q, l)
  <2>1. PICK s : s = <<t>>
    OBVIOUS
  <2>2. Len(s) = 1 /\ s[1] = t
    BY <2>1
  <2>3. /\ AnyTouches(g, mem, s, q) <=> Touches(g, mem, t, q)
        /\ AllGive(g, mem, s, q, l) <=> Gives(g, mem, t, q, l)
    BY <2>2 DEF AnyTouches, AllGive
  <2> QED BY <2>1, <2>3
<1> QED BY <1>2, <1>3

\* What each object of the memory has.
Known == MembersOf(meta, memory)

\* The document has leaf l at q.
Has(q, l) == q \in DOMAIN out /\ out[q] = l

\* What the document will have at q when the calls that are left are done.
WillHave(q, l) ==
    \/ AllGive(Known, memory, tasks, q, l)
    \/ Has(q, l) /\ ~ AnyTouches(Known, memory, tasks, q)

\* A call that does, or leaves to others, what it says changes nothing of that.
LEMMA CallReplaced ==
    ASSUME DumpInv, tasks # << >>, NEW more, IsASeq(more),
           tasks' = more \o Tail(tasks), UNCHANGED given, NEW q, NEW l,
           \/ Gives(Known, memory, Task, q, l)
           \/ Has(q, l) /\ ~ Touches(Known, memory, Task, q)
           <=>
           \/ AllGive(Known, memory, more, q, l)
           \/ Has(q, l)' /\ ~ AnyTouches(Known, memory, more, q)
    PROVE  WillHave(q, l)' <=> WillHave(q, l)
<1>1. PICK g, mem : g = Known /\ mem = memory
  OBVIOUS
<1>2. Known' = g /\ memory' = mem
  BY <1>1 DEF given, Known
<1>3. PICK t, rest : t = Task /\ rest = Tail(tasks)
  OBVIOUS
<1>4. PICK first : first = <<t>>
  OBVIOUS
<1>5. IsASeq(rest) /\ IsASeq(first)
  BY <1>3, <1>4, HeadAndTail, ShortSeq DEF DumpInv
<1>6. tasks = first \o rest
  <2>1. tasks \in Seq(Elements(tasks))
    BY DEF DumpInv, IsASeq
  <2>2. tasks = <<Head(tasks)>> \o Tail(tasks)
    BY <2>1
  <2> QED BY <1>3, <1>4, <2>2 DEF Task
<1>7. /\ AnyTouches(g, mem, tasks, q)
            <=> Touches(g, mem, t, q) \/ AnyTouches(g, mem, rest, q)
      /\ AllGive(g, mem, tasks, q, l)
            <=> \/ AllGive(g, mem, rest, q, l)
                \/ Gives(g, mem, t, q, l) /\ ~ AnyTouches(g, mem, rest, q)
  <2>1. /\ AnyTouches(g, mem, first, q) <=> Touches(g, mem, t, q)
        /\ AllGive(g, mem, first, q, l) <=> Gives(g, mem, t, q, l)
    BY <1>4, NoneOrOne
  <2> QED BY <1>5, <1>6, <2>1, OneAfterTheOther
<1>8. tasks' = more \o rest
  BY <1>3
<1>9. /\ AnyTouches(g, mem, tasks', q)
            <=> AnyTouches(g, mem, more, q) \/ AnyTouches(g, mem, rest, q)
      /\ AllGive(g, mem, tasks', q, l)
            <=> \/ AllGive(g, mem, rest, q, l)
                \/ AllGive(g, mem, more, q, l) /\ ~ AnyTouches(g, mem, rest, q)
  <2>1. PICK both : both = more \o rest
    OBVIOUS
  <2>2. /\ AnyTouches(g, mem, both, q)
              <=> AnyTouches(g, mem, more, q) \/ AnyTouches(g, mem, rest, q)
        /\ AllGive(g, mem, both, q, l)
              <=> \/ AllGive(g, mem, rest, q, l)
                  \/ AllGive(g, mem, more, q, l) /\ ~ AnyTouches(g, mem, rest, q)
    BY <1>5, <2>1, OneAfterTheOther
  <2>3. tasks' = both
    BY <1>8, <2>1
  <2> QED BY Zenon, <2>2, <2>3
<1>10. \/ Gives(g, mem, t, q, l)
       \/ Has(q, l) /\ ~ Touches(g, mem, t, q)
       <=>
       \/ AllGive(g, mem, more, q, l)
       \/ Has(q, l)' /\ ~ AnyTouches(g, mem, more, q)
  BY Zenon, <1>1, <1>3
<1>11. WillHave(q, l) <=> \/ AllGive(g, mem, tasks, q, l)
                          \/ Has(q, l) /\ ~ AnyTouches(g, mem, tasks, q)
  BY Zenon, <1>1 DEF WillHave
<1>12. WillHave(q, l)' <=> \/ AllGive(g, mem, tasks', q, l)
                           \/ Has(q, l)' /\ ~ AnyTouches(g, mem, tasks', q)
  BY Zenon, <1>2 DEF WillHave
<1> QED BY Zenon, <1>7, <1>9, <1>10, <1>11, <1>12

\* What the document has after an insertion.
LEMMA PutHas ==
    ASSUME DOMAIN out \subseteq Path, NEW leaf, NEW path \in Path, out' = Put(leaf, path)
    PROVE  /\ DOMAIN out' \subseteq Path
           /\ \A q \in Path : \A l :
                 Has(q, l)' <=> \/ q = path /\ l = leaf
                                \/ Has(q, l) /\ ~ IsPrefix(path, q)
<1>1. DOMAIN out' = {q \in DOMAIN out : ~ IsPrefix(path, q)} \cup {path}
  BY DEF Put
<1>2. \A q \in DOMAIN out' : out'[q] = IF q = path THEN leaf ELSE out[q]
  BY DEF Put
<1>3. IsPrefix(path, path)
  BY PrefixMeans
<1>4. ASSUME NEW q \in Path, NEW l
      PROVE  Has(q, l)' <=> (q = path /\ l = leaf) \/ (Has(q, l) /\ ~ IsPrefix(path, q))
  BY <1>1, <1>2, <1>3 DEF Has
<1> QED BY <1>1, <1>4

\* A call that returns a leaf and makes calls for what it says under that.
LEMMA ReturnReplaced ==
    ASSUME DumpInv, DOMAIN out \subseteq Path, tasks # << >>, Task.path \in Path,
           NEW leaf, NEW more, IsASeq(more), Return(leaf, more), NEW q \in Path, NEW l,
           Gives(Known, memory, Task, q, l)
              <=> (q = Task.path /\ l = leaf) \/ AllGive(Known, memory, more, q, l),
           Touches(Known, memory, Task, q) <=> IsPrefix(Task.path, q),
           AnyTouches(Known, memory, more, q) => IsPrefix(Task.path, q) /\ q # Task.path
    PROVE  WillHave(q, l)' <=> WillHave(q, l)
<1>1. PICK path : path = Task.path
  OBVIOUS
<1>2. /\ tasks' = more \o Tail(tasks) /\ UNCHANGED given
      /\ Has(q, l)' <=> (q = path /\ l = leaf) \/ (Has(q, l) /\ ~ IsPrefix(path, q))
  BY <1>1, PutHas DEF Return
<1>3. IsPrefix(path, path)
  BY <1>1, PrefixMeans
<1>4. \/ Gives(Known, memory, Task, q, l)
      \/ Has(q, l) /\ ~ Touches(Known, memory, Task, q)
      <=>
      \/ AllGive(Known, memory, more, q, l)
      \/ Has(q, l)' /\ ~ AnyTouches(Known, memory, more, q)
  BY Zenon, <1>1, <1>2, <1>3
<1> QED BY <1>2, <1>4, CallReplaced

\* What a call says that has a leaf at its own path.
LEMMA LeafAndMore ==
    ASSUME NEW g, NEW mem, NEW path \in Path, NEW t, t.do # "class", t.path = path,
           NEW leaf, NEW S, Says(g, mem, t) = Alone(leaf) \cup S, NEW q \in Path, NEW l
    PROVE  /\ Touches(g, mem, t, q) <=> IsPrefix(path, q)
           /\ Gives(g, mem, t, q, l) <=> (q = path /\ l = leaf) \/ Holds(S, path, q, l)
<1>1. PICK none : none = << >>
  OBVIOUS
<1>2. Alone(leaf) = {<<none, leaf>>}
  BY <1>1 DEF Alone
<1>3. path \o none = path
  <2>1. << >> \in Path
    BY DEF Path
  <2> QED BY <1>1, <2>1, GoesOn
<1>4. Touches(g, mem, t, q) <=> IsPrefix(path, q)
  <2>1. Touches(g, mem, t, q) <=> Says(g, mem, t) # {} /\ IsPrefix(path, q)
    BY Zenon DEF Touches
  <2>2. <<none, leaf>> \in Says(g, mem, t)
    BY <1>2
  <2> QED BY <2>1, <2>2
<1>5. Gives(g, mem, t, q, l) <=> (q = path /\ l = leaf) \/ Holds(S, path, q, l)
  <2>1. PICK one : one = <<none, leaf>>
    OBVIOUS
  <2>2. one[1] = none /\ one[2] = leaf
    BY <2>1
  <2>3. Gives(g, mem, t, q, l) <=> Holds({one} \cup S, path, q, l)
    BY Zenon, <1>2, <2>1 DEF Gives
  <2>4. Holds({one} \cup S, path, q, l)
           <=> (q = path \o one[1] /\ l = one[2]) \/ Holds(S, path, q, l)
    BY Zenon DEF Holds
  <2> QED BY <1>3, <2>2, <2>3, <2>4
<1> QED BY <1>4, <1>5

\* The call of an object at a path says what the object has under it.
LEMMA ObjectSays ==
    ASSUME NEW g, NEW mem, NEW class, NEW at, NEW path \in Path, NEW S,
           S = g[<<class, at>>], Keyed(S), NEW t, t = ClassTask(class, at, path),
           NEW q \in Path, NEW l
    PROVE  /\ Touches(g, mem, t, q) <=> Hides(S, path, q)
           /\ Touches(g, mem, t, q) => IsPrefix(path, q) /\ q # path
           /\ Gives(g, mem, t, q, l) <=> Holds(S, path, q, l)
<1>1. t.do = "class" /\ t.class = class /\ t.at = at /\ t.path = path
  BY DEF ClassTask
<1>2. Says(g, mem, t) = S
  BY <1>1 DEF Says
<1>3. /\ Touches(g, mem, t, q) <=> Hides(S, path, q)
      /\ Gives(g, mem, t, q, l) <=> Holds(S, path, q, l)
  BY <1>1, <1>2 DEF Touches, Gives
<1>4. ASSUME Touches(g, mem, t, q)
      PROVE  IsPrefix(path, q) /\ q # path
  <2>1. PICK v \in S : IsPrefix(Append(path, v[1][1]), q)
    BY <1>3, <1>4 DEF Hides
  <2>2. PICK k : k = v[1][1]
    OBVIOUS
  <2>3. k \in Nat /\ IsPrefix(Append(path, k), q)
    BY <2>1, <2>2 DEF Keyed
  <2>4. Len(path) \in Nat /\ IsPrefix(path, q) /\ Len(q) > Len(path)
    BY <2>3, OneFurther
  <2> QED BY <2>4
<1> QED BY <1>3, <1>4

\* Of the objects of the instance alive it is known what is said.
LEMMA LiveKeyed == ASSUME DumpInv, live \in Classes, NEW o \in Objects[live]
                   PROVE  Keyed(Known[o])
BY MembersKeyed DEF DumpInv, AllObjects, Known

\* A call that returns a leaf and makes no other.
LEMMA ReturnAlone ==
    ASSUME DumpInv, DOMAIN out \subseteq Path, tasks # << >>, Task.path \in Path,
           Task.do # "class", NEW leaf, Says(Known, memory, Task) = Alone(leaf),
           Return(leaf, << >>), NEW q \in Path, NEW l
    PROVE  WillHave(q, l)' <=> WillHave(q, l)
<1>1. PICK path \in Path : Task.path = path
  OBVIOUS
<1>2. Says(Known, memory, Task) = Alone(leaf) \cup {}
  OBVIOUS
<1>3. PICK g, mem, t : g = Known /\ mem = memory /\ t = Task
  OBVIOUS
<1>4. /\ Touches(g, mem, t, q) <=> IsPrefix(path, q)
      /\ Gives(g, mem, t, q, l) <=> q = path /\ l = leaf
  <2>1. t.do # "class" /\ t.path = path /\ Says(g, mem, t) = Alone(leaf) \cup {}
    BY <1>1, <1>2, <1>3
  <2>2. ~ Holds({}, path, q, l)
    BY DEF Holds
  <2>3. Says(g, mem, t) = Alone(leaf) \cup {}
    BY <2>1
  <2>4. Touches(g, mem, t, q) <=> IsPrefix(path, q)
    BY Zenon, <2>1, <2>3, LeafAndMore
  <2>5. Gives(g, mem, t, q, l) <=> (q = path /\ l = leaf) \/ Holds({}, path, q, l)
    BY SMT, <2>1, <2>3, LeafAndMore
  <2> QED BY Zenon, <2>2, <2>4, <2>5
<1>5. PICK more : more = << >>
  OBVIOUS
<1>6. /\ ~ AnyTouches(g, mem, more, q) /\ ~ AllGive(g, mem, more, q, l)
      /\ IsASeq(more) /\ Return(leaf, more)
  BY <1>5, NoneOrOne, ShortSeq
<1> QED BY <1>1, <1>3, <1>4, <1>6, ReturnReplaced

\* A call that returns an object and makes the call for its properties.
LEMMA ReturnObject ==
    ASSUME DumpInv, DOMAIN out \subseteq Path, tasks # << >>, Task.path \in Path,
           Task.do # "class", NEW class, NEW at, NEW leaf, Keyed(Known[<<class, at>>]),
           Says(Known, memory, Task) = Alone(leaf) \cup Known[<<class, at>>],
           Return(leaf, <<ClassTask(class, at, Task.path)>>), NEW q \in Path, NEW l
    PROVE  WillHave(q, l)' <=> WillHave(q, l)
<1>1. PICK path \in Path : Task.path = path
  OBVIOUS
<1>2. PICK g, mem, t : g = Known /\ mem = memory /\ t = Task
  OBVIOUS
<1>3. PICK S : S = g[<<class, at>>]
  OBVIOUS
<1>4. S = g[<<class, at>>] /\ Keyed(S) /\ Says(g, mem, t) = Alone(leaf) \cup S
  BY <1>2, <1>3
<1>5. /\ Touches(g, mem, t, q) <=> IsPrefix(path, q)
      /\ Gives(g, mem, t, q, l) <=> (q = path /\ l = leaf) \/ Holds(S, path, q, l)
  <2>1. t.do # "class" /\ t.path = path
    BY <1>1, <1>2
  <2>2. Says(g, mem, t) = Alone(leaf) \cup S
    BY <1>4
  <2>3. Touches(g, mem, t, q) <=> IsPrefix(path, q)
    BY Zenon, <2>1, <2>2, LeafAndMore
  <2>4. Gives(g, mem, t, q, l) <=> (q = path /\ l = leaf) \/ Holds(S, path, q, l)
    BY SMT, <2>1, <2>2, LeafAndMore
  <2> QED BY <2>3, <2>4
<1>6. PICK task : task = ClassTask(class, at, path)
  OBVIOUS
<1>7. /\ Touches(g, mem, task, q) => IsPrefix(path, q) /\ q # path
      /\ Gives(g, mem, task, q, l) <=> Holds(S, path, q, l)
  BY <1>4, <1>6, ObjectSays
<1>8. PICK more : more = <<task>>
  OBVIOUS
<1>9. /\ AnyTouches(g, mem, more, q) <=> Touches(g, mem, task, q)
      /\ AllGive(g, mem, more, q, l) <=> Gives(g, mem, task, q, l)
      /\ IsASeq(more) /\ Return(leaf, more)
  BY <1>1, <1>6, <1>8, NoneOrOne, ShortSeq
<1>10. Gives(g, mem, t, q, l) <=> (q = path /\ l = leaf) \/ AllGive(g, mem, more, q, l)
  BY Zenon, <1>5, <1>7, <1>9
<1>11. AnyTouches(g, mem, more, q) => IsPrefix(path, q) /\ q # path
  BY Zenon, <1>7, <1>9
<1> QED BY <1>1, <1>2, <1>5, <1>9, <1>10, <1>11, ReturnReplaced

\* A call that leaves what it says to another.
LEMMA BecomeOther ==
    ASSUME DumpInv, tasks # << >>, NEW task, Become(task), Task.do # "class",
           task.do # "class", task.path = Task.path,
           Says(Known, memory, task) = Says(Known, memory, Task), NEW q, NEW l
    PROVE  WillHave(q, l)' <=> WillHave(q, l)
<1>1. PICK g, mem, t : g = Known /\ mem = memory /\ t = Task
  OBVIOUS
<1>2. Touches(g, mem, task, q) <=> Touches(g, mem, t, q)
  BY <1>1, Zenon DEF Touches
<1>3. Gives(g, mem, task, q, l) <=> Gives(g, mem, t, q, l)
  BY <1>1, Zenon DEF Gives
<1>4. PICK more : more = <<task>>
  OBVIOUS
<1>5. /\ AnyTouches(g, mem, more, q) <=> Touches(g, mem, task, q)
      /\ AllGive(g, mem, more, q, l) <=> Gives(g, mem, task, q, l)
      /\ IsASeq(more)
  BY <1>4, NoneOrOne, ShortSeq
<1>6. tasks' = more \o Tail(tasks) /\ UNCHANGED given /\ (Has(q, l)' <=> Has(q, l))
  BY <1>4 DEF Become, Has
<1>7. \/ Gives(Known, memory, Task, q, l)
      \/ Has(q, l) /\ ~ Touches(Known, memory, Task, q)
      <=>
      \/ AllGive(Known, memory, more, q, l)
      \/ Has(q, l)' /\ ~ AnyTouches(Known, memory, more, q)
  BY Zenon, <1>1, <1>2, <1>3, <1>5, <1>6
<1> QED BY <1>5, <1>6, <1>7, CallReplaced

\* Entries under a key, and the same ones at a path that goes on by it.
LEMMA UnderHolds ==
    ASSUME NEW path \in Path, NEW k \in Nat, NEW S, Entries(S), NEW q \in Path, NEW l
    PROVE  /\ Holds(Under(k, S), path, q, l) <=> Holds(S, Append(path, k), q, l)
           /\ Hides(Under(k, S), path, q) <=> S # {} /\ IsPrefix(Append(path, k), q)
<1>1. ASSUME NEW w \in S
      PROVE  path \o (<<k>> \o w[1]) = Append(path, k) \o w[1]
  <2>1. PICK x \in Path : x = w[1]
    BY DEF Entries
  <2>2. Append(path, k) \o x = path \o (<<k>> \o x)
    BY KeyFirst
  <2> QED BY Zenon, <2>1, <2>2
<1>2. Holds(Under(k, S), path, q, l) => Holds(S, Append(path, k), q, l)
  <2> SUFFICES ASSUME Holds(Under(k, S), path, q, l) PROVE Holds(S, Append(path, k), q, l)
    OBVIOUS
  <2>1. PICK v \in Under(k, S) : q = path \o v[1] /\ l = v[2]
    BY Zenon DEF Holds
  <2>2. PICK w \in S : v = <<<<k>> \o w[1], w[2]>>
    BY Zenon DEF Under
  <2>3. v[1] = <<k>> \o w[1] /\ v[2] = w[2]
    BY <2>2
  <2>4. q = Append(path, k) \o w[1] /\ l = w[2]
    BY Zenon, <1>1, <2>1, <2>3
  <2> QED BY Zenon, <2>4 DEF Holds
<1>3. Holds(S, Append(path, k), q, l) => Holds(Under(k, S), path, q, l)
  <2> SUFFICES ASSUME Holds(S, Append(path, k), q, l) PROVE Holds(Under(k, S), path, q, l)
    OBVIOUS
  <2>1. PICK w \in S : q = Append(path, k) \o w[1] /\ l = w[2]
    BY Zenon DEF Holds
  <2>2. PICK v : v = <<<<k>> \o w[1], w[2]>>
    OBVIOUS
  <2>3. v \in Under(k, S) /\ v[1] = <<k>> \o w[1] /\ v[2] = w[2]
    BY <2>2 DEF Under
  <2>4. q = path \o v[1] /\ l = v[2]
    BY Zenon, <1>1, <2>1, <2>3
  <2> QED BY Zenon, <2>3, <2>4 DEF Holds
<1>4. Hides(Under(k, S), path, q) <=> S # {} /\ IsPrefix(Append(path, k), q)
  <2>1. \A v \in Under(k, S) : v[1][1] = k
    BY UnderKeyed
  <2>2. Hides(Under(k, S), path, q) <=> Under(k, S) # {} /\ IsPrefix(Append(path, k), q)
    BY <2>1 DEF Hides
  <2>3. Under(k, S) # {} <=> S # {}
    BY DEF Under
  <2> QED BY <2>2, <2>3
<1> QED BY <1>2, <1>3, <1>4

\* What is hidden by entries under keys.
LEMMA KeyedHides ==
    ASSUME NEW S, Keyed(S), NEW path \in Path, NEW q \in Path
    PROVE  Hides(S, path, q) <=> /\ IsPrefix(path, q) /\ Len(q) > Len(path)
                                 /\ q[Len(path) + 1] \in Keys(S)
<1>1. ASSUME NEW v \in S
      PROVE  IsPrefix(Append(path, v[1][1]), q)
                <=> IsPrefix(path, q) /\ Len(q) > Len(path) /\ q[Len(path) + 1] = v[1][1]
  <2>1. PICK k \in Nat : k = v[1][1]
    BY DEF Keyed
  <2> QED BY <2>1, OneFurther
<1> QED BY <1>1 DEF Hides, Keys

\* A path goes on from another with the key of its entry.
LEMMA EntryOn ==
    ASSUME NEW S, Keyed(S), NEW path \in Path, NEW v \in S, NEW q, q = path \o v[1]
    PROVE  /\ q \in Path /\ IsPrefix(path, q) /\ Len(q) > Len(path)
           /\ q[Len(path) + 1] = v[1][1]
<1>1. PICK w \in Path : w = v[1]
  BY DEF Keyed, Entries
<1>2. w # << >> /\ q = path \o w
  BY <1>1 DEF Keyed
<1>3. /\ path \o w \in Path /\ IsPrefix(path, path \o w) /\ Len(path \o w) > Len(path)
      /\ (path \o w)[Len(path) + 1] = w[1]
  BY <1>2, GoesOn
<1> QED BY Zenon, <1>1, <1>2, <1>3

\* A call says what a part of an object at path does.
SaysPart(g, mem, t, path, part, q, l) ==
    /\ Keyed(part)
    /\ Touches(g, mem, t, q) <=> Hides(part, path, q)
    /\ Gives(g, mem, t, q, l) <=> Holds(part, path, q, l)

\* Calls say, one by one, what parts do.
AllSay(g, mem, s, path, parts, q, l) ==
    /\ IsASeq(s) /\ IsASeq(parts) /\ Len(s) = Len(parts)
    /\ \A i \in 1 .. Len(parts) : SaysPart(g, mem, s[i], path, parts[i], q, l)

\* What the parts of an object say one after the other is what it has: the calls
\* for the parts, in their order, say the same as the call for the object.
LEMMA PartsSay ==
    ASSUME NEW g, NEW mem, NEW path \in Path, NEW q \in Path, NEW l,
           NEW more, NEW parts, AllSay(g, mem, more, path, parts, q, l)
    PROVE  /\ AnyTouches(g, mem, more, q) <=> Hides(Latest(parts), path, q)
           /\ AllGive(g, mem, more, q, l) <=> Holds(Latest(parts), path, q, l)
<1>1. PICK n \in Nat : n = Len(parts) /\ DOMAIN parts = 1 .. n /\ n = Len(more)
  BY DEF AllSay, IsASeq
<1>2. PICK S : S = Latest(parts)
  OBVIOUS
<1>3. /\ \A v \in S : \E i \in 1 .. n :
            v \in parts[i] /\ \A j \in 1 .. n : j > i => v[1][1] \notin Keys(parts[j])
      /\ \A i \in 1 .. n : \A v \in parts[i] :
            (\A j \in 1 .. n : j > i => v[1][1] \notin Keys(parts[j])) => v \in S
  BY <1>1, <1>2 DEF Latest
<1>4. \A i \in 1 .. n : /\ Keyed(parts[i])
                        /\ Touches(g, mem, more[i], q) <=> Hides(parts[i], path, q)
                        /\ Gives(g, mem, more[i], q, l) <=> Holds(parts[i], path, q, l)
  BY <1>1 DEF AllSay, SaysPart
<1>5. PICK key : key = q[Len(path) + 1]
  OBVIOUS
<1>6. ASSUME NEW i \in 1 .. n
      PROVE  /\ Hides(parts[i], path, q)
                   <=> IsPrefix(path, q) /\ Len(q) > Len(path) /\ key \in Keys(parts[i])
             /\ \A v \in parts[i] : q = path \o v[1] =>
                   IsPrefix(path, q) /\ Len(q) > Len(path) /\ key = v[1][1]
  <2>1. Keyed(parts[i])
    BY <1>4
  <2>2. Hides(parts[i], path, q)
           <=> IsPrefix(path, q) /\ Len(q) > Len(path) /\ key \in Keys(parts[i])
    BY <1>5, <2>1, KeyedHides
  <2>3. ASSUME NEW v \in parts[i], q = path \o v[1]
        PROVE  IsPrefix(path, q) /\ Len(q) > Len(path) /\ key = v[1][1]
    <3>1. IsPrefix(path, q) /\ Len(q) > Len(path) /\ q[Len(path) + 1] = v[1][1]
      BY Zenon, <2>1, <2>3, EntryOn
    <3> QED BY <1>5, <3>1
  <2> QED BY <2>2, <2>3
<1>7. Hides(S, path, q) => AnyTouches(g, mem, more, q)
  <2> SUFFICES ASSUME Hides(S, path, q) PROVE \E i \in 1 .. n : Hides(parts[i], path, q)
    BY <1>1, <1>4 DEF AnyTouches
  <2>1. PICK v \in S : IsPrefix(Append(path, v[1][1]), q)
    BY Zenon DEF Hides
  <2>2. PICK i \in 1 .. n : v \in parts[i]
    BY <1>3
  <2> QED BY Zenon, <2>1, <2>2 DEF Hides
<1>8. AnyTouches(g, mem, more, q) => Hides(S, path, q)
  <2> SUFFICES ASSUME NEW h \in 1 .. n, Hides(parts[h], path, q) PROVE Hides(S, path, q)
    BY <1>1, <1>4 DEF AnyTouches
  <2> DEFINE T == {x \in Nat : \E i \in 1 .. n : x = n - i /\ Hides(parts[i], path, q)}
  <2>1. n - h \in T
    BY <1>1
  <2>2. PICK x \in T : \A y \in T : x <= y
    <3>1. T \subseteq Nat /\ T # {}
      BY <2>1
    <3> HIDE DEF T
    <3> QED BY <3>1, Smallest
  <2>3. PICK i \in 1 .. n : x = n - i /\ Hides(parts[i], path, q)
    BY <2>2
  <2>4. ASSUME NEW j \in 1 .. n, j > i
        PROVE  ~ Hides(parts[j], path, q)
    <3> SUFFICES ASSUME Hides(parts[j], path, q) PROVE FALSE
      OBVIOUS
    <3>1. n - j \in T
      <4>1. n - j \in Nat /\ n - j = n - j /\ Hides(parts[j], path, q)
        BY <1>1
      <4> QED BY Zenon, <4>1
    <3>2. x <= n - j
      BY <2>2, <3>1
    <3> QED BY <1>1, <2>3, <2>4, <3>2
  <2>5. IsPrefix(path, q) /\ Len(q) > Len(path) /\ key \in Keys(parts[i])
    BY <1>6, <2>3
  <2>6. PICK v \in parts[i] : v[1][1] = key
    BY <2>5 DEF Keys
  <2>7. v \in S
    BY <1>3, <1>6, <2>4, <2>5, <2>6
  <2>8. Keyed(S) /\ key \in Keys(S)
    <3>1. Keyed(S)
      BY <1>3, <1>4 DEF Keyed, Entries
    <3> QED BY <2>6, <2>7, <3>1 DEF Keys
  <2> QED BY <1>5, <2>5, <2>8, KeyedHides
<1>9. AllGive(g, mem, more, q, l) => Holds(S, path, q, l)
  <2> SUFFICES ASSUME NEW i \in 1 .. n, Holds(parts[i], path, q, l),
                      \A j \in 1 .. n : j > i => ~ Hides(parts[j], path, q)
               PROVE  Holds(S, path, q, l)
    BY <1>1, <1>4 DEF AllGive
  <2>1. PICK v \in parts[i] : q = path \o v[1] /\ l = v[2]
    BY Zenon DEF Holds
  <2>2. IsPrefix(path, q) /\ Len(q) > Len(path) /\ key = v[1][1]
    BY Zenon, <1>6, <2>1
  <2>3. v \in S
    BY <1>3, <1>6, <2>2
  <2> QED BY Zenon, <2>1, <2>3 DEF Holds
<1>10. Holds(S, path, q, l) => AllGive(g, mem, more, q, l)
  <2> SUFFICES ASSUME Holds(S, path, q, l)
               PROVE  \E i \in 1 .. n : /\ Holds(parts[i], path, q, l)
                                        /\ \A j \in 1 .. n : j > i => ~ Hides(parts[j], path, q)
    BY <1>1, <1>4 DEF AllGive
  <2>1. PICK v \in S : q = path \o v[1] /\ l = v[2]
    BY Zenon DEF Holds
  <2>2. PICK i \in 1 .. n :
           v \in parts[i] /\ \A j \in 1 .. n : j > i => v[1][1] \notin Keys(parts[j])
    BY <1>3
  <2>3. key = v[1][1]
    BY Zenon, <1>6, <2>1, <2>2
  <2>4. \A j \in 1 .. n : j > i => ~ Hides(parts[j], path, q)
    BY <1>6, <2>2, <2>3
  <2>5. Holds(parts[i], path, q, l)
    BY Zenon, <2>1, <2>2 DEF Holds
  <2> QED BY <2>4, <2>5
<1> QED BY <1>2, <1>7, <1>8, <1>9, <1>10

\* The call for a base says what the base has.
LEMMA BaseSays ==
    ASSUME NEW g, NEW mem, NEW class, NEW at, NEW path \in Path, Keyed(g[<<class, at>>]),
           NEW q \in Path, NEW l
    PROVE  SaysPart(g, mem, ClassTask(class, at, path), path, g[<<class, at>>], q, l)
<1>1. PICK S, t : S = g[<<class, at>>] /\ t = ClassTask(class, at, path)
  OBVIOUS
<1>2. Keyed(S)
  BY <1>1
<1>3. /\ Touches(g, mem, t, q) <=> Hides(S, path, q)
      /\ Gives(g, mem, t, q, l) <=> Holds(S, path, q, l)
  BY <1>1, <1>2, ObjectSays
<1> QED BY Zenon, <1>1, <1>2, <1>3 DEF SaysPart

\* The call for a property says what the property does, under the property's hash.
LEMMA OwnSays ==
    ASSUME NEW g, NEW mem, NEW p, NEW at, NEW path \in Path, NEW k \in Nat,
           Entries(PropSays(g, mem, p, at)), NEW q \in Path, NEW l
    PROVE  SaysPart(g, mem, PropTask(p, at, Append(path, k)), path,
                    Under(k, PropSays(g, mem, p, at)), q, l)
<1>1. PICK S, t : S = PropSays(g, mem, p, at) /\ t = PropTask(p, at, Append(path, k))
  OBVIOUS
<1>2. Entries(S)
  BY <1>1
<1>3. t.do = "prop" /\ t.prop = p /\ t.at = at /\ t.path = Append(path, k)
  BY <1>1 DEF PropTask
<1>4. Says(g, mem, t) = S
  BY <1>1, <1>3, Zenon DEF Says
<1>5. Touches(g, mem, t, q) <=> S # {} /\ IsPrefix(Append(path, k), q)
  BY <1>3, <1>4, Zenon DEF Touches
<1>6. Gives(g, mem, t, q, l) <=> Holds(S, Append(path, k), q, l)
  BY <1>3, <1>4, Zenon DEF Gives
<1>7. /\ Holds(Under(k, S), path, q, l) <=> Holds(S, Append(path, k), q, l)
      /\ Hides(Under(k, S), path, q) <=> S # {} /\ IsPrefix(Append(path, k), q)
  BY <1>2, UnderHolds
<1>8. Keyed(Under(k, S))
  BY <1>2, UnderKeyed
<1> QED BY Zenon, <1>1, <1>5, <1>6, <1>7, <1>8 DEF SaysPart

\* Calls and parts correspond in three lists that are put together.
LEMMA ThreeSay ==
    ASSUME NEW g, NEW mem, NEW path, NEW q, NEW l,
           NEW a, NEW b, NEW c, NEW x, NEW y, NEW z,
           AllSay(g, mem, a, path, x, q, l), AllSay(g, mem, b, path, y, q, l),
           AllSay(g, mem, c, path, z, q, l)
    PROVE  AllSay(g, mem, a \o b \o c, path, x \o y \o z, q, l)
<1> USE DEF AllSay
<1>1. PICK calls, parts : calls = a \o b \o c /\ parts = x \o y \o z
  OBVIOUS
<1>2. Joins(calls, a, b, c) /\ Joins(parts, x, y, z)
  BY Zenon, <1>1, PlacesOfThree
<1>3. PICK n, k, j : n = Len(x) /\ k = Len(y) /\ j = Len(z)
  OBVIOUS
<1>4. /\ n \in Nat /\ k \in Nat /\ j \in Nat /\ IsASeq(parts) /\ Len(parts) = n + k + j
      /\ \A i \in 1 .. n + k + j : parts[i] = IF i <= n THEN x[i]
                                              ELSE IF i <= n + k THEN y[i - n]
                                              ELSE z[i - (n + k)]
  BY Zenon, <1>3, <1>2 DEF Joins
<1>5. /\ IsASeq(calls) /\ Len(calls) = n + k + j
      /\ \A i \in 1 .. n + k + j : calls[i] = IF i <= n THEN a[i]
                                              ELSE IF i <= n + k THEN b[i - n]
                                              ELSE c[i - (n + k)]
  BY Zenon, <1>3, <1>2 DEF Joins
<1>6. ASSUME NEW i \in 1 .. n + k + j
      PROVE  SaysPart(g, mem, calls[i], path, parts[i], q, l)
  <2>1. CASE i <= n
    BY <1>3, <1>4, <1>5, <2>1
  <2>2. CASE i > n /\ i <= n + k
    <3>1. i - n \in 1 .. k /\ calls[i] = b[i - n] /\ parts[i] = y[i - n]
      BY <1>4, <1>5, <2>2
    <3> QED BY <1>3, <3>1
  <2>3. CASE i > n + k
    <3>1. i - (n + k) \in 1 .. j /\ calls[i] = c[i - (n + k)] /\ parts[i] = z[i - (n + k)]
      BY <1>4, <1>5, <2>3
    <3> QED BY <1>3, <3>1
  <2> QED BY <1>4, <2>1, <2>2, <2>3
<1>7. AllSay(g, mem, calls, path, parts, q, l)
  BY <1>4, <1>5, <1>6
<1> QED BY Zenon, <1>1, <1>7

-----------------------------------------------------------------------------
(* Each call puts in the document what it says. *)

\* The call for an object makes those for its parts.
LEMMA PropertiesSaid ==
    ASSUME DumpInv, DumpProperties, Task.path \in Path, NEW q \in Path, NEW l
    PROVE  WillHave(q, l)' <=> WillHave(q, l)
<1>1. /\ Right(Task) /\ Task.do = "class" /\ phase = "dumping" /\ tasks # << >>
      /\ live \in Classes /\ meta \in Metas /\ memory \in Memories
  BY NextCall DEF DumpProperties
<1>2. PICK o, path : o = <<Task.class, Task.at>> /\ path = Task.path
  OBVIOUS
<1>3. o[1] = Task.class /\ o[2] = Task.at /\ path \in Path
  BY <1>2
<1>4. o = <<o[1], o[2]>>
  BY <1>2, <1>3
<1>5. o \in Objects[live] /\ o \in AllObjects /\ o[1] \in Classes
  <2>1. o \in Objects[live] /\ Task.class \in Classes
    BY <1>1, <1>2, ObjectGiven DEF Right
  <2> QED BY <1>1, <1>3, <2>1 DEF AllObjects
<1> DEFINE m == meta[o[1]]
           base == IF m.base = NoClass THEN <<>> ELSE <<ClassTask(m.base, o[2], path)>>
           inherited(i) == ClassTask(m.secondary[i].class, o[2] + m.secondary[i].offset, path)
           secondary == [i \in DOMAIN m.secondary |-> inherited(i)]
           prop(i) == PropTask(m.properties[i], o[2] + m.properties[i].offset,
                               Append(path, m.properties[i].hash))
           own == [i \in DOMAIN m.properties |-> prop(i)]
           base2 == IF m.base = NoClass THEN <<>> ELSE <<Known[<<m.base, o[2]>>]>>
           inherited2(i) == Known[<<m.secondary[i].class, o[2] + m.secondary[i].offset>>]
           secondary2 == [i \in DOMAIN m.secondary |-> inherited2(i)]
           said(i) == PropSays(Known, memory, m.properties[i], o[2] + m.properties[i].offset)
           own2 == [i \in DOMAIN m.properties |-> Under(m.properties[i].hash, said(i))]
<1>6. tasks' = base \o secondary \o own \o Tail(tasks) /\ UNCHANGED <<given, out>>
  BY <1>2, <1>3, Zenon DEF DumpProperties
<1>7. /\ Parts(Known, meta, memory, o) = base2 \o secondary2 \o own2
      /\ IsASeq(base2) /\ IsASeq(secondary2) /\ IsASeq(own2)
      /\ Len(secondary2) = Len(m.secondary) /\ Len(own2) = Len(m.properties)
      /\ DOMAIN m.secondary = 1 .. Len(m.secondary)
      /\ DOMAIN m.properties = 1 .. Len(m.properties)
      /\ Len(m.secondary) \in Nat /\ Len(m.properties) \in Nat
  BY Zenon, <1>1, <1>5, PartsAre
<1>8. /\ m.base # NoClass => <<m.base, o[2]>> \in Objects[live]
      /\ \A i \in DOMAIN m.secondary :
            <<m.secondary[i].class, o[2] + m.secondary[i].offset>> \in Objects[live]
      /\ \A i \in DOMAIN m.properties :
            /\ PropLies(live, memory, m.properties[i], o[2] + m.properties[i].offset)
            /\ PropObjects(memory, m.properties[i], o[2] + m.properties[i].offset)
                  \subseteq Objects[live]
            /\ m.properties[i].hash \in Nat
  <2>1. \A i \in DOMAIN m.properties : m.properties[i].hash \in Nat
    BY <1>1, <1>5, MetaAssumed DEF MetaAssumption
  <2>2. <<o[1], o[2]>> \in Objects[live]
    BY <1>4, <1>5
  <2>3. /\ m.base # NoClass => <<m.base, o[2]>> \in Objects[live]
        /\ \A i \in DOMAIN m.secondary :
              <<m.secondary[i].class, o[2] + m.secondary[i].offset>> \in Objects[live]
        /\ \A i \in DOMAIN m.properties :
              LET p == m.properties[i]
              IN  /\ PropLies(live, memory, p, o[2] + p.offset)
                  /\ PropObjects(memory, p, o[2] + p.offset) \subseteq Objects[live]
    BY <1>1, <2>2, ObjectGiven
  <2> QED BY <2>1, <2>3
<1>9. \A x \in Objects[live] : Keyed(Known[x])
  BY <1>1, LiveKeyed
<1>10. /\ IsASeq(base) /\ Len(base) = Len(base2)
       /\ \A i \in 1 .. Len(base2) : SaysPart(Known, memory, base[i], path, base2[i], q, l)
  <2>1. CASE m.base = NoClass
    BY <2>1, ShortSeq
  <2>2. CASE m.base # NoClass
    <3>1. PICK t, S : t = ClassTask(m.base, o[2], path) /\ S = Known[<<m.base, o[2]>>]
      OBVIOUS
    <3>2. SaysPart(Known, memory, t, path, S, q, l)
      BY Zenon, <1>3, <1>8, <1>9, <2>2, <3>1, BaseSays
    <3>3. base = <<t>> /\ base2 = <<S>>
      BY <2>2, <3>1
    <3> HIDE DEF base, base2
    <3> QED BY <3>2, <3>3, ShortSeq
  <2> QED BY <2>1, <2>2
<1>11. /\ IsASeq(secondary) /\ Len(secondary) = Len(secondary2)
       /\ \A i \in 1 .. Len(secondary2) :
             SaysPart(Known, memory, secondary[i], path, secondary2[i], q, l)
  <2>1. IsASeq(secondary)
    <3> HIDE DEF inherited, m
    <3> QED BY <1>7, IndexedSeq
  <2>2. ASSUME NEW i \in DOMAIN m.secondary
        PROVE  SaysPart(Known, memory, inherited(i), path, inherited2(i), q, l)
    <3>1. PICK c, to : c = m.secondary[i].class /\ to = o[2] + m.secondary[i].offset
      OBVIOUS
    <3>2. Keyed(Known[<<c, to>>])
      BY <1>8, <1>9, <3>1
    <3>3. SaysPart(Known, memory, ClassTask(c, to, path), path, Known[<<c, to>>], q, l)
      BY Zenon, <1>3, <3>2, BaseSays
    <3> QED BY Zenon, <3>1, <3>3
  <2> HIDE DEF inherited, inherited2, m
  <2>3. Len(secondary) = Len(m.secondary)
    BY <1>7, <2>1
  <2>4. \A i \in DOMAIN m.secondary :
           secondary[i] = inherited(i) /\ secondary2[i] = inherited2(i)
    OBVIOUS
  <2> HIDE DEF secondary, secondary2
  <2> QED BY <1>7, <2>1, <2>2, <2>3, <2>4
<1>12. /\ IsASeq(own) /\ Len(own) = Len(own2)
       /\ \A i \in 1 .. Len(own2) : SaysPart(Known, memory, own[i], path, own2[i], q, l)
  <2>1. IsASeq(own)
    <3> HIDE DEF prop, m
    <3> QED BY <1>7, IndexedSeq
  <2>2. ASSUME NEW i \in DOMAIN m.properties
        PROVE  SaysPart(Known, memory, prop(i), path, Under(m.properties[i].hash, said(i)), q, l)
    <3>1. PICK p, to, k : /\ p = m.properties[i] /\ to = o[2] + m.properties[i].offset
                          /\ k = m.properties[i].hash
      OBVIOUS
    <3>2. /\ PropLies(live, memory, p, to) /\ k \in Nat
          /\ \A x \in PropObjects(memory, p, to) : Keyed(Known[x])
      BY <1>8, <1>9, <3>1
    <3>3. Entries(PropSays(Known, memory, p, to))
      BY <3>2, PropEntries
    <3>4. SaysPart(Known, memory, PropTask(p, to, Append(path, k)), path,
                   Under(k, PropSays(Known, memory, p, to)), q, l)
      BY Zenon, <1>3, <3>2, <3>3, OwnSays
    <3> QED BY Zenon, <3>1, <3>4
  <2> HIDE DEF prop, said, m
  <2>3. Len(own) = Len(m.properties)
    BY <1>7, <2>1
  <2>4. \A i \in DOMAIN m.properties :
           own[i] = prop(i) /\ own2[i] = Under(m.properties[i].hash, said(i))
    OBVIOUS
  <2> HIDE DEF own, own2
  <2> QED BY <1>7, <2>1, <2>2, <2>3, <2>4
<1> HIDE DEF base, secondary, own, base2, secondary2, own2, m
<1>13. PICK more, parts : more = base \o secondary \o own /\ parts = base2 \o secondary2 \o own2
  OBVIOUS
<1>14. AllSay(Known, memory, more, path, parts, q, l)
  <2>1. /\ AllSay(Known, memory, base, path, base2, q, l)
        /\ AllSay(Known, memory, secondary, path, secondary2, q, l)
        /\ AllSay(Known, memory, own, path, own2, q, l)
    BY Zenon, <1>7, <1>10, <1>11, <1>12 DEF AllSay
  <2>2. AllSay(Known, memory, base \o secondary \o own, path,
               base2 \o secondary2 \o own2, q, l)
    BY <2>1, ThreeSay
  <2> QED BY Zenon, <1>13, <2>2
<1>15. /\ AnyTouches(Known, memory, more, q) <=> Hides(Latest(parts), path, q)
       /\ AllGive(Known, memory, more, q, l) <=> Holds(Latest(parts), path, q, l)
  BY <1>3, <1>14, PartsSay
<1>16. Known[o] = Latest(parts)
  <2>1. Parts(Known, meta, memory, o) = parts
    BY <1>7, <1>13
  <2>2. Known[o] = Latest(Parts(Known, meta, memory, o))
    BY <1>1, <1>5, MembersUnfold DEF Known
  <2> QED BY <2>1, <2>2
<1>17. PICK t : t = Task
  OBVIOUS
<1>18. Says(Known, memory, t) = Latest(parts)
  BY <1>1, <1>2, <1>16, <1>17, Zenon DEF Says
<1>19. /\ Touches(Known, memory, t, q) <=> AnyTouches(Known, memory, more, q)
       /\ Gives(Known, memory, t, q, l) <=> AllGive(Known, memory, more, q, l)
  <2>1. Touches(Known, memory, t, q) <=> Hides(Latest(parts), path, q)
    BY Zenon, <1>1, <1>2, <1>17, <1>18 DEF Touches
  <2>2. Gives(Known, memory, t, q, l) <=> Holds(Latest(parts), path, q, l)
    BY Zenon, <1>2, <1>17, <1>18 DEF Gives
  <2> QED BY <1>15, <2>1, <2>2
<1>20. tasks' = more \o Tail(tasks) /\ UNCHANGED given /\ (Has(q, l)' <=> Has(q, l))
  BY <1>6, <1>13 DEF Has
<1>21. \/ Gives(Known, memory, Task, q, l)
       \/ Has(q, l) /\ ~ Touches(Known, memory, Task, q)
       <=>
       \/ AllGive(Known, memory, more, q, l)
       \/ Has(q, l)' /\ ~ AnyTouches(Known, memory, more, q)
  BY Zenon, <1>17, <1>19, <1>20
<1>22. IsASeq(more)
  BY <1>14 DEF AllSay
<1> QED BY <1>1, <1>20, <1>21, <1>22, CallReplaced

\* The call for an item says what the item does, under its place in the list.
LEMMA ListedSays ==
    ASSUME NEW g, NEW mem, NEW type, NEW class, NEW at, NEW path \in Path, NEW k \in Nat,
           Entries(ItemSays(g, mem, type, class, at)), NEW q \in Path, NEW l
    PROVE  SaysPart(g, mem, ItemTask(type, class, at, Append(path, k)), path,
                    Under(k, ItemSays(g, mem, type, class, at)), q, l)
<1>1. PICK S, t : /\ S = ItemSays(g, mem, type, class, at)
                  /\ t = ItemTask(type, class, at, Append(path, k))
  OBVIOUS
<1>2. Entries(S)
  BY <1>1
<1>3. /\ t.do = "item" /\ t.type = type /\ t.class = class /\ t.at = at
      /\ t.path = Append(path, k) /\ t.do # "class" /\ t.do # "prop"
  BY <1>1 DEF ItemTask
<1>4. Says(g, mem, t) = S
  BY <1>1, <1>3 DEF Says
<1>5. Touches(g, mem, t, q) <=> S # {} /\ IsPrefix(Append(path, k), q)
  BY <1>3, <1>4, Zenon DEF Touches
<1>6. Gives(g, mem, t, q, l) <=> Holds(S, Append(path, k), q, l)
  BY <1>3, <1>4, Zenon DEF Gives
<1>7. /\ Holds(Under(k, S), path, q, l) <=> Holds(S, Append(path, k), q, l)
      /\ Hides(Under(k, S), path, q) <=> S # {} /\ IsPrefix(Append(path, k), q)
  BY <1>2, UnderHolds
<1>8. Keyed(Under(k, S))
  BY <1>2, UnderKeyed
<1> QED BY Zenon, <1>1, <1>5, <1>6, <1>7, <1>8 DEF SaysPart

\* Parts under keys of their own hide nothing of each other.
LEMMA OwnKeys ==
    ASSUME NEW n \in Nat, NEW parts, DOMAIN parts = 1 .. n,
           \A i \in 1 .. n : Keys(parts[i]) \subseteq {i}
    PROVE  Latest(parts) = UNION {parts[i] : i \in 1 .. n}
<1>1. ASSUME NEW i \in 1 .. n, NEW j \in 1 .. n, j > i, NEW v \in parts[i]
      PROVE  v[1][1] \notin Keys(parts[j])
  <2>1. v[1][1] = i
    BY DEF Keys
  <2> QED BY <1>1, <2>1
<1> QED BY <1>1 DEF Latest

\* A list returns itself empty and makes the calls for its items.
LEMMA ListSaid ==
    ASSUME DumpInv, DumpList, DOMAIN out \subseteq Path, Task.path \in Path,
           NEW q \in Path, NEW l
    PROVE  WillHave(q, l)' <=> WillHave(q, l)
<1> DEFINE p == Task.prop
           n == Size(p.container, memory[Task.at])
           items == memory[Task.at].items
<1>1. /\ Right(Task) /\ Task.do = "prop" /\ phase = "dumping" /\ tasks # << >>
      /\ p.type = "list" /\ p.described /\ live \in Classes
  BY NextCall DEF DumpList
<1>2. /\ PropLies(live, memory, p, Task.at)
      /\ PropObjects(memory, p, Task.at) \subseteq Objects[live]
  BY <1>1 DEF Right
<1>3. n = Len(items) /\ n \in Nat /\ DOMAIN items = 1 .. n
  BY <1>1, <1>2, FilledSize DEF PropLies
<1>4. PropObjects(memory, p, Task.at) =
         UNION {ObjectsAt(memory, p.container.value, p.class, items[i]) : i \in DOMAIN items}
  BY <1>1 DEF PropObjects
<1>5. PICK path \in Path : Task.path = path
  OBVIOUS
<1> DEFINE says(i) == ItemSays(Known, memory, p.container.value, p.class, items[i])
           item(i) == ItemTask(p.container.value, p.class, items[i], Append(path, i))
           part(i) == Under(i, says(i))
           more == [i \in 1 .. n |-> item(i)]
           parts == [i \in 1 .. n |-> part(i)]
<1>6. ASSUME NEW i \in 1 .. n
      PROVE  Entries(says(i))
  <2>1. ObjectsAt(memory, p.container.value, p.class, items[i]) \subseteq Objects[live]
    <3> HIDE DEF items, p, n
    <3> QED BY <1>2, <1>3, <1>4
  <2>2. \A x \in ObjectsAt(memory, p.container.value, p.class, items[i]) : Keyed(Known[x])
    BY <1>1, <2>1, LiveKeyed
  <2> QED BY <2>2, ItemEntries
<1>7. ASSUME NEW i \in 1 .. n
      PROVE  SaysPart(Known, memory, item(i), path, part(i), q, l)
  <2>1. i \in Nat
    BY <1>3
  <2> QED BY Zenon, <1>6, <2>1, ListedSays
<1>8. AllSay(Known, memory, more, path, parts, q, l)
  <2> HIDE DEF item, part, n
  <2>1. IsASeq(more) /\ IsASeq(parts)
    BY <1>3, IndexedSeq
  <2>2. Len(more) = n /\ Len(parts) = n
    BY <1>3, <2>1
  <2>3. \A i \in 1 .. n : more[i] = item(i) /\ parts[i] = part(i)
    OBVIOUS
  <2> HIDE DEF more, parts
  <2> QED BY <1>7, <2>1, <2>2, <2>3 DEF AllSay
<1>9. PICK S : S = Latest(parts)
  OBVIOUS
<1>10. S = UNION {part(i) : i \in 1 .. n}
  <2>1. ASSUME NEW i \in 1 .. n
        PROVE  Keys(part(i)) \subseteq {i}
    <3>1. i \in Nat
      BY <1>3
    <3> HIDE DEF says
    <3> QED BY <1>6, <3>1, UnderKeyed
  <2>2. DOMAIN parts = 1 .. n /\ \A i \in 1 .. n : parts[i] = part(i)
    OBVIOUS
  <2> HIDE DEF parts, part, n
  <2>3. S = UNION {parts[i] : i \in 1 .. n}
    BY <1>3, <1>9, <2>1, <2>2, OwnKeys
  <2> QED BY <2>2, <2>3
<1>11. PICK leaf : leaf = <<"list">>
  OBVIOUS
<1>12. Says(Known, memory, Task) = Alone(leaf) \cup S
  <2>1. Says(Known, memory, Task) = PropSays(Known, memory, p, Task.at)
    BY <1>1 DEF Says
  <2>2. PropSays(Known, memory, p, Task.at) = Alone(leaf) \cup UNION {part(i) : i \in DOMAIN items}
    BY <1>1, <1>11 DEF PropSays
  <2> QED BY Zenon, <1>3, <1>10, <2>1, <2>2
<1>13. Return(leaf, more)
  BY <1>5, <1>11, Zenon DEF DumpList
<1> HIDE DEF more, parts, n, part, item, says, items, p
<1>14. /\ AnyTouches(Known, memory, more, q) <=> Hides(S, path, q)
       /\ AllGive(Known, memory, more, q, l) <=> Holds(S, path, q, l)
  BY <1>8, <1>9, PartsSay
<1>15. PICK t : t = Task
  OBVIOUS
<1>16. t.do # "class" /\ t.path = path /\ Says(Known, memory, t) = Alone(leaf) \cup S
  BY Zenon, <1>1, <1>5, <1>12, <1>15
<1>17. Touches(Known, memory, t, q) <=> IsPrefix(path, q)
  BY Zenon, <1>16, LeafAndMore
<1>18. Gives(Known, memory, t, q, l) <=> (q = path /\ l = leaf) \/ Holds(S, path, q, l)
  BY SMT, <1>16, LeafAndMore
<1>19. Hides(S, path, q) => IsPrefix(path, q) /\ q # path
  <2>1. Keyed(S)
    <3>1. \A i \in 1 .. n : Keyed(part(i))
      BY <1>7 DEF SaysPart
    <3> QED BY <1>10, <3>1 DEF Keyed, Entries
  <2>2. Hides(S, path, q) => IsPrefix(path, q) /\ Len(q) > Len(path)
    BY <2>1, KeyedHides
  <2>3. Len(path) \in Nat
    BY DEF Path
  <2> QED BY <2>2, <2>3
<1>20. IsASeq(more)
  BY <1>8 DEF AllSay
<1>21. /\ Gives(Known, memory, Task, q, l)
             <=> (q = Task.path /\ l = leaf) \/ AllGive(Known, memory, more, q, l)
       /\ Touches(Known, memory, Task, q) <=> IsPrefix(Task.path, q)
       /\ AnyTouches(Known, memory, more, q) => IsPrefix(Task.path, q) /\ q # Task.path
  BY Zenon, <1>5, <1>14, <1>15, <1>17, <1>18, <1>19
<1> QED BY <1>1, <1>13, <1>20, <1>21, ReturnReplaced

PathsRight == /\ DOMAIN out \subseteq Path
              /\ \A t \in Elements(tasks) : t.path \in Path

\* Calls make calls at paths that go on from their own.
LEMMA PathsStep ==
    ASSUME DumpInv, PathsRight, tasks # << >>, NEW more, IsASeq(more),
           \A t \in Elements(more) : t.path \in Path,
           tasks' = more \o Tail(tasks), DOMAIN out' \subseteq Path
    PROVE  PathsRight'
<1>1. IsASeq(Tail(tasks)) /\ Elements(Tail(tasks)) \subseteq Elements(tasks)
  BY HeadAndTail DEF DumpInv
<1>2. Elements(tasks') \subseteq Elements(more) \cup Elements(Tail(tasks))
  BY <1>1, Joined
<1>3. \A t \in Elements(tasks') : t.path \in Path
  BY <1>1, <1>2 DEF PathsRight
<1>4. Elements(tasks)' = Elements(tasks')
  BY DEF Elements
<1> QED BY <1>3, <1>4 DEF PathsRight

\* The next call has a path.
LEMMA NextPath == ASSUME DumpInv, PathsRight, tasks # << >> PROVE Task.path \in Path
BY HeadAndTail DEF DumpInv, PathsRight, Task

\* The paths of the calls for an object's parts, and for the items of a list.
LEMMA ManyPaths ==
    ASSUME DumpInv, PathsRight, DumpProperties \/ DumpList
    PROVE  PathsRight'
<1>1. CASE DumpProperties
  <2>1. /\ Right(Task) /\ Task.do = "class" /\ phase = "dumping" /\ tasks # << >>
        /\ live \in Classes /\ meta \in Metas /\ memory \in Memories
    BY <1>1, NextCall DEF DumpProperties
  <2>2. Task.class \in Classes
    BY <2>1, ObjectGiven DEF Right
  <2>3. PICK path \in Path : path = Task.path
    BY <2>1, NextPath
  <2> DEFINE m == meta[Task.class]
             base == IF m.base = NoClass THEN <<>>
                     ELSE <<ClassTask(m.base, Task.at, path)>>
             inherited(i) == ClassTask(m.secondary[i].class,
                                       Task.at + m.secondary[i].offset, path)
             secondary == [i \in DOMAIN m.secondary |-> inherited(i)]
             prop(i) == PropTask(m.properties[i], Task.at + m.properties[i].offset,
                                 Append(path, m.properties[i].hash))
             own == [i \in DOMAIN m.properties |-> prop(i)]
  <2>4. tasks' = base \o secondary \o own \o Tail(tasks) /\ out' = out
    BY <1>1, <2>3, Zenon DEF DumpProperties
  <2>5. /\ Len(m.secondary) \in Nat /\ DOMAIN m.secondary = 1 .. Len(m.secondary)
        /\ Len(m.properties) \in Nat /\ DOMAIN m.properties = 1 .. Len(m.properties)
        /\ \A i \in DOMAIN m.properties : m.properties[i].hash \in Nat
    BY <2>1, <2>2, MetaAssumed DEF MetaAssumption
  <2>6. IsASeq(base) /\ \A t \in Elements(base) : t.path \in Path
    <3>1. PICK t : t = ClassTask(m.base, Task.at, path)
      OBVIOUS
    <3>2. t.path \in Path
      BY <3>1 DEF ClassTask
    <3>3. base = IF m.base = NoClass THEN <<>> ELSE <<t>>
      BY <3>1
    <3> HIDE DEF base
    <3> QED BY <3>2, <3>3, ShortSeq
  <2>7. IsASeq(secondary) /\ \A t \in Elements(secondary) : t.path \in Path
    <3>1. \A i \in DOMAIN m.secondary : inherited(i).path \in Path
      BY DEF ClassTask
    <3> HIDE DEF inherited, m
    <3>2. IsASeq(secondary)
      BY <2>5, IndexedSeq
    <3> QED BY <3>1, <3>2 DEF Elements
  <2>8. IsASeq(own) /\ \A t \in Elements(own) : t.path \in Path
    <3>1. ASSUME NEW i \in DOMAIN m.properties
          PROVE  prop(i).path \in Path
      <4>1. Append(path, m.properties[i].hash) \in Path
        BY <2>5, OneFurther
      <4>2. prop(i).path = Append(path, m.properties[i].hash)
        BY DEF PropTask
      <4> QED BY <4>1, <4>2
    <3> HIDE DEF prop, m
    <3>2. IsASeq(own)
      BY <2>5, IndexedSeq
    <3> QED BY <3>1, <3>2 DEF Elements
  <2> HIDE DEF base, secondary, own, m
  <2>9. PICK inh, more : inh = base \o secondary /\ more = inh \o own
    OBVIOUS
  <2>10. IsASeq(inh) /\ Elements(inh) \subseteq Elements(base) \cup Elements(secondary)
    BY <2>6, <2>7, <2>9, Joined
  <2>11. IsASeq(more) /\ Elements(more) \subseteq Elements(inh) \cup Elements(own)
    BY <2>8, <2>9, <2>10, Joined
  <2>12. \A t \in Elements(more) : t.path \in Path
    BY <2>6, <2>7, <2>8, <2>10, <2>11
  <2>13. tasks' = more \o Tail(tasks) /\ DOMAIN out' \subseteq Path
    BY <2>4, <2>9 DEF PathsRight
  <2> QED BY <2>1, <2>11, <2>12, <2>13, PathsStep
<1>2. CASE DumpList
  <2> DEFINE n == Size(Task.prop.container, memory[Task.at])
             items == memory[Task.at].items
  <2>1. /\ Right(Task) /\ Task.do = "prop" /\ phase = "dumping" /\ tasks # << >>
        /\ Task.prop.type = "list" /\ Task.prop.described
    BY <1>2, NextCall DEF DumpList
  <2>2. PICK path \in Path : path = Task.path
    BY <2>1, NextPath
  <2>3. n \in Nat
    <3>1. PropLies(live, memory, Task.prop, Task.at)
      BY <2>1 DEF Right
    <3> QED BY <2>1, <3>1, FilledSize DEF PropLies
  <2> DEFINE item(i) == ItemTask(Task.prop.container.value, Task.prop.class, items[i],
                                 Append(path, i))
             more == [i \in 1 .. n |-> item(i)]
  <2>4. Return(<<"list">>, more)
    BY <1>2, <2>2, Zenon DEF DumpList
  <2>5. ASSUME NEW i \in 1 .. n
        PROVE  item(i).path \in Path
    <3>1. item(i).path = Append(path, i)
      BY DEF ItemTask
    <3>2. Append(path, i) \in Path
      BY <2>3, OneFurther
    <3> QED BY <3>1, <3>2
  <2>6. IsASeq(more) /\ \A t \in Elements(more) : t.path \in Path
    <3> HIDE DEF item, n
    <3>1. IsASeq(more)
      BY <2>3, IndexedSeq
    <3> QED BY <2>5, <3>1 DEF Elements
  <2> HIDE DEF more
  <2>7. tasks' = more \o Tail(tasks) /\ DOMAIN out' \subseteq Path
    BY <2>2, <2>4, PutHas DEF Return, PathsRight
  <2> QED BY <2>1, <2>6, <2>7, PathsStep
<1> QED BY <1>1, <1>2

\* The paths when one call returns, or is replaced by one with its path.
LEMMA OnePath ==
    ASSUME DumpInv, PathsRight, tasks # << >>,
           \/ \E leaf : Return(leaf, << >>)
           \/ \E leaf, task : task.path = Task.path /\ Return(leaf, <<task>>)
           \/ \E task : task.path = Task.path /\ Become(task)
    PROVE  PathsRight'
<1>1. Task.path \in Path
  BY NextPath
<1>2. CASE \E leaf : Return(leaf, << >>)
  <2>1. PICK leaf, more : more = << >> /\ Return(leaf, more)
    BY <1>2
  <2>2. tasks' = more \o Tail(tasks) /\ DOMAIN out' \subseteq Path
    BY <1>1, <2>1, PutHas DEF Return, PathsRight
  <2>3. IsASeq(more) /\ Elements(more) = {}
    BY <2>1, ShortSeq
  <2> QED BY <2>2, <2>3, PathsStep
<1>3. CASE \E leaf, task : task.path = Task.path /\ Return(leaf, <<task>>)
  <2>1. PICK leaf, task : task.path = Task.path /\ Return(leaf, <<task>>)
    BY <1>3
  <2>2. PICK more : more = <<task>>
    OBVIOUS
  <2>3. tasks' = more \o Tail(tasks) /\ DOMAIN out' \subseteq Path
    BY <1>1, <2>1, <2>2, PutHas DEF Return, PathsRight
  <2>4. IsASeq(more) /\ Elements(more) = {task}
    BY <2>2, ShortSeq
  <2> QED BY <1>1, <2>1, <2>3, <2>4, PathsStep
<1>4. CASE \E task : task.path = Task.path /\ Become(task)
  <2>1. PICK task : task.path = Task.path /\ Become(task)
    BY <1>4
  <2>2. PICK more : more = <<task>>
    OBVIOUS
  <2>3. tasks' = more \o Tail(tasks) /\ DOMAIN out' \subseteq Path
    BY <2>1, <2>2 DEF Become, PathsRight
  <2>4. IsASeq(more) /\ Elements(more) = {task}
    BY <2>2, ShortSeq
  <2> QED BY <1>1, <2>1, <2>3, <2>4, PathsStep
<1> QED BY <1>2, <1>3, <1>4

\* What the document will have does not change.
AsBefore == \A q \in Path : \A l : WillHave(q, l)' <=> WillHave(q, l)

\* What neither calls nor inserts changes nothing of it.
LEMMA NothingSaid ==
    ASSUME PathsRight, UNCHANGED <<given, tasks, out>>
    PROVE  PathsRight' /\ AsBefore
<1>1. meta' = meta /\ memory' = memory /\ tasks' = tasks /\ out' = out
  BY DEF given
<1>2. PathsRight'
  BY <1>1 DEF PathsRight, Elements
<1>3. AsBefore
  BY <1>1 DEF AsBefore, WillHave, Has, Known
<1> QED BY <1>2, <1>3

\* A property puts in the document what it says, or leaves that to its item.
LEMMA PropertySaid ==
    ASSUME DumpInv, PathsRight,
           DumpUndescribed \/ DumpMap \/ DumpOption \/ DumpFlag \/ DumpOther
    PROVE  PathsRight' /\ AsBefore
<1> DEFINE p == Task.prop
<1>1. Right(Task) /\ Task.do = "prop" /\ tasks # << >>
  BY NextCall DEF DumpUndescribed, DumpMap, DumpOption, DumpFlag, DumpOther
<1>2. Task.path \in Path /\ DOMAIN out \subseteq Path /\ Task.do # "class"
  BY <1>1, NextPath DEF PathsRight
<1>3. Says(Known, memory, Task) = PropSays(Known, memory, p, Task.at)
  BY <1>1 DEF Says
<1>4. ASSUME NEW leaf, Return(leaf, << >>), Says(Known, memory, Task) = Alone(leaf)
      PROVE  PathsRight' /\ AsBefore
  <2>1. PathsRight'
    BY <1>1, <1>4, OnePath
  <2> QED BY <1>1, <1>2, <1>4, <2>1, ReturnAlone DEF AsBefore
<1>5. ASSUME NEW type, Become(ItemTask(type, p.class, Task.at, Task.path)),
             PropSays(Known, memory, p, Task.at)
                = ItemSays(Known, memory, type, p.class, Task.at)
      PROVE  PathsRight' /\ AsBefore
  <2>1. PICK t : t = ItemTask(type, p.class, Task.at, Task.path)
    OBVIOUS
  <2>2. /\ t.do = "item" /\ t.type = type /\ t.class = p.class /\ t.at = Task.at
        /\ t.path = Task.path /\ t.do # "class" /\ t.do # "prop"
    BY <2>1 DEF ItemTask
  <2>3. Says(Known, memory, t) = Says(Known, memory, Task)
    BY <1>3, <1>5, <2>2 DEF Says
  <2>4. Become(t)
    BY <1>5, <2>1
  <2>5. PathsRight'
    BY <1>1, <2>2, <2>4, OnePath
  <2> QED BY <1>1, <1>2, <2>2, <2>3, <2>4, <2>5, BecomeOther DEF AsBefore
<1>6. ASSUME Panic
      PROVE  PathsRight' /\ AsBefore
  BY <1>6, NothingSaid DEF Panic, given
<1>7. CASE DumpUndescribed
  BY <1>6, <1>7 DEF DumpUndescribed
<1>8. CASE DumpMap
  <2>1. p.type = "map" /\ (Return(<<"object">>, << >>) \/ Panic)
    BY <1>8 DEF DumpMap
  <2>2. PropSays(Known, memory, p, Task.at) = Alone(<<"object">>)
    BY <2>1 DEF PropSays
  <2>3. PICK leaf : leaf = <<"object">>
    OBVIOUS
  <2> QED BY <1>3, <1>4, <1>6, <2>1, <2>2, <2>3
<1>9. CASE DumpOption
  <2>1. p.type = "option" /\ p.described
    BY <1>9 DEF DumpOption
  <2>2. PropLies(live, memory, p, Task.at)
    BY <1>1 DEF Right
  <2>3. memory[Task.at].items = << >> <=> Size(p.container, memory[Task.at]) = 0
    BY <2>1, <2>2, FilledSize DEF PropLies
  <2>4. CASE Size(p.container, memory[Task.at]) = 0
    <3>1. PICK leaf : leaf = <<"null">>
      OBVIOUS
    <3>2. Return(leaf, << >>)
      BY <1>9, <2>4, <3>1 DEF DumpOption
    <3>3. PropSays(Known, memory, p, Task.at) = Alone(leaf)
      BY <2>1, <2>3, <2>4, <3>1 DEF PropSays
    <3> QED BY <1>3, <1>4, <3>2, <3>3
  <2>5. CASE Size(p.container, memory[Task.at]) # 0
    <3>1. Become(ItemTask(p.container.value, p.class, Task.at, Task.path))
      BY <1>9, <2>5 DEF DumpOption
    <3>2. PropSays(Known, memory, p, Task.at)
             = ItemSays(Known, memory, p.container.value, p.class, Task.at)
      BY <2>1, <2>3, <2>5 DEF PropSays
    <3> QED BY <1>5, <3>1, <3>2
  <2> QED BY <2>4, <2>5
<1>10. CASE DumpFlag
  <2>1. PICK leaf : leaf = Flag(p, memory[Task.at])
    OBVIOUS
  <2>2. p.type = "flag" /\ (Return(leaf, << >>) \/ Panic)
    BY Zenon, <1>10, <2>1 DEF DumpFlag
  <2>3. PropSays(Known, memory, p, Task.at) = Alone(leaf)
    <3>1. PropSays(Known, memory, p, Task.at) = Alone(Flag(p, memory[Task.at]))
      BY <2>2 DEF PropSays
    <3> QED BY Zenon, <2>1, <3>1
  <2> QED BY <1>3, <1>4, <1>6, <2>2, <2>3
<1>11. CASE DumpOther
  <2>1. /\ p.type \notin {"list", "map", "option", "flag"}
        /\ Become(ItemTask(p.type, p.class, Task.at, Task.path))
    BY <1>11 DEF DumpOther
  <2>2. PropSays(Known, memory, p, Task.at)
           = ItemSays(Known, memory, p.type, p.class, Task.at)
    BY <2>1 DEF PropSays
  <2> QED BY <1>5, <2>1, <2>2
<1> QED BY <1>7, <1>8, <1>9, <1>10, <1>11

\* An item puts in the document what it says, or leaves that to its object.
LEMMA ItemSaid ==
    ASSUME DumpInv, PathsRight,
           DumpScalar \/ DumpLink \/ DumpEmbed \/ DumpPointer \/ DumpUnnestable
    PROVE  PathsRight' /\ AsBefore
<1> DEFINE type == Task.type
           class == Task.class
<1>1. Right(Task) /\ Task.do = "item" /\ tasks # << >> /\ live \in Classes
  BY NextCall DEF DumpScalar, DumpLink, DumpEmbed, DumpPointer, DumpUnnestable
<1>2. Task.path \in Path /\ DOMAIN out \subseteq Path /\ Task.do # "class"
  BY <1>1, NextPath DEF PathsRight
<1>3. Says(Known, memory, Task) = ItemSays(Known, memory, type, class, Task.at)
  BY <1>1 DEF Says
<1>4. ASSUME NEW leaf, Return(leaf, << >>), Says(Known, memory, Task) = Alone(leaf)
      PROVE  PathsRight' /\ AsBefore
  <2>1. PathsRight'
    BY <1>1, <1>4, OnePath
  <2> QED BY <1>1, <1>2, <1>4, <2>1, ReturnAlone DEF AsBefore
<1>5. ASSUME NEW leaf, NEW at, Return(leaf, <<ClassTask(class, at, Task.path)>>),
             <<class, at>> \in Objects[live],
             Says(Known, memory, Task) = Alone(leaf) \cup Known[<<class, at>>]
      PROVE  PathsRight' /\ AsBefore
  <2>1. PICK t : t = ClassTask(class, at, Task.path)
    OBVIOUS
  <2>2. t.path = Task.path /\ Return(leaf, <<t>>)
    BY <1>5, <2>1 DEF ClassTask
  <2>3. PathsRight'
    BY <1>1, <2>2, OnePath
  <2>4. Keyed(Known[<<class, at>>])
    BY <1>1, <1>5, LiveKeyed
  <2>5. ASSUME NEW q \in Path, NEW l
        PROVE  WillHave(q, l)' <=> WillHave(q, l)
    BY <1>1, <1>2, <1>5, <2>4, ReturnObject
  <2> QED BY <2>3, <2>5 DEF AsBefore
<1>6. ASSUME Panic
      PROVE  PathsRight' /\ AsBefore
  BY <1>6, NothingSaid DEF Panic, given
<1>7. CASE DumpUnnestable
  BY <1>6, <1>7 DEF DumpUnnestable
<1>8. CASE DumpScalar \/ DumpLink
  <2>1. PICK leaf : leaf = <<"value", memory[Task.at].value>>
    OBVIOUS
  <2>2. type \in {"scalar", "link"} /\ (Return(leaf, << >>) \/ Panic)
    BY <1>8, <2>1 DEF DumpScalar, DumpLink
  <2>3. ItemSays(Known, memory, type, class, Task.at) = Alone(leaf)
    BY <2>1, <2>2 DEF ItemSays
  <2> QED BY <1>3, <1>4, <1>6, <2>2, <2>3
<1>9. CASE DumpEmbed
  <2>1. PICK leaf : leaf = <<"object">>
    OBVIOUS
  <2>2. type = "embed"
    BY <1>9 DEF DumpEmbed
  <2>3. CASE class = NoClass
    BY <1>6, <1>9, <2>3 DEF DumpEmbed
  <2>4. CASE class # NoClass
    <3>1. Return(leaf, <<ClassTask(class, Task.at, Task.path)>>)
      BY <1>9, <2>1, <2>4 DEF DumpEmbed
    <3>2. <<class, Task.at>> \in Objects[live]
      BY <1>1, <2>2, <2>4 DEF Right, ItemLies, ObjectsAt
    <3>3. ItemSays(Known, memory, type, class, Task.at)
             = Alone(leaf) \cup Known[<<class, Task.at>>]
      BY <2>1, <2>2, <2>4 DEF ItemSays
    <3> QED BY <1>3, <1>5, <3>1, <3>2, <3>3
  <2> QED BY <2>3, <2>4
<1>10. CASE DumpPointer
  <2> DEFINE to == memory[Task.at].pointer
  <2>1. type = "pointer"
    BY <1>10 DEF DumpPointer
  <2>2. CASE class = NoClass
    BY <1>6, <1>10, <2>2 DEF DumpPointer
  <2>3. CASE class # NoClass /\ to = 0
    <3>1. PICK leaf : leaf = <<"null">>
      OBVIOUS
    <3>2. Return(leaf, << >>)
      BY <1>10, <2>3, <3>1 DEF DumpPointer
    <3>3. ItemSays(Known, memory, type, class, Task.at) = Alone(leaf)
      BY <2>1, <2>3, <3>1 DEF ItemSays
    <3> QED BY <1>3, <1>4, <3>2, <3>3
  <2>4. CASE class # NoClass /\ to # 0
    <3>1. PICK leaf : leaf = <<"object">>
      OBVIOUS
    <3>2. Return(leaf, <<ClassTask(class, to, Task.path)>>)
      BY <1>10, <2>4, <3>1 DEF DumpPointer
    <3>3. <<class, to>> \in Objects[live]
      BY <1>1, <2>1, <2>4 DEF Right, ItemLies, ObjectsAt
    <3>4. ItemSays(Known, memory, type, class, Task.at)
             = Alone(leaf) \cup Known[<<class, to>>]
      BY <2>1, <2>4, <3>1 DEF ItemSays
    <3> QED BY <1>3, <1>5, <3>2, <3>3, <3>4
  <2> QED BY <2>2, <2>3, <2>4
<1> QED BY <1>7, <1>8, <1>9, <1>10

\* So every call does.
LEMMA CallSaid ==
    ASSUME DumpInv, PathsRight, Dumping
    PROVE  PathsRight' /\ AsBefore
<1>1. CASE DumpProperties
  <2>1. PathsRight' /\ tasks # << >>
    BY <1>1, ManyPaths DEF DumpProperties, Calling
  <2>2. Task.path \in Path
    BY <2>1, NextPath
  <2> QED BY <1>1, <2>1, <2>2, PropertiesSaid DEF AsBefore
<1>2. CASE DumpList
  <2>1. PathsRight' /\ tasks # << >>
    BY <1>2, ManyPaths DEF DumpList, Calling
  <2>2. Task.path \in Path /\ DOMAIN out \subseteq Path
    BY <2>1, NextPath DEF PathsRight
  <2> QED BY <1>2, <2>1, <2>2, ListSaid DEF AsBefore
<1> QED BY <1>1, <1>2, PropertySaid, ItemSaid DEF Dumping

-----------------------------------------------------------------------------
(* The document, class by class. *)

\* The document will have what it should under the hash of c.
Saved(c) ==
    \A q \in Path : \A l : Len(q) > 1 /\ q[1] = meta[c].hash =>
        (WillHave(q, l) <=> <<Tail(q), l>> \in Defaults(c))

\* It will for the classes before, and for that of the instance that is dumped.
DocInv ==
    /\ DumpInv /\ PathsRight
    /\ phase = "written" => index > Len(List) /\ tasks = << >>
    /\ \A i \in DOMAIN List :
          /\ i < index \/ (i = index /\ phase = "dumping")
          /\ meta[List[i]].constructor
          => Saved(List[i])

\* A path that begins with a hash, and what is under a hash.
LEMMA FirstKey ==
    ASSUME NEW h \in Nat, NEW q \in Path, Len(q) > 1
    PROVE  /\ <<h>> \in Path /\ q # <<h>> /\ Len(<<h>>) = 1
           /\ IsPrefix(<<h>>, q) <=> q[1] = h
<1>1. PICK p : p = <<h>>
  OBVIOUS
<1>2. p \in Path /\ Len(p) = 1 /\ p[1] = h /\ Len(q) \in Nat
  BY <1>1 DEF Path
<1>3. IsPrefix(p, q) <=> q[1] = h
  <2>1. IsPrefix(p, q) <=> Len(p) <= Len(q) /\ \A i \in 1 .. Len(p) : p[i] = q[i]
    BY <1>2, PrefixMeans
  <2>2. (\A i \in 1 .. Len(p) : p[i] = q[i]) <=> q[1] = h
    BY <1>2
  <2> QED BY <1>2, <2>1, <2>2
<1>4. q # p
  <2>1. q = p => Len(q) = 1
    BY Zenon, <1>2
  <2>2. PICK n : n = Len(q)
    OBVIOUS
  <2>3. n \in Nat /\ n > 1
    BY <1>2, <2>2
  <2>4. n # 1
    BY <2>3
  <2> QED BY Zenon, <2>1, <2>2, <2>4
<1> QED BY <1>1, <1>2, <1>3, <1>4

\* What is left of a path without its first key.
LEMMA TailOn == ASSUME NEW h, NEW w \in Path, h \in Nat, NEW q, q = <<h>> \o w
                PROVE  Tail(q) = w
<1>1. /\ q \in Seq(Nat) /\ Len(q) = Len(w) + 1 /\ Len(w) \in Nat
      /\ \A i \in 1 .. Len(w) + 1 : q[i] = IF i = 1 THEN h ELSE w[i - 1]
  BY DEF Path
<1>2. PICK t : t = Tail(q)
  OBVIOUS
<1>3. t \in Path /\ Len(t) = Len(w) /\ \A i \in 1 .. Len(w) : t[i] = q[i + 1]
  BY <1>1, <1>2 DEF Path
<1>4. ASSUME NEW i \in 1 .. Len(w)
      PROVE  t[i] = w[i]
  <2>1. PICK j : j = i + 1
    OBVIOUS
  <2>2. j \in 1 .. Len(w) + 1 /\ j # 1 /\ j - 1 = i
    BY <1>1, <2>1
  <2>3. q[j] = w[i]
    BY <1>1, <2>2
  <2>4. t[i] = q[j]
    BY <1>3, <2>1
  <2> QED BY Zenon, <2>3, <2>4
<1>5. t = w
  BY <1>3, <1>4, SamePath
<1> QED BY Zenon, <1>2, <1>5

\* The rest of a path under a hash is that of an entry.
LEMMA HoldsTail ==
    ASSUME NEW S, Entries(S), NEW h \in Nat, NEW q \in Path, Len(q) > 1, q[1] = h, NEW l
    PROVE  Holds(S, <<h>>, q, l) <=> <<Tail(q), l>> \in S
<1>1. Tail(q) \in Path /\ <<h>> \o Tail(q) = q
  <2>1. q \in Seq(Nat) /\ q # << >>
    BY DEF Path
  <2>2. q = <<Head(q)>> \o Tail(q) /\ Head(q) = q[1] /\ Tail(q) \in Seq(Nat)
    BY <2>1
  <2> QED BY <2>2 DEF Path
<1>2. ASSUME NEW w \in Path, q = <<h>> \o w
      PROVE  w = Tail(q)
  BY Zenon, <1>2, TailOn
<1>3. ASSUME Holds(S, <<h>>, q, l)
      PROVE  <<Tail(q), l>> \in S
  <2>1. PICK v \in S : q = <<h>> \o v[1] /\ l = v[2]
    BY Zenon, <1>3 DEF Holds
  <2>2. v = <<v[1], v[2]>> /\ v[1] \in Path
    BY DEF Entries
  <2>3. v[1] = Tail(q)
    BY <1>2, <2>1, <2>2
  <2>4. <<v[1], v[2]>> \in S
    BY Zenon, <2>2
  <2> QED BY Zenon, <2>1, <2>3, <2>4
<1>4. ASSUME <<Tail(q), l>> \in S
      PROVE  Holds(S, <<h>>, q, l)
  <2>1. PICK v \in S : v = <<Tail(q), l>>
    BY <1>4
  <2>2. v[1] = Tail(q) /\ v[2] = l
    BY <2>1
  <2>3. q = <<h>> \o v[1] /\ l = v[2]
    BY Zenon, <1>1, <2>2
  <2> QED BY Zenon, <2>3 DEF Holds
<1> QED BY <1>3, <1>4

\* With no calls left the document has what it will have.
LEMMA HasAll == ASSUME tasks = << >>, NEW q, NEW l PROVE WillHave(q, l) <=> Has(q, l)
BY NoneOrOne DEF WillHave

\* A document that will be as before is as right for a class as before.
LEMMA SavedKept ==
    ASSUME UNCHANGED given, AsBefore, NEW c, Saved(c)
    PROVE  Saved(c)'
<1>1. meta' = meta /\ memory' = memory
  BY DEF given
<1>2. Defaults(c)' = Defaults(c)
  BY <1>1 DEF Members, Defaults, OnlySecondary, IsEmpty
<1>3. ASSUME NEW q \in Path, NEW l, Len(q) > 1, q[1] = meta'[c].hash
      PROVE  WillHave(q, l)' <=> <<Tail(q), l>> \in Defaults(c)'
  BY <1>1, <1>2, <1>3 DEF Saved, AsBefore
<1> QED BY <1>3 DEF Saved

\* What the defaults of a class are depends on what is given.
LEMMA SameClasses ==
    ASSUME UNCHANGED given
    PROVE  /\ meta' = meta /\ memory' = memory /\ Known' = Known
           /\ \A c : Defaults(c)' = Defaults(c)
<1>1. meta' = meta /\ memory' = memory
  BY DEF given
<1>2. \A c : Defaults(c)' = Defaults(c)
  BY <1>1 DEF Members, Defaults, OnlySecondary, IsEmpty
<1> QED BY <1>1, <1>2 DEF Known

\* A class that is empty has none, and any other its members.
LEMMA DefaultsOf == \A c : Defaults(c) = IF IsEmpty(c) THEN {} ELSE Members(c)
BY DEF Defaults, OnlySecondary

\* A class that nothing is dumped of: what it had is replaced by a leaf.
LEMMA NothingDumped == ASSUME DocInv, DumpNothing PROVE DocInv'
<1>1. PICK c, h : c = Class /\ h = meta[c].hash
  OBVIOUS
<1>2. /\ DumpInv /\ PathsRight /\ tasks = << >> /\ tasks' = tasks
      /\ index \in Nat /\ index <= Len(List) /\ index' = index + 1
      /\ phase = "next" /\ phase' = "next"
      /\ UNCHANGED given /\ (~ meta[c].constructor \/ IsEmpty(c))
  BY <1>1 DEF DocInv, DumpInv, DumpNothing
<1>3. PICK leaf : out' = Put(leaf, <<h>>)
  BY <1>1 DEF DumpNothing
<1>4. c \in Classes /\ h \in Nat /\ meta \in Metas
  BY <1>1, <1>2, ListedClass, MetaAssumed DEF DumpInv, MetaAssumption
<1>5. <<h>> \in Path
  BY <1>4 DEF Path
<1>6. /\ DOMAIN out' \subseteq Path
      /\ \A q \in Path : \A l : Has(q, l)' <=> \/ q = <<h>> /\ l = leaf
                                               \/ Has(q, l) /\ ~ IsPrefix(<<h>>, q)
  BY <1>2, <1>3, <1>5, PutHas DEF PathsRight
<1>7. ASSUME NEW q \in Path, NEW l, Len(q) > 1
      PROVE  /\ WillHave(q, l) <=> Has(q, l)
             /\ WillHave(q, l)' <=> Has(q, l) /\ q[1] # h
  <2>1. q # <<h>> /\ (IsPrefix(<<h>>, q) <=> q[1] = h)
    BY <1>4, <1>7, FirstKey
  <2>2. Has(q, l)' <=> Has(q, l) /\ q[1] # h
    BY Zenon, <1>6, <2>1
  <2>3. WillHave(q, l) <=> Has(q, l)
    BY <1>2, HasAll
  <2>4. WillHave(q, l)' <=> Has(q, l)'
    <3>1. /\ ~ AnyTouches(Known', memory', << >>, q)
          /\ ~ AllGive(Known', memory', << >>, q, l)
      BY NoneOrOne
    <3>2. tasks' = << >>
      BY <1>2
    <3> QED BY Zenon, <3>1, <3>2 DEF WillHave
  <2> QED BY <2>2, <2>3, <2>4
<1>8. PathsRight'
  <2>1. Elements(tasks)' = Elements(tasks)
    BY <1>2 DEF Elements
  <2> QED BY <1>2, <1>6, <2>1 DEF PathsRight
<1>9. DumpInv'
  BY <1>2, NoCallStep
<1>10. ASSUME NEW i \in DOMAIN List, i < index',
              meta'[List[i]].constructor
       PROVE  Saved(List[i])'
  <2>1. PICK d : d = List[i]
    OBVIOUS
  <2>2. /\ d \in Classes /\ meta[d].constructor
        /\ meta' = meta /\ Defaults(d)' = Defaults(d) /\ i \in Nat
    BY <1>2, <1>10, <2>1, SameClasses, MetaAssumed DEF MetaAssumption
  <2>3. CASE d = c
    <3>1. Defaults(c) = {}
      BY <1>2, <2>2, <2>3, DefaultsOf
    <3>2. ASSUME NEW q \in Path, NEW l, Len(q) > 1, q[1] = meta'[d].hash
          PROVE  WillHave(q, l)' <=> <<Tail(q), l>> \in Defaults(d)'
      <4>1. ~ WillHave(q, l)'
        BY <1>1, <1>7, <2>2, <2>3, <3>2
      <4>2. Defaults(d)' = {}
        BY <2>2, <2>3, <3>1
      <4> QED BY <4>1, <4>2
    <3> QED BY <2>1, <3>2 DEF Saved
  <2>4. CASE d # c
    <3>1. meta[d].hash # h
      BY <1>1, <1>4, <2>2, <2>4, MetaAssumed DEF MetaAssumption
    <3>2. i < index
      <4>1. i # index
        BY <1>1, <2>1, <2>4 DEF Class
      <4> QED BY <1>2, <1>10, <2>2, <4>1
    <3>3. Saved(d)
      BY <2>1, <2>2, <3>2 DEF DocInv
    <3>4. ASSUME NEW q \in Path, NEW l, Len(q) > 1, q[1] = meta'[d].hash
          PROVE  WillHave(q, l)' <=> <<Tail(q), l>> \in Defaults(d)'
      <4>1. q[1] = meta[d].hash
        BY <2>2, <3>4
      <4>2. WillHave(q, l) <=> <<Tail(q), l>> \in Defaults(d)
        BY <3>3, <3>4, <4>1 DEF Saved
      <4>3. WillHave(q, l)' <=> WillHave(q, l)
        BY <1>7, <3>1, <3>4, <4>1
      <4> QED BY <2>2, <4>2, <4>3
    <3> QED BY <2>1, <3>4 DEF Saved
  <2> QED BY <2>3, <2>4
<1>11. phase' # "written" /\ phase' # "dumping"
  BY <1>2
<1> QED BY <1>8, <1>9, <1>10, <1>11 DEF DocInv

\* A class that an instance is made of: what it had is replaced by an object, and
\* the first call says what it should have.
LEMMA InstanceDumped == ASSUME DocInv, CreateInstance PROVE DocInv'
<1>1. PICK c, h, at : c = Class /\ h = meta[c].hash /\ at = Instance[c]
  OBVIOUS
<1>2. /\ DumpInv /\ PathsRight /\ tasks = << >>
      /\ index \in Nat /\ index <= Len(List) /\ index' = index
      /\ phase = "next" /\ phase' = "dumping"
      /\ UNCHANGED given /\ meta[c].constructor /\ ~ IsEmpty(c)
  BY <1>1 DEF DocInv, DumpInv, CreateInstance
<1>3. PICK leaf : out' = Put(leaf, <<h>>)
  BY <1>1 DEF CreateInstance
<1>4. c \in Classes /\ h \in Nat /\ meta \in Metas /\ memory \in Memories
  BY <1>1, <1>2, ListedClass, MetaAssumed DEF DumpInv, MetaAssumption
<1>5. <<h>> \in Path
  BY <1>4 DEF Path
<1>6. /\ DOMAIN out' \subseteq Path
      /\ \A q \in Path : \A l : Has(q, l)' <=> \/ q = <<h>> /\ l = leaf
                                               \/ Has(q, l) /\ ~ IsPrefix(<<h>>, q)
  BY <1>2, <1>3, <1>5, PutHas DEF PathsRight
<1>7. PICK S : S = Known[<<c, at>>]
  OBVIOUS
<1>8. S = Defaults(c) /\ Keyed(S)
  <2>1. S = Defaults(c)
    <3>1. S = Members(c)
      BY Zenon, <1>1, <1>7 DEF Members, Known
    <3> QED BY <1>2, <3>1, DefaultsOf
  <2>2. <<c, at>> \in AllObjects
    BY <1>1, <1>2, <1>4, InstanceGiven DEF AllObjects
  <2>3. Keyed(S)
    BY <1>4, <1>7, <2>2, MembersKeyed DEF Known
  <2> QED BY <2>1, <2>3
<1>9. PICK t : t = ClassTask(c, at, <<h>>)
  OBVIOUS
<1>10. tasks' = <<t>> /\ t.path \in Path
  <2>1. tasks' = <<t>>
    BY <1>1, <1>9 DEF CreateInstance
  <2>2. t.path = <<h>>
    BY <1>9 DEF ClassTask
  <2> QED BY <1>5, <2>1, <2>2
<1>11. ASSUME NEW q \in Path, NEW l, Len(q) > 1
       PROVE  /\ WillHave(q, l) <=> Has(q, l)
              /\ q[1] # h => (WillHave(q, l)' <=> Has(q, l))
              /\ q[1] = h => (WillHave(q, l)' <=> <<Tail(q), l>> \in S)
  <2>1. q # <<h>> /\ (IsPrefix(<<h>>, q) <=> q[1] = h)
    BY <1>4, <1>11, FirstKey
  <2>2. Has(q, l)' <=> Has(q, l) /\ q[1] # h
    BY Zenon, <1>6, <2>1
  <2>3. WillHave(q, l) <=> Has(q, l)
    BY <1>2, HasAll
  <2>4. /\ Touches(Known, memory, t, q) => IsPrefix(<<h>>, q)
        /\ Gives(Known, memory, t, q, l) <=> Holds(S, <<h>>, q, l)
    <3>1. PICK first : first = <<h>>
      OBVIOUS
    <3>2. first \in Path /\ t = ClassTask(c, at, first)
      BY <1>5, <1>9, <3>1
    <3>3. /\ Touches(Known, memory, t, q) => IsPrefix(first, q)
          /\ Gives(Known, memory, t, q, l) <=> Holds(S, first, q, l)
      BY <1>7, <1>8, <3>2, ObjectSays
    <3> QED BY Zenon, <3>1, <3>3
  <2>5. q[1] # h => ~ Holds(S, <<h>>, q, l)
    <3> SUFFICES ASSUME Holds(S, <<h>>, q, l) PROVE IsPrefix(<<h>>, q)
      BY <2>1
    <3>1. PICK v \in S : q = <<h>> \o v[1] /\ l = v[2]
      BY Zenon DEF Holds
    <3> QED BY Zenon, <1>5, <1>8, <3>1, EntryOn
  <2>6. q[1] = h => (Holds(S, <<h>>, q, l) <=> <<Tail(q), l>> \in S)
    BY <1>4, <1>8, <1>11, HoldsTail DEF Keyed
  <2>7. WillHave(q, l)' <=> \/ Gives(Known, memory, t, q, l)
                            \/ Has(q, l)' /\ ~ Touches(Known, memory, t, q)
    <3>1. PICK first : first = <<t>>
      OBVIOUS
    <3>2. /\ AnyTouches(Known, memory, first, q) <=> Touches(Known, memory, t, q)
          /\ AllGive(Known, memory, first, q, l) <=> Gives(Known, memory, t, q, l)
      BY <3>1, NoneOrOne
    <3>3. tasks' = first /\ Known' = Known /\ memory' = memory
      BY <1>2, <1>10, <3>1, SameClasses
    <3> QED BY Zenon, <3>2, <3>3 DEF WillHave
  <2> QED BY Zenon, <2>1, <2>2, <2>3, <2>4, <2>5, <2>6, <2>7
<1>12. PathsRight'
  <2>1. Elements(tasks') = {t}
    BY <1>10, ShortSeq
  <2>2. Elements(tasks)' = {t}
    BY <2>1 DEF Elements
  <2> QED BY <1>6, <1>10, <2>2 DEF PathsRight
<1>13. DumpInv'
  BY <1>2, InstanceStep
<1>14. ASSUME NEW i \in DOMAIN List, i <= index,
              meta'[List[i]].constructor
       PROVE  Saved(List[i])'
  <2>1. PICK d : d = List[i]
    OBVIOUS
  <2>2. /\ d \in Classes /\ meta[d].constructor
        /\ meta' = meta /\ Defaults(d)' = Defaults(d) /\ i \in Nat
    BY <1>2, <1>14, <2>1, SameClasses, MetaAssumed DEF MetaAssumption
  <2>3. CASE d = c
    <3>1. ASSUME NEW q \in Path, NEW l, Len(q) > 1, q[1] = meta'[d].hash
          PROVE  WillHave(q, l)' <=> <<Tail(q), l>> \in Defaults(d)'
      <4>1. q[1] = h
        BY <1>1, <2>2, <2>3, <3>1
      <4>2. WillHave(q, l)' <=> <<Tail(q), l>> \in S
        BY <1>11, <3>1, <4>1
      <4> QED BY Zenon, <1>8, <2>2, <2>3, <4>2
    <3> QED BY <2>1, <3>1 DEF Saved
  <2>4. CASE d # c
    <3>1. meta[d].hash # h
      BY <1>1, <1>4, <2>2, <2>4, MetaAssumed DEF MetaAssumption
    <3>2. i < index
      <4>1. i # index
        BY <1>1, <2>1, <2>4 DEF Class
      <4> QED BY <1>2, <1>14, <2>2, <4>1
    <3>3. Saved(d)
      BY <2>1, <2>2, <3>2 DEF DocInv
    <3>4. ASSUME NEW q \in Path, NEW l, Len(q) > 1, q[1] = meta'[d].hash
          PROVE  WillHave(q, l)' <=> <<Tail(q), l>> \in Defaults(d)'
      <4>1. q[1] = meta[d].hash
        BY <2>2, <3>4
      <4>2. WillHave(q, l) <=> <<Tail(q), l>> \in Defaults(d)
        BY <3>3, <3>4, <4>1 DEF Saved
      <4>3. WillHave(q, l)' <=> WillHave(q, l)
        BY <1>11, <3>1, <3>4, <4>1
      <4> QED BY <2>2, <4>2, <4>3
    <3> QED BY <2>1, <3>4 DEF Saved
  <2> QED BY <2>3, <2>4
<1>15. ASSUME NEW i \in DOMAIN List, i < index' \/ (i = index' /\ phase' = "dumping")
       PROVE  i <= index
  <2>1. i \in Nat
    BY MetaAssumed DEF MetaAssumption
  <2> QED BY <1>2, <1>15, <2>1
<1>16. phase' # "written"
  BY <1>2
<1> QED BY <1>12, <1>13, <1>14, <1>15, <1>16 DEF DocInv

\* At the start there is nothing.
LEMMA InitDoc == Init => DocInv
<1> SUFFICES ASSUME Init PROVE DocInv
  OBVIOUS
<1>1. DumpInv
  BY InitDump
<1>2. PathsRight
  BY ShortSeq DEF Init, PathsRight
<1>3. \A i \in DOMAIN List : ~ (i < index) /\ phase = "next"
  BY MetaAssumed DEF Init, MetaAssumption
<1>4. phase = "next"
  BY DEF Init
<1> QED BY <1>1, <1>2, <1>3, <1>4 DEF DocInv

\* Every step keeps the document right for the classes that it is done with.
LEMMA DocStep == DocInv /\ [Next]_vars => DocInv'
<1> SUFFICES ASSUME DocInv, [Next]_vars PROVE DocInv'
  OBVIOUS
<1>1. DumpInv /\ PathsRight /\ DumpInv'
  BY DumpStep DEF DocInv
<1>2. ASSUME UNCHANGED given, PathsRight', AsBefore,
             phase' = "written" => index' > Len(List) /\ tasks' = << >>,
             \A i \in DOMAIN List : i < index' \/ (i = index' /\ phase' = "dumping")
                                       => i < index \/ (i = index /\ phase = "dumping")
      PROVE  DocInv'
  <2>1. ASSUME NEW i \in DOMAIN List, i < index' \/ (i = index' /\ phase' = "dumping"),
               meta'[List[i]].constructor
        PROVE  Saved(List[i])'
    <3>1. PICK d : d = List[i]
      OBVIOUS
    <3>2. meta' = meta
      BY <1>2, <2>1, <3>1, SameClasses
    <3>3. Saved(d)
      BY <1>2, <2>1, <3>1, <3>2 DEF DocInv
    <3>4. Saved(d)'
      BY <1>2, <3>3, SavedKept
    <3> QED BY <3>1, <3>4 DEF Saved
  <2> QED BY <1>1, <1>2, <2>1 DEF DocInv
<1>3. CASE UNCHANGED vars
  <2>1. /\ UNCHANGED <<given, tasks, out>> /\ UNCHANGED given
        /\ index' = index /\ phase' = phase /\ tasks' = tasks
    BY <1>3 DEF vars, given
  <2>2. PathsRight' /\ AsBefore
    BY <1>1, <2>1, NothingSaid
  <2> QED BY <1>2, <2>1, <2>2 DEF DocInv
<1>4. CASE Write
  <2>1. /\ UNCHANGED <<given, tasks, out>> /\ UNCHANGED given
        /\ index' = index /\ phase' = "written" /\ tasks' = tasks /\ index > Len(List)
        /\ phase = "next" /\ tasks = << >>
    BY <1>1, <1>4 DEF Write, DumpInv
  <2>2. PathsRight' /\ AsBefore
    BY <1>1, <2>1, NothingSaid
  <2> QED BY <1>2, <2>1, <2>2
<1>5. CASE DestroyInstance
  <2>1. /\ UNCHANGED <<given, tasks, out>> /\ UNCHANGED given
        /\ index \in Nat /\ index' = index + 1 /\ phase' = "next" /\ phase = "dumping"
    BY <1>1, <1>5 DEF DestroyInstance, DumpInv
  <2>2. PathsRight' /\ AsBefore
    BY <1>1, <2>1, NothingSaid
  <2>3. \A i \in DOMAIN List : i < index' => i < index \/ i = index
    <3>1. \A i \in DOMAIN List : i \in Nat
      BY MetaAssumed DEF MetaAssumption
    <3> QED BY <2>1, <3>1
  <2> QED BY <1>2, <2>1, <2>2, <2>3
<1>6. CASE DestroyFails
  <2>1. /\ UNCHANGED <<given, tasks, out>> /\ UNCHANGED given
        /\ index' = index /\ phase' = "panic"
    BY <1>6 DEF DestroyFails, Panic
  <2>2. PathsRight' /\ AsBefore
    BY <1>1, <2>1, NothingSaid
  <2> QED BY <1>2, <2>1, <2>2
<1>7. CASE Dumping
  <2>1. PathsRight' /\ AsBefore
    BY <1>1, <1>7, CallSaid
  <2>2. /\ UNCHANGED given /\ index' = index /\ phase = "dumping"
        /\ phase' \in {"dumping", "panic"}
    BY <1>7 DEF Dumping, DumpProperties, DumpUndescribed, DumpList, DumpMap, DumpOption,
                DumpFlag, DumpOther, DumpScalar, DumpLink, DumpEmbed, DumpPointer,
                DumpUnnestable, Calling, Return, Become, Panic
  <2> QED BY <1>2, <2>1, <2>2
<1> QED BY <1>3, <1>4, <1>5, <1>6, <1>7, NothingDumped, InstanceDumped DEF Next

\* The defaults in the document that is written are those of the fields of each
\* class, whatever classes, metadata and contents of memory there are: nothing
\* inherited is missing, the most derived property of a hash wins, and nothing is
\* left of the value it replaces; and a class has none whose properties are all of
\* secondary bases (meta_dump.rs:153-169, 244-260).
THEOREM DefaultsAsMeant == Spec => []DefaultsRight
<1>1. DocInv => DefaultsRight
  <2> SUFFICES ASSUME DocInv, phase = "written", NEW i \in DOMAIN List,
                      meta[List[i]].constructor
               PROVE  Dumped(List[i]) = Defaults(List[i])
    BY DEF DefaultsRight
  <2>1. PICK c, h, S : c = List[i] /\ h = meta[c].hash /\ S = Defaults(c)
    OBVIOUS
  <2>2. c \in Classes /\ h \in Nat /\ meta \in Metas /\ memory \in Memories
    BY <2>1, MetaAssumed DEF DocInv, DumpInv, MetaAssumption
  <2>3. /\ tasks = << >> /\ i < index /\ DOMAIN out \subseteq Path
    BY MetaAssumed DEF DocInv, DumpInv, PathsRight, MetaAssumption
  <2>4. Keyed(S)
    <3>1. <<c, Instance[c]>> \in AllObjects
      BY <2>1, <2>2, InstanceGiven DEF AllObjects
    <3>2. Keyed(Members(c))
      BY <2>1, <2>2, <3>1, MembersKeyed DEF Members
    <3>3. Keyed({})
      BY DEF Keyed, Entries
    <3> QED BY <2>1, <3>2, <3>3, DefaultsOf
  <2>5. ASSUME NEW q \in Path, NEW l, Len(q) > 1, q[1] = h
        PROVE  Has(q, l) <=> <<Tail(q), l>> \in S
    <3>1. Saved(c)
      BY <2>1, <2>3 DEF DocInv
    <3>2. WillHave(q, l) <=> <<Tail(q), l>> \in S
      BY <2>1, <2>5, <3>1 DEF Saved
    <3>3. WillHave(q, l) <=> Has(q, l)
      BY <2>3, HasAll
    <3> QED BY <3>2, <3>3
  <2>6. Dumped(c) = {<<Tail(q), out[q]>> : q \in {p \in DOMAIN out : p[1] = h /\ Len(p) > 1}}
    BY <2>1 DEF Dumped
  <2>7. ASSUME NEW v \in Dumped(c)
        PROVE  v \in S
    <3>1. PICK q \in DOMAIN out : q[1] = h /\ Len(q) > 1 /\ v = <<Tail(q), out[q]>>
      BY <2>6
    <3>2. q \in Path /\ Has(q, out[q])
      BY <2>3 DEF Has
    <3> QED BY <2>5, <3>1, <3>2
  <2>8. ASSUME NEW v \in S
        PROVE  v \in Dumped(c)
    <3>1. PICK w, l : w = v[1] /\ l = v[2]
      OBVIOUS
    <3>2. v = <<w, l>> /\ w \in Path /\ w # << >>
      BY <2>4, <3>1 DEF Keyed, Entries
    <3>3. PICK q : q = <<h>> \o w
      OBVIOUS
    <3>4. q \in Path /\ Len(q) > 1 /\ q[1] = h /\ Tail(q) = w
      <4>1. w \in Seq(Nat) /\ Len(w) \in Nat /\ Len(w) # 0
        BY <3>2 DEF Path
      <4>2. q \in Seq(Nat) /\ Len(q) = Len(w) + 1 /\ q[1] = h
        BY <2>2, <3>3, <4>1
      <4>3. Tail(q) = w
        BY <2>2, <3>2, <3>3, TailOn
      <4> QED BY <4>1, <4>2, <4>3 DEF Path
    <3>5. Has(q, l)
      BY <2>5, <3>2, <3>4
    <3>6. q \in DOMAIN out /\ v = <<Tail(q), out[q]>>
      BY <3>2, <3>4, <3>5 DEF Has
    <3> QED BY <2>6, <3>4, <3>6
  <2>9. Dumped(c) = S
    BY <2>7, <2>8
  <2> QED BY <2>1, <2>9
<1>2. Spec => []DocInv
  BY InitDoc, DocStep, PTL DEF Spec
<1> QED BY <1>1, <1>2, PTL

=============================================================================
