------------------------------ MODULE MetaDump ------------------------------
(***************************************************************************)
(* The dump of the default values (src/meta_dump.rs over src/meta.rs): for *)
(* each class that has a constructor, an instance is made by the image,    *)
(* its properties are read following the metadata, and it is destroyed.    *)
(*                                                                         *)
(* The recursion of dump_instance_* is the stack of tasks that are left,   *)
(* its result the document out, a function from paths of keys to leaves:   *)
(* inserting a value at a path replaces all that was under it.             *)
(***************************************************************************)
EXTENDS Integers, SequencesExt

CONSTANTS Classes, NoClass,
          List,      \* the classes in the order of the image's vector
          Metas,     \* what their metadata may be, functions of classes
          Instance,  \* Instance[c]: where the constructor of c puts an instance
          Heap,      \* Heap[c]: the addresses that belong to it while it lives
          Objects,   \* Objects[c]: the objects there, pairs of class and address
          Memories,  \* the contents memory may have, functions of addresses
          Nesting    \* how deep an object nests, which bounds what it is made of

\* Hashes are of names: no two classes have one, properties may.
MetaAssumption ==
    /\ NoClass \notin Classes
    /\ List \in Seq(Classes)
    /\ \A m \in Metas :
          /\ DOMAIN m = Classes
          /\ \A c \in Classes :
                /\ m[c].base \in Classes \cup {NoClass}
                /\ \A list \in {m[c].secondary, m[c].properties} :
                      Len(list) \in Nat /\ DOMAIN list = 1 .. Len(list)
                /\ \A i \in DOMAIN m[c].secondary : m[c].secondary[i].class \in Classes
                /\ \A i \in DOMAIN m[c].properties : /\ m[c].properties[i].hash \in Nat
                                                    /\ m[c].properties[i].bit \in 0 .. 255
                /\ m[c].hash \in Nat
                /\ \A d \in Classes : m[c].hash = m[d].hash => c = d

ASSUME MetaAssumed == MetaAssumption

\* ContainerI::get_size.
Size(container, cell) == IF container.fixed >= 0 THEN container.fixed ELSE Len(cell.items)

\* An object that is embedded in its place, and one that is pointed to.
ObjectsAt(mem, type, class, at) ==
    CASE class # NoClass /\ type = "embed"   -> {<<class, at>>}
      [] class # NoClass /\ type = "pointer" -> {<<class, to>> : to \in {mem[at].pointer} \ {0}}
      [] OTHER -> {}

PropObjects(mem, p, at) ==
    CASE p.type = "list" /\ p.described ->
            UNION {ObjectsAt(mem, p.container.value, p.class, mem[at].items[i]) :
                   i \in DOMAIN mem[at].items}
      [] p.type = "option" /\ p.described /\ mem[at].items # <<>> ->
            ObjectsAt(mem, p.container.value, p.class, at)
      [] OTHER -> ObjectsAt(mem, p.type, p.class, at)

\* What an object of class o[1] at o[2] is made of: bases, and what properties hold.
Inner(m, mem, o) ==
    LET d == m[o[1]]
    IN  {<<base, o[2]>> : base \in {d.base} \ {NoClass}}
        \cup {<<d.secondary[i].class, o[2] + d.secondary[i].offset>> : i \in DOMAIN d.secondary}
        \cup UNION {PropObjects(mem, d.properties[i], o[2] + d.properties[i].offset) :
                    i \in DOMAIN d.properties}

\* Containers of a fixed size hold as many items.
Filled(container, cell) == /\ cell.items \in Seq(Nat)
                           /\ container.fixed >= 0 => Len(cell.items) = container.fixed

\* A property lies in an instance of c with its items.
PropLies(c, mem, p, at) ==
    /\ at \in Heap[c]
    /\ p.type \in {"list", "option"} /\ p.described => Filled(p.container, mem[at])
    /\ p.type = "list" /\ p.described =>
          \A i \in DOMAIN mem[at].items : mem[at].items[i] \in Heap[c]

ObjectLies(c, m, mem, o) ==
    /\ o[2] \in Heap[c]
    /\ Inner(m, mem, o) \subseteq {inner \in Objects[c] : Nesting[inner] < Nesting[o]}
    /\ \A i \in DOMAIN m[o[1]].properties :
          LET p == m[o[1]].properties[i] IN PropLies(c, mem, p, o[2] + p.offset)

AllObjects == UNION {Objects[c] : c \in Classes}

\* Constructors lay their instances out as the metadata has them, and no object
\* is, through pointers, a part of itself.
MemoryAssumption ==
    /\ \A c \in Classes : Objects[c] \subseteq Classes \X Nat
    /\ \A o \in AllObjects : Nesting[o] \in Nat
    /\ \A m \in Metas, mem \in Memories, c \in Classes :
          /\ m[c].constructor => <<c, Instance[c]>> \in Objects[c]
          /\ \A o \in Objects[c] : ObjectLies(c, m, mem, o)

ASSUME MemoryAssumed == MemoryAssumption

VARIABLES meta,   \* meta[c]: the metadata of class c
          memory, \* the contents of memory, by address
          checks, \* whether arithmetic that overflows panics, as debug builds have it
          index,  \* the class of List that is to be dumped
          phase,  \* "next" class, "dumping" its instance, "written", "panic"
          live,   \* the class of the instance alive, or NoClass
          tasks,  \* the calls of dump_instance_* that are left, the next first
          out     \* the document

vars == <<meta, memory, checks, index, phase, live, tasks, out>>
given == <<meta, memory, checks>>

Class == List[index]

\* The calls there are: dump_instance_properties, _property and _nestable.
ClassTask(c, at, path)      == [do |-> "class", class |-> c, at |-> at, path |-> path]
PropTask(p, at, path)       == [do |-> "prop", prop |-> p, at |-> at, path |-> path]
ItemTask(type, c, at, path) == [do |-> "item", type |-> type, class |-> c,
                                at |-> at, path |-> path]

\* Map::insert.
Put(leaf, path) == [p \in {q \in DOMAIN out : ~ IsPrefix(path, q)} \cup {path} |->
                       IF p = path THEN leaf ELSE out[p]]

\* is_empty looks at the class and its bases, not at the secondary bases.
Empty(m) == LET IsEmpty[c \in Classes] ==
                    /\ m[c].properties = <<>>
                    /\ m[c].base # NoClass => IsEmpty[m[c].base]
            IN  IsEmpty

IsEmpty(c) == Empty(meta)[c]

-----------------------------------------------------------------------------
(* dump_class_list and dump_class_defaults. *)

Init == /\ meta \in Metas /\ memory \in Memories /\ checks \in BOOLEAN
        /\ index = 1 /\ phase = "next" /\ live = NoClass
        /\ tasks = <<>> /\ out = <<>>

\* Variant with a plausible bug: the loop does not go on to the next class.
DumpNothingStays == /\ phase = "next" /\ index <= Len(List)
                    /\ ~ meta[Class].constructor \/ IsEmpty(Class)
                    /\ out' = Put(<<"object">>, <<meta[Class].hash>>)
                    /\ UNCHANGED <<given, index, phase, live, tasks>>

\* dump_class_defaults of a class without constructor, or of one without
\* properties: there is nothing to make an instance for.
DumpNothing == /\ phase = "next" /\ index <= Len(List)
               /\ ~ meta[Class].constructor \/ IsEmpty(Class)
               /\ out' = Put(IF meta[Class].constructor THEN <<"object">> ELSE <<"null">>,
                             <<meta[Class].hash>>)
               /\ index' = index + 1
               /\ UNCHANGED <<given, phase, live, tasks>>

\* create_instance, for a class that is no interface.
CreateInstance == /\ phase = "next" /\ index <= Len(List)
                  /\ meta[Class].constructor /\ ~ IsEmpty(Class)
                  /\ live' = Class
                  /\ out' = Put(<<"object">>, <<meta[Class].hash>>)
                  /\ tasks' = <<ClassTask(Class, Instance[Class], <<meta[Class].hash>>)>>
                  /\ phase' = "dumping"
                  /\ UNCHANGED <<given, index>>

\* Variant with a plausible bug: the instance goes before its last call is done.
DestroyInstanceEarly == /\ phase = "dumping" /\ Len(tasks) <= 1
                        /\ live' = NoClass
                        /\ phase' = "next" /\ index' = index + 1
                        /\ UNCHANGED <<given, tasks, out>>

\* destroy_instance.
DestroyInstance == /\ phase = "dumping" /\ tasks = <<>>
                   /\ meta[live].destructor
                   /\ live' = NoClass
                   /\ phase' = "next" /\ index' = index + 1
                   /\ UNCHANGED <<given, tasks, out>>

\* The panic of the program: nothing is written, and the instance stays.
Panic == /\ phase' = "panic"
         /\ UNCHANGED <<given, index, live, tasks, out>>

\* What was constructed cannot be destroyed.
DestroyFails == /\ phase = "dumping" /\ tasks = <<>>
                /\ ~ meta[live].destructor
                /\ Panic

\* main serializes the document.
Write == /\ phase = "next" /\ index > Len(List)
         /\ phase' = "written"
         /\ UNCHANGED <<given, index, live, tasks, out>>

-----------------------------------------------------------------------------
(* The calls of dump_instance_*. *)

Task == Head(tasks)

Calling(kind) == phase = "dumping" /\ tasks # <<>> /\ Task.do = kind

\* A call returns leaf, after the calls more that it makes.
Return(leaf, more) == /\ out' = Put(leaf, Task.path)
                      /\ tasks' = more \o Tail(tasks)
                      /\ UNCHANGED <<given, index, phase, live>>

\* A call ends in the call of another, with the same path.
Become(task) == /\ tasks' = <<task>> \o Tail(tasks)
                /\ UNCHANGED <<given, index, phase, live, out>>

\* Variant with a plausible bug: the own properties come before the inherited.
DumpPropertiesOwnFirst ==
    /\ Calling("class")
    /\ LET m == meta[Task.class]
           base == IF m.base = NoClass THEN <<>>
                   ELSE <<ClassTask(m.base, Task.at, Task.path)>>
           secondary == [i \in DOMAIN m.secondary |->
                            ClassTask(m.secondary[i].class,
                                      Task.at + m.secondary[i].offset, Task.path)]
           own == [i \in DOMAIN m.properties |->
                      PropTask(m.properties[i], Task.at + m.properties[i].offset,
                               Append(Task.path, m.properties[i].hash))]
       IN  tasks' = own \o base \o secondary \o Tail(tasks)
    /\ UNCHANGED <<given, index, phase, live, out>>

\* dump_instance_properties: the base's, the secondary bases', its own.
DumpProperties ==
    /\ Calling("class")
    /\ LET m == meta[Task.class]
           base == IF m.base = NoClass THEN <<>>
                   ELSE <<ClassTask(m.base, Task.at, Task.path)>>
           secondary == [i \in DOMAIN m.secondary |->
                            ClassTask(m.secondary[i].class,
                                      Task.at + m.secondary[i].offset, Task.path)]
           own == [i \in DOMAIN m.properties |->
                      PropTask(m.properties[i], Task.at + m.properties[i].offset,
                               Append(Task.path, m.properties[i].hash))]
       IN  tasks' = base \o secondary \o own \o Tail(tasks)
    /\ UNCHANGED <<given, index, phase, live, out>>

\* A list or an option without its container, or a map without its map.
DumpUndescribed == /\ Calling("prop")
                   /\ Task.prop.type \in {"list", "map", "option"}
                   /\ ~ Task.prop.described
                   /\ Panic

DumpList ==
    /\ Calling("prop") /\ Task.prop.type = "list" /\ Task.prop.described
    /\ LET n == Size(Task.prop.container, memory[Task.at])
       IN  Return(<<"list">>, [i \in 1 .. n |->
               ItemTask(Task.prop.container.value, Task.prop.class,
                        memory[Task.at].items[i], Append(Task.path, i))])

\* dump_instance_map knows empty maps only.
DumpMap == /\ Calling("prop") /\ Task.prop.type = "map" /\ Task.prop.described
           /\ IF memory[Task.at].items = <<>> THEN Return(<<"object">>, <<>>) ELSE Panic

\* The value of an option is read at the place of the option itself.
DumpOption ==
    /\ Calling("prop") /\ Task.prop.type = "option" /\ Task.prop.described
    /\ IF Size(Task.prop.container, memory[Task.at]) = 0 THEN Return(<<"null">>, <<>>)
       ELSE Become(ItemTask(Task.prop.container.value, Task.prop.class, Task.at, Task.path))

\* The flags of a byte: a shift beyond it is an overflow, and starts over.
Flag(p, cell) == <<"bool", p.bit % 8 \in cell.bits>>

DumpFlag == /\ Calling("prop") /\ Task.prop.type = "flag"
            /\ IF checks /\ Task.prop.bit > 7 THEN Panic
               ELSE Return(Flag(Task.prop, memory[Task.at]), <<>>)

\* Variant with a plausible bug: options are passed on with the other types.
DumpOtherOption == /\ Calling("prop")
                   /\ Task.prop.type \notin {"list", "map", "flag"}
                   /\ Become(ItemTask(Task.prop.type, Task.prop.class, Task.at, Task.path))

\* The types that dump_instance_property passes on.
DumpOther == /\ Calling("prop")
             /\ Task.prop.type \notin {"list", "map", "option", "flag"}
             /\ Become(ItemTask(Task.prop.type, Task.prop.class, Task.at, Task.path))

\* Numbers, vectors, strings and hashes are copied out of the instance.
DumpScalar == /\ Calling("item") /\ Task.type = "scalar"
              /\ Return(<<"value", memory[Task.at].value>>, <<>>)

\* dump_instance_link, which asks for the class and does not use it.
DumpLink == /\ Calling("item") /\ Task.type = "link"
            /\ IF Task.class = NoClass THEN Panic
               ELSE Return(<<"value", memory[Task.at].value>>, <<>>)

DumpEmbed == /\ Calling("item") /\ Task.type = "embed"
             /\ IF Task.class = NoClass THEN Panic
                ELSE Return(<<"object">>, <<ClassTask(Task.class, Task.at, Task.path)>>)

\* dump_instance_pointer, by the class of the property, whatever the object's is.
DumpPointer ==
    /\ Calling("item") /\ Task.type = "pointer"
    /\ LET to == memory[Task.at].pointer
       IN  IF Task.class = NoClass THEN Panic
           ELSE IF to = 0 THEN Return(<<"null">>, <<>>)
           ELSE Return(<<"object">>, <<ClassTask(Task.class, to, Task.path)>>)

\* None, and the containers, which do not nest.
DumpUnnestable == /\ Calling("item")
                  /\ Task.type \in {"none", "list", "map", "option", "flag"}
                  /\ Panic

Dumping == \/ DumpProperties
           \/ DumpUndescribed \/ DumpList \/ DumpMap \/ DumpOption \/ DumpFlag \/ DumpOther
           \/ DumpScalar \/ DumpLink \/ DumpEmbed \/ DumpPointer \/ DumpUnnestable

Next == \/ DumpNothing
        \/ CreateInstance \/ Dumping \/ DestroyInstance \/ DestroyFails
        \/ Write

Spec == Init /\ [][Next]_vars

\* One thread runs it all.
FairSpec == Spec /\ WF_vars(Next)
-----------------------------------------------------------------------------
(* What the document should say. *)

\* Parts of a document are sets of pairs of a path and a leaf.
Alone(leaf) == {<<<<>>, leaf>>}

Under(key, part) == {<<<<key>> \o v[1], v[2]>> : v \in part}

Keys(part) == {v[1][1] : v \in part}

\* Later parts hide what earlier ones have under the same keys.
Latest(parts) ==
    UNION {{v \in parts[i] : \A j \in DOMAIN parts : j > i => v[1][1] \notin Keys(parts[j])} :
           i \in DOMAIN parts}

\* What items and properties say, when an object says what it has in members.
ItemSays(members, mem, type, class, at) ==
    CASE type \in {"scalar", "link"} -> Alone(<<"value", mem[at].value>>)
      [] class # NoClass /\ type = "embed" ->
            Alone(<<"object">>) \cup members[<<class, at>>]
      [] class # NoClass /\ type = "pointer" ->
            IF mem[at].pointer = 0 THEN Alone(<<"null">>)
            ELSE Alone(<<"object">>) \cup members[<<class, mem[at].pointer>>]
      [] OTHER -> {}

PropSays(members, mem, p, at) ==
    CASE p.type = "list" /\ p.described ->
            Alone(<<"list">>) \cup
            UNION {Under(i, ItemSays(members, mem, p.container.value, p.class, mem[at].items[i])) :
                   i \in DOMAIN mem[at].items}
      [] p.type = "map" -> Alone(<<"object">>)
      [] p.type = "option" /\ p.described ->
            IF mem[at].items = <<>> THEN Alone(<<"null">>)
            ELSE ItemSays(members, mem, p.container.value, p.class, at)
      [] p.type = "flag" -> Alone(Flag(p, mem[at]))
      [] OTHER -> ItemSays(members, mem, p.type, p.class, at)

\* The parts of an object, the most derived last.
Parts(members, m, mem, o) ==
    LET d == m[o[1]]
    IN  (IF d.base = NoClass THEN <<>> ELSE <<members[<<d.base, o[2]>>]>>)
        \o [i \in DOMAIN d.secondary |->
               members[<<d.secondary[i].class, o[2] + d.secondary[i].offset>>]]
        \o [i \in DOMAIN d.properties |->
               LET p == d.properties[i]
               IN  Under(p.hash, PropSays(members, mem, p, o[2] + p.offset))]

\* What each object has.
MembersOf(m, mem) ==
    LET Members[o \in AllObjects] == Latest(Parts(Members, m, mem, o))
    IN  Members

Members(c) == MembersOf(meta, memory)[<<c, Instance[c]>>]

\* What the document says under a class.
Dumped(c) == {<<Tail(p), out[p]>> : p \in {q \in DOMAIN out : /\ q[1] = meta[c].hash
                                                              /\ Len(q) > 1}}

\* The defaults of a class: what an instance has, but none if all its properties
\* are those of secondary bases.
OnlySecondary(c) == IsEmpty(c) /\ Members(c) # {}

Defaults(c) == IF OnlySecondary(c) THEN {} ELSE Members(c)

Nestable == {"scalar", "link", "pointer", "embed"}

\* A type has the class that its values are read with.
Classed(type, class) == type \in {"link", "pointer", "embed"} => class \in Classes

WellTypedProp(p) ==
    CASE p.type \in {"list", "option"} -> /\ p.described /\ p.container.value \in Nestable
                                          /\ Classed(p.container.value, p.class)
      [] p.type = "map"  -> p.described
      [] p.type = "flag" -> p.bit \in 0 .. 7
      [] OTHER           -> p.type \in Nestable /\ Classed(p.type, p.class)

\* Metadata as the image's compiler makes it: containers are described and hold
\* what nests, flags are in a byte, and what can be constructed can be destroyed.
WellTyped ==
    \A c \in Classes :
        /\ meta[c].constructor => meta[c].destructor
        /\ \A i \in DOMAIN meta[c].properties : WellTypedProp(meta[c].properties[i])

-----------------------------------------------------------------------------
\* No call is left that reads outside the instance alive and what belongs to it:
\* not once it is destroyed, nor at null (meta_dump.rs:69-75, 248-260).
ReadsLive == \A i \in DOMAIN tasks : live # NoClass /\ tasks[i].at \in Heap[live]

\* The defaults in the document are those of the fields of the class: nothing
\* inherited is missing, the most derived property of a hash wins, and nothing
\* is left of the value it replaces; of a class that has the properties of its
\* secondary bases alone there are none, as is_empty has it
\* (meta_dump.rs:153-169, 244-260).
DefaultsRight ==
    phase = "written" =>
        \A c \in {List[i] : i \in DOMAIN List} :
            meta[c].constructor => Dumped(c) = Defaults(c)

\* With well-typed metadata the dump panics on a map that is not empty, and on
\* nothing else (the panics, the expects and the shift of meta_dump.rs:81-151).
PanicsOnMaps ==
    WellTyped /\ phase = "panic" =>
        /\ Task.do = "prop" /\ Task.prop.type = "map"
        /\ memory[Task.at].items # <<>>

\* The dump comes to its end, as memory holds no cycle of pointers.
Ends == <>(phase \in {"written", "panic"})
=============================================================================
