-------------------------- MODULE ShimCallsProofs --------------------------
(***************************************************************************)
(* For any number of descriptors, streams, threads, options, addresses,    *)
(* names, lists and strings of any length: what ShimCalls says of them.  A *)
(* behaviour of the composition is, seen through the variables of each     *)
(* part, a behaviour of that part.                                         *)
(***************************************************************************)
EXTENDS ShimCalls, NaturalsInduction, WellFoundedInduction, TLAPS

-----------------------------------------------------------------------------
(* Files.                                                                  *)

\* The block of a stream.
StreamValues == [state: {"none", "live", "freed", "leaked"}, fd: Int, position: Int]

FileTypes == /\ open \in [FileFds -> {"stdin", "file", "directory", "free"}]
             /\ held \subseteq FileFds
             /\ stream \in [DirStreams -> StreamValues]
             /\ \A s \in DirStreams : Files!Live(s) => stream[s].fd \in FileFds
             /\ closedQueues \in Nat

\* While only the standard input was closed as a queue, no two streams have one
\* descriptor, and none that is a file's.
FilesApart ==
    /\ closedQueues = 0 => open[0] = "stdin"
    /\ closedQueues < 2 =>
          \A s, u \in DirStreams :
              Files!Live(s) /\ Files!Live(u) /\ stream[s].fd = stream[u].fd => s = u

FilesInv == FileTypes /\ FilesApart /\ Files!FilesTheirs /\ Files!NoLeak /\ Files!StatRight

\* A set of numbers that is not empty has a least one.
LEMMA Smallest ==
    ASSUME NEW T, T \subseteq Nat, T # {}
    PROVE  \E n \in T : \A m \in T : n <= m
<1>1. IsWellFoundedOn(OpToRel(<, Nat), Nat)
  BY NatLessThanWellFounded
<1>2. PICK n \in T : \A m \in T : ~ (<<m, n>> \in OpToRel(<, Nat))
  BY <1>1, WFMin
<1>3. \A m \in T : ~ (m < n)
  BY <1>2 DEF OpToRel
<1> QED BY <1>3

\* A descriptor that is given out was free.
LEMMA LowestFree == ASSUME Files!FreeFds # {}
                    PROVE  Files!Lowest \in FileFds /\ open[Files!Lowest] = "free"
<1>1. Files!FreeFds \subseteq Nat
  BY PartsAssumption DEF Files!FreeFds, Files!FilesAssumption
<1>2. \E n \in Files!FreeFds : \A m \in Files!FreeFds : n <= m
  BY <1>1, Smallest
<1>3. Files!Lowest \in Files!FreeFds
  BY <1>2 DEF Files!Lowest, Files!Min
<1> QED BY <1>3 DEF Files!FreeFds, Files!Free

\* At the start no stream is open.
LEMMA InitFilesInv == Files!Init => FilesInv
<1> SUFFICES ASSUME Files!Init PROVE FilesInv
  OBVIOUS
<1>1. \A s \in DirStreams : stream[s] = Files!NoBlock
  BY DEF Files!Init
<1>2. Files!NoBlock \in StreamValues /\ Files!NoBlock.state = "none"
  BY DEF Files!NoBlock, StreamValues, Files!Garbage
<1>3. stat.result = -1
  BY DEF Files!Init, Files!Garbage
<1>4. /\ open \in [FileFds -> {"stdin", "file", "directory", "free"}]
      /\ open[0] = "stdin" /\ held = {} /\ closedQueues = 0
  BY PartsAssumption DEF Files!Init, Files!Free, Files!FilesAssumption
<1>5. stream \in [DirStreams -> StreamValues]
  BY <1>2 DEF Files!Init
<1> QED BY <1>1, <1>2, <1>3, <1>4, <1>5
        DEF FilesInv, FileTypes, FilesApart, Files!FilesTheirs, Files!NoLeak,
            Files!StatRight, Files!Live

\* A file is opened with a descriptor that nothing has, and closed once.
LEMMA FileStep ==
    ASSUME FilesInv, Files!OpenFile \/ \E fd \in FileFds : Files!CloseFile(fd)
    PROVE  FilesInv'
<1> USE DEF FilesInv
<1>1. stream' = stream /\ stat' = stat /\ closedQueues' = closedQueues
  BY DEF Files!OpenFile, Files!CloseFile
<1>2. PICK fd \in FileFds :
         \/ /\ open[fd] = "free" /\ open' = [open EXCEPT ![fd] = "file"]
            /\ held' = held \cup {fd}
         \/ /\ fd \in held /\ open' = [open EXCEPT ![fd] = "free"]
            /\ held' = held \ {fd}
  BY LowestFree DEF Files!OpenFile, Files!CloseFile, Files!File, Files!Free
<1>3. FileTypes'
  BY <1>1, <1>2 DEF FileTypes, Files!Live
<1>4. FilesApart'
  <2>1. closedQueues = 0 => open'[0] = "stdin"
    <3>1. 0 \in FileFds
      BY PartsAssumption DEF Files!FilesAssumption
    <3> QED BY <1>2, <3>1 DEF FilesApart, FileTypes, Files!FilesTheirs, Files!File
  <2>2. closedQueues < 2 =>
          \A s, u \in DirStreams :
              Files!Live(s)' /\ Files!Live(u)' /\ stream'[s].fd = stream'[u].fd => s = u
    BY <1>1 DEF FilesApart, Files!Live
  <2> QED BY <1>1, <2>1, <2>2 DEF FilesApart
<1>5. Files!NoLeak' /\ Files!StatRight'
  BY <1>1 DEF Files!NoLeak, Files!StatRight
<1>6. Files!FilesTheirs'
  BY <1>1, <1>2
     DEF FileTypes, Files!FilesTheirs, Files!Live, Files!File, Files!Folder
<1> QED BY <1>3, <1>4, <1>5, <1>6

\* The first queue that is closed closes the standard input.
LEMMA QueueStep ==
    ASSUME FilesInv, Files!Kqueue \/ Files!CloseQueue
    PROVE  FilesInv'
<1> USE DEF FilesInv
<1>1. stream' = stream /\ stat' = stat /\ held' = held
  BY DEF Files!Kqueue, Files!CloseQueue
<1>2. \/ open' = open /\ closedQueues' = closedQueues
      \/ open' = [open EXCEPT ![0] = "free"] /\ closedQueues' = closedQueues + 1
  BY DEF Files!Kqueue, Files!CloseQueue, Files!Free
<1>3. 0 \in FileFds
  BY PartsAssumption DEF Files!FilesAssumption
<1>4. FileTypes'
  BY <1>1, <1>2, <1>3 DEF FileTypes, Files!Live
<1>5. FilesApart' /\ Files!NoLeak' /\ Files!StatRight'
  BY <1>1, <1>2 DEF FilesApart, Files!NoLeak, Files!StatRight, FileTypes, Files!Live
<1>6. Files!FilesTheirs'
  BY <1>1, <1>2, <1>3
     DEF FileTypes, FilesApart, Files!FilesTheirs, Files!Live, Files!File, Files!Folder
<1> QED BY <1>4, <1>5, <1>6

\* A stream is opened with a descriptor that nothing has; its block is free again
\* after it is closed, and the block of no other.
LEMMA OpendirStep ==
    ASSUME FilesInv, NEW s \in DirStreams, Files!Opendir(s)
    PROVE  FilesInv'
<1> USE DEF FilesInv
<1>1. held' = held /\ stat' = stat /\ closedQueues' = closedQueues
  BY DEF Files!Opendir
<1>2. PICK fd \in FileFds :
         /\ open[fd] = "free" /\ open' = [open EXCEPT ![fd] = "directory"]
         /\ stream' = [stream EXCEPT ![s] = [Files!NoBlock EXCEPT !.state = "live", !.fd = fd]]
  BY LowestFree DEF Files!Opendir, Files!Folder
<1> DEFINE b1 == [Files!NoBlock EXCEPT !.state = "live"]
           b2 == [b1 EXCEPT !.fd = fd]
<1>3. Files!NoBlock \in StreamValues
  BY DEF Files!NoBlock, StreamValues, Files!Garbage
<1>4. b1 \in StreamValues /\ b1.state = "live"
  BY <1>3 DEF StreamValues
<1> HIDE DEF b1
<1>5. fd \in Int
  BY PartsAssumption DEF Files!FilesAssumption
<1>6. b2 \in StreamValues /\ b2.state = "live" /\ b2.fd = fd
  BY <1>4, <1>5 DEF StreamValues
<1>7. stream' = [stream EXCEPT ![s] = b2]
  BY <1>2 DEF b1
<1> HIDE DEF b2
<1>8. /\ stream' \in [DirStreams -> StreamValues]
      /\ stream'[s] = b2 /\ \A u \in DirStreams : u # s => stream'[u] = stream[u]
  BY <1>6, <1>7 DEF FileTypes
<1>9. FileTypes'
  BY <1>1, <1>2, <1>6, <1>8 DEF FileTypes, Files!Live
<1>10. Files!FilesTheirs'
  BY <1>1, <1>2, <1>6, <1>8 DEF FileTypes, Files!FilesTheirs, Files!Live, Files!File, Files!Folder
<1>11. FilesApart'
  BY <1>1, <1>2, <1>6, <1>8 DEF FileTypes, FilesApart, Files!FilesTheirs, Files!Live, Files!Folder
<1>12. Files!NoLeak' /\ Files!StatRight'
  BY <1>1, <1>6, <1>8 DEF Files!NoLeak, Files!StatRight
<1> QED BY <1>9, <1>10, <1>11, <1>12

\* readdir and closedir go by the descriptor of their own stream (stub_fs.c).
LEMMA StreamStep ==
    ASSUME FilesInv, NEW s \in DirStreams, Files!Readdir(s) \/ Files!Closedir(s)
    PROVE  FilesInv'
<1> USE DEF FilesInv
<1>1. held' = held /\ stat' = stat /\ closedQueues' = closedQueues
  BY DEF Files!Readdir, Files!Closedir, Files!Closes
<1>2. stream[s] \in StreamValues /\ stream[s].state = "live" /\ stream[s].fd \in FileFds
  BY DEF FileTypes, Files!Readdir, Files!Closedir, Files!Closes, Files!Live
<1>3. CASE Files!Readdir(s)
  <2> DEFINE v == stream[s]
             w == [v EXCEPT !.position = @ + 1]
  <2>1. stream' = [stream EXCEPT ![s] = w] /\ open' = open
    BY <1>3 DEF Files!Readdir
  <2> HIDE DEF v
  <2>2. w \in StreamValues /\ w.state = v.state /\ w.fd = v.fd
    BY <1>2 DEF StreamValues, v
  <2> HIDE DEF w
  <2>3. /\ stream' \in [DirStreams -> StreamValues]
        /\ \A u \in DirStreams : stream'[u].state = stream[u].state /\ stream'[u].fd = stream[u].fd
    BY <2>1, <2>2 DEF FileTypes, v
  <2> QED BY <1>1, <2>1, <2>3
          DEF FileTypes, FilesApart, Files!FilesTheirs, Files!NoLeak, Files!StatRight, Files!Live
<1>4. CASE Files!Closedir(s)
  <2>1. PICK state \in {"leaked", "freed"} :
              /\ stream' = [stream EXCEPT ![s].state = state]
              /\ open[stream[s].fd] # "free" => state = "freed"
    BY <1>4 DEF Files!Closedir, Files!Closes, Files!Free
  <2>2. /\ open' = [fd \in FileFds |-> IF fd = stream[s].fd THEN "free" ELSE open[fd]]
    BY <1>4 DEF Files!Closedir, Files!Closes, Files!Free
  <2> DEFINE v == stream[s]
             w == [v EXCEPT !.state = state]
  <2>3. stream' = [stream EXCEPT ![s] = w]
    BY <2>1
  <2> HIDE DEF v
  <2>4. w \in StreamValues /\ w.state = state
    BY <1>2, <2>1 DEF StreamValues, v
  <2> HIDE DEF w
  <2>5. /\ stream' \in [DirStreams -> StreamValues]
        /\ stream'[s].state = state /\ \A u \in DirStreams : u # s => stream'[u] = stream[u]
    BY <2>3, <2>4 DEF FileTypes
  <2>6. FileTypes'
    BY <1>1, <2>1, <2>2, <2>5 DEF FileTypes, Files!Live
  <2>7. \A u \in DirStreams : Files!Live(u)' => u # s /\ Files!Live(u) /\ stream'[u] = stream[u]
    BY <2>1, <2>5 DEF Files!Live
  <2>8. Files!FilesTheirs'
    BY <1>1, <1>2, <2>2, <2>7
       DEF FileTypes, FilesApart, Files!FilesTheirs, Files!Live, Files!File, Files!Folder
  <2>9. FilesApart'
    <3>1. closedQueues = 0 => stream[s].fd # 0
      BY <1>2 DEF FilesApart, Files!FilesTheirs, Files!Live, Files!Folder
    <3>2. 0 \in FileFds
      BY PartsAssumption DEF Files!FilesAssumption
    <3> QED BY <1>1, <2>2, <2>7, <3>1, <3>2 DEF FilesApart
  <2>10. Files!NoLeak'
    BY <1>1, <1>2, <2>1, <2>5
       DEF Files!NoLeak, Files!FilesTheirs, Files!Live, Files!Folder
  <2> QED BY <1>1, <2>6, <2>8, <2>9, <2>10 DEF Files!StatRight
<1> QED BY <1>3, <1>4

\* What stat copies field by field.
LEMMA StatStep ==
    ASSUME FilesInv, Files!Stat
    PROVE  FilesInv'
<1> USE DEF FilesInv
<1>1. UNCHANGED <<open, held, stream, closedQueues>>
  BY DEF Files!Stat
<1>2. Files!StatRight'
  <2>1. PICK a \in Attributes :
           \/ stat' = [result |-> 0, links |-> a.links % 65536, size |-> a.size, host |-> a]
           \/ stat' = [result |-> -1, links |-> a.links % 65536, size |-> a.size,
                       host |-> stat.host]
    BY DEF Files!Stat, Files!Copied
  <2>2. a.links \in Nat
    BY PartsAssumption DEF Files!FilesAssumption
  <2>3. a.links < 65536 => a.links % 65536 = a.links
    BY <2>2
  <2> QED BY <2>1, <2>3 DEF Files!StatRight
<1> QED BY <1>1, <1>2 DEF FileTypes, FilesApart, Files!FilesTheirs, Files!NoLeak, Files!Live

\* Every call on files keeps descriptors and streams apart (stub_fs.c, stub_io.c).
LEMMA FilesStep == FilesInv /\ [Files!Next]_(Files!vars) => FilesInv'
<1>1. ASSUME FilesInv, UNCHANGED Files!vars
      PROVE  FilesInv'
  BY <1>1 DEF Files!vars, FilesInv, FileTypes, FilesApart, Files!FilesTheirs, Files!NoLeak,
              Files!StatRight, Files!Live
<1> QED BY <1>1, FileStep, QueueStep, OpendirStep, StreamStep, StatStep DEF Files!Next

\* However many descriptors and streams there are: until two queues were closed
\* the image's files and streams are open and no block leaks, and stat tells what
\* the host has (stub_fs.c:56-131, stub_io.c:17-21, stub_kernel_kqueue.c:15-18).
THEOREM CallsFilesAsOpened == CallsSpec => []FilesAsOpened
<1>1. CallsInit => FilesInv
  BY InitFilesInv DEF CallsInit
<1>2. [CallsNext]_<<part, resolverVars, socketVars, listVars, optionVars, fileVars, stringVars>>
         => [Files!Next]_(Files!vars)
  BY DEF CallsNext, fileVars, Files!vars
<1>3. FilesInv => FilesAsOpened
  BY DEF FilesInv, FilesAsOpened
<1> QED BY <1>1, <1>2, <1>3, FilesStep, PTL DEF CallsSpec

-----------------------------------------------------------------------------
(* Options and signals.                                                    *)

\* What the image set an option to, the host's socket has.
SameValues ==
    /\ option \in [{Options!HostOption(o) : o \in Options!KnownAsked}
                     -> OptionValues \cup {"unset"}]
    /\ optMeant \in [AskedOptions -> OptionValues \cup {"unset"}]
    /\ \A o \in Options!KnownAsked : option[Options!HostOption(o)] = optMeant[o]

\* The signal is ignored, and so is it in every action a thread keeps to restore,
\* until the form that sets and gets at once was used.
Quiet == /\ ~ bothForms => /\ action = "ignore"
                           /\ \A t \in Threads : saved[t] \in {"none", "ignore"}
         /\ saved = [t \in Threads |-> saved[t]]

OptionsInv == SameValues /\ Options!ReadsBack /\ Quiet /\ Options!PipeQuiet

\* The host's number of an option is that of the table.
LEMMA Renumbered ==
    \A n \in Options!Numbers : Options!ToDarwinOptname(n[1]) = n[2]
BY DEF Options!Numbers, Options!ToDarwinOptname

\* An option that goes through is one of a socket, by the table, or one of TCP.
LEMMA KnownOptions ==
    ASSUME NEW o \in Options!KnownAsked
    PROVE  \E n \in Options!Numbers :
              \/ o = <<65535, n[1]>> /\ Options!HostOption(o) = <<1, n[2]>>
              \/ /\ o \in {<<6, 1>>, <<6, 2>>, <<6, 16>>} /\ o[2] = n[1]
                 /\ Options!HostOption(o) = <<6, n[2]>>
<1>1. PICK n \in Options!Numbers : n[1] = o[2]
  BY DEF Options!KnownAsked, Options!Known
<1>2. Options!ToDarwinOptname(o[2]) = n[2]
  BY <1>1, Renumbered
<1>3. o \in Nat \X Nat /\ (o[1] = 65535 \/ o \in {<<6, 1>>, <<6, 2>>, <<6, 16>>})
  BY PartsAssumption DEF Options!OptionsAssumption, Options!KnownAsked, Options!SolSocket,
                         Options!Tcp
<1>4. CASE o[1] = 65535
  BY <1>1, <1>2, <1>3, <1>4
     DEF Options!HostOption, Options!HostLevel, Options!SolSocket, Options!LinuxSocket
<1>5. CASE o \in {<<6, 1>>, <<6, 2>>, <<6, 16>>}
  BY <1>1, <1>2, <1>5 DEF Options!HostOption, Options!HostLevel, Options!SolSocket
<1> QED BY <1>3, <1>4, <1>5

\* No two of them are one option of the host's.
LEMMA OptionsApart ==
    ASSUME NEW o \in Options!KnownAsked, NEW p \in Options!KnownAsked,
           Options!HostOption(o) = Options!HostOption(p)
    PROVE  o = p
<1>1. \A m, n \in Options!Numbers : m[2] = n[2] => m[1] = n[1]
  BY DEF Options!Numbers
<1>2. PICK m \in Options!Numbers :
              \/ o = <<65535, m[1]>> /\ Options!HostOption(o) = <<1, m[2]>>
              \/ /\ o \in {<<6, 1>>, <<6, 2>>, <<6, 16>>} /\ o[2] = m[1]
                 /\ Options!HostOption(o) = <<6, m[2]>>
  BY KnownOptions
<1>3. PICK n \in Options!Numbers :
              \/ p = <<65535, n[1]>> /\ Options!HostOption(p) = <<1, n[2]>>
              \/ /\ p \in {<<6, 1>>, <<6, 2>>, <<6, 16>>} /\ p[2] = n[1]
                 /\ Options!HostOption(p) = <<6, n[2]>>
  BY KnownOptions
<1>4. m[2] = n[2] /\ m[1] = n[1]
  BY <1>1, <1>2, <1>3
<1> QED BY <1>2, <1>3, <1>4

\* The host's option means what the image's does, but for two of TCP.
LEMMA MeansTheSame ==
    ASSUME NEW o \in Options!KnownAsked, o \notin Options!Misread
    PROVE  <<o, Options!HostOption(o)>> \in Options!Meanings
<1>1. PICK n \in Options!Numbers :
              \/ o = <<65535, n[1]>> /\ Options!HostOption(o) = <<1, n[2]>>
              \/ /\ o \in {<<6, 1>>, <<6, 2>>, <<6, 16>>} /\ o[2] = n[1]
                 /\ Options!HostOption(o) = <<6, n[2]>>
  BY KnownOptions
<1>2. CASE o = <<65535, n[1]>> /\ Options!HostOption(o) = <<1, n[2]>>
  BY <1>2 DEF Options!Meanings, Options!SolSocket, Options!LinuxSocket
<1>3. CASE o = <<6, 1>> /\ o[2] = n[1] /\ Options!HostOption(o) = <<6, n[2]>>
  <2>1. n[2] = 1
    BY <1>3 DEF Options!Numbers
  <2> QED BY <1>3, <2>1 DEF Options!Meanings, Options!Tcp
<1> QED BY <1>1, <1>2, <1>3 DEF Options!Misread, Options!Tcp

\* At the start no option is set.
LEMMA InitOptionsInv == Options!Init => OptionsInv
<1> SUFFICES ASSUME Options!Init PROVE OptionsInv
  OBVIOUS
<1>1. SameValues
  BY DEF Options!Init, SameValues, Options!Unset, Options!KnownAsked
<1>2. Options!ReadsBack
  BY DEF Options!Init, Options!ReadsBack, Options!NoRead, Options!Unset, Options!Garbage
<1>3. Quiet /\ Options!PipeQuiet
  BY DEF Options!Init, Quiet, Options!PipeQuiet
<1> QED BY <1>1, <1>2, <1>3 DEF OptionsInv

\* An option is set, dropped, read, or panics.
LEMMA OptionStep ==
    ASSUME OptionsInv,
           \/ \E o \in AskedOptions, v \in OptionValues :
                 Options!Setsockopt(o, v) \/ Options!SetIgnored(o, v)
           \/ \E o \in AskedOptions : Options!Getsockopt(o) \/ Options!PanicsOn(o)
    PROVE  OptionsInv'
<1> USE DEF OptionsInv
<1>1. action' = action /\ saved' = saved /\ (process' = process \/ process' = "panicked")
  BY DEF Options!Setsockopt, Options!SetIgnored, Options!Getsockopt, Options!PanicsOn,
         Options!SocketOnly
<1>2. bothForms' = bothForms
  BY Zenon DEF Options!Setsockopt, Options!SetIgnored, Options!Getsockopt, Options!PanicsOn,
         Options!SocketOnly
<1>3. Quiet' /\ Options!PipeQuiet'
  BY <1>1, <1>2 DEF Quiet, Options!PipeQuiet
<1>4. SameValues' /\ Options!ReadsBack'
  <2>1. ASSUME NEW o \in AskedOptions, NEW v \in OptionValues, Options!Setsockopt(o, v)
        PROVE  SameValues' /\ Options!ReadsBack'
    <3>1. o \in Options!KnownAsked
      BY <2>1 DEF Options!Setsockopt, Options!KnownAsked
    <3>2. /\ option' = [option EXCEPT ![Options!HostOption(o)] = v]
          /\ optMeant' = [optMeant EXCEPT ![o] = v] /\ read' = read
      BY <2>1 DEF Options!Setsockopt
    <3>3. \A p \in Options!KnownAsked :
             /\ p \in AskedOptions
             /\ Options!HostOption(p) = Options!HostOption(o) => p = o
      BY <3>1, OptionsApart DEF Options!KnownAsked
    <3>4. \A p \in Options!KnownAsked : option'[Options!HostOption(p)] = optMeant'[p]
      BY <3>1, <3>2, <3>3 DEF SameValues
    <3>5. SameValues'
      BY <3>1, <3>2, <3>4 DEF SameValues
    <3> QED BY <3>2, <3>5 DEF Options!ReadsBack
  <2>2. ASSUME NEW o \in AskedOptions, NEW v \in OptionValues, Options!SetIgnored(o, v)
        PROVE  SameValues' /\ Options!ReadsBack'
    <3>1. o \notin Options!KnownAsked
      BY <2>2 DEF Options!SetIgnored, Options!KnownAsked, Options!Known, Options!Ignored,
                  Options!Numbers
    <3>2. option' = option /\ optMeant' = [optMeant EXCEPT ![o] = v] /\ read' = read
      BY <2>2 DEF Options!SetIgnored
    <3>3. SameValues'
      BY <3>1, <3>2 DEF SameValues, Options!KnownAsked
    <3> QED BY <3>2, <3>3 DEF Options!ReadsBack
  <2>3. ASSUME NEW o \in AskedOptions, Options!Getsockopt(o)
        PROVE  SameValues' /\ Options!ReadsBack'
    <3>1. option' = option /\ optMeant' = optMeant
      BY <2>3 DEF Options!Getsockopt
    <3>2. PICK value : read' = [option |-> o, value |-> value, right |-> optMeant[o]]
                       /\ \/ o[2] \in Options!Ignored /\ value = "garbage"
                          \/ o \in Options!KnownAsked /\ value = option[Options!HostOption(o)]
      BY <2>3 DEF Options!Getsockopt, Options!Reads, Options!Garbage, Options!KnownAsked
    <3>3. optMeant[o] # "garbage"
      BY PartsAssumption DEF Options!OptionsAssumption, SameValues
    <3>4. Options!ReadsBack'
      BY <3>2, <3>3 DEF Options!ReadsBack, Options!Garbage, SameValues
    <3> QED BY <3>1, <3>4 DEF SameValues
  <2>4. ASSUME NEW o \in AskedOptions, Options!PanicsOn(o)
        PROVE  SameValues' /\ Options!ReadsBack'
    BY <2>4 DEF Options!PanicsOn, Options!SignalOnly, SameValues, Options!ReadsBack
  <2> QED BY <2>1, <2>2, <2>3, <2>4
<1> QED BY <1>3, <1>4

\* Saving, ignoring and restoring, by any number of threads, and writing.
LEMMA SignalStep ==
    ASSUME OptionsInv,
           Options!WriteBroken \/ \E t \in Threads : Options!Around(t)
    PROVE  OptionsInv'
<1> USE DEF OptionsInv
<1>1. UNCHANGED <<option, optMeant, read>>
  BY DEF Options!WriteBroken, Options!Around, Options!GetAction, Options!BothForms,
         Options!SetAction, Options!SignalOnly
<1>2. SameValues' /\ Options!ReadsBack'
  BY <1>1 DEF SameValues, Options!ReadsBack
<1>3. ASSUME NEW t \in Threads, Options!GetAction(t) PROVE Quiet' /\ Options!PipeQuiet'
  <2>1. saved' = [saved EXCEPT ![t] = action] /\ action' = action /\ process' = process
    BY <1>3 DEF Options!GetAction
  <2>2. bothForms' = bothForms
    BY <1>3, Zenon DEF Options!GetAction
  <2> QED BY <2>1, <2>2 DEF Quiet, Options!PipeQuiet
<1>4. ASSUME NEW t \in Threads, Options!BothForms(t) PROVE Quiet' /\ Options!PipeQuiet'
  <2>1. bothForms' = TRUE
    BY <1>4, Zenon DEF Options!BothForms
  <2>2. saved' = [saved EXCEPT ![t] = "garbage"]
    BY <1>4 DEF Options!BothForms, Options!Garbage
  <2> QED BY <2>1, <2>2 DEF Quiet, Options!PipeQuiet
<1>5. ASSUME NEW t \in Threads, saved[t] # "none",
             Options!SetAction("ignore") \/ Options!SetAction(saved[t])
      PROVE  Quiet' /\ Options!PipeQuiet'
  <2>1. saved' = saved /\ action' \in {"ignore", saved[t]} /\ process' = process
    BY <1>5 DEF Options!SetAction
  <2>2. bothForms' = bothForms
    BY <1>5, Zenon DEF Options!SetAction
  <2> QED BY <1>5, <2>1, <2>2 DEF Quiet, Options!PipeQuiet
<1>6. ASSUME Options!WriteBroken PROVE Quiet' /\ Options!PipeQuiet'
  <2>1. saved' = saved /\ action' = action
        /\ process' = IF action = "ignore" THEN "running" ELSE "killed"
    BY <1>6 DEF Options!WriteBroken, Options!SocketOnly
  <2>2. bothForms' = bothForms
    BY <1>6, Zenon DEF Options!WriteBroken, Options!SocketOnly
  <2> QED BY <2>1, <2>2 DEF Quiet, Options!PipeQuiet
<1> QED BY <1>2, <1>3, <1>4, <1>5, <1>6 DEF Options!Around

\* Options and signal actions set or read keep meaning what they were meant to
\* (stub_socket.c, stub_sys.c).
LEMMA OptionsStep == OptionsInv /\ [Options!Next]_(Options!vars) => OptionsInv'
<1> SUFFICES ASSUME OptionsInv, [Options!Next]_(Options!vars) PROVE OptionsInv'
  OBVIOUS
<1>1. CASE UNCHANGED Options!vars
  <2>1. bothForms' = bothForms
    BY <1>1, Zenon DEF Options!vars
  <2>2. UNCHANGED <<option, optMeant, read, action, saved, process>>
    BY <1>1 DEF Options!vars
  <2> QED BY <2>1, <2>2
          DEF OptionsInv, SameValues, Options!ReadsBack, Quiet, Options!PipeQuiet
<1> QED BY <1>1, OptionStep, SignalStep DEF Options!Next

\* Whatever options of a socket and of TCP are set and read, and however many
\* threads save and restore the action: an option reads back as it was set and is
\* the one that was meant, but for those dropped and misread, and SIGPIPE stays
\* ignored (stub_socket.c:307-348, stub_sys.c:29-55).
THEOREM CallsOptionsAsMeant == CallsSpec => []OptionsAsMeant
<1>1. CallsInit => OptionsInv
  BY InitOptionsInv DEF CallsInit
<1>2. [CallsNext]_<<part, resolverVars, socketVars, listVars, optionVars, fileVars, stringVars>>
         => [Options!Next]_(Options!vars)
  BY DEF CallsNext, optionVars, Options!vars
<1>3. OptionsInv => OptionsAsMeant
  BY MeansTheSame DEF OptionsInv, OptionsAsMeant, Options!SameOption, SameValues
<1> QED BY <1>1, <1>2, <1>3, OptionsStep, PTL DEF CallsSpec

-----------------------------------------------------------------------------
(* Addresses.                                                              *)

\* The table of families gives each number of one system one of the other.
LEMMA FamiliesPaired ==
    /\ \A f \in Sockets!Families : /\ Sockets!SaFamilyToGnu(f[1]) = f[2]
                                    /\ Sockets!SaFamilyToDarwin(f[2]) = f[1]
    /\ \A f \in Sockets!Families : f[1] \in 0 .. 30 /\ f[2] \in 0 .. 34
<1>1. \A f \in Sockets!Families : Sockets!SaFamilyToGnu(f[1]) = f[2]
  BY DEF Sockets!Families, Sockets!SaFamilyToGnu
<1>2. \A f \in Sockets!Families : Sockets!SaFamilyToDarwin(f[2]) = f[1]
  BY DEF Sockets!Families, Sockets!SaFamilyToDarwin
<1>3. \A f \in Sockets!Families : f[1] \in 0 .. 30 /\ f[2] \in 0 .. 34
  BY DEF Sockets!Families
<1> QED BY <1>1, <1>2, <1>3

\* The families of the image's sockets are of the table.
LEMMA SocketFamiliesKnown ==
    ASSUME NEW f \in SocketFamilies
    PROVE  /\ f \in 0 .. 30 /\ Sockets!SaFamilyToGnu(f) \in 0 .. 34
           /\ Sockets!SaFamilyToDarwin(Sockets!SaFamilyToGnu(f)) = f
<1>1. PICK g \in Sockets!Families : f = g[1]
  BY PartsAssumption DEF Sockets!SocketAssumption
<1> QED BY <1>1, FamiliesPaired

AddressValues == [bytes: [b0: Int, b1: Int], rest: Rests]
SocketValues  == [family: SocketFamilies \cup {-1}, name: AddressValues \cup {NoAddress},
                  peer: AddressValues \cup {NoAddress}, queue: Seq(AddressValues)]

\* An address of Linux of a family that has one number in both systems.
Same(a, f) == /\ f \in SocketFamilies /\ Sockets!SaFamilyToGnu(f) = f
              /\ a \in AddressValues /\ a.bytes = Sockets!Bytes(f, 0)

\* The host's sockets are of the family the image meant, and so is whatever they
\* are bound to, connected to, and sent.
SocketsSound ==
    \A fd \in SocketFds :
        LET s == socket[fd]
            m == sockMeant[fd]
        IN  /\ s.family = m.family
            /\ s.name # NoAddress => Same(s.name, s.family) /\ m.name.rest = s.name.rest
            /\ s.peer # NoAddress => /\ Same(s.peer, s.family) /\ m.peer.rest = s.peer.rest
                                     /\ m.peer.bytes.b1 = s.family
            /\ \A i \in DOMAIN s.queue : Same(s.queue[i], s.family)

SocketTypes == /\ socket \in [SocketFds -> SocketValues]
               /\ sockMeant \in [SocketFds -> SocketValues]
               /\ sockTold = [fd \in SocketFds |-> sockTold[fd]]

SocketsInv == /\ SocketTypes /\ SocketsSound
              /\ Sockets!ToldAsMeant /\ Sockets!GivenAsMeant /\ Sockets!RefusedOnlyRenumbered

\* One part of a socket changes, and the others stay.
LEMMA SocketParts ==
    ASSUME NEW v \in SocketValues
    PROVE  /\ \A f \in SocketFamilies : LET w == [v EXCEPT !.family = f] IN
                 /\ w \in SocketValues /\ w.family = f /\ w.name = v.name
                 /\ w.peer = v.peer /\ w.queue = v.queue
           /\ \A a \in AddressValues : LET w == [v EXCEPT !.name = a] IN
                 /\ w \in SocketValues /\ w.family = v.family /\ w.name = a
                 /\ w.peer = v.peer /\ w.queue = v.queue
           /\ \A a \in AddressValues : LET w == [v EXCEPT !.peer = a] IN
                 /\ w \in SocketValues /\ w.family = v.family /\ w.name = v.name
                 /\ w.peer = a /\ w.queue = v.queue
           /\ \A q \in Seq(AddressValues) : LET w == [v EXCEPT !.queue = q] IN
                 /\ w \in SocketValues /\ w.family = v.family /\ w.name = v.name
                 /\ w.peer = v.peer /\ w.queue = q
BY DEF SocketValues

\* What the image writes, converted, when Linux takes it; and what it is told.
LEMMA Converted ==
    ASSUME NEW g \in SocketFamilies, NEW a \in Sockets!DarwinAddresses(g)
    PROVE  /\ a \in AddressValues /\ Sockets!ToGnu(a) \in AddressValues
           /\ a.bytes.b1 = g
           /\ Sockets!ToGnu(a).rest = a.rest
           /\ Sockets!ToGnu(a).bytes = Sockets!Bytes(Sockets!SaFamilyToGnu(g), 0)
           /\ Sockets!GnuFamily(Sockets!ToGnu(a).bytes) = Sockets!SaFamilyToGnu(g)
<1>1. PICK len \in {0, 16}, r \in Rests : a = [bytes |-> [b0 |-> len, b1 |-> g], rest |-> r]
  BY DEF Sockets!DarwinAddresses, Sockets!Address, Sockets!Bytes, Sockets!SizeofIn
<1>2. g \in Int /\ Sockets!SaFamilyToGnu(g) \in Int
  BY SocketFamiliesKnown
<1>3. a \in AddressValues /\ a.bytes.b1 = g
  BY <1>1, <1>2 DEF AddressValues
<1>4. Sockets!SockaddrToGnu(a.bytes) = Sockets!Bytes(Sockets!SaFamilyToGnu(g), 0)
  BY <1>3 DEF Sockets!SockaddrToGnu, Sockets!DarwinFamily
<1>5. Sockets!Bytes(Sockets!SaFamilyToGnu(g), 0) \in [b0: Int, b1: Int]
  BY <1>2 DEF Sockets!Bytes
<1>6. /\ Sockets!ToGnu(a) \in AddressValues /\ Sockets!ToGnu(a).rest = a.rest
      /\ Sockets!ToGnu(a).bytes = Sockets!Bytes(Sockets!SaFamilyToGnu(g), 0)
  BY <1>3, <1>4, <1>5 DEF Sockets!ToGnu, AddressValues
<1>7. Sockets!GnuFamily(Sockets!Bytes(Sockets!SaFamilyToGnu(g), 0)) = Sockets!SaFamilyToGnu(g)
  BY <1>2 DEF Sockets!GnuFamily, Sockets!Bytes
<1> QED BY <1>3, <1>6, <1>7

\* An address of Linux in the family f, as the image is told it: one of Darwin in
\* that family, with the length before it (stub_socket.c).
LEMMA ToldRight ==
    ASSUME NEW f, NEW a, Same(a, f)
    PROVE  Sockets!ToDarwin(a) = Sockets!Right(f, a.rest)
<1>1. f \in 0 .. 30 /\ Sockets!SaFamilyToDarwin(f) = f /\ f % 256 = f
  BY SocketFamiliesKnown DEF Same
<1>2. a \in AddressValues /\ a.bytes = Sockets!Bytes(f, 0)
  BY DEF Same
<1>3. Sockets!GnuFamily(Sockets!Bytes(f, 0)) = f
  BY <1>1 DEF Sockets!GnuFamily, Sockets!Bytes
<1>4. Sockets!SockaddrToDarwin(a.bytes)
         = Sockets!Bytes(IF f = Sockets!DarwinInet6 THEN Sockets!SizeofIn6
                         ELSE Sockets!SizeofIn, f)
  BY <1>1, <1>2, <1>3 DEF Sockets!SockaddrToDarwin
<1> QED BY <1>2, <1>4 DEF Sockets!ToDarwin, Sockets!Right, Sockets!Address, AddressValues

\* At the start no socket is open and nothing is told.
LEMMA InitSocketsInv == Sockets!Init => SocketsInv
<1> SUFFICES ASSUME Sockets!Init PROVE SocketsInv
  OBVIOUS
<1>1. /\ Sockets!NoSocket \in SocketValues /\ Sockets!NoSocket.name = NoAddress
      /\ Sockets!NoSocket.peer = NoAddress /\ Sockets!NoSocket.queue = << >>
  BY DEF Sockets!NoSocket, SocketValues
<1>2. SocketTypes
  BY <1>1 DEF Sockets!Init, SocketTypes
<1>3. SocketsSound
  BY <1>1 DEF Sockets!Init, SocketsSound
<1>4. Sockets!ToldAsMeant /\ Sockets!GivenAsMeant /\ Sockets!RefusedOnlyRenumbered
  BY DEF Sockets!Init, Sockets!ToldAsMeant, Sockets!GivenAsMeant, Sockets!RefusedOnlyRenumbered
<1> QED BY <1>2, <1>3, <1>4 DEF SocketsInv

\* A change of one socket, of the host's and of what is meant, to what is sound.
LEMMA SoundStep ==
    ASSUME SocketTypes, SocketsSound, NEW fd \in SocketFds,
           NEW w \in SocketValues, NEW m \in SocketValues,
           socket' = [socket EXCEPT ![fd] = w], sockMeant' = [sockMeant EXCEPT ![fd] = m],
           w.family = m.family,
           w.name # NoAddress => Same(w.name, w.family) /\ m.name.rest = w.name.rest,
           w.peer # NoAddress => /\ Same(w.peer, w.family) /\ m.peer.rest = w.peer.rest
                                 /\ m.peer.bytes.b1 = w.family,
           \A i \in DOMAIN w.queue : Same(w.queue[i], w.family)
    PROVE  /\ socket' \in [SocketFds -> SocketValues]
           /\ sockMeant' \in [SocketFds -> SocketValues]
           /\ SocketsSound'
<1>1. /\ socket' \in [SocketFds -> SocketValues]
      /\ sockMeant' \in [SocketFds -> SocketValues]
      /\ socket'[fd] = w /\ sockMeant'[fd] = m
      /\ \A e \in SocketFds : e # fd => socket'[e] = socket[e] /\ sockMeant'[e] = sockMeant[e]
  BY DEF SocketTypes
<1> QED BY <1>1 DEF SocketsSound

\* An address the image wrote either suits Linux, and then it is of the socket's
\* family there, or that family has another number.
LEMMA SuitsOrRenumbered ==
    ASSUME SocketTypes, SocketsSound, NEW fd \in SocketFds, NEW g \in SocketFamilies,
           NEW a \in Sockets!DarwinAddresses(g),
           Sockets!DarwinFamily(a.bytes) = sockMeant[fd].family
    PROVE  /\ g = sockMeant[fd].family /\ g = socket[fd].family
           /\ Sockets!Suits(fd, Sockets!ToGnu(a)) => Same(Sockets!ToGnu(a), g)
           /\ ~ Sockets!Suits(fd, Sockets!ToGnu(a)) => Sockets!SaFamilyToGnu(g) # g
<1>1. g = sockMeant[fd].family /\ g = socket[fd].family
  BY Converted DEF Sockets!DarwinFamily, SocketsSound
<1>2. Sockets!Suits(fd, Sockets!ToGnu(a)) <=> Sockets!SaFamilyToGnu(g) = g
  BY <1>1, Converted DEF Sockets!Suits
<1>3. Sockets!SaFamilyToGnu(g) = g => Same(Sockets!ToGnu(a), g)
  BY Converted DEF Same
<1> QED BY <1>1, <1>2, <1>3

\* A refusal changes nothing but what is refused.
LEMMA RefuseStep ==
    ASSUME SocketsInv, NEW fd \in SocketFds,
           Sockets!SaFamilyToGnu(sockMeant[fd].family) # sockMeant[fd].family,
           Sockets!Refuse(fd), UNCHANGED <<sockTold, given>>
    PROVE  SocketsInv'
BY DEF SocketsInv, Sockets!Refuse, SocketTypes, SocketsSound, Sockets!ToldAsMeant,
       Sockets!GivenAsMeant, Sockets!RefusedOnlyRenumbered

\* What Linux is given to send to or to look up is what the image wrote.
LEMMA GivesStep ==
    ASSUME SocketsInv, NEW g \in SocketFamilies, NEW a \in Sockets!DarwinAddresses(g),
           Sockets!Gives(Sockets!ToGnu(a), a),
           UNCHANGED <<socket, sockMeant, sockTold, refused>>
    PROVE  SocketsInv'
<1>1. Sockets!GivenAsMeant'
  BY Converted, SocketFamiliesKnown DEF Sockets!Gives, Sockets!GivenAsMeant
<1> QED BY <1>1 DEF SocketsInv, SocketTypes, SocketsSound, Sockets!ToldAsMeant,
                    Sockets!RefusedOnlyRenumbered

\* What the image is told by one call is right, or excepted.
LEMMA TellsStep ==
    ASSUME SocketsInv, NEW fd \in SocketFds, NEW a, NEW right,
           Sockets!Tells(fd, a, right),
           \/ right = NoAddress
           \/ Sockets!SaFamilyToDarwin(Sockets!DarwinFamily(right.bytes))
                 # Sockets!DarwinFamily(right.bytes)
           \/ Sockets!ToDarwin(a) = right
    PROVE  Sockets!ToldAsMeant' /\ sockTold' = [e \in SocketFds |-> sockTold'[e]]
<1> DEFINE t == [address |-> Sockets!ToDarwin(a), right |-> right]
<1>1. sockTold' = [sockTold EXCEPT ![fd] = t]
  BY DEF Sockets!Tells
<1>2. sockTold = [e \in SocketFds |-> sockTold[e]]
  BY DEF SocketsInv, SocketTypes
<1>3. /\ sockTold' = [e \in SocketFds |-> sockTold'[e]] /\ sockTold'[fd] = t
      /\ \A e \in SocketFds : e # fd => sockTold'[e] = sockTold[e]
  BY <1>1, <1>2
<1>4. t.right = right /\ t.address = Sockets!ToDarwin(a)
  OBVIOUS
<1> HIDE DEF t
<1> QED BY <1>3, <1>4 DEF SocketsInv, Sockets!ToldAsMeant

\* A step that leaves what was told, given and refused.
LEMMA QuietSocketStep ==
    ASSUME SocketsInv, UNCHANGED <<sockTold, given, refused>>,
           socket' \in [SocketFds -> SocketValues],
           sockMeant' \in [SocketFds -> SocketValues], SocketsSound'
    PROVE  SocketsInv'
BY DEF SocketsInv, SocketTypes, Sockets!ToldAsMeant, Sockets!GivenAsMeant,
       Sockets!RefusedOnlyRenumbered

\* socket: the descriptor has the family that was asked for (stub_socket.c).
LEMMA SocketCallStep ==
    ASSUME SocketsInv, NEW fd \in SocketFds, NEW f \in SocketFamilies, Sockets!Socket(fd, f)
    PROVE  SocketsInv'
<1> DEFINE w == [socket[fd] EXCEPT !.family = f]
           m == [sockMeant[fd] EXCEPT !.family = f]
<1>1. SocketTypes /\ SocketsSound
  BY DEF SocketsInv
<1>2. socket[fd] \in SocketValues /\ sockMeant[fd] \in SocketValues
  BY <1>1 DEF SocketTypes
<1>3. /\ w \in SocketValues /\ w.family = f /\ w.name = socket[fd].name
      /\ w.peer = socket[fd].peer /\ w.queue = socket[fd].queue
  BY <1>2, SocketParts
<1>4. /\ m \in SocketValues /\ m.family = f /\ m.name = sockMeant[fd].name
      /\ m.peer = sockMeant[fd].peer
  BY <1>2, SocketParts
<1>5. /\ socket' = [socket EXCEPT ![fd] = w] /\ sockMeant' = [sockMeant EXCEPT ![fd] = m]
      /\ UNCHANGED <<sockTold, given, refused>>
  BY DEF Sockets!Socket
\* A socket that was not open has no names and no peers.
<1>6. socket[fd].family \notin SocketFamilies
  <2>1. socket[fd].family = -1
    BY DEF Sockets!Socket, Sockets!Open
  <2> QED BY <2>1, SocketFamiliesKnown
<1>7. /\ w.name = NoAddress /\ w.peer = NoAddress
      /\ \A i \in DOMAIN w.queue : FALSE
  BY <1>1, <1>3, <1>6 DEF SocketsSound, Same
<1> HIDE DEF w, m
<1>8. /\ socket' \in [SocketFds -> SocketValues] /\ sockMeant' \in [SocketFds -> SocketValues]
      /\ SocketsSound'
  BY <1>1, <1>3, <1>4, <1>5, <1>7, SoundStep
<1> QED BY <1>5, <1>8, QuietSocketStep

\* bind: the name of the socket is the address that was given.
LEMMA NameStep ==
    ASSUME SocketsInv, NEW fd \in SocketFds, NEW g \in SocketFamilies,
           NEW a \in Sockets!DarwinAddresses(g), Sockets!Bind(fd, a)
    PROVE  SocketsInv'
<1> DEFINE b == Sockets!ToGnu(a)
           w == [socket[fd] EXCEPT !.name = b]
           m == [sockMeant[fd] EXCEPT !.name = a]
<1>1. SocketTypes /\ SocketsSound
  BY DEF SocketsInv
<1>2. /\ g = sockMeant[fd].family /\ g = socket[fd].family
      /\ Sockets!Suits(fd, b) => Same(b, g)
      /\ ~ Sockets!Suits(fd, b) => Sockets!SaFamilyToGnu(g) # g
  BY <1>1, SuitsOrRenumbered DEF Sockets!Bind, Sockets!NameIt
<1>3. CASE ~ Sockets!Suits(fd, b)
  BY <1>2, <1>3, RefuseStep DEF Sockets!Bind, Sockets!NameIt, Sockets!Untold
<1>4. CASE Sockets!Suits(fd, b)
  <2>1. socket[fd] \in SocketValues /\ sockMeant[fd] \in SocketValues
    BY <1>1 DEF SocketTypes
  <2>2. a \in AddressValues /\ b \in AddressValues /\ a.rest = b.rest /\ a.bytes.b1 = g
    BY Converted
  <2>3. /\ w \in SocketValues /\ w.family = socket[fd].family /\ w.name = b
        /\ w.peer = socket[fd].peer /\ w.queue = socket[fd].queue
    BY <2>1, <2>2, SocketParts
  <2>4. /\ m \in SocketValues /\ m.family = sockMeant[fd].family /\ m.name = a
        /\ m.peer = sockMeant[fd].peer
    BY <2>1, <2>2, SocketParts
  <2>5. /\ socket' = [socket EXCEPT ![fd] = w] /\ sockMeant' = [sockMeant EXCEPT ![fd] = m]
        /\ UNCHANGED <<sockTold, given, refused>>
    BY <1>4 DEF Sockets!Bind, Sockets!NameIt, Sockets!Untold
  <2> HIDE DEF b, w, m
  <2>6. /\ w.family = m.family
        /\ w.name # NoAddress => Same(w.name, w.family) /\ m.name.rest = w.name.rest
        /\ w.peer # NoAddress => /\ Same(w.peer, w.family) /\ m.peer.rest = w.peer.rest
                              /\ m.peer.bytes.b1 = w.family
        /\ \A i \in DOMAIN w.queue : Same(w.queue[i], w.family)
    BY <1>1, <1>2, <1>4, <2>2, <2>3, <2>4 DEF SocketsSound
  <2>7. /\ socket' \in [SocketFds -> SocketValues]
        /\ sockMeant' \in [SocketFds -> SocketValues] /\ SocketsSound'
    BY <1>1, <2>3, <2>4, <2>5, <2>6, SoundStep
  <2> QED BY <2>5, <2>7, QuietSocketStep
<1> QED BY <1>3, <1>4

\* connect: the peer is the address that was given.
LEMMA PeerStep ==
    ASSUME SocketsInv, NEW fd \in SocketFds, NEW g \in SocketFamilies,
           NEW a \in Sockets!DarwinAddresses(g), Sockets!Connect(fd, a)
    PROVE  SocketsInv'
<1> DEFINE b == Sockets!ToGnu(a)
           w == [socket[fd] EXCEPT !.peer = b]
           m == [sockMeant[fd] EXCEPT !.peer = a]
<1>1. SocketTypes /\ SocketsSound
  BY DEF SocketsInv
<1>2. /\ g = sockMeant[fd].family /\ g = socket[fd].family
      /\ Sockets!Suits(fd, b) => Same(b, g)
      /\ ~ Sockets!Suits(fd, b) => Sockets!SaFamilyToGnu(g) # g
  BY <1>1, SuitsOrRenumbered DEF Sockets!Connect
<1>3. CASE ~ Sockets!Suits(fd, b)
  BY <1>2, <1>3, RefuseStep DEF Sockets!Connect, Sockets!Untold
<1>4. CASE Sockets!Suits(fd, b)
  <2>1. socket[fd] \in SocketValues /\ sockMeant[fd] \in SocketValues
    BY <1>1 DEF SocketTypes
  <2>2. a \in AddressValues /\ b \in AddressValues /\ a.rest = b.rest /\ a.bytes.b1 = g
    BY Converted
  <2>3. /\ w \in SocketValues /\ w.family = socket[fd].family /\ w.peer = b
        /\ w.name = socket[fd].name /\ w.queue = socket[fd].queue
    BY <2>1, <2>2, SocketParts
  <2>4. /\ m \in SocketValues /\ m.family = sockMeant[fd].family /\ m.peer = a
        /\ m.name = sockMeant[fd].name
    BY <2>1, <2>2, SocketParts
  <2>5. /\ socket' = [socket EXCEPT ![fd] = w] /\ sockMeant' = [sockMeant EXCEPT ![fd] = m]
        /\ UNCHANGED <<sockTold, given, refused>>
    BY <1>4 DEF Sockets!Connect, Sockets!Untold
  <2> HIDE DEF b, w, m
  <2>6. /\ w.family = m.family
        /\ w.name # NoAddress => Same(w.name, w.family) /\ m.name.rest = w.name.rest
        /\ w.peer # NoAddress => /\ Same(w.peer, w.family) /\ m.peer.rest = w.peer.rest
                              /\ m.peer.bytes.b1 = w.family
        /\ \A i \in DOMAIN w.queue : Same(w.queue[i], w.family)
    BY <1>1, <1>2, <1>4, <2>2, <2>3, <2>4 DEF SocketsSound
  <2>7. /\ socket' \in [SocketFds -> SocketValues]
        /\ sockMeant' \in [SocketFds -> SocketValues] /\ SocketsSound'
    BY <1>1, <2>3, <2>4, <2>5, <2>6, SoundStep
  <2> QED BY <2>5, <2>7, QuietSocketStep
<1> QED BY <1>3, <1>4

\* sendto: what is sent goes to the address that was given.
LEMMA SendtoStep ==
    ASSUME SocketsInv, NEW fd \in SocketFds, NEW g \in SocketFamilies,
           NEW a \in Sockets!DarwinAddresses(g), Sockets!Sendto(fd, a)
    PROVE  SocketsInv'
<1>1. /\ g = sockMeant[fd].family
      /\ ~ Sockets!Suits(fd, Sockets!ToGnu(a)) => Sockets!SaFamilyToGnu(g) # g
  BY SuitsOrRenumbered DEF SocketsInv, Sockets!Sendto
<1>2. CASE Sockets!Suits(fd, Sockets!ToGnu(a))
  BY <1>2, GivesStep DEF Sockets!Sendto
<1>3. CASE ~ Sockets!Suits(fd, Sockets!ToGnu(a))
  BY <1>1, <1>3, RefuseStep DEF Sockets!Sendto
<1> QED BY <1>2, <1>3

\* What it is told of a socket without a name has the socket's family, if that is
\* no other's number in Linux.
LEMMA UnnamedRight ==
    ASSUME NEW f \in SocketFamilies,
           Sockets!SaFamilyToDarwin(Sockets!DarwinFamily(Sockets!Right(f, NoAddress).bytes))
             = Sockets!DarwinFamily(Sockets!Right(f, NoAddress).bytes)
    PROVE  Sockets!ToDarwin(Sockets!Address(Sockets!Bytes(f, 0), NoAddress))
             = Sockets!Right(f, NoAddress)
<1>1. f \in 0 .. 30 /\ f % 256 = f
  BY SocketFamiliesKnown
<1>2. Sockets!DarwinFamily(Sockets!Right(f, NoAddress).bytes) = f
  BY DEF Sockets!DarwinFamily, Sockets!Right, Sockets!Address, Sockets!Bytes
<1>3. Sockets!SaFamilyToDarwin(f) = f
  BY <1>2
<1>4. Sockets!GnuFamily(Sockets!Bytes(f, 0)) = f
  BY <1>1 DEF Sockets!GnuFamily, Sockets!Bytes
<1>5. Sockets!SockaddrToDarwin(Sockets!Bytes(f, 0))
         = Sockets!Bytes(IF f = Sockets!DarwinInet6 THEN Sockets!SizeofIn6
                         ELSE Sockets!SizeofIn, f)
  BY <1>1, <1>3, <1>4 DEF Sockets!SockaddrToDarwin
<1> QED BY <1>5 DEF Sockets!ToDarwin, Sockets!Right, Sockets!Address

\* The image asks for the name of a socket, or for its peer.
LEMMA AskStep ==
    ASSUME SocketsInv, NEW fd \in SocketFds,
           Sockets!Getsockname(fd) \/ Sockets!Getpeername(fd)
    PROVE  SocketsInv'
<1> DEFINE s == socket[fd]
           m == sockMeant[fd]
<1>1. s.family = m.family /\ s.family \in SocketFamilies \cup {-1}
  BY DEF SocketsInv, SocketsSound, SocketTypes, SocketValues
<1>2. UNCHANGED <<socket, sockMeant, given, refused>>
  BY DEF Sockets!Getsockname, Sockets!Getpeername
<1>3. ASSUME Sockets!TellsLeftovers(fd)
      PROVE  Sockets!ToldAsMeant' /\ sockTold' = [e \in SocketFds |-> sockTold'[e]]
  BY <1>3, TellsStep DEF Sockets!TellsLeftovers
<1>4. ASSUME NEW a, NEW rest, Same(a, m.family), rest = a.rest,
             Sockets!Tells(fd, a, Sockets!Right(m.family, rest))
      PROVE  Sockets!ToldAsMeant' /\ sockTold' = [e \in SocketFds |-> sockTold'[e]]
  BY <1>4, ToldRight, TellsStep
<1>5. ASSUME s.family \in SocketFamilies,
             Sockets!Tells(fd, Sockets!Address(Sockets!Bytes(s.family, 0), NoAddress),
                           Sockets!Right(m.family, NoAddress))
      PROVE  Sockets!ToldAsMeant' /\ sockTold' = [e \in SocketFds |-> sockTold'[e]]
  BY <1>1, <1>5, UnnamedRight, TellsStep
<1>6. /\ s.name # NoAddress => Same(s.name, m.family) /\ m.name.rest = s.name.rest
      /\ s.peer # NoAddress => Same(s.peer, m.family) /\ m.peer.rest = s.peer.rest
  BY <1>1 DEF SocketsInv, SocketsSound
<1>7. \/ s.name # NoAddress /\ Sockets!Tells(fd, s.name, Sockets!Right(m.family, m.name.rest))
      \/ /\ s.family # -1
         /\ Sockets!Tells(fd, Sockets!Address(Sockets!Bytes(s.family, 0), NoAddress),
                          Sockets!Right(m.family, NoAddress))
      \/ s.peer # NoAddress /\ Sockets!Tells(fd, s.peer, Sockets!Right(m.family, m.peer.rest))
      \/ Sockets!TellsLeftovers(fd)
  BY DEF Sockets!Getsockname, Sockets!Getpeername, Sockets!Open
<1> HIDE DEF s, m
<1>8. Sockets!ToldAsMeant' /\ sockTold' = [e \in SocketFds |-> sockTold'[e]]
  BY <1>1, <1>3, <1>4, <1>5, <1>6, <1>7
<1> QED BY <1>2, <1>8 DEF SocketsInv, SocketTypes, SocketsSound, Sockets!GivenAsMeant,
                          Sockets!RefusedOnlyRenumbered

\* The queue of a socket changes to addresses of its family.
LEMMA QueueChanges ==
    ASSUME SocketsInv, NEW fd \in SocketFds, NEW q \in Seq(AddressValues),
           socket' = [socket EXCEPT ![fd].queue = q], sockMeant' = sockMeant,
           \A i \in DOMAIN q : Same(q[i], socket[fd].family)
    PROVE  /\ socket' \in [SocketFds -> SocketValues]
           /\ sockMeant' \in [SocketFds -> SocketValues]
           /\ SocketsSound'
<1> DEFINE w == [socket[fd] EXCEPT !.queue = q]
           m == sockMeant[fd]
<1>1. SocketTypes /\ SocketsSound
  BY DEF SocketsInv
<1>2. socket[fd] \in SocketValues /\ m \in SocketValues
  BY <1>1 DEF SocketTypes
<1>3. /\ w \in SocketValues /\ w.family = socket[fd].family /\ w.name = socket[fd].name
      /\ w.peer = socket[fd].peer /\ w.queue = q
  BY <1>2, SocketParts
<1>4. socket' = [socket EXCEPT ![fd] = w] /\ sockMeant' = [sockMeant EXCEPT ![fd] = m]
  BY <1>1 DEF SocketTypes
<1>5. /\ w.family = m.family
      /\ w.name # NoAddress => Same(w.name, w.family) /\ m.name.rest = w.name.rest
      /\ w.peer # NoAddress => /\ Same(w.peer, w.family) /\ m.peer.rest = w.peer.rest
                            /\ m.peer.bytes.b1 = w.family
      /\ \A i \in DOMAIN w.queue : Same(w.queue[i], w.family)
  <2>1. /\ socket[fd].family = m.family
        /\ socket[fd].name # NoAddress => /\ Same(socket[fd].name, socket[fd].family)
                                          /\ m.name.rest = socket[fd].name.rest
        /\ socket[fd].peer # NoAddress => /\ Same(socket[fd].peer, socket[fd].family)
                                          /\ m.peer.rest = socket[fd].peer.rest
                                          /\ m.peer.bytes.b1 = socket[fd].family
    BY <1>1 DEF SocketsSound
  <2> HIDE DEF w, m
  <2> QED BY <1>3, <2>1
<1> HIDE DEF w, m
<1> QED BY <1>1, <1>2, <1>3, <1>4, <1>5, SoundStep

\* accept and recvfrom: the image is told who the peer is.
LEMMA ComesStep ==
    ASSUME SocketsInv, NEW fd \in SocketFds, NEW g \in SocketFamilies,
           NEW a \in Sockets!LinuxAddresses(g), Sockets!PeerComes(fd, a)
    PROVE  SocketsInv'
<1>1. PICK r \in Rests : a = [bytes |-> Sockets!Bytes(g, 0), rest |-> r]
  BY DEF Sockets!LinuxAddresses, Sockets!Address
<1>2. /\ a \in AddressValues /\ a.bytes = Sockets!Bytes(g, 0)
      /\ Sockets!GnuFamily(a.bytes) = g
  BY <1>1, SocketFamiliesKnown DEF AddressValues, Sockets!Bytes, Sockets!GnuFamily
<1>3. socket[fd].family = g /\ socket[fd].name # NoAddress
  BY <1>2 DEF Sockets!PeerComes, Sockets!Suits
<1>4. Same(a, g)
  BY <1>2, <1>3 DEF SocketsInv, SocketsSound, Same
<1>5. /\ socket[fd].queue \in Seq(AddressValues)
      /\ \A i \in DOMAIN socket[fd].queue : Same(socket[fd].queue[i], g)
  BY <1>3 DEF SocketsInv, SocketTypes, SocketsSound, SocketValues
<1> DEFINE q == Append(socket[fd].queue, a)
<1>6. q \in Seq(AddressValues) /\ \A i \in DOMAIN q : Same(q[i], g)
  BY <1>2, <1>4, <1>5
<1>7. /\ socket' = [socket EXCEPT ![fd].queue = q] /\ sockMeant' = sockMeant
      /\ UNCHANGED <<sockTold, given, refused>>
  BY DEF Sockets!PeerComes
<1> HIDE DEF q
<1>8. /\ socket' \in [SocketFds -> SocketValues]
      /\ sockMeant' \in [SocketFds -> SocketValues] /\ SocketsSound'
  BY <1>3, <1>6, <1>7, QueueChanges
<1> QED BY <1>7, <1>8, QuietSocketStep

\* A call that only tells.
LEMMA LeftoversStep ==
    ASSUME SocketsInv, NEW fd \in SocketFds, Sockets!TellsLeftovers(fd),
           UNCHANGED <<socket, sockMeant, given, refused>>
    PROVE  SocketsInv'
<1>1. Sockets!ToldAsMeant' /\ sockTold' = [e \in SocketFds |-> sockTold'[e]]
  BY TellsStep DEF Sockets!TellsLeftovers
<1> QED BY <1>1 DEF SocketsInv, SocketTypes, SocketsSound, Sockets!GivenAsMeant,
                    Sockets!RefusedOnlyRenumbered

\* The image takes a peer, whether it wants its address or not.
LEMMA TakeStep ==
    ASSUME SocketsInv, NEW fd \in SocketFds, Sockets!Dequeues(fd),
           LET peer == Head(socket[fd].queue) IN
             \/ sockTold' = sockTold
             \/ Sockets!Tells(fd, peer, Sockets!Right(sockMeant[fd].family, peer.rest))
    PROVE  SocketsInv'
<1> DEFINE q == Tail(socket[fd].queue)
           peer == Head(socket[fd].queue)
           f == sockMeant[fd].family
<1>1. socket[fd].queue # << >> /\ socket' = [socket EXCEPT ![fd].queue = q]
      /\ UNCHANGED <<sockMeant, given, refused>>
  BY DEF Sockets!Dequeues
<1>2. /\ socket[fd].queue \in Seq(AddressValues) /\ socket[fd].family = f
      /\ \A i \in DOMAIN socket[fd].queue : Same(socket[fd].queue[i], f)
  BY DEF SocketsInv, SocketTypes, SocketsSound, SocketValues
<1>3. q \in Seq(AddressValues) /\ \A i \in DOMAIN q : Same(q[i], f)
  BY <1>1, <1>2
<1>4. Same(peer, f)
  BY <1>1, <1>2
<1>5. sockTold' = sockTold \/ Sockets!Tells(fd, peer, Sockets!Right(f, peer.rest))
  OBVIOUS
<1> HIDE DEF q, peer, f
<1>6. /\ socket' \in [SocketFds -> SocketValues]
      /\ sockMeant' \in [SocketFds -> SocketValues] /\ SocketsSound'
  BY <1>1, <1>2, <1>3, QueueChanges
<1>7. CASE sockTold' = sockTold
  BY <1>1, <1>6, <1>7, QuietSocketStep
<1>8. CASE Sockets!Tells(fd, peer, Sockets!Right(f, peer.rest))
  <2>1. Sockets!ToldAsMeant' /\ sockTold' = [e \in SocketFds |-> sockTold'[e]]
    BY <1>4, <1>8, ToldRight, TellsStep
  <2> QED BY <1>1, <1>6, <2>1 DEF SocketsInv, SocketTypes, Sockets!GivenAsMeant,
                                  Sockets!RefusedOnlyRenumbered
<1> QED BY <1>5, <1>7, <1>8

\* accept and recvfrom, which take a peer or fail (stub_socket.c:233-247).
LEMMA AcceptStep ==
    ASSUME SocketsInv, NEW fd \in SocketFds,
           Sockets!AcceptFrom(fd) \/ Sockets!AcceptAny(fd)
    PROVE  SocketsInv'
BY TakeStep, LeftoversStep DEF Sockets!AcceptFrom, Sockets!AcceptAny

\* A datagram to nobody goes to the peer the image connected to, or nowhere.
LEMMA ToPeerStep ==
    ASSUME SocketsInv, NEW fd \in SocketFds, Sockets!SendtoPeer(fd)
    PROVE  SocketsInv'
<1> DEFINE a == socket[fd].peer
           b == sockMeant[fd].peer
<1>1. /\ given' = [address |-> a, right |-> b] \/ given' = given
      /\ UNCHANGED <<socket, sockMeant, sockTold, refused>>
  BY DEF Sockets!SendtoPeer, Sockets!Gives
<1>2. Same(a, sockMeant[fd].family) /\ b.rest = a.rest /\ b.bytes.b1 = sockMeant[fd].family
  BY DEF SocketsInv, SocketsSound, Sockets!SendtoPeer
<1> HIDE DEF a, b
<1>3. Sockets!SaFamilyToDarwin(Sockets!GnuFamily(a.bytes)) = b.bytes.b1
  BY <1>2, SocketFamiliesKnown DEF Same, Sockets!GnuFamily, Sockets!Bytes
<1>4. Sockets!GivenAsMeant'
  BY <1>1, <1>2, <1>3 DEF SocketsInv, Sockets!GivenAsMeant
<1> QED BY <1>1, <1>4 DEF SocketsInv, SocketTypes, SocketsSound, Sockets!ToldAsMeant,
                          Sockets!RefusedOnlyRenumbered

\* Every call with an address keeps it the one that was meant (stub_socket.c).
LEMMA SocketsStep == SocketsInv /\ [Sockets!Next]_(Sockets!vars) => SocketsInv'
<1> SUFFICES ASSUME SocketsInv, [Sockets!Next]_(Sockets!vars) PROVE SocketsInv'
  OBVIOUS
<1>1. CASE UNCHANGED Sockets!vars
  BY <1>1 DEF Sockets!vars, SocketsInv, SocketTypes, SocketsSound, Sockets!ToldAsMeant,
              Sockets!GivenAsMeant, Sockets!RefusedOnlyRenumbered
<1>2. ASSUME NEW g \in SocketFamilies, NEW a \in Sockets!DarwinAddresses(g),
             Sockets!Getnameinfo(a)
      PROVE  SocketsInv'
  BY <1>2, GivesStep DEF Sockets!Getnameinfo
<1> QED BY <1>1, <1>2, SocketCallStep, NameStep, PeerStep, SendtoStep, AskStep, ComesStep,
           AcceptStep, ToPeerStep DEF Sockets!Next

\* Whatever sockets are made, bound, connected and sent to, whichever peers come
\* to them and whichever calls fail: what the calls that succeed tell, what is sent
\* to and what is looked up is what was meant, and Linux refuses an address of the
\* socket's own family only if that family has another number there
\* (stub_socket.c:210-263, 295-300).
THEOREM CallsAddressesAsMeant == CallsSpec => []AddressesAsMeant
<1>1. CallsInit => SocketsInv
  BY InitSocketsInv DEF CallsInit
<1>2. [CallsNext]_<<part, resolverVars, socketVars, listVars, optionVars, fileVars, stringVars>>
         => [Sockets!Next]_(Sockets!vars)
  BY DEF CallsNext, socketVars, Sockets!vars
<1>3. SocketsInv => AddressesAsMeant
  BY DEF SocketsInv, AddressesAsMeant
<1> QED BY <1>1, <1>2, <1>3, SocketsStep, PTL DEF CallsSpec

-----------------------------------------------------------------------------
(* Names.                                                                  *)

\* The names that stubs.rs itself looks at, and the empty one.
OwnNames == DOMAIN Streams \cup RustNames \cup {""}

\* The table has none of them without a prefix, and no prefix is empty.
LEMMA TableApart == \A s \in OwnNames : Name("", s) \notin Table /\ "" \notin Blocklist
<1>1. OwnNames = {"__stderrp", "__stdinp", "__stdoutp", "atexit", "__cxa_atexit", "dladdr",
                  "dlclose", "dlerror", "dlopen", "dlsym", ""}
  BY DEF OwnNames, Streams, RustNames
<1>2. \A s \in OwnNames : Name("", s) \notin CxxNames
  BY DEF CxxNames, Name, With
<1>3. \A s \in OwnNames : Name("", s) \notin PthreadNames
  BY DEF PthreadNames, Name, With
<1>4. \A s \in OwnNames : Name("", s) \notin ProcessNames
  BY DEF ProcessNames, Name, With
<1>5. ASSUME NEW T, NEW s, Name("", s) \in Plain(T) PROVE s \in T
  BY <1>5 DEF Plain, Name
<1>6. \A s \in OwnNames : s \notin AudioStubs \cup PortStubs \cup XpcStubs \cup DispatchStubs
         \cup SocketStubs \cup QueueStubs \cup PasswdStubs \cup ThrowStubs \cup LogStubs
         \cup EventStubs \cup PollStubs \cup HostStubs
  BY <1>1 DEF AudioStubs, PortStubs, XpcStubs, DispatchStubs, SocketStubs, QueueStubs,
              PasswdStubs, ThrowStubs, LogStubs, EventStubs, PollStubs, HostStubs
<1>7. ASSUME NEW s \in OwnNames, Name("", s) \in EarlyNames PROVE FALSE
  <2>1. s \in EarlyStubs
    BY <1>5, <1>7 DEF EarlyNames
  <2> QED BY <1>1, <1>6, <2>1 DEF EarlyStubs
<1>8. ASSUME NEW s \in OwnNames, Name("", s) \in LateNames PROVE FALSE
  BY <1>1, <1>8 DEF LateNames, TaskStubs, ResolvStubs, GraphicStubs, Plain, Name
<1>9. "" \notin Blocklist
  BY DEF Blocklist
<1> QED BY <1>2, <1>3, <1>4, <1>7, <1>8, <1>9 DEF Table

\* What was bound and found last is what the name is bound to.
NamesInv == /\ ~ opened => bound = Nothing /\ found = Nothing
            /\ bound # Nothing => /\ bound.name \in Imports
                                  /\ bound.pointer = ResolveImpl(bound.name)
            /\ found # Nothing => found.pointer = ResolveImpl(found.name)

\* What a name is bound to depends on the libraries that were found and on
\* nothing else.
LEMMA SameLibraries ==
    ASSUME dlls' = dlls, NEW n
    PROVE  ResolveImpl(n)' = ResolveImpl(n)
BY DEF ResolveImpl, LookUp, HostSymbol

\* Each name that is looked up is bound as the table, the blocklist and the
\* libraries have it (stubs.rs:56-133).
LEMMA NamesStep == NamesInv /\ [Next]_vars => NamesInv'
<1> SUFFICES ASSUME NamesInv, [Next]_vars PROVE NamesInv'
  OBVIOUS
<1>1. CASE OpenLibraries
  BY <1>1 DEF OpenLibraries, NamesInv
<1>2. ASSUME NEW n \in Imports, Resolve(n) PROVE NamesInv'
  <2>1. /\ opened /\ bound' = [name |-> n, pointer |-> ResolveImpl(n)]
        /\ opened' = opened /\ dlls' = dlls /\ found' = found
    BY <1>2 DEF Resolve
  <2>2. \A m : ResolveImpl(m)' = ResolveImpl(m)
    BY <2>1, SameLibraries
  <2> QED BY <2>1, <2>2 DEF NamesInv
<1>3. ASSUME NEW n \in LookedUp, Dlsym(n) PROVE NamesInv'
  <2>1. /\ opened /\ found' = [name |-> n, pointer |-> ResolveImpl(n)]
        /\ opened' = opened /\ dlls' = dlls /\ bound' = bound
    BY <1>3 DEF Dlsym
  <2>2. \A m : ResolveImpl(m)' = ResolveImpl(m)
    BY <2>1, SameLibraries
  <2> QED BY <2>1, <2>2 DEF NamesInv
<1>4. CASE UNCHANGED vars
  <2>1. opened' = opened /\ dlls' = dlls /\ bound' = bound /\ found' = found
    BY <1>4 DEF vars
  <2>2. \A m : ResolveImpl(m)' = ResolveImpl(m)
    BY <2>1, SameLibraries
  <2> QED BY <2>1, <2>2 DEF NamesInv
<1> QED BY <1>1, <1>2, <1>3, <1>4 DEF Next

\* A name of the table is bound to the shim, and one the shim has the layout of
\* to the shim or to nothing.
LEMMA BoundTo ==
    ASSUME NEW n
    PROVE  /\ n \in Table => ResolveImpl(n) = Pointer("shim", n)
           /\ n \in Shimmed => ResolveImpl(n) = Null \/ ResolveImpl(n).from = "shim"
<1>1. n \in Table => n \notin Plain(DOMAIN Streams) /\ n \notin Plain(RustNames)
  BY TableApart DEF Plain, OwnNames
<1>2. n \in Table => ResolveImpl(n) = Pointer("shim", n)
  BY <1>1 DEF ResolveImpl, LookUp
<1>3. n.prefix \in Blocklist => n \notin Plain(DOMAIN Streams) /\ n \notin Plain(RustNames)
  <2>1. "" \notin Blocklist
    BY TableApart DEF OwnNames
  <2>2. ASSUME NEW T, n \in Plain(T) PROVE n.prefix = ""
    <3>1. PICK r \in T : n = Name("", r)
      BY <2>2 DEF Plain
    <3> QED BY <3>1 DEF Name
  <2> QED BY <2>1, <2>2
<1>4. n.prefix \in Blocklist /\ n \notin Table => ResolveImpl(n) = Null
  BY <1>3 DEF ResolveImpl, LookUp
<1>5. n \in Shimmed => n \in Table \/ n.prefix \in Blocklist
  BY LibrariesAssumption
<1>6. Pointer("shim", n).from = "shim"
  BY DEF Pointer
<1> QED BY <1>2, <1>4, <1>5, <1>6

\* Whatever the host has installed and exports, and in whatever order names are
\* imported and looked up: a name is one thing, objects of the shim's layout stay
\* with the shim, and the stubs of the shim win (stubs.rs:45-50, 93-142).
THEOREM CallsNamesBoundRight == CallsSpec => []NamesBoundRight
<1>1. CallsInit => NamesInv
  BY DEF CallsInit, Init, NamesInv
<1>2. [CallsNext]_<<part, resolverVars, socketVars, listVars, optionVars, fileVars, stringVars>>
         => [Next]_vars
  BY DEF CallsNext, resolverVars, vars
<1>3. NamesInv => NamesBoundRight
  <2> SUFFICES ASSUME NamesInv PROVE OneMeaning /\ ShimOrNothing /\ OverridesWin
    BY DEF NamesBoundRight
  <2>1. OneMeaning
    <3>1. bound # Nothing => bound.name # Nothing.name
      BY LibrariesAssumption DEF NamesInv, Nothing
    <3> QED BY <3>1 DEF NamesInv, OneMeaning
  <2>2. Nothing.name \notin Table /\ Nothing.pointer = Null
    BY TableApart DEF Nothing, OwnNames
  <2>3. ShimOrNothing
    BY <2>2, BoundTo DEF NamesInv, ShimOrNothing
  <2>4. OverridesWin
    BY <2>2, BoundTo DEF NamesInv, OverridesWin
  <2> QED BY <2>1, <2>3, <2>4
<1> QED BY <1>1, <1>2, <1>3, NamesStep, PTL DEF CallsSpec

-----------------------------------------------------------------------------
(* Lists of addresses.                                                     *)

\* The families of the table, there and back; UNSPEC is 0 in both.
LEMMA ListFamiliesPaired ==
    /\ \A f \in Lists!Families : /\ f[1] \in 0 .. 30 /\ f[2] \in 0 .. 34
                                 /\ Lists!SaFamilyToDarwin(f[2]) = f[1]
                                 /\ Lists!SaFamilyToGnu(f[1]) = f[2]
<1>1. \A f \in Lists!Families : f[1] \in 0 .. 30 /\ f[2] \in 0 .. 34
  BY DEF Lists!Families
<1>2. \A f \in Lists!Families : Lists!SaFamilyToDarwin(f[2]) = f[1]
  BY DEF Lists!Families, Lists!SaFamilyToDarwin
<1>3. \A f \in Lists!Families : Lists!SaFamilyToGnu(f[1]) = f[2]
  BY DEF Lists!Families, Lists!SaFamilyToGnu
<1> QED BY <1>1, <1>2, <1>3

\* The families that hints ask for can be converted twice in either direction, and
\* that is what happens when threads share hints.
LEMMA HintFamiliesKnown ==
    ASSUME NEW f \in HintFamilies
    PROVE  /\ Lists!SaFamilyToGnu(Lists!SaFamilyToGnu(f)) = Lists!SaFamilyToGnu(f)
           /\ Lists!SaFamilyToDarwin(Lists!SaFamilyToGnu(f)) = f
           /\ Lists!SaFamilyToDarwin(f) = f
<1>1. PICK g \in Lists!Families : f = g[1] /\ g[1] \notin {16, 17}
  BY PartsAssumption DEF Lists!ListsAssumption
<1>2. Lists!SaFamilyToGnu(g[2]) = g[2] /\ Lists!SaFamilyToDarwin(g[1]) = g[1]
  BY <1>1 DEF Lists!Families, Lists!SaFamilyToGnu, Lists!SaFamilyToDarwin
<1> QED BY <1>1, <1>2, ListFamiliesPaired

\* The conversions of a node, part by part.
LEMMA NodeConverted ==
    ASSUME NEW f, NEW a, NEW b, NEW x
    PROVE  /\ Lists!AddrinfoToGnu(Lists!Node(f, a, b, x))
                = Lists!Node(Lists!SaFamilyToGnu(f), b, a,
                             IF b = "addr" THEN Lists!SockaddrToGnu(x) ELSE x)
           /\ Lists!AddrinfoToDarwin(Lists!Node(f, a, b, x))
                = Lists!Node(Lists!SaFamilyToDarwin(f), b, a,
                             IF a = "addr" THEN Lists!SockaddrToDarwin(x) ELSE x)
<1> DEFINE n == Lists!Node(f, a, b, x)
           g == IF b = "addr" THEN Lists!SockaddrToGnu(x) ELSE x
           d == IF a = "addr" THEN Lists!SockaddrToDarwin(x) ELSE x
<1>1. n.first = a /\ n.second = b
  BY DEF Lists!Node
<1>2. Lists!Flip(n) = Lists!Node(f, b, a, x)
  <2>1. Lists!Flip(n) = [n EXCEPT !.first = b, !.second = a]
    BY <1>1, Zenon DEF Lists!Flip
  <2> QED BY <2>1 DEF Lists!Node
<1>3. Lists!AddrinfoToGnu(n) = [Lists!Node(f, b, a, x) EXCEPT
             !.family = Lists!SaFamilyToGnu(@),
             !.address = IF b = "addr" THEN Lists!SockaddrToGnu(@) ELSE @]
  BY <1>1, <1>2, Zenon DEF Lists!AddrinfoToGnu
<1>4. Lists!AddrinfoToDarwin(n) = [Lists!Node(f, b, a, x) EXCEPT
             !.family = Lists!SaFamilyToDarwin(@),
             !.address = IF a = "addr" THEN Lists!SockaddrToDarwin(@) ELSE @]
  BY <1>1, <1>2, Zenon DEF Lists!AddrinfoToDarwin
<1>5. Lists!AddrinfoToGnu(n) = Lists!Node(Lists!SaFamilyToGnu(f), b, a, g)
  BY <1>3 DEF Lists!Node
<1>6. Lists!AddrinfoToDarwin(n) = Lists!Node(Lists!SaFamilyToDarwin(f), b, a, d)
  BY <1>4 DEF Lists!Node
<1> QED BY <1>5, <1>6

\* The address of a list of the host, converted for the image and back.
LEMMA AddressThereAndBack ==
    ASSUME NEW f \in Lists!Families
    PROVE  LET b == Lists!SockaddrToDarwin(Lists!Bytes(f[2], 0)) IN
           /\ b = Lists!Bytes(IF f[1] = Lists!DarwinInet6 THEN Lists!SizeofIn6
                              ELSE Lists!SizeofIn, f[1])
           /\ Lists!DarwinFamily(b) = f[1]
           /\ Lists!SockaddrToGnu(b) = Lists!Bytes(f[2], 0)
<1>1. /\ f[1] \in 0 .. 30 /\ f[2] \in 0 .. 34
      /\ Lists!SaFamilyToDarwin(f[2]) = f[1] /\ Lists!SaFamilyToGnu(f[1]) = f[2]
  BY ListFamiliesPaired
<1>2. Lists!GnuFamily(Lists!Bytes(f[2], 0)) = f[2] /\ f[1] % 256 = f[1]
  BY <1>1 DEF Lists!GnuFamily, Lists!Bytes
<1> DEFINE b == Lists!SockaddrToDarwin(Lists!Bytes(f[2], 0))
           len == IF f[1] = Lists!DarwinInet6 THEN Lists!SizeofIn6 ELSE Lists!SizeofIn
<1>3. b = Lists!Bytes(len, f[1])
  BY <1>1, <1>2 DEF Lists!SockaddrToDarwin
<1>4. Lists!DarwinFamily(b) = f[1]
  BY <1>3 DEF Lists!DarwinFamily, Lists!Bytes
<1>5. Lists!SockaddrToGnu(b) = Lists!Bytes(f[2], 0)
  BY <1>1, <1>4 DEF Lists!SockaddrToGnu
<1> QED BY <1>3, <1>4, <1>5

\* Hints as the image wrote them, or as the host is to read them.
IsHints(h, f) == h = Lists!EmptyHints(f) \/ h = Lists!EmptyHints(Lists!SaFamilyToGnu(f))

\* Converted either way, hints are the host's or the image's, whichever they were.
LEMMA HintsConverted ==
    ASSUME NEW f \in HintFamilies, NEW h, IsHints(h, f)
    PROVE  /\ Lists!AddrinfoToGnu(h) = Lists!EmptyHints(Lists!SaFamilyToGnu(f))
           /\ Lists!AddrinfoToDarwin(h) = Lists!EmptyHints(f)
<1>1. PICK g \in {f, Lists!SaFamilyToGnu(f)} : h = Lists!Node(g, "null", "null", Lists!NoBytes)
  BY DEF IsHints, Lists!EmptyHints
<1>2. Lists!SaFamilyToGnu(g) = Lists!SaFamilyToGnu(f) /\ Lists!SaFamilyToDarwin(g) = f
  BY <1>1, HintFamiliesKnown
<1> QED BY <1>1, <1>2, NodeConverted DEF Lists!EmptyHints

\* Where threads are, and what the hints may hold.
HintsSound ==
    /\ shared \in BOOLEAN
    /\ hintMeant \in [Lists!Places -> HintFamilies]
    /\ hints = [p \in Lists!Places |-> hints[p]]
    /\ pc \in [Threads -> {"image", "read", "gnu", "answered", "reread", "list"}]
    /\ copy = [t \in Threads |-> copy[t]]
    /\ asked = [t \in Threads |-> asked[t]]
    /\ \A p \in Lists!Places : IsHints(hints[p], hintMeant[p])
    /\ \A t \in Threads : pc[t] \in {"read", "reread"} =>
          IsHints(copy[t], hintMeant[Lists!Hints(t)])

\* Hints that are not as the image wrote them are some thread's in a call that
\* will write them once more.
HintsHeld ==
    \A p \in Lists!Places : hints[p] # Lists!EmptyHints(hintMeant[p]) =>
        \E t \in Threads : Lists!Hints(t) = p /\ pc[t] \in {"gnu", "answered", "reread"}

\* Hints of a thread of its own are converted when the host reads them.
HintsOwn ==
    ~ shared => \A t \in Threads : pc[t] = "gnu" =>
        hints[t] = Lists!EmptyHints(Lists!SaFamilyToGnu(hintMeant[t]))

HintsInv == HintsSound /\ HintsHeld /\ HintsOwn /\ Lists!AskedAsMeant

\* Every thread has hints to pass: its own, or those of all.
LEMMA HintsPlaced ==
    ASSUME shared \in BOOLEAN
    PROVE  /\ \A t \in Threads : Lists!Hints(t) \in Lists!Places
           /\ ~ shared => /\ Lists!Places = Threads
                          /\ \A t \in Threads : Lists!Hints(t) = t
BY Zenon DEF Lists!Hints, Lists!Places

\* Before a call the hints are the image's.
LEMMA InitHintsInv == Lists!Init => HintsInv
<1> SUFFICES ASSUME Lists!Init PROVE HintsInv
  OBVIOUS
<1>1. shared \in BOOLEAN /\ hintMeant \in [Lists!Places -> HintFamilies]
  BY Zenon DEF Lists!Init
<1>2. /\ hints = [p \in Lists!Places |-> Lists!EmptyHints(hintMeant[p])]
      /\ pc = [t \in Threads |-> "image"] /\ copy = [t \in Threads |-> Lists!None]
      /\ asked = [t \in Threads |-> Lists!None]
  BY DEF Lists!Init
<1>3. HintsSound
  BY <1>1, <1>2 DEF HintsSound, IsHints
<1>4. HintsHeld
  BY <1>2 DEF HintsHeld
<1>5. HintsOwn
  BY <1>2 DEF HintsOwn
<1>6. Lists!AskedAsMeant
  BY <1>2 DEF Lists!AskedAsMeant
<1> QED BY <1>3, <1>4, <1>5, <1>6 DEF HintsInv

\* The places and what is meant never change.
LEMMA SamePlaces ==
    ASSUME shared' = shared
    PROVE  /\ Lists!Places' = Lists!Places
           /\ \A t \in Threads : Lists!Hints(t)' = Lists!Hints(t)
BY Zenon DEF Lists!Places, Lists!Hints

\* A thread reads its hints, before the host or after.
LEMMA ReadStep ==
    ASSUME HintsInv, NEW t \in Threads, NEW from, NEW to,
           <<from, to>> \in {<<"image", "read">>, <<"answered", "reread">>},
           Lists!Reads(t, from, to)
    PROVE  HintsInv'
<1>1. /\ pc[t] = from /\ pc' = [pc EXCEPT ![t] = to]
      /\ copy' = [copy EXCEPT ![t] = hints[Lists!Hints(t)]]
      /\ UNCHANGED <<hints, hintMeant, asked>>
  BY DEF Lists!Reads, Lists!Step
<1>2. shared' = shared
  BY Zenon DEF Lists!Reads
<1>3. /\ Lists!Places' = Lists!Places
      /\ \A u \in Threads : Lists!Hints(u)' = Lists!Hints(u)
  BY <1>2, SamePlaces
<1>4. shared \in BOOLEAN /\ shared' \in BOOLEAN
  BY <1>2, Zenon DEF HintsInv, HintsSound
<1>5. Lists!Hints(t) \in Lists!Places
  BY <1>4, HintsPlaced
<1>6. HintsSound'
  <2>1. /\ hintMeant' \in [Lists!Places' -> HintFamilies]
        /\ hints' = [p \in Lists!Places' |-> hints'[p]]
        /\ pc' \in [Threads -> {"image", "read", "gnu", "answered", "reread", "list"}]
        /\ copy' = [u \in Threads |-> copy'[u]]
        /\ asked' = [u \in Threads |-> asked'[u]]
    BY <1>1, <1>3 DEF HintsInv, HintsSound
  <2>2. \A p \in Lists!Places' : IsHints(hints[p], hintMeant[p])'
    BY <1>1, <1>3 DEF HintsInv, HintsSound, IsHints
  <2>3. ASSUME NEW u \in Threads, pc'[u] \in {"read", "reread"}
        PROVE  IsHints(copy'[u], hintMeant'[Lists!Hints(u)])
    <3>1. CASE u = t
      <4>1. copy'[t] = hints[Lists!Hints(t)]
        BY <1>1 DEF HintsInv, HintsSound
      <4> QED BY <1>1, <1>5, <3>1, <4>1 DEF HintsInv, HintsSound
    <3>2. CASE u # t
      <4>1. copy'[u] = copy[u] /\ pc'[u] = pc[u]
        BY <1>1, <3>2 DEF HintsInv, HintsSound
      <4> QED BY <1>1, <2>3, <4>1 DEF HintsInv, HintsSound
    <3> QED BY <3>1, <3>2
  <2> QED BY <1>3, <1>4, <2>1, <2>2, <2>3 DEF HintsSound
<1>7. HintsHeld'
  <2>1. ASSUME NEW p \in Lists!Places, hints[p] # Lists!EmptyHints(hintMeant[p])
        PROVE  \E u \in Threads : /\ Lists!Hints(u) = p
                                  /\ pc'[u] \in {"gnu", "answered", "reread"}
    <3>1. PICK u \in Threads : /\ Lists!Hints(u) = p
                               /\ pc[u] \in {"gnu", "answered", "reread"}
      BY <2>1 DEF HintsInv, HintsHeld
    <3>2. pc'[u] \in {"gnu", "answered", "reread"}
      BY <1>1, <3>1 DEF HintsInv, HintsSound
    <3> QED BY <3>1, <3>2
  <2> QED BY <1>1, <1>3, <2>1 DEF HintsHeld
<1>8. HintsOwn'
  <2>1. \A u \in Threads : pc'[u] = "gnu" => pc[u] = "gnu"
    BY <1>1 DEF HintsInv, HintsSound
  <2> QED BY <1>1, <1>2, <2>1 DEF HintsInv, HintsOwn
<1>9. Lists!AskedAsMeant'
  <2>1. UNCHANGED <<asked, hintMeant>>
    BY <1>1
  <2> QED BY <1>2, <1>3, <2>1 DEF HintsInv, Lists!AskedAsMeant
<1> QED BY <1>6, <1>7, <1>8, <1>9 DEF HintsInv

\* A thread writes its hints, for the host or back for the image.
LEMMA WriteStep ==
    ASSUME HintsInv, NEW t \in Threads, NEW from, NEW to, NEW h,
           \/ from = "read" /\ to = "gnu" /\ h = Lists!AddrinfoToGnu(copy[t])
           \/ from = "reread" /\ to = "list" /\ h = Lists!AddrinfoToDarwin(copy[t]),
           Lists!Writes(t, from, to, h)
    PROVE  HintsInv'
<1> DEFINE q == Lists!Hints(t)
           f == hintMeant[q]
<1>1. /\ pc[t] = from /\ pc' = [pc EXCEPT ![t] = to]
      /\ hints' = [hints EXCEPT ![q] = h]
      /\ UNCHANGED <<copy, hintMeant, asked>>
  BY DEF Lists!Writes, Lists!Step
<1>2. shared' = shared
  BY Zenon DEF Lists!Writes
<1>3. /\ Lists!Places' = Lists!Places
      /\ \A u \in Threads : Lists!Hints(u)' = Lists!Hints(u)
  BY <1>2, SamePlaces
<1>4. shared \in BOOLEAN /\ shared' \in BOOLEAN
  BY <1>2, Zenon DEF HintsInv, HintsSound
<1>5. q \in Lists!Places /\ f \in HintFamilies
  BY <1>4, HintsPlaced DEF HintsInv, HintsSound
<1>6. \/ from = "read" /\ to = "gnu" /\ h = Lists!EmptyHints(Lists!SaFamilyToGnu(f))
      \/ from = "reread" /\ to = "list" /\ h = Lists!EmptyHints(f)
  <2>1. IsHints(copy[t], f)
    BY <1>1 DEF HintsInv, HintsSound
  <2> HIDE DEF f, q
  <2> QED BY <1>5, <2>1, HintsConverted
<1>7. /\ hints'[q] = h /\ \A p \in Lists!Places : p # q => hints'[p] = hints[p]
      /\ hints' = [p \in Lists!Places |-> hints'[p]]
  BY <1>1, <1>5 DEF HintsInv, HintsSound
<1>8. /\ pc'[t] = to /\ \A u \in Threads : u # t => pc'[u] = pc[u]
      /\ pc' \in [Threads -> {"image", "read", "gnu", "answered", "reread", "list"}]
  BY <1>1, <1>6 DEF HintsInv, HintsSound
<1>9. HintsSound'
  <2>1. IsHints(h, f)
    BY <1>6 DEF IsHints
  <2>2. \A p \in Lists!Places : IsHints(hints'[p], hintMeant[p])
    BY <1>7, <2>1 DEF HintsInv, HintsSound
  <2>3. \A u \in Threads : pc'[u] \in {"read", "reread"} =>
            IsHints(copy[u], hintMeant[Lists!Hints(u)])
    BY <1>6, <1>8 DEF HintsInv, HintsSound
  <2>4. /\ hintMeant' \in [Lists!Places -> HintFamilies]
        /\ copy' = [u \in Threads |-> copy'[u]] /\ asked' = [u \in Threads |-> asked'[u]]
    BY <1>1 DEF HintsInv, HintsSound
  <2> QED BY <1>1, <1>3, <1>4, <1>7, <1>8, <2>2, <2>3, <2>4 DEF HintsSound, IsHints
<1>10. HintsHeld'
  <2>1. ASSUME NEW p \in Lists!Places, hints'[p] # Lists!EmptyHints(hintMeant[p])
        PROVE  \E u \in Threads : /\ Lists!Hints(u) = p
                                  /\ pc'[u] \in {"gnu", "answered", "reread"}
    <3>1. CASE p = q
      BY <1>6, <1>7, <1>8, <2>1, <3>1
    <3>2. CASE p # q
      <4>1. PICK u \in Threads : /\ Lists!Hints(u) = p
                                 /\ pc[u] \in {"gnu", "answered", "reread"}
        BY <1>7, <2>1, <3>2 DEF HintsInv, HintsHeld
      <4>2. u # t
        BY <3>2, <4>1
      <4> QED BY <1>8, <4>1, <4>2
    <3> QED BY <3>1, <3>2
  <2> QED BY <1>1, <1>3, <2>1 DEF HintsHeld
<1>11. HintsOwn'
  <2>1. ASSUME ~ shared, NEW u \in Threads, pc'[u] = "gnu"
        PROVE  hints'[u] = Lists!EmptyHints(Lists!SaFamilyToGnu(hintMeant[u]))
    <3>1. q = t /\ Lists!Places = Threads
      BY <1>4, <2>1, HintsPlaced
    <3>2. CASE u = t
      BY <1>6, <1>7, <1>8, <2>1, <3>1, <3>2
    <3>3. CASE u # t
      BY <1>7, <1>8, <2>1, <3>1, <3>3 DEF HintsInv, HintsOwn
    <3> QED BY <3>2, <3>3
  <2>2. hintMeant' = hintMeant
    BY <1>1
  <2> QED BY <1>2, <2>1, <2>2 DEF HintsOwn
<1>12. Lists!AskedAsMeant'
  <2>1. UNCHANGED <<asked, hintMeant>>
    BY <1>1
  <2> QED BY <1>2, <1>3, <2>1 DEF HintsInv, Lists!AskedAsMeant
<1> QED BY <1>9, <1>10, <1>11, <1>12 DEF HintsInv

\* The host answers, and the list is converted: the hints stay.
LEMMA HostStep ==
    ASSUME HintsInv, NEW t \in Threads, Lists!HostAnswers(t) \/ Lists!Answer(t)
    PROVE  HintsInv'
<1>1. /\ UNCHANGED <<hints, hintMeant, copy>>
      /\ \/ /\ pc[t] = "gnu" /\ pc' = [pc EXCEPT ![t] = "answered"]
            /\ asked' = [asked EXCEPT ![t] = hints[Lists!Hints(t)].family]
         \/ pc[t] = "list" /\ pc' = [pc EXCEPT ![t] = "image"] /\ asked' = asked
  BY DEF Lists!HostAnswers, Lists!Answer, Lists!Step
<1>2. shared' = shared
  BY Zenon DEF Lists!HostAnswers, Lists!Answer
<1>3. /\ Lists!Places' = Lists!Places
      /\ \A u \in Threads : Lists!Hints(u)' = Lists!Hints(u)
  BY <1>2, SamePlaces
<1>4. shared \in BOOLEAN /\ shared' \in BOOLEAN
  BY <1>2, Zenon DEF HintsInv, HintsSound
<1>5. HintsSound'
  <2>1. /\ pc' \in [Threads -> {"image", "read", "gnu", "answered", "reread", "list"}]
        /\ asked' = [u \in Threads |-> asked'[u]]
        /\ \A u \in Threads : pc'[u] \in {"read", "reread"} => pc[u] \in {"read", "reread"}
    BY <1>1 DEF HintsInv, HintsSound
  <2> QED BY <1>1, <1>3, <1>4, <2>1 DEF HintsInv, HintsSound, IsHints
<1>6. HintsHeld'
  <2>1. \A u \in Threads : pc[u] \in {"gnu", "answered", "reread"} =>
                           pc'[u] \in {"gnu", "answered", "reread"}
    BY <1>1 DEF HintsInv, HintsSound
  <2> QED BY <1>1, <1>3, <2>1 DEF HintsInv, HintsHeld
<1>7. HintsOwn'
  <2>1. \A u \in Threads : pc'[u] = "gnu" => pc[u] = "gnu"
    BY <1>1 DEF HintsInv, HintsSound
  <2> QED BY <1>1, <1>2, <2>1 DEF HintsInv, HintsOwn
<1>8. Lists!AskedAsMeant'
  <2>1. ASSUME ~ shared, NEW u \in Threads, asked'[u] # Lists!None
        PROVE  asked'[u] = Lists!SaFamilyToGnu(hintMeant[Lists!Hints(u)])
    <3>1. Lists!Hints(u) = u
      BY <1>4, <2>1, HintsPlaced
    <3>2. CASE asked'[u] = asked[u]
      BY <2>1, <3>2 DEF HintsInv, Lists!AskedAsMeant
    <3>3. CASE asked'[u] # asked[u]
      <4>1. u = t /\ pc[t] = "gnu" /\ asked'[u] = hints[u].family
        BY <1>1, <3>1, <3>3 DEF HintsInv, HintsSound
      <4>2. hints[u] = Lists!EmptyHints(Lists!SaFamilyToGnu(hintMeant[u]))
        BY <2>1, <4>1 DEF HintsInv, HintsOwn
      <4> QED BY <3>1, <4>1, <4>2 DEF Lists!EmptyHints, Lists!Node
    <3> QED BY <3>2, <3>3
  <2>2. hintMeant' = hintMeant
    BY <1>1
  <2> QED BY <1>2, <1>3, <2>1, <2>2 DEF Lists!AskedAsMeant
<1> QED BY <1>5, <1>6, <1>7, <1>8 DEF HintsInv

\* Steps that are not about hints.
LEMMA OtherListStep ==
    ASSUME HintsInv, shared' = shared, UNCHANGED <<hints, hintMeant, pc, copy, asked>>
    PROVE  HintsInv'
<1>1. /\ Lists!Places' = Lists!Places
      /\ \A u \in Threads : Lists!Hints(u)' = Lists!Hints(u)
  BY SamePlaces
<1>2. shared' \in BOOLEAN
  BY Zenon DEF HintsInv, HintsSound
<1>3. HintsSound' /\ HintsHeld'
  BY <1>1, <1>2 DEF HintsInv, HintsSound, HintsHeld, IsHints
<1>4. HintsOwn' /\ Lists!AskedAsMeant'
  BY <1>1 DEF HintsInv, HintsOwn, Lists!AskedAsMeant
<1> QED BY <1>3, <1>4 DEF HintsInv

\* getaddrinfo asks for what the hints meant, though calls of other threads
\* convert the same hints (stub_socket.c:270-293).
LEMMA HintsStep == HintsInv /\ [Lists!Next]_(Lists!vars) => HintsInv'
<1> SUFFICES ASSUME HintsInv, [Lists!Next]_(Lists!vars) PROVE HintsInv'
  OBVIOUS
<1>1. ASSUME NEW t \in Threads, Lists!Call(t) \/ Lists!ReadBack(t) PROVE HintsInv'
  BY <1>1, ReadStep DEF Lists!Call, Lists!ReadBack
<1>2. ASSUME NEW t \in Threads, Lists!HintsToGnu(t) \/ Lists!HintsToDarwin(t) PROVE HintsInv'
  BY <1>2, WriteStep DEF Lists!HintsToGnu, Lists!HintsToDarwin
<1>3. CASE \/ \E t \in Threads : Lists!Freeaddrinfo(t)
           \/ Lists!Getifaddrs \/ Lists!Freeifaddrs \/ UNCHANGED Lists!vars
  <2>1. UNCHANGED <<hints, hintMeant, pc, copy, asked>>
    BY <1>3 DEF Lists!Freeaddrinfo, Lists!Getifaddrs, Lists!Freeifaddrs, Lists!vars
  <2>2. shared' = shared
    BY <1>3, Zenon DEF Lists!Freeaddrinfo, Lists!Getifaddrs, Lists!Freeifaddrs, Lists!vars
  <2> QED BY <2>1, <2>2, OtherListStep
<1> QED BY <1>1, <1>2, <1>3, HostStep DEF Lists!Next

\* A list of the host, or the empty one when it failed.
OfHost(h) == \E fs \in HostLists \cup {<< >>} : h = Lists!HostList(fs)

\* A list as the image has it.
ForImage(h) == [i \in DOMAIN h |-> Lists!AddrinfoToDarwin(h[i])]

\* Each list is as the host made it up to the last step of the call, and converted
\* after it.
ListsHeld ==
    /\ pc \in [Threads -> {"image", "read", "gnu", "answered", "reread", "list"}]
    /\ list = [t \in Threads |-> list[t]]
    /\ host = [t \in Threads |-> host[t]]
    /\ \A t \in Threads :
          /\ pc[t] \in {"answered", "reread", "list"} => list[t] = host[t] /\ OfHost(host[t])
          /\ pc[t] = "image" => \/ list[t] = << >>
                                \/ list[t] = ForImage(host[t]) /\ OfHost(host[t])

\* The same of the interfaces.
InterfacesHeld ==
    \/ interfaces = << >>
    \/ \E fs \in HostLists, p \in Dstaddrs :
          /\ hostInterfaces = [i \in DOMAIN fs |-> Lists!Interface(fs[i], p)]
          /\ interfaces = [i \in DOMAIN fs |-> Lists!IfaddrsToDarwin(hostInterfaces[i])]

ListsInv == ListsHeld /\ InterfacesHeld

\* An entry of a list of the host is of a family of the table, and has its address
\* where Linux has it.
LEMMA HostEntry ==
    ASSUME NEW h, OfHost(h), NEW i \in DOMAIN h
    PROVE  \E f \in Lists!Families, name \in {"name", "null"} :
              h[i] = Lists!Node(f[2], "addr", name, Lists!Bytes(f[2], 0))
<1>1. PICK fs \in HostLists \cup {<< >>} : h = Lists!HostList(fs)
  BY DEF OfHost
<1>2. DOMAIN h = DOMAIN fs
  BY <1>1 DEF Lists!HostList
<1>3. fs # << >>
  BY <1>2
<1>4. fs \in Seq({f[2] : f \in Lists!Families})
  BY <1>1, <1>3, PartsAssumption DEF Lists!ListsAssumption
<1>5. PICK f \in Lists!Families : fs[i] = f[2]
  BY <1>2, <1>4
<1>6. h[i] = Lists!Node(fs[i], "addr", IF i = 1 THEN "name" ELSE "null", Lists!Bytes(fs[i], 0))
  BY <1>1, <1>2 DEF Lists!HostList
<1> QED BY <1>5, <1>6

\* What the image reads of an entry, and that it converts back to what it was.
LEMMA EntryThereAndBack ==
    ASSUME NEW h, OfHost(h), NEW i \in DOMAIN h
    PROVE  LET n == Lists!AddrinfoToDarwin(h[i])
               f == Lists!SaFamilyToDarwin(h[i].family)
           IN  /\ n.second = "addr" /\ n.first = h[i].second
               /\ n.family = f /\ Lists!DarwinFamily(n.address) = f
               /\ n.address.b0 = (IF f = Lists!DarwinInet6 THEN Lists!SizeofIn6
                                  ELSE Lists!SizeofIn)
               /\ Lists!AddrinfoToGnu(n) = h[i]
<1>1. PICK g \in Lists!Families, name \in {"name", "null"} :
          h[i] = Lists!Node(g[2], "addr", name, Lists!Bytes(g[2], 0))
  BY HostEntry
<1> DEFINE b == Lists!SockaddrToDarwin(Lists!Bytes(g[2], 0))
           n == Lists!AddrinfoToDarwin(h[i])
<1>2. Lists!SaFamilyToDarwin(g[2]) = g[1] /\ Lists!SaFamilyToGnu(g[1]) = g[2]
  BY ListFamiliesPaired
<1>3. /\ b = Lists!Bytes(IF g[1] = Lists!DarwinInet6 THEN Lists!SizeofIn6
                         ELSE Lists!SizeofIn, g[1])
      /\ Lists!DarwinFamily(b) = g[1] /\ Lists!SockaddrToGnu(b) = Lists!Bytes(g[2], 0)
  BY AddressThereAndBack
<1> HIDE DEF b
<1>4. n = Lists!Node(g[1], name, "addr", b)
  BY <1>1, <1>2, NodeConverted DEF b
<1>5. Lists!AddrinfoToGnu(n) = h[i]
  BY <1>1, <1>2, <1>3, <1>4, NodeConverted
<1>6. /\ n.second = "addr" /\ n.first = name /\ n.family = g[1] /\ n.address = b
      /\ h[i].second = name /\ h[i].family = g[2]
  BY <1>1, <1>4 DEF Lists!Node
<1>7. b.b0 = (IF g[1] = Lists!DarwinInet6 THEN Lists!SizeofIn6 ELSE Lists!SizeofIn)
  BY <1>3 DEF Lists!Bytes
<1> HIDE DEF n
<1>8. Lists!SaFamilyToDarwin(h[i].family) = g[1]
  BY <1>2, <1>6
<1> QED BY <1>3, <1>5, <1>6, <1>7, <1>8 DEF n

\* At the start no list is held.
LEMMA InitListsInv == Lists!Init => ListsInv
BY DEF Lists!Init, ListsInv, ListsHeld, InterfacesHeld

\* Where a thread is changes, and nothing of a list.
LEMMA MoveStep ==
    ASSUME ListsInv, NEW t \in Threads, NEW from, NEW to,
           <<from, to>> \in {<<"image", "read">>, <<"read", "gnu">>, <<"answered", "reread">>,
                             <<"reread", "list">>},
           Lists!Step(t, from, to), UNCHANGED <<list, host, interfaces, hostInterfaces>>
    PROVE  ListsInv'
<1>1. pc[t] = from /\ pc' = [pc EXCEPT ![t] = to]
  BY DEF Lists!Step
<1>2. /\ pc'[t] = to /\ \A u \in Threads : u # t => pc'[u] = pc[u]
      /\ pc' \in [Threads -> {"image", "read", "gnu", "answered", "reread", "list"}]
  BY <1>1 DEF ListsInv, ListsHeld
<1>3. ListsHeld'
  BY <1>1, <1>2 DEF ListsInv, ListsHeld, OfHost, ForImage
<1>4. InterfacesHeld'
  BY DEF ListsInv, InterfacesHeld
<1> QED BY <1>3, <1>4 DEF ListsInv

\* The lists of one thread change.
LEMMA ListStep ==
    ASSUME ListsInv, NEW t \in Threads, NEW to \in {"answered", "image"}, NEW l, NEW h,
           pc' = [pc EXCEPT ![t] = to], list' = [list EXCEPT ![t] = l],
           host' = [host EXCEPT ![t] = h],
           UNCHANGED <<interfaces, hostInterfaces>>,
           to = "answered" => l = h /\ OfHost(h),
           to = "image" => l = << >> \/ (l = ForImage(h) /\ OfHost(h))
    PROVE  ListsInv'
<1>1. /\ pc'[t] = to /\ list'[t] = l /\ host'[t] = h
      /\ \A u \in Threads : u # t => /\ pc'[u] = pc[u] /\ list'[u] = list[u]
                                     /\ host'[u] = host[u]
      /\ pc' \in [Threads -> {"image", "read", "gnu", "answered", "reread", "list"}]
      /\ list' = [u \in Threads |-> list'[u]] /\ host' = [u \in Threads |-> host'[u]]
  BY DEF ListsInv, ListsHeld
<1>2. ASSUME NEW u \in Threads
      PROVE  /\ pc'[u] \in {"answered", "reread", "list"} =>
                    list'[u] = host'[u] /\ OfHost(host'[u])
             /\ pc'[u] = "image" => \/ list'[u] = << >>
                                    \/ list'[u] = ForImage(host'[u]) /\ OfHost(host'[u])
  <2>1. CASE u = t
    BY <1>1, <2>1
  <2>2. CASE u # t
    BY <1>1, <2>2 DEF ListsInv, ListsHeld
  <2> QED BY <2>1, <2>2
<1>3. ListsHeld'
  BY <1>1, <1>2 DEF ListsHeld, OfHost, ForImage
<1>4. InterfacesHeld'
  BY DEF ListsInv, InterfacesHeld
<1> QED BY <1>3, <1>4 DEF ListsInv

\* A list that the image has is the host's, converted once in place
\* (stub_socket.c:265-293).
LEMMA ListsStep == ListsInv /\ [Lists!Next]_(Lists!vars) => ListsInv'
<1> SUFFICES ASSUME ListsInv, [Lists!Next]_(Lists!vars) PROVE ListsInv'
  OBVIOUS
<1>1. ASSUME NEW t \in Threads,
             \/ Lists!Call(t) \/ Lists!HintsToGnu(t) \/ Lists!ReadBack(t)
             \/ Lists!HintsToDarwin(t)
      PROVE  ListsInv'
  BY <1>1, MoveStep
     DEF Lists!Call, Lists!HintsToGnu, Lists!ReadBack, Lists!HintsToDarwin, Lists!Reads,
         Lists!Writes
<1>2. ASSUME NEW t \in Threads, Lists!HostAnswers(t) PROVE ListsInv'
  <2>1. PICK h : /\ list' = [list EXCEPT ![t] = h] /\ host' = [host EXCEPT ![t] = h]
                 /\ pc' = [pc EXCEPT ![t] = "answered"]
                 /\ UNCHANGED <<interfaces, hostInterfaces>>
                 /\ OfHost(h)
    BY <1>2 DEF Lists!HostAnswers, Lists!Step, OfHost
  <2> QED BY <2>1, ListStep
<1>3. ASSUME NEW t \in Threads, Lists!Answer(t) PROVE ListsInv'
  <2>1. /\ pc[t] = "list" /\ pc' = [pc EXCEPT ![t] = "image"]
        /\ list' = [list EXCEPT ![t] = ForImage(list[t])]
        /\ UNCHANGED <<host, interfaces, hostInterfaces>>
    BY <1>3 DEF Lists!Answer, Lists!Step, Lists!OverList, ForImage
  <2>2. list[t] = host[t] /\ OfHost(host[t])
    BY <2>1 DEF ListsInv, ListsHeld
  <2>3. host' = [host EXCEPT ![t] = host[t]]
    BY <2>1 DEF ListsInv, ListsHeld
  <2> QED BY <2>1, <2>2, <2>3, ListStep
<1>4. ASSUME NEW t \in Threads, Lists!Freeaddrinfo(t) PROVE ListsInv'
  <2>1. /\ pc[t] = "image" /\ pc' = pc /\ list' = [list EXCEPT ![t] = << >>]
        /\ UNCHANGED <<host, interfaces, hostInterfaces>>
    BY <1>4 DEF Lists!Freeaddrinfo
  <2>2. /\ list'[t] = << >> /\ \A u \in Threads : u # t => list'[u] = list[u]
        /\ list' = [u \in Threads |-> list'[u]]
    BY <2>1 DEF ListsInv, ListsHeld
  <2>3. ListsHeld'
    BY <2>1, <2>2 DEF ListsInv, ListsHeld, OfHost, ForImage
  <2>4. InterfacesHeld'
    BY <2>1 DEF ListsInv, InterfacesHeld
  <2> QED BY <2>3, <2>4 DEF ListsInv
<1>5. CASE Lists!Getifaddrs
  <2>1. PICK fs \in HostLists, p \in Dstaddrs :
            hostInterfaces' = [i \in DOMAIN fs |-> Lists!Interface(fs[i], p)]
    BY <1>5 DEF Lists!Getifaddrs
  <2>2. interfaces' = [i \in DOMAIN hostInterfaces' |->
                           Lists!IfaddrsToDarwin(hostInterfaces'[i])]
    BY <1>5 DEF Lists!Getifaddrs, Lists!OverList
  <2>3. interfaces' = [i \in DOMAIN fs |-> Lists!IfaddrsToDarwin(hostInterfaces'[i])]
    BY <2>1, <2>2
  <2>4. InterfacesHeld'
    BY <2>1, <2>3 DEF InterfacesHeld
  <2>5. UNCHANGED <<pc, list, host>>
    BY <1>5 DEF Lists!Getifaddrs
  <2> QED BY <2>4, <2>5 DEF ListsInv, ListsHeld, OfHost, ForImage
<1>6. CASE Lists!Freeifaddrs
  BY <1>6 DEF Lists!Freeifaddrs, ListsInv, ListsHeld, InterfacesHeld, OfHost, ForImage
<1>7. CASE UNCHANGED Lists!vars
  BY <1>7 DEF Lists!vars, ListsInv, ListsHeld, InterfacesHeld, OfHost, ForImage
<1> QED BY <1>1, <1>2, <1>3, <1>4, <1>5, <1>6, <1>7 DEF Lists!Next

\* The image reads the lists of Darwin, and what is freed is the host's.
LEMMA ListsRight == ListsInv => Lists!ReadsDarwin /\ Lists!FreesAsMade
<1> SUFFICES ASSUME ListsInv PROVE Lists!ReadsDarwin /\ Lists!FreesAsMade
  OBVIOUS
<1>1. ASSUME NEW t \in Threads, pc[t] = "image", NEW i \in DOMAIN list[t]
      PROVE  LET n == list[t][i]
                 f == Lists!SaFamilyToDarwin(host[t][i].family)
             IN  /\ n.second = "addr" /\ n.first = host[t][i].second
                 /\ n.family = f /\ Lists!DarwinFamily(n.address) = f
                 /\ n.address.b0 = (IF f = Lists!DarwinInet6 THEN Lists!SizeofIn6
                                    ELSE Lists!SizeofIn)
  <2>1. list[t] = ForImage(host[t]) /\ OfHost(host[t])
    BY <1>1 DEF ListsInv, ListsHeld
  <2>2. i \in DOMAIN host[t] /\ list[t][i] = Lists!AddrinfoToDarwin(host[t][i])
    BY <1>1, <2>1 DEF ForImage
  <2> QED BY <2>1, <2>2, EntryThereAndBack
<1>2. ASSUME NEW i \in DOMAIN interfaces,
             NEW b \in {interfaces[i].addr, interfaces[i].netmask}
      PROVE  /\ Lists!SaFamilyToGnu(Lists!DarwinFamily(b)) = hostInterfaces[i].addr.b0
             /\ b.b0 = (IF Lists!DarwinFamily(b) = Lists!DarwinInet6 THEN Lists!SizeofIn6
                        ELSE Lists!SizeofIn)
  <2>1. PICK fs \in HostLists, p \in Dstaddrs :
            /\ hostInterfaces = [j \in DOMAIN fs |-> Lists!Interface(fs[j], p)]
            /\ interfaces = [j \in DOMAIN fs |-> Lists!IfaddrsToDarwin(hostInterfaces[j])]
    BY <1>2 DEF ListsInv, InterfacesHeld
  <2>2. PICK f \in Lists!Families : fs[i] = f[2]
    <3>1. fs \in Seq({f[2] : f \in Lists!Families})
      BY PartsAssumption DEF Lists!ListsAssumption
    <3>2. i \in DOMAIN fs
      BY <1>2, <2>1
    <3> QED BY <3>1, <3>2
  <2>3. /\ hostInterfaces[i] = Lists!Interface(f[2], p)
        /\ interfaces[i] = Lists!IfaddrsToDarwin(hostInterfaces[i])
    BY <1>2, <2>1, <2>2
  <2>4. /\ hostInterfaces[i].addr = Lists!Bytes(f[2], 0)
        /\ hostInterfaces[i].netmask = Lists!Bytes(f[2], 0)
        /\ hostInterfaces[i].addr.b0 = f[2]
    BY <2>3 DEF Lists!Interface, Lists!Bytes
  <2>5. b = Lists!SockaddrToDarwin(Lists!Bytes(f[2], 0))
    BY <1>2, <2>3, <2>4 DEF Lists!IfaddrsToDarwin
  <2>6. /\ b = Lists!Bytes(IF f[1] = Lists!DarwinInet6 THEN Lists!SizeofIn6
                           ELSE Lists!SizeofIn, f[1])
        /\ Lists!DarwinFamily(b) = f[1]
    BY <2>5, AddressThereAndBack
  <2>7. b.b0 = (IF f[1] = Lists!DarwinInet6 THEN Lists!SizeofIn6 ELSE Lists!SizeofIn)
    BY <2>6 DEF Lists!Bytes
  <2> QED BY <2>4, <2>6, <2>7, ListFamiliesPaired
<1>3. Lists!ReadsDarwin
  BY <1>1, <1>2 DEF Lists!ReadsDarwin
<1>4. ASSUME NEW t \in Threads, pc[t] = "image", list[t] # << >>
      PROVE  Lists!Freed(t) = host[t]
  <2>1. list[t] = ForImage(host[t]) /\ OfHost(host[t])
    BY <1>4 DEF ListsInv, ListsHeld
  <2>2. Lists!Freed(t) = [i \in DOMAIN list[t] |-> Lists!AddrinfoToGnu(list[t][i])]
    BY DEF Lists!Freed, Lists!OverList
  <2>3. /\ DOMAIN list[t] = DOMAIN host[t]
        /\ \A i \in DOMAIN host[t] : list[t][i] = Lists!AddrinfoToDarwin(host[t][i])
    BY <2>1 DEF ForImage
  <2>4. \A i \in DOMAIN host[t] : Lists!AddrinfoToGnu(list[t][i]) = host[t][i]
    BY <2>1, <2>3, EntryThereAndBack
  <2>5. host[t] = [i \in DOMAIN host[t] |-> host[t][i]]
    BY <2>1 DEF OfHost, Lists!HostList
  <2>6. Lists!Freed(t) = [i \in DOMAIN host[t] |-> host[t][i]]
    BY <2>2, <2>3, <2>4
  <2> QED BY <2>5, <2>6
<1> QED BY <1>3, <1>4 DEF Lists!FreesAsMade

\* Hints are as the image wrote them when no thread is in a call, shared or not.
LEMMA HintsRight == HintsInv => Lists!HintsRestored
<1> SUFFICES ASSUME HintsInv, NEW p \in Lists!Places,
                    \A t \in Threads : Lists!Hints(t) = p => pc[t] \in {"image", "list"}
             PROVE  hints[p] = Lists!EmptyHints(hintMeant[p])
  BY DEF Lists!HintsRestored
<1> QED BY DEF HintsInv, HintsHeld

\* Whatever the host answers, for any number of threads with hints of their own or
\* with the same, in any order of their steps: the lists the image reads are
\* Darwin's, those that are freed the host's, the hints are put back, and the host
\* was asked what the image meant (stub_socket.c:146-204, 265-293).
THEOREM CallsListsAsMade == CallsSpec => []ListsAsMade
<1>1. CallsInit => HintsInv /\ ListsInv
  BY InitHintsInv, InitListsInv DEF CallsInit
<1>2. [CallsNext]_<<part, resolverVars, socketVars, listVars, optionVars, fileVars, stringVars>>
         => [Lists!Next]_(Lists!vars)
  BY Zenon DEF CallsNext, listVars, Lists!vars
<1>3. HintsInv /\ ListsInv => ListsAsMade
  BY ListsRight, HintsRight DEF HintsInv, ListsAsMade
<1> QED BY <1>1, <1>2, <1>3, HintsStep, ListsStep, PTL DEF CallsSpec

-----------------------------------------------------------------------------
(* Strings.                                                                *)

\* A multiple of w between -w and w is 0.
LEMMA Between ==
    ASSUME NEW w \in Nat \ {0}, NEW d \in Int, - w < w * d, w * d < w
    PROVE  d = 0
<1>1. CASE d >= 1
  <2>1. w * d = w + w * (d - 1)
    OBVIOUS
  <2>2. w * (d - 1) >= 0
    BY <1>1
  <2> QED BY <2>1, <2>2
<1>2. CASE d <= -1
  <2>1. w * d = - w - w * (-1 - d)
    OBVIOUS
  <2>2. w * (-1 - d) >= 0
    BY <1>2
  <2> QED BY <2>1, <2>2
<1> QED BY <1>1, <1>2

\* A piece further, the same remainder.
LEMMA NextPiece ==
    ASSUME NEW x \in Nat, NEW w \in Nat \ {0}, x >= w
    PROVE  (x % w) = ((x - w) % w)
<1> DEFINE q == (x - w) \div w
           r == (x - w) % w
           p == x \div w
           s == x % w
<1>1. x - w = w * q + r /\ q \in Int /\ r \in 0 .. w - 1
  OBVIOUS
<1>2. x = w * p + s /\ p \in Int /\ s \in 0 .. w - 1
  OBVIOUS
<1> HIDE DEF q, r, p, s
<1>3. w * (q + 1 - p) = s - r
  BY <1>1, <1>2
<1>4. q + 1 - p = 0
  BY <1>1, <1>2, <1>3, Between
<1>5. s = r
  BY <1>1, <1>2, <1>3, <1>4
<1> QED BY <1>5 DEF r, s

\* Memory with the pattern from len - rem to len.
Filled(m, len, rem) ==
    [i \in Strings!Offsets |->
        IF i >= len - rem /\ i < len THEN Strings!Pattern((i - (len - rem)) % PatternWidth)
        ELSE m[i]]

\* What is filled with rem bytes left is what is filled with a piece less left, and
\* that piece.
LEMMA FilledByPiece ==
    ASSUME NEW m, NEW len \in Nat, NEW rem \in 0 .. len
    PROVE  Filled(m, len, rem) =
              IF rem >= PatternWidth
              THEN Strings!Copy(Filled(m, len, rem - PatternWidth), len - rem, PatternWidth,
                                Strings!Pattern)
              ELSE Strings!Copy(m, len - rem, rem, Strings!Pattern)
<1> DEFINE dst == len - rem
           W == PatternWidth
<1>1. W \in Nat \ {0} /\ Strings!Offsets \subseteq Nat /\ dst \in Nat
  BY PartsAssumption DEF Strings!StringsAssumption, Strings!Offsets
<1>2. ASSUME NEW i \in Strings!Offsets, i >= dst, i < dst + W
      PROVE  ((i - dst) % W) = i - dst
  <2>1. i - dst \in Nat /\ i - dst < W
    BY <1>1, <1>2
  <2> HIDE DEF dst, W
  <2> QED BY <1>1, <2>1
<1>3. CASE rem >= W
  <2>1. ASSUME NEW i \in Strings!Offsets, i >= dst + W, i < len
        PROVE  ((i - dst) % W) = ((i - (len - (rem - W))) % W)
    <3>1. i - dst \in Nat /\ i - dst >= W /\ i - (len - (rem - W)) = (i - dst) - W
      BY <1>1, <2>1
    <3> QED BY <1>1, <3>1, NextPiece
  <2>2. dst + W <= len /\ len - (rem - W) = dst + W
    BY <1>1, <1>3
  <2>3. Strings!Copy(Filled(m, len, rem - W), dst, W, Strings!Pattern)
          = [i \in Strings!Offsets |->
                IF i >= dst /\ i < dst + W THEN Strings!Pattern(i - dst)
                ELSE IF i >= dst + W /\ i < len
                       THEN Strings!Pattern((i - (len - (rem - W))) % W) ELSE m[i]]
    BY <1>1, <2>2 DEF Strings!Copy, Filled
  <2>4. Filled(m, len, rem) =
            [i \in Strings!Offsets |->
                IF i >= dst /\ i < dst + W THEN Strings!Pattern(i - dst)
                ELSE IF i >= dst + W /\ i < len
                       THEN Strings!Pattern((i - (len - (rem - W))) % W) ELSE m[i]]
    BY <1>1, <1>2, <2>1, <2>2 DEF Filled
  <2> QED BY <1>3, <2>3, <2>4
<1>4. CASE rem < W
  <2>1. Strings!Copy(m, dst, rem, Strings!Pattern)
          = [i \in Strings!Offsets |->
                IF i >= dst /\ i < dst + rem THEN Strings!Pattern(i - dst) ELSE m[i]]
    BY DEF Strings!Copy
  <2>2. dst + rem = len /\ len <= dst + W
    BY <1>1, <1>4
  <2>3. Filled(m, len, rem) = [i \in Strings!Offsets |->
                IF i >= dst /\ i < dst + rem THEN Strings!Pattern(i - dst) ELSE m[i]]
    BY <1>1, <1>2, <2>2 DEF Filled
  <2> QED BY <1>1, <1>4, <2>1, <2>3
<1> QED BY <1>1, <1>3, <1>4

\* The loop of memset_pattern16 fills the memory with the pattern.
LEMMA FillFills ==
    ASSUME NEW m, NEW len \in Nat
    PROVE  Strings!Fill(m, len) = Filled(m, len, len)
<1> DEFINE W == PatternWidth
           Step(g, rem) == IF rem >= W
                           THEN Strings!Copy(g[rem - W], len - rem, W, Strings!Pattern)
                           ELSE Strings!Copy(m, len - rem, rem, Strings!Pattern)
           F == CHOOSE g : g = [rem \in 0 .. len |-> Step(g, rem)]
           G == [rem \in 0 .. len |-> Filled(m, len, rem)]
<1>1. W \in Nat \ {0}
  BY PartsAssumption DEF Strings!StringsAssumption
<1>2. Strings!Fill(m, len) = F[len]
  BY Zenon DEF Strings!Fill
<1>3. ASSUME NEW rem \in 0 .. len PROVE Filled(m, len, rem) = Step(G, rem)
  <2>1. rem >= W => G[rem - W] = Filled(m, len, rem - W)
    BY <1>1
  <2> QED BY <2>1, FilledByPiece
<1>4. G = [rem \in 0 .. len |-> Step(G, rem)]
  BY <1>3
<1> HIDE DEF Step
<1>5. F = [rem \in 0 .. len |-> Step(F, rem)]
  BY <1>4
<1> HIDE DEF F
<1>6. ASSUME NEW n \in 0 .. len, F[n] # Filled(m, len, n) PROVE FALSE
  <2> DEFINE T == {k \in 0 .. len : F[k] # Filled(m, len, k)}
  <2>1. PICK k \in T : \A j \in T : k <= j
    <3>1. T \subseteq Nat /\ T # {}
      BY <1>6
    <3> QED BY <3>1, Smallest
  <2>2. F[k] = Step(F, k)
    BY <1>5, <2>1
  <2>3. k >= W => F[k - W] = Filled(m, len, k - W)
    <3> SUFFICES ASSUME k >= W PROVE k - W \in 0 .. len /\ k - W \notin T
      OBVIOUS
    <3> QED BY <1>1, <2>1
  <2>4. Step(F, k) = Filled(m, len, k)
    BY <2>1, <2>3, FilledByPiece DEF Step
  <2> QED BY <2>1, <2>2, <2>4
<1> QED BY <1>2, <1>6

\* What memory has when the image means to have string s there: as much as fits,
\* and its end.
Fitting(s) == Strings!Least(Len(s), BufferSize - 1)

Holds(m, s) == BufferSize > 0 => /\ m[Fitting(s)] = 0
                                 /\ \A j \in 0 .. Fitting(s) - 1 : m[j] = s[j + 1]

Writable == [Strings!Offsets -> Nat]

StringsInv == /\ memory \in Writable /\ memory[BufferSize] = Strings!Stale
              /\ strMeant \in Seq(Nat \ {0})
              /\ strMeant # << >> => Holds(memory, strMeant)
              /\ Strings!ToldLength /\ Strings!PatternRepeats

\* Buffers have a size.
LEMMA SizeNatural == BufferSize \in Nat
BY PartsAssumption DEF Strings!StringsAssumption

\* What fits is shorter than the buffer, and no longer than the string.
LEMMA FittingBounds ==
    ASSUME NEW s \in Seq(Nat \ {0}), BufferSize > 0
    PROVE  /\ Fitting(s) \in 0 .. BufferSize - 1 /\ Fitting(s) <= Len(s)
           /\ Len(s) < BufferSize => Fitting(s) = Len(s)
           /\ Len(s) >= BufferSize => Fitting(s) = BufferSize - 1
<1>1. Len(s) \in Nat
  OBVIOUS
<1> QED BY <1>1, SizeNatural DEF Fitting, Strings!Least

\* The length of a string in memory is where its first zero is.
LEMMA StrlenIs ==
    ASSUME NEW m, NEW l \in Strings!Offsets, m[l] = 0, \A j \in 0 .. l - 1 : m[j] # 0
    PROVE  Strings!Strlen(m) = l
<1> DEFINE Z == {i \in Strings!Offsets : m[i] = 0}
<1>1. Strings!Offsets = 0 .. BufferSize
  BY DEF Strings!Offsets
<1>2. l \in Z /\ \A i \in Z : l <= i
  <2>1. \A i \in Z : i \in Nat /\ ~ (i \in 0 .. l - 1)
    BY <1>1, SizeNatural
  <2>2. l \in Nat
    BY <1>1, SizeNatural
  <2> QED BY <2>1, <2>2
<1>3. \A x, y \in Z : (\A i \in Z : x <= i) /\ (\A i \in Z : y <= i) => x = y
  BY <1>1, SizeNatural
<1>4. Strings!Strlen(m) = Strings!Min(Z)
  BY <1>2 DEF Strings!Strlen, Strings!Nul
<1> HIDE DEF Z
<1> QED BY <1>2, <1>3, <1>4 DEF Strings!Min

\* Memory that holds a string has its length.
LEMMA StrlenFits ==
    ASSUME NEW m, NEW s \in Seq(Nat \ {0}), Holds(m, s), BufferSize > 0
    PROVE  Strings!Strlen(m) = Fitting(s)
<1>1. Fitting(s) \in Strings!Offsets /\ Fitting(s) <= Len(s)
  BY FittingBounds, SizeNatural DEF Strings!Offsets
<1>2. m[Fitting(s)] = 0
  BY DEF Holds
<1>3. ASSUME NEW j \in 0 .. Fitting(s) - 1 PROVE m[j] # 0
  <2>1. j + 1 \in 1 .. Len(s)
    BY <1>1, FittingBounds
  <2> QED BY <2>1 DEF Holds
<1> QED BY <1>1, <1>2, <1>3, StrlenIs

\* Bytes of a string.
LEMMA Byte ==
    ASSUME NEW s \in Seq(Nat \ {0}), NEW j \in Nat
    PROVE  /\ Strings!ByteOf(s, j) \in Nat
           /\ j < Len(s) => Strings!ByteOf(s, j) = s[j + 1] /\ s[j + 1] \in Nat \ {0}
<1>1. j < Len(s) => j + 1 \in 1 .. Len(s)
  OBVIOUS
<1> QED BY <1>1 DEF Strings!ByteOf, Strings!Nul

\* Memory with k bytes of s at an offset.
WithBytes(m, at, k, s) ==
    [i \in Strings!Offsets |-> IF i >= at /\ i < at + k THEN Strings!ByteOf(s, i - at) ELSE m[i]]

\* The same, and an end behind them.
Wrote(r, m, at, k, s) == r = [WithBytes(m, at, k, s) EXCEPT ![at + k] = 0]

\* Bytes of s at an offset and an end behind them, all inside the buffer.
LEMMA Written ==
    ASSUME NEW m \in Writable, NEW s \in Seq(Nat \ {0}), NEW at \in Nat, NEW k \in Nat,
           at + k < BufferSize, k <= Len(s),
           NEW r, Wrote(r, m, at, k, s)
    PROVE  /\ r \in Writable /\ r[at + k] = 0 /\ r[BufferSize] = m[BufferSize]
           /\ \A j \in 0 .. k - 1 : r[at + j] = s[j + 1]
           /\ \A i \in 0 .. at - 1 : r[i] = m[i]
<1> DEFINE c == WithBytes(m, at, k, s)
<1>1. c = [i \in Strings!Offsets |-> IF i >= at /\ i < at + k
                                     THEN Strings!ByteOf(s, i - at) ELSE m[i]]
  BY DEF WithBytes
<1>2. Strings!Offsets = 0 .. BufferSize /\ BufferSize \in Nat
  BY SizeNatural DEF Strings!Offsets
<1>3. c \in Writable
  <2>1. ASSUME NEW i \in Strings!Offsets, i >= at PROVE Strings!ByteOf(s, i - at) \in Nat
    <3>1. i - at \in Nat
      BY <1>2, <2>1
    <3> QED BY <3>1, Byte
  <2> QED BY <1>1, <1>2, <2>1 DEF Writable
<1>4. \A j \in 0 .. k - 1 : c[at + j] = s[j + 1]
  <2> SUFFICES ASSUME NEW j \in 0 .. k - 1 PROVE c[at + j] = s[j + 1]
    OBVIOUS
  <2>1. at + j \in Strings!Offsets /\ at + j >= at /\ at + j < at + k /\ (at + j) - at = j
    BY <1>2
  <2>2. Strings!ByteOf(s, j) = s[j + 1]
    <3>1. j \in Nat /\ j < Len(s)
      OBVIOUS
    <3> QED BY <3>1, Byte
  <2> QED BY <1>1, <2>1, <2>2
<1>5. c[BufferSize] = m[BufferSize] /\ \A i \in 0 .. at - 1 : c[i] = m[i]
  BY <1>1, <1>2
<1> HIDE DEF c
<1>6. at + k \in Strings!Offsets /\ 0 \in Nat
  BY <1>2
<1>7. r \in Writable /\ r[at + k] = 0 /\ \A i \in Strings!Offsets : i # at + k => r[i] = c[i]
  BY <1>3, <1>6 DEF Writable, Wrote, c
<1>8. r[BufferSize] = m[BufferSize]
  BY <1>2, <1>5, <1>7
<1>9. \A j \in 0 .. k - 1 : r[at + j] = s[j + 1]
  BY <1>2, <1>4, <1>7
<1>10. \A i \in 0 .. at - 1 : r[i] = m[i]
  BY <1>2, <1>5, <1>7
<1> QED BY <1>7, <1>8, <1>9, <1>10

\* strlcpy leaves what fits of the string.
LEMMA StrlcpyRight ==
    ASSUME NEW m \in Writable, NEW s \in Seq(Nat \ {0})
    PROVE  /\ Strings!Strlcpy(m, s) \in Writable
           /\ Strings!Strlcpy(m, s)[BufferSize] = m[BufferSize]
           /\ Holds(Strings!Strlcpy(m, s), s)
<1>1. CASE BufferSize = 0
  BY <1>1 DEF Strings!Strlcpy, Holds
<1>2. CASE BufferSize > 0
  <2> DEFINE k == Fitting(s)
             n == Strings!Least(Len(s) + 1, BufferSize)
  <2>1. k \in Nat /\ k < BufferSize /\ k <= Len(s)
    BY <1>2, FittingBounds, SizeNatural
  <2>2. n - 1 = k
    <3>1. Len(s) \in Nat
      OBVIOUS
    <3> QED BY <3>1, SizeNatural DEF Fitting, Strings!Least
  <2>3. PICK at \in Nat : at = 0 /\ BufferSize # 0
    BY <1>2
  <2>4. at + k = k /\ at + k < BufferSize /\ \A j \in 0 .. k - 1 : at + j = j
    BY <2>1, <2>3
  <2>5. Strings!Strlcpy(m, s) =
            [Strings!Copy(m, 0, n - 1, LAMBDA j : Strings!ByteOf(s, j)) EXCEPT
                 ![n - 1] = Strings!Nul]
    BY <2>3, Zenon DEF Strings!Strlcpy
  <2>6. Strings!Copy(m, 0, n - 1, LAMBDA j : Strings!ByteOf(s, j)) = WithBytes(m, at, k, s)
    <3> HIDE DEF n
    <3>1. Strings!Copy(m, 0, n - 1, LAMBDA j : Strings!ByteOf(s, j)) =
              [i \in Strings!Offsets |-> IF i >= 0 /\ i < 0 + (n - 1)
                                         THEN Strings!ByteOf(s, i - 0) ELSE m[i]]
      BY DEF Strings!Copy
    <3> QED BY <2>2, <2>3, <3>1 DEF WithBytes
  <2> HIDE DEF k, n
  <2>7. Strings!Strlcpy(m, s) = [WithBytes(m, at, k, s) EXCEPT ![at + k] = 0]
    BY <2>2, <2>3, <2>4, <2>5, <2>6, Zenon DEF Strings!Nul
  <2>8. /\ Strings!Strlcpy(m, s) \in Writable /\ Strings!Strlcpy(m, s)[at + k] = 0
        /\ Strings!Strlcpy(m, s)[BufferSize] = m[BufferSize]
        /\ \A j \in 0 .. k - 1 : Strings!Strlcpy(m, s)[at + j] = s[j + 1]
    <3>1. PICK v : v = Strings!Strlcpy(m, s)
      OBVIOUS
    <3>2. Wrote(v, m, at, k, s)
      BY <2>7, <3>1 DEF Wrote
    <3>3. /\ v \in Writable /\ v[at + k] = 0 /\ v[BufferSize] = m[BufferSize]
          /\ \A j \in 0 .. k - 1 : v[at + j] = s[j + 1]
      BY <2>1, <2>4, <3>2, Written
    <3> QED BY <3>1, <3>3
  <2> QED BY <2>4, <2>8 DEF Holds, k
<1> QED BY <1>1, <1>2, SizeNatural

\* strlcat leaves what fits of both strings.
LEMMA StrlcatRight ==
    ASSUME NEW m \in Writable, NEW s \in Seq(Nat \ {0}), NEW u \in Seq(Nat \ {0}),
           Holds(m, s)
    PROVE  /\ Strings!Strlcat(m, u) \in Writable
           /\ Strings!Strlcat(m, u)[BufferSize] = m[BufferSize]
           /\ Holds(Strings!Strlcat(m, u), s \o u)
           /\ s \o u \in Seq(Nat \ {0}) /\ Len(s \o u) = Len(s) + Len(u)
<1>1. s \o u \in Seq(Nat \ {0}) /\ Len(s \o u) = Len(s) + Len(u)
      /\ Len(s) \in Nat /\ Len(u) \in Nat
  OBVIOUS
<1>2. CASE BufferSize = 0
  BY <1>1, <1>2 DEF Strings!Strlcat, Holds
<1>3. CASE BufferSize > 0
  <2> DEFINE at == Fitting(s)
             n == BufferSize - at - 1
             k == Strings!Least(Len(u), n)
             last == BufferSize - 1
             ended == [m EXCEPT ![last] = Strings!Nul]
             r == Strings!Strlcat(m, u)
  <2>1. /\ at \in Nat /\ at < BufferSize /\ at <= Len(s)
        /\ Len(s) < BufferSize => at = Len(s)
        /\ Len(s) >= BufferSize => at = last
    BY <1>3, FittingBounds, SizeNatural
  <2>2. last \in Strings!Offsets /\ last # BufferSize /\ BufferSize \in Strings!Offsets
    BY <1>3, SizeNatural DEF Strings!Offsets
  <2>3. /\ ended \in Writable /\ ended[last] = 0
        /\ \A i \in Strings!Offsets : i # last => ended[i] = m[i]
    BY <2>2 DEF Writable, Strings!Nul
  <2>4. /\ k \in Nat /\ k <= Len(u) /\ at + k < BufferSize /\ Fitting(s \o u) = at + k
        /\ k # 0 => at = Len(s)
    <3> HIDE DEF at
    <3> QED BY <1>1, <1>3, <2>1, SizeNatural DEF Fitting, Strings!Least
  <2> HIDE DEF ended
  <2>5. /\ m[at] = 0 /\ \A j \in 0 .. at - 1 : m[j] = s[j + 1]
    BY <1>3 DEF Holds
  <2>6. Holds(ended, s)
    <3>1. ended[at] = 0
      <4>1. at \in Strings!Offsets
        BY <2>1, SizeNatural DEF Strings!Offsets
      <4> QED BY <2>3, <2>5, <4>1
    <3>2. ASSUME NEW j \in 0 .. at - 1 PROVE ended[j] = s[j + 1]
      <4>1. j \in Strings!Offsets /\ j # last
        BY <2>1, SizeNatural DEF Strings!Offsets
      <4> QED BY <2>3, <2>5, <4>1
    <3> QED BY <3>1, <3>2 DEF Holds
  <2>7. Strings!Strlen(ended) = at
    BY <1>3, <2>6, StrlenFits
  <2>8. BufferSize # 0
    BY <1>3
  <2>9. r = Strings!Strncat(ended, u, BufferSize - Strings!Strlen(ended) - 1)
    BY <2>8, Zenon DEF Strings!Strlcat, ended
  <2>10. r = Strings!Strncat(ended, u, n)
    BY <2>7, <2>9, Zenon
  <2>11. Strings!Strncat(ended, u, n) = [WithBytes(ended, at, k, u) EXCEPT ![at + k] = 0]
    BY <2>7, Zenon DEF Strings!Strncat, Strings!Copy, WithBytes, Strings!Nul
  <2> HIDE DEF at, n, k
  <2>12. /\ r \in Writable /\ r[at + k] = 0 /\ r[BufferSize] = ended[BufferSize]
         /\ \A j \in 0 .. k - 1 : r[at + j] = u[j + 1]
         /\ \A i \in 0 .. at - 1 : r[i] = ended[i]
    <3>1. PICK v, e : v = r /\ e = ended
      OBVIOUS
    <3>2. e \in Writable /\ Wrote(v, e, at, k, u)
      BY <2>3, <2>10, <2>11, <3>1 DEF Wrote
    <3>3. /\ v \in Writable /\ v[at + k] = 0 /\ v[BufferSize] = e[BufferSize]
          /\ \A j \in 0 .. k - 1 : v[at + j] = u[j + 1]
          /\ \A i \in 0 .. at - 1 : v[i] = e[i]
      BY <2>1, <2>4, <3>2, Written
    <3> QED BY <3>1, <3>3
  <2> HIDE DEF r
  <2>13. r[BufferSize] = m[BufferSize]
    BY <2>2, <2>3, <2>12
  <2>14. ASSUME NEW i \in 0 .. (at + k) - 1 PROVE r[i] = (s \o u)[i + 1]
    <3>1. CASE i < at
      <4>1. i \in 0 .. at - 1 /\ i + 1 \in 1 .. Len(s)
        BY <1>1, <2>1, <2>4, <3>1
      <4>2. r[i] = s[i + 1]
        BY <1>3, <2>6, <2>12, <4>1 DEF Holds, at
      <4> QED BY <4>1, <4>2
    <3>2. CASE i >= at
      <4>1. i - at \in 0 .. k - 1 /\ at + (i - at) = i /\ k # 0
        BY <2>1, <2>4, <3>2
      <4>2. r[i] = u[(i - at) + 1]
        BY <2>12, <4>1
      <4>3. at = Len(s)
        BY <2>4, <4>1
      <4>4. i + 1 \in Len(s) + 1 .. Len(s) + Len(u) /\ (i + 1) - Len(s) = (i - at) + 1
        BY <1>1, <2>1, <2>4, <4>1, <4>3
      <4>5. (s \o u)[i + 1] = u[(i + 1) - Len(s)]
        BY <4>4
      <4> QED BY <4>2, <4>4, <4>5
    <3> QED BY <2>1, <2>4, <3>1, <3>2
  <2>15. Holds(r, s \o u)
    BY <2>4, <2>12, <2>14 DEF Holds
  <2> QED BY <1>1, <2>12, <2>13, <2>15 DEF r
<1> QED BY <1>2, <1>3, SizeNatural

\* Before a call memory has whatever it has.
LEMMA InitStringsInv == Strings!Init => StringsInv
<1> SUFFICES ASSUME Strings!Init PROVE StringsInv
  OBVIOUS
<1>1. memory \in Writable /\ memory[BufferSize] = Strings!Stale
  BY SizeNatural DEF Strings!Init, Writable, Strings!Offsets, Strings!Stale
<1>2. strMeant \in Seq(Nat \ {0}) /\ strMeant = << >>
  BY DEF Strings!Init
<1>3. Strings!ToldLength /\ Strings!PatternRepeats
  BY DEF Strings!Init, Strings!ToldLength, Strings!PatternRepeats
<1> QED BY <1>1, <1>2, <1>3 DEF StringsInv

\* strlcpy writes what fits and ends it (stub_str.c).
LEMMA StrlcpyStep ==
    ASSUME StringsInv, NEW s \in Sources, Strings!CallStrlcpy(s)
    PROVE  StringsInv'
<1>1. s \in Seq(Nat \ {0})
  BY PartsAssumption DEF Strings!StringsAssumption
<1>2. /\ memory' = Strings!Strlcpy(memory, s) /\ strMeant' = s
      /\ strTold' = [result |-> Len(s), right |-> Len(s)] /\ filled' = Strings!None
  BY DEF Strings!CallStrlcpy
<1>3. /\ memory' \in Writable /\ memory'[BufferSize] = memory[BufferSize]
      /\ Holds(memory', s)
  BY <1>1, <1>2, StrlcpyRight DEF StringsInv
<1>4. Strings!ToldLength' /\ Strings!PatternRepeats'
  BY <1>2 DEF Strings!ToldLength, Strings!PatternRepeats
<1> QED BY <1>1, <1>2, <1>3, <1>4 DEF StringsInv, Strings!Stale

\* strlcat appends what fits and ends it (stub_str.c).
LEMMA StrlcatStep ==
    ASSUME StringsInv, NEW s \in Sources, Strings!CallStrlcat(s)
    PROVE  StringsInv'
<1>1. s \in Seq(Nat \ {0})
  BY PartsAssumption DEF Strings!StringsAssumption
<1>2. /\ strMeant # << >> /\ memory' = Strings!Strlcat(memory, s) /\ strMeant' = strMeant \o s
      /\ strTold' = [result |-> Strings!StrlcatResult(memory'), right |-> Len(strMeant')]
      /\ filled' = Strings!None
  BY DEF Strings!CallStrlcat
<1>3. /\ memory \in Writable /\ strMeant \in Seq(Nat \ {0}) /\ Holds(memory, strMeant)
  BY <1>2 DEF StringsInv
<1>4. /\ memory' \in Writable /\ memory'[BufferSize] = memory[BufferSize]
      /\ Holds(memory', strMeant') /\ strMeant' \in Seq(Nat \ {0})
  BY <1>1, <1>2, <1>3, StrlcatRight
<1>5. Strings!ToldLength'
  <2>1. CASE BufferSize = 0
    <3>1. Strings!StrlcatResult(memory') = 0
      BY <2>1 DEF Strings!StrlcatResult
    <3>2. Len(strMeant') \in Nat
      BY <1>4
    <3> QED BY <1>2, <2>1, <3>1, <3>2 DEF Strings!ToldLength
  <2>2. CASE BufferSize > 0
    <3>1. Strings!StrlcatResult(memory') = Fitting(strMeant')
      BY <1>4, <2>2, StrlenFits DEF Strings!StrlcatResult
    <3>2. /\ Len(strMeant') < BufferSize => Fitting(strMeant') = Len(strMeant')
          /\ Len(strMeant') >= BufferSize => Fitting(strMeant') = BufferSize - 1
          /\ Len(strMeant') \in Nat
      BY <1>4, <2>2, FittingBounds
    <3> QED BY <1>2, <2>2, <3>1, <3>2, SizeNatural DEF Strings!ToldLength
  <2> QED BY <2>1, <2>2, SizeNatural
<1>6. Strings!PatternRepeats'
  BY <1>2 DEF Strings!PatternRepeats
<1> QED BY <1>4, <1>5, <1>6 DEF StringsInv, Strings!Stale

\* memset_pattern16 repeats the pattern and stays within its length (stub_str.c).
LEMMA PatternStep ==
    ASSUME StringsInv, NEW len \in 0 .. BufferSize, Strings!MemsetPattern16(len)
    PROVE  StringsInv'
<1>1. /\ memory' = Strings!Fill(memory, len) /\ old' = memory /\ strMeant' = << >>
      /\ strTold' = [result |-> Strings!None, right |-> Strings!None] /\ filled' = len
  BY DEF Strings!MemsetPattern16
<1>2. len \in Nat /\ PatternWidth \in Nat \ {0} /\ Strings!Offsets = 0 .. BufferSize
  BY SizeNatural, PartsAssumption DEF Strings!StringsAssumption, Strings!Offsets
<1>3. memory' = Filled(memory, len, len)
  BY <1>1, <1>2, FillFills
<1>4. memory' = [i \in Strings!Offsets |->
                   IF i < len THEN Strings!Pattern(i % PatternWidth) ELSE memory[i]]
  <2>1. \A i \in Strings!Offsets : i - (len - len) = i /\ i >= len - len
    BY <1>2
  <2> QED BY <1>3, <2>1 DEF Filled
<1>5. memory' \in Writable
  <2>1. \A i \in Strings!Offsets : (i % PatternWidth) \in Nat
    BY <1>2
  <2>2. \A i \in Strings!Offsets : Strings!Pattern(i % PatternWidth) \in Nat
    BY <2>1 DEF Strings!Pattern
  <2>3. memory \in [Strings!Offsets -> Nat]
    BY DEF StringsInv, Writable
  <2> QED BY <1>4, <2>2, <2>3 DEF Writable
<1>6. memory'[BufferSize] = memory[BufferSize]
  BY <1>2, <1>4, SizeNatural
<1>7. Strings!PatternRepeats'
  BY <1>1, <1>4 DEF Strings!PatternRepeats, Strings!Offsets
<1>8. Strings!ToldLength'
  BY <1>1 DEF Strings!ToldLength
<1> QED BY <1>1, <1>5, <1>6, <1>7, <1>8 DEF StringsInv, Strings!Stale

\* No call on strings writes past the buffer (stub_str.c).
LEMMA StringsStep == StringsInv /\ [Strings!Next]_(Strings!vars) => StringsInv'
<1> SUFFICES ASSUME StringsInv, [Strings!Next]_(Strings!vars) PROVE StringsInv'
  OBVIOUS
<1>1. CASE UNCHANGED Strings!vars
  BY <1>1 DEF Strings!vars, StringsInv, Holds, Fitting, Strings!ToldLength,
              Strings!PatternRepeats, Strings!Offsets
<1> QED BY <1>1, StrlcpyStep, StrlcatStep, PatternStep DEF Strings!Next

\* Whatever strings are copied and appended, in a buffer of any size, and whatever
\* patterns are written over it: what fits is there and ends in the buffer, the
\* byte behind it stays, the result is as documented but for what strlcat cuts, and
\* a pattern goes on to its length (stub_str.c:11-26, 35-44).
THEOREM CallsStringsFit == CallsSpec => []StringsFit
<1>1. CallsInit => StringsInv
  BY InitStringsInv DEF CallsInit
<1>2. [CallsNext]_<<part, resolverVars, socketVars, listVars, optionVars, fileVars, stringVars>>
         => [Strings!Next]_(Strings!vars)
  BY DEF CallsNext, stringVars, Strings!vars
<1>3. StringsInv => StringsFit
  <2> SUFFICES ASSUME StringsInv PROVE Strings!FitsAndEnds
    BY DEF StringsInv, StringsFit
  <2>1. ASSUME strMeant # << >>, BufferSize > 0
        PROVE  /\ Strings!Strlen(memory) = Strings!Least(Len(strMeant), BufferSize - 1)
               /\ \A i \in 0 .. Strings!Strlen(memory) - 1 : memory[i] = strMeant[i + 1]
    <3>1. Strings!Strlen(memory) = Fitting(strMeant)
      BY <2>1, StrlenFits DEF StringsInv
    <3> QED BY <2>1, <3>1 DEF StringsInv, Holds, Fitting
  <2> QED BY <2>1 DEF StringsInv, Strings!FitsAndEnds
<1> QED BY <1>1, <1>2, <1>3, StringsStep, PTL DEF CallsSpec

=============================================================================
