------------------------------ MODULE FileShim ------------------------------
(***************************************************************************)
(* Files, directories and event queues (stubs/src/stub_fs.c, stub_io.c,    *)
(* stub_kernel_kqueue.c).  A stream of Darwin is a block that holds the    *)
(* host's stream and the entry read last; stat is copied field by field;   *)
(* a queue of events is always descriptor 0.                               *)
(***************************************************************************)
EXTENDS Integers, FiniteSetsExt

CONSTANTS Fds,         \* descriptors a process may have, from 0
          Streams,     \* blocks of the heap for streams
          Entries,     \* how many entries each directory has
          Attributes,  \* what stat of the host may say: links, and size in units of 64 KiB
          MaxQueues    \* bound on the queues the image makes

FilesAssumption == /\ Fds \subseteq Nat /\ 0 \in Fds
                   /\ Entries \in Nat /\ MaxQueues \in Nat
                   /\ \A a \in Attributes : a.links \in Nat /\ a.size \in Nat

VARIABLES open,    \* the host's descriptors: what each is open on
          held,    \* descriptors of files the image has
          stream,  \* the blocks: host's descriptor, and how many entries were read
          stat,    \* the image's structure: result, links, size; and the host's
          queues, closedQueues \* queues the image has, and closed

vars == <<open, held, stream, stat, queues, closedQueues>>

Free    == "free"
File    == "file"
Folder  == "directory"
Garbage == -1
NoBlock == [state |-> "none", fd |-> Garbage, position |-> 0]

\* Descriptor 0 is the standard input.
Init == /\ open = [fd \in Fds |-> IF fd = 0 THEN "stdin" ELSE Free]
        /\ held = {}
        /\ stream = [s \in Streams |-> NoBlock]
        /\ stat = [result |-> Garbage, links |-> Garbage, size |-> Garbage,
                   host |-> [links |-> Garbage, size |-> Garbage]]
        /\ queues = 0 /\ closedQueues = 0

FreeFds == {fd \in Fds : open[fd] = Free}
Lowest  == Min(FreeFds)

OpenFile == /\ FreeFds # {}
            /\ open' = [open EXCEPT ![Lowest] = File]
            /\ held' = held \cup {Lowest}
            /\ UNCHANGED <<stream, queues, closedQueues, stat>>

\* close$NOCANCEL
CloseFile(fd) == /\ fd \in held
                 /\ open' = [open EXCEPT ![fd] = Free]
                 /\ held' = held \ {fd}
                 /\ UNCHANGED <<stream, queues, closedQueues, stat>>

-----------------------------------------------------------------------------
(* stub_kernel_kqueue.c:15-28 *)

Kqueue == /\ queues + closedQueues < MaxQueues
          /\ queues' = queues + 1
          /\ UNCHANGED <<open, held, stream, closedQueues, stat>>

CloseQueue == /\ queues > 0
              /\ queues' = queues - 1
              /\ closedQueues' = closedQueues + 1
              /\ open' = [open EXCEPT ![0] = Free]
              /\ UNCHANGED <<held, stream, stat>>

-----------------------------------------------------------------------------
(* Directories: stub_fs.c:72-107 *)

Live(s) == stream[s].state = "live"

Opendir(s) == /\ stream[s].state # "live" /\ FreeFds # {}
              /\ open' = [open EXCEPT ![Lowest] = Folder]
              /\ stream' = [stream EXCEPT ![s] = [NoBlock EXCEPT !.state = "live", !.fd = Lowest]]
              /\ UNCHANGED <<held, queues, closedQueues, stat>>

\* The entry is converted into the stream's own, and the next one is left.
Readdir(s) == /\ Live(s) /\ open[stream[s].fd] = Folder /\ stream[s].position < Entries
              /\ stream' = [stream EXCEPT ![s].position = @ + 1]
              /\ UNCHANGED <<open, held, queues, closedQueues, stat>>

\* Descriptors are closed; the host's stream goes in any case, the block only after
\* a success, which the host has if the descriptor is open.
Closes(s, fds) ==
    /\ Live(s)
    /\ open' = [fd \in Fds |-> IF fd \in fds THEN Free ELSE open[fd]]
    /\ stream' = [stream EXCEPT ![s].state =
                     IF open[stream[s].fd] = Free THEN "leaked" ELSE "freed"]
    /\ UNCHANGED <<held, queues, closedQueues, stat>>

\* Variant with a plausible bug: the descriptor is closed once more, when another
\* thread may have it.
ClosedirTwice(s) == \E fd \in Fds \ {0} : Closes(s, {stream[s].fd, fd})

Closedir(s) == Closes(s, {stream[s].fd})

-----------------------------------------------------------------------------
(* stat, lstat, fstat: stub_fs.c:56-70, 109-131 *)

\* stat64_from_linux: links in 16 bits, the size as it is.
Copied(a) == [links |-> a.links % 65536, size |-> a.size]

\* After a failure a local structure nobody wrote is copied.
Stat ==
    /\ \/ \E a \in Attributes : stat' = [result |-> 0, links |-> Copied(a).links,
                                         size |-> Copied(a).size, host |-> a]
       \/ \E a \in Attributes : stat' = [result |-> -1, links |-> a.links % 65536,
                                         size |-> a.size, host |-> stat.host]
    /\ UNCHANGED <<open, held, stream, queues, closedQueues>>

Next == \/ OpenFile \/ \E fd \in Fds : CloseFile(fd)
        \/ Kqueue \/ CloseQueue
        \/ \E s \in Streams : Opendir(s) \/ Readdir(s) \/ Closedir(s)
        \/ Stat

Spec == Init /\ [][Next]_vars

-----------------------------------------------------------------------------
\* Closing a queue closes descriptor 0, which is the standard input once and then
\* whatever was opened: until two queues were closed every file and directory
\* the image has open is still open (stub_kernel_kqueue.c:15-18, stub_io.c:17-21).
FilesTheirs == closedQueues < 2 =>
                  /\ \A fd \in held : open[fd] = File
                  /\ \A s \in Streams : Live(s) => open[stream[s].fd] = Folder

\* No block leaks while the descriptors are right (stub_fs.c:94-100).
NoLeak == closedQueues < 2 => \A s \in Streams : stream[s].state # "leaked"

\* After a success the image has the host's size whatever it is, and the links
\* of a file with fewer than 65536 (stub_fs.c:56-70, 109-131).
StatRight == stat.result = 0 =>
                /\ stat.size = stat.host.size
                /\ stat.host.links < 65536 => stat.links = stat.host.links
=============================================================================
