----------------------------- MODULE OptionShim -----------------------------
(***************************************************************************)
(* Socket options and the signal of a broken pipe: getsockopt and          *)
(* setsockopt (stubs/src/stub_socket.c:307-348) and sigaction              *)
(* (stub_sys.c:29-55).  Options are numbered anew whatever their level, or *)
(* dropped; of sigaction only the two forms that get or set SIGPIPE do     *)
(* anything.                                                               *)
(***************************************************************************)
EXTENDS Integers

CONSTANTS Threads,
          Asked,    \* options of the image: level and number of Darwin
          Values    \* what they are set to

\* Levels of Darwin; the host's differ for sockets only.
SolSocket    == 65535  \* 0xFFFF
LinuxSocket  == 1
Tcp          == 6

\* Options of a socket, Darwin's number and Linux's: DEBUG, ACCEPTCONN,
\* REUSEADDR, KEEPALIVE, DONTROUTE, BROADCAST, REUSEPORT, ERROR.
Numbers == {<<1, 1>>, <<2, 30>>, <<4, 2>>, <<8, 9>>, <<16, 5>>, <<32, 6>>,
            <<512, 15>>, <<4103, 4>>}

Known(optname) == \E n \in Numbers : n[1] = optname

\* The options of the image that go through are of sockets, or three of TCP:
\* NODELAY, MAXSEG and KEEPALIVE.
OptionsAssumption ==
    /\ Asked \subseteq Nat \X Nat /\ "garbage" \notin Values
    /\ \A o \in Asked : \/ o[1] = SolSocket \/ o \in {<<Tcp, 1>>, <<Tcp, 2>>, <<Tcp, 16>>}
                        \/ ~ Known(o[2])

VARIABLES option,   \* what the host's socket has for each option of its own
          meant,    \* what the image set each of its options to
          read,     \* the last option read, what the image got and what is right
          action,   \* the process's action on SIGPIPE
          saved,    \* the action each thread of the image keeps to restore
          bothForms, \* whether the image ever set and got the action in one call
          process   \* running, panicked, or killed by the signal

vars == <<option, meant, read, action, saved, bothForms, process>>

\* SO_NOSIGPIPE, and two of other levels.
Ignored == {27, 257, 4130}

ToDarwinOptname(optname) == (CHOOSE n \in Numbers : n[1] = optname)[2]

HostLevel(level) == IF level = SolSocket THEN LinuxSocket ELSE level
HostOption(o)    == <<HostLevel(o[1]), ToDarwinOptname(o[2])>>

KnownAsked == {o \in Asked : Known(o[2])}

\* What the host's socket itself reports, nobody sets: ACCEPTCONN and ERROR.
ReadOnly == {<<LinuxSocket, 30>>, <<LinuxSocket, 4>>}

Unset   == "unset"
Garbage == "garbage"
NoRead  == [option |-> <<0, 0>>, value |-> Unset, right |-> Unset]

\* The runtime of Rust ignores SIGPIPE before main.
Init == /\ option = [h \in {HostOption(o) : o \in KnownAsked} |-> Unset]
        /\ meant = [o \in Asked |-> Unset]
        /\ read = NoRead
        /\ action = "ignore"
        /\ saved = [t \in Threads |-> "none"]
        /\ bothForms = FALSE
        /\ process = "running"

Running == process = "running"

SocketOnly == UNCHANGED <<action, saved, bothForms>>
SignalOnly == UNCHANGED <<option, meant, read>>

\* Either call, for an option the switch does not know.
PanicsOn(o) == /\ Running /\ ~ Known(o[2]) /\ o[2] \notin Ignored
               /\ process' = "panicked"
               /\ SignalOnly /\ SocketOnly

\* An ignored option is set with success, and nothing is done.
Setsockopt(o, v) ==
    /\ Running /\ Known(o[2]) /\ HostOption(o) \notin ReadOnly
    /\ option' = [option EXCEPT ![HostOption(o)] = v]
    /\ meant' = [meant EXCEPT ![o] = v]
    /\ UNCHANGED <<read, process>> /\ SocketOnly

SetIgnored(o, v) ==
    /\ Running /\ o[2] \in Ignored
    /\ meant' = [meant EXCEPT ![o] = v]
    /\ UNCHANGED <<option, read, process>> /\ SocketOnly

Reads(o, value) == read' = [option |-> o, value |-> value, right |-> meant[o]]

\* A dropped option leaves the buffer of the image as it was.
Getsockopt(o) ==
    /\ Running
    /\ \/ o[2] \in Ignored /\ Reads(o, Garbage)
       \/ Known(o[2]) /\ Reads(o, option[HostOption(o)])
    /\ UNCHANGED <<option, meant, process>> /\ SocketOnly

-----------------------------------------------------------------------------
(* sigaction *)

\* Variant with a plausible bug: the form that gets is dropped as well.
GetActionDropped(t) == /\ Running
                       /\ saved' = [saved EXCEPT ![t] = Garbage]
                       /\ UNCHANGED <<action, bothForms, process>> /\ SignalOnly

GetAction(t) == /\ Running
                /\ saved' = [saved EXCEPT ![t] = action]
                /\ UNCHANGED <<action, bothForms, process>> /\ SignalOnly

SetAction(h) == /\ Running
                /\ action' = h
                /\ UNCHANGED <<saved, bothForms, process>> /\ SignalOnly

\* Both at once: success, and nothing is done; the image takes what its memory
\* has for the old action.
BothForms(t) == /\ Running
                /\ bothForms' = TRUE
                /\ saved' = [saved EXCEPT ![t] = Garbage]
                /\ UNCHANGED <<action, process>> /\ SignalOnly

\* Each thread saves the action, ignores the signal around what may raise it,
\* and puts back what it saved.
Around(t) == \/ GetAction(t) \/ BothForms(t)
             \/ saved[t] # "none" /\ (SetAction("ignore") \/ SetAction(saved[t]))

\* Linux raises the signal whatever the image asked of the socket.
WriteBroken == /\ Running
               /\ process' = (IF action = "ignore" THEN "running" ELSE "killed")
               /\ SignalOnly /\ SocketOnly

Next == \/ \E o \in Asked, v \in Values : Setsockopt(o, v) \/ SetIgnored(o, v)
        \/ \E o \in Asked : Getsockopt(o) \/ PanicsOn(o)
        \/ \E t \in Threads : Around(t)
        \/ WriteBroken

Spec == Init /\ [][Next]_vars

-----------------------------------------------------------------------------
\* Which option of the host means what an option of the image does.
Meanings == {<<<<SolSocket, n[1]>>, <<LinuxSocket, n[2]>>>> : n \in Numbers}
            \cup {<<<<Tcp, 1>>, <<Tcp, 1>>>>,   \* TCP_NODELAY
                  <<<<Tcp, 2>>, <<Tcp, 2>>>>,   \* TCP_MAXSEG
                  <<<<Tcp, 16>>, <<Tcp, 4>>>>}  \* TCP_KEEPALIVE, TCP_KEEPIDLE

\* Numbers of another level that are read as options of a socket.
Misread == {<<Tcp, 2>>, <<Tcp, 16>>}

\* An option that was set reads back as it was set last, whatever other options
\* were set in between, unless it is one of those dropped
\* (stub_socket.c:307-348).
ReadsBack == read.value \in {Garbage, read.right} /\ (read.value = Garbage => read.option[2] \in Ignored)

\* Each option the image managed to set is the one it meant, on the host's
\* socket, but for those of TCP whose numbers are taken for a socket's
\* (stub_socket.c:307-334).
SameOption == \A o \in KnownAsked \ Misread :
                 meant[o] # Unset => /\ <<o, HostOption(o)>> \in Meanings
                                     /\ option[HostOption(o)] = meant[o]

\* Writing to a broken pipe kills the process only after the image used the form
\* of sigaction that sets and gets at once: saving, ignoring and restoring in
\* two calls keeps the signal ignored, by any number of threads at a time
\* (stub_sys.c:29-55).
PipeQuiet == process = "killed" => bothForms
=============================================================================
