------------------------------ MODULE ShimCalls ------------------------------
(***************************************************************************)
(* What the image calls: the names are bound by Resolver, and the calls    *)
(* converted by the shims for addresses, lists of them, options and        *)
(* signals, files, and strings.  The shims have no state in common, so a   *)
(* behaviour takes the steps of one of them.                               *)
(***************************************************************************)
EXTENDS Resolver

CONSTANTS Threads,
          SocketFds, SocketFamilies, Rests, MaxPeers, Leftovers, NoAddress,
          HintFamilies, HostLists, Dstaddrs, MaxCalls,
          AskedOptions, OptionValues,
          FileFds, DirStreams, Entries, Attributes, MaxQueues,
          BufferSize, Sources, PatternWidth, MaxLength

VARIABLES part,
          socket, sockMeant, sockTold, given, refused, came,
          shared, hints, hintMeant, pc, copy, asked, list, host,
          interfaces, hostInterfaces, calls,
          option, optMeant, read, action, saved, bothForms, process,
          open, held, stream, stat, queues, closedQueues,
          memory, strMeant, strTold, old, filled

resolverVars == vars
socketVars == <<socket, sockMeant, sockTold, given, refused, came>>
listVars   == <<shared, hints, hintMeant, pc, copy, asked, list, host,
                interfaces, hostInterfaces, calls>>
optionVars == <<option, optMeant, read, action, saved, bothForms, process>>
fileVars   == <<open, held, stream, stat, queues, closedQueues>>
stringVars == <<memory, strMeant, strTold, old, filled>>

Sockets == INSTANCE SocketShim WITH
    Fds <- SocketFds, Null <- NoAddress, meant <- sockMeant, told <- sockTold

Lists == INSTANCE AddrLists WITH meant <- hintMeant

Options == INSTANCE OptionShim WITH
    Asked <- AskedOptions, Values <- OptionValues, meant <- optMeant

Files == INSTANCE FileShim WITH Fds <- FileFds, Streams <- DirStreams

Strings == INSTANCE StringShim WITH
    Size <- BufferSize, Width <- PatternWidth, meant <- strMeant, told <- strTold

ASSUME PartsAssumption == /\ Sockets!SocketAssumption /\ Files!FilesAssumption
                          /\ Lists!ListsAssumption /\ Options!OptionsAssumption
                          /\ Strings!StringsAssumption

\* Hints that no call is about.
AnyHints == [t \in Threads |-> CHOOSE f \in HintFamilies : TRUE]

CallsInit ==
    /\ part \in {"names", "sockets", "lists", "options", "files", "strings"}
    /\ Init /\ Sockets!Init /\ Lists!Init /\ Options!Init /\ Files!Init /\ Strings!Init
    /\ part # "lists" => ~ shared /\ hintMeant = AnyHints

CallsNext ==
    /\ UNCHANGED part
    /\ \/ /\ part = "names" /\ Next
          /\ UNCHANGED <<socketVars, listVars, optionVars, fileVars, stringVars>>
       \/ /\ part = "sockets" /\ Sockets!Next
          /\ UNCHANGED <<resolverVars, listVars, optionVars, fileVars, stringVars>>
       \/ /\ part = "lists" /\ Lists!Next
          /\ UNCHANGED <<resolverVars, socketVars, optionVars, fileVars, stringVars>>
       \/ /\ part = "options" /\ Options!Next
          /\ UNCHANGED <<resolverVars, socketVars, listVars, fileVars, stringVars>>
       \/ /\ part = "files" /\ Files!Next
          /\ UNCHANGED <<resolverVars, socketVars, listVars, optionVars, stringVars>>
       \/ /\ part = "strings" /\ Strings!Next
          /\ UNCHANGED <<resolverVars, socketVars, listVars, optionVars, fileVars>>

CallsSpec == CallsInit /\ [][CallsNext]_<<part, resolverVars, socketVars, listVars, optionVars,
                                          fileVars, stringVars>>

-----------------------------------------------------------------------------
\* A name is one thing, imported or looked up, on any host; an object the shim
\* lays out never reaches the host's functions; and the image gets each stub the
\* shim has (stubs.rs:45-50, 93-142, stub.c:215-225).
NamesBoundRight == part = "names" => OneMeaning /\ ShimOrNothing /\ OverridesWin

\* What calls that succeed tell the image of a socket, where its datagrams go and
\* what is looked up is what was meant, whichever calls an address came by, and
\* Linux refuses none of the socket's own family, each but for families with
\* another number there (stub_socket.c:210-263, 295-300).
AddressesAsMeant == part = "sockets" =>
    Sockets!ToldAsMeant /\ Sockets!GivenAsMeant /\ Sockets!RefusedOnlyRenumbered

\* Lists the image reads are Darwin's and those the host frees its own, and hints
\* are as the image wrote them when no call is in progress, even when threads
\* share them; the host is asked what the image meant when they do not
\* (stub_socket.c:146-204, 265-283).
ListsAsMade == part = "lists" => /\ Lists!ReadsDarwin /\ Lists!FreesAsMade
                                 /\ Lists!HintsRestored /\ Lists!AskedAsMeant

\* An option reads back as it was set last and is the one the image meant, but for
\* those that are dropped and those of TCP taken for a socket's; SIGPIPE stays
\* ignored through any threads' saving and restoring in two calls
\* (stub_socket.c:307-348, stub_sys.c:29-55).
OptionsAsMeant == part = "options" =>
    Options!ReadsBack /\ Options!SameOption /\ Options!PipeQuiet

\* Until two queues were closed the image's files and streams are open and no
\* stream leaks; stat tells what the host has, but for links past 65535
\* (stub_fs.c:56-131, stub_io.c:17-21, stub_kernel_kqueue.c:15-18).
FilesAsOpened == part = "files" =>
    Files!FilesTheirs /\ Files!NoLeak /\ Files!StatRight

\* Copies and appends fit, end, and say how long they were meant to be, but for
\* strlcat that cuts; patterns go on to the length and no further
\* (stub_str.c:11-44).
StringsFit == part = "strings" =>
    Strings!FitsAndEnds /\ Strings!ToldLength /\ Strings!PatternRepeats
=============================================================================
