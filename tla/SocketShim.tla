----------------------------- MODULE SocketShim -----------------------------
(***************************************************************************)
(* The socket calls that take or give an address (stubs/src/               *)
(* stub_socket.c:210-263, 295-300): each converts a copy of its own.       *)
(* socket itself is not in the shim: Linux gets the numbers of Darwin.     *)
(***************************************************************************)
EXTENDS SocketAddresses, Sequences, FiniteSets

CONSTANTS Fds,
          SocketFamilies, \* Darwin families of the sockets the image makes
          Rests,          \* ports and the rest of addresses
          MaxPeers,       \* bound on the peers that come to a socket
          Leftovers,      \* what a local array of a call may hold before it is written
          Null

SocketAssumption == /\ SocketFamilies \subseteq {f[1] : f \in Families}
                    /\ MaxPeers \in Nat

VARIABLES socket,  \* of Linux: family, name, peer and who waits there
          meant,   \* what the image made of it: family, name, peer
          told,    \* the last address the image was told of each, and the right one:
                   \* none if the call failed
          given,   \* the last address Linux was given to send to or to look up, the same
          refused, \* families of sockets Linux refused an address of
          came     \* how many peers came

vars == <<socket, meant, told, given, refused, came>>

Address(bytes, rest) == [bytes |-> bytes, rest |-> rest]

\* The image need not set the length.
DarwinAddresses(f) == {Address(Bytes(len, f), r) : len \in {0, SizeofIn}, r \in Rests}
LinuxAddresses(f)  == {Address(Bytes(f, 0), r) : r \in Rests}

\* The right address to tell of one the image wrote, or of a peer's.
Right(f, rest) == Address(Bytes(IF f = DarwinInet6 THEN SizeofIn6 ELSE SizeofIn, f), rest)

\* memcpy to a local array, and the conversion of its first bytes.
ToGnu(a)    == [a EXCEPT !.bytes = SockaddrToGnu(@)]
ToDarwin(a) == [a EXCEPT !.bytes = SockaddrToDarwin(@)]

NoSocket == [family |-> -1, name |-> Null, peer |-> Null, queue |-> << >>]

Init == /\ socket = [fd \in Fds |-> NoSocket]
        /\ meant = [fd \in Fds |-> NoSocket]
        /\ told = [fd \in Fds |-> Null]
        /\ given = Null
        /\ refused = {}
        /\ came = 0

Open(fd) == socket[fd].family # -1

\* The host's socket takes the number of the image as one of its own.
Socket(fd, f) == /\ ~ Open(fd)
                 /\ socket' = [socket EXCEPT ![fd].family = f]
                 /\ meant' = [meant EXCEPT ![fd].family = f]
                 /\ UNCHANGED <<told, given, refused, came>>

\* Linux takes addresses of the socket's own family only.
Suits(fd, a) == GnuFamily(a.bytes) = socket[fd].family

Refuse(fd) == /\ refused' = refused \cup {meant[fd].family}
              /\ UNCHANGED <<socket, meant>>

Untold == UNCHANGED <<told, given, came>>

\* bind and connect succeed once; the address passed is of the family meant.
NameIt(fd, a, passed) ==
    /\ Open(fd) /\ meant[fd].name = Null /\ DarwinFamily(a.bytes) = meant[fd].family
    /\ \/ /\ Suits(fd, passed)
          /\ socket' = [socket EXCEPT ![fd].name = passed]
          /\ meant' = [meant EXCEPT ![fd].name = a]
          /\ UNCHANGED refused
       \/ ~ Suits(fd, passed) /\ Refuse(fd)
    /\ Untold

Bind(fd, a) == NameIt(fd, a, ToGnu(a))

Connect(fd, a) ==
    /\ Open(fd) /\ meant[fd].peer = Null /\ DarwinFamily(a.bytes) = meant[fd].family
    /\ \/ /\ Suits(fd, ToGnu(a))
          /\ socket' = [socket EXCEPT ![fd].peer = ToGnu(a)]
          /\ meant' = [meant EXCEPT ![fd].peer = a]
          /\ UNCHANGED refused
       \/ ~ Suits(fd, ToGnu(a)) /\ Refuse(fd)
    /\ Untold

Gives(passed, a) == given' = [address |-> passed, right |-> a]

\* A datagram to an address.
Sendto(fd, a) ==
    /\ Open(fd) /\ DarwinFamily(a.bytes) = meant[fd].family
    /\ \/ Suits(fd, ToGnu(a)) /\ Gives(ToGnu(a), a) /\ UNCHANGED <<socket, meant, refused>>
       \/ ~ Suits(fd, ToGnu(a)) /\ Refuse(fd) /\ UNCHANGED given
    /\ UNCHANGED <<told, came>>

\* Without an address Linux gets that of an array, and no length.  A stream
\* ignores it and sends to its peer; a datagram is not sent.
SendtoPeer(fd) ==
    /\ socket[fd].peer # Null
    /\ Gives(socket[fd].peer, meant[fd].peer) \/ UNCHANGED given
    /\ UNCHANGED <<socket, meant, told, refused, came>>

\* The name of any address, of a socket or not.
Getnameinfo(a) == /\ Gives(ToGnu(a), a)
                  /\ UNCHANGED <<socket, meant, told, refused, came>>

Tells(fd, a, right) == told' = [told EXCEPT ![fd] = [address |-> ToDarwin(a), right |-> right]]

\* The result is not looked at: for a call that failed, the array nothing was
\* written to is converted and copied.
TellsLeftovers(fd) == \E a \in Leftovers : Tells(fd, a, Null)

\* A socket without a name has its family in Linux, and no more.
Getsockname(fd) ==
    /\ \/ /\ Open(fd) /\ socket[fd].name # Null
          /\ Tells(fd, socket[fd].name, Right(meant[fd].family, meant[fd].name.rest))
       \/ /\ Open(fd) /\ socket[fd].name = Null
          /\ Tells(fd, Address(Bytes(socket[fd].family, 0), Null), Right(meant[fd].family, Null))
       \/ ~ Open(fd) /\ TellsLeftovers(fd)
    /\ UNCHANGED <<socket, meant, given, refused, came>>

Getpeername(fd) ==
    /\ \/ /\ socket[fd].peer # Null
          /\ Tells(fd, socket[fd].peer, Right(meant[fd].family, meant[fd].peer.rest))
       \/ socket[fd].peer = Null /\ TellsLeftovers(fd)
    /\ UNCHANGED <<socket, meant, given, refused, came>>

\* A peer connects, or sends a datagram.
PeerComes(fd, a) == /\ Open(fd) /\ socket[fd].name # Null /\ came < MaxPeers
                    /\ Suits(fd, a)
                    /\ socket' = [socket EXCEPT ![fd].queue = Append(@, a)]
                    /\ came' = came + 1
                    /\ UNCHANGED <<meant, told, given, refused>>

Dequeues(fd) == /\ socket[fd].queue # << >>
                /\ socket' = [socket EXCEPT ![fd].queue = Tail(@)]
                /\ UNCHANGED <<meant, given, refused, came>>

\* accept and recvfrom, for an image that wants the address.  They fail when no
\* peer is there to wait for, when the socket is none, and when Linux lacks means.
AcceptFrom(fd) ==
    \/ LET peer == Head(socket[fd].queue) IN
       Dequeues(fd) /\ Tells(fd, peer, Right(meant[fd].family, peer.rest))
    \/ TellsLeftovers(fd) /\ UNCHANGED <<socket, meant, given, refused, came>>

\* For an image that passes NULL for both, Linux gets an array without a length:
\* it takes the peer from the queue, then fails.
AcceptAny(fd) == Dequeues(fd) /\ UNCHANGED told

Next == \/ \E fd \in Fds :
              \/ \E f \in SocketFamilies : Socket(fd, f)
              \/ \E f \in SocketFamilies : \E a \in DarwinAddresses(f) :
                    Bind(fd, a) \/ Connect(fd, a) \/ Sendto(fd, a)
              \/ SendtoPeer(fd) \/ Getsockname(fd) \/ Getpeername(fd)
              \/ AcceptFrom(fd) \/ AcceptAny(fd)
              \/ \E f \in SocketFamilies : \E a \in LinuxAddresses(f) : PeerComes(fd, a)
        \/ \E f \in SocketFamilies : \E a \in DarwinAddresses(f) : Getnameinfo(a)

Spec == Init /\ [][Next]_vars

-----------------------------------------------------------------------------
\* Whatever a call that succeeds tells the image of a socket - the name it bound,
\* none yet, the peer it connected to, a peer that came - is the address that was
\* meant, with the family and length of Darwin, whichever calls it came by.  A
\* family whose number is another one's in Linux is told as that one, and a call
\* that fails tells what its stack held (stub_socket.c:210-224, 233-263).
ToldAsMeant ==
    \A fd \in Fds : LET t == told[fd] IN
        t # Null => \/ t.right = Null
                    \/ SaFamilyToDarwin(DarwinFamily(t.right.bytes)) # DarwinFamily(t.right.bytes)
                    \/ t.address = t.right

\* Where a datagram goes and which address is looked up is what the image wrote,
\* whatever it left in the length, or the peer it connected to if it wrote none
\* (stub_socket.c:226-231, 295-300).
GivenAsMeant == given # Null =>
                   /\ SaFamilyToDarwin(GnuFamily(given.address.bytes)) = given.right.bytes.b1
                   /\ given.address.rest = given.right.rest

\* Linux refuses no address of the socket's own family, except that none suits a
\* socket of a family whose number differs: socket is not converted as the
\* addresses are (stub_socket.c:210-231).
RefusedOnlyRenumbered == \A f \in refused : SaFamilyToGnu(f) # f
=============================================================================
