--------------------------- MODULE SocketAddresses ---------------------------
(***************************************************************************)
(* The addresses of Darwin and of Linux (stubs/src/stub_socket.c:15-144,   *)
(* 206-208).  Both begin with two bytes: Darwin has a length and a family, *)
(* Linux a family of 16 bits.                                              *)
(***************************************************************************)
EXTENDS Integers

\* The families, by their numbers in Darwin and in Linux: UNSPEC, UNIX, INET,
\* SNA, DECnet, APPLETALK, ROUTE, IPX, ISDN, INET6.
Families == {<<0, 0>>, <<1, 1>>, <<2, 2>>, <<11, 22>>, <<12, 12>>,
             <<16, 5>>, <<17, 16>>, <<23, 4>>, <<28, 34>>, <<30, 10>>}

DarwinInet6 == 30

\* Any other number stays what it is.
SaFamilyToGnu(a) ==
    IF \E f \in Families : f[1] = a THEN (CHOOSE f \in Families : f[1] = a)[2] ELSE a

SaFamilyToDarwin(a) ==
    IF \E f \in Families : f[2] = a THEN (CHOOSE f \in Families : f[2] = a)[1] ELSE a

\* The first two bytes in memory.
Bytes(b0, b1) == [b0 |-> b0, b1 |-> b1]

DarwinFamily(b) == b.b1
GnuFamily(b)    == b.b0 + 256 * b.b1

\* Variant with a plausible bug: the second byte stays.
SockaddrToGnuKeeps(b) == Bytes(SaFamilyToGnu(DarwinFamily(b)), b.b1)

SockaddrToGnu(b) == Bytes(SaFamilyToGnu(DarwinFamily(b)), 0)

SizeofIn  == 16
SizeofIn6 == 28

SockaddrToDarwin(b) ==
    LET family == SaFamilyToDarwin(GnuFamily(b)) % 256
    IN  Bytes(IF family = DarwinInet6 THEN SizeofIn6 ELSE SizeofIn, family)
=============================================================================
