---------------------------- MODULE MCShimCalls ----------------------------
(***************************************************************************)
(* The names of the shim and of a host; a socket of three families; lists  *)
(* for two threads; three descriptors; a buffer of five bytes.             *)
(***************************************************************************)
EXTENDS ShimCalls, MCResolver, SocketAddresses

CONSTANTS t1, t2, r1, r2, s1, s2, f1

MCThreads        == {t1, t2}
MCSocketFds      == {f1}
MCRests          == {r1, r2}
MCDirStreams     == {s1, s2}
MCSocketFamilies == {2, 16, 30}
MCHintFamilies   == {0, 2, 30}
MCFileFds        == 0 .. 2
MCOptionValues   == {"on"}

\* The array of a call that fails may hold an address of before, or anything.
MCLeftovers == {[bytes |-> Bytes(10, 0), rest |-> r1], [bytes |-> Bytes(201, 48), rest |-> r2]}

\* What the host answers: INET is 2 for both, INET6 is 30 and 10.  ifa_ifu may be
\* no pointer, or one of two into the block.
MCHostLists == {<<2>>, <<10>>, <<2, 10>>, <<10, 2, 2>>}
MCDstaddrs  == {Bytes(0, 0), Bytes(48, 201), Bytes(80, 16)}

\* REUSEADDR, KEEPALIVE, REUSEPORT, ERROR and NOSIGPIPE of a socket (level
\* 65535), NODELAY, MAXSEG and KEEPALIVE of TCP; RCVBUF, 4098, is not known.
MCAsked == {<<65535, 4>>, <<65535, 8>>, <<65535, 512>>, <<65535, 4103>>, <<65535, 4130>>,
            <<65535, 4098>>, <<6, 1>>, <<6, 2>>, <<6, 16>>}

\* Two links and 65537, and sizes on both sides of 4 GiB.
MCAttributes == {[links |-> 2, size |-> 65539], [links |-> 65537, size |-> 3]}

\* Strings of bytes of two kinds, so that the buffer of five fills exactly, by
\* one byte too many, and by more.
MCSources == UNION {[1 .. n -> {7, 8}] : n \in 1 .. 3} \cup {<<7, 8, 7, 8>>, <<8, 8, 8, 8, 8>>}
=============================================================================
