----------------------------- MODULE AddrLists -----------------------------
(***************************************************************************)
(* getaddrinfo, freeaddrinfo, getifaddrs and freeifaddrs                   *)
(* (stubs/src/stub_socket.c:146-204, 265-293).  The lists of the host and  *)
(* the hints of the image are converted in place: the two systems have the *)
(* address and the name of an entry the other way round, and addresses of  *)
(* their own.                                                              *)
(***************************************************************************)
EXTENDS SocketAddresses, Sequences

CONSTANTS Threads,
          HintFamilies, \* Darwin families the image asks for
          HostLists,    \* what the host may answer: the Linux families of a list
          Dstaddrs,     \* what ifa_ifu may be: the low bytes of a pointer
          MaxCalls      \* bound on the calls of each thread

\* The numbers of APPLETALK and ROUTE are each other's, more or less: nobody asks
\* for names of those.  The host answers with families it has.
ListsAssumption == /\ HintFamilies \subseteq {f[1] : f \in Families} \ {16, 17}
                   /\ \A fs \in HostLists :
                         fs \in Seq({f[2] : f \in Families}) /\ fs # << >>
                   /\ MaxCalls \in Nat

VARIABLES shared,   \* whether all threads use one hints, or each its own
          hints,    \* the memory of each hints: family and the two pointers
          meant,    \* the family the image wrote in it
          pc, copy, \* of each thread in getaddrinfo: where, and its local node
          asked,    \* the family the host was asked for
          list,     \* the list each thread has, in memory
          host,     \* as the host made it
          interfaces, hostInterfaces, \* the same for getifaddrs
          calls

vars == <<shared, hints, meant, pc, copy, asked, list, host,
          interfaces, hostInterfaces, calls>>

None == -1

\* The hints thread t passes.
Places   == IF shared THEN {"hints"} ELSE Threads
Hints(t) == IF shared THEN "hints" ELSE t

\* ai_addr comes first in Linux, ai_canonname in Darwin.
Node(family, first, second, address) ==
    [family |-> family, first |-> first, second |-> second, address |-> address]

Flip(n) == [n EXCEPT !.first = n.second, !.second = n.first]

\* One entry of addrinfo_to_gnu and of addrinfo_to_darwin; hints have no address.
AddrinfoToGnu(n) == [Flip(n) EXCEPT
    !.family = SaFamilyToGnu(@),
    !.address = IF n.second = "addr" THEN SockaddrToGnu(@) ELSE @]

AddrinfoToDarwin(n) == [Flip(n) EXCEPT
    !.family = SaFamilyToDarwin(@),
    !.address = IF n.first = "addr" THEN SockaddrToDarwin(@) ELSE @]

\* Over a list, entry by entry.
OverList(l, Convert(_)) == [i \in DOMAIN l |-> Convert(l[i])]

NoBytes == Bytes(0, 0)

\* What glibc answers: a name in the first entry only.
HostList(fs) == [i \in DOMAIN fs |-> Node(fs[i], "addr", IF i = 1 THEN "name" ELSE "null",
                                          Bytes(fs[i], 0))]

EmptyHints(f) == Node(f, "null", "null", NoBytes)

Init == /\ shared \in BOOLEAN
        /\ meant \in [Places -> HintFamilies]
        /\ hints = [p \in Places |-> EmptyHints(meant[p])]
        /\ pc = [t \in Threads |-> "image"]
        /\ copy = [t \in Threads |-> None]
        /\ asked = [t \in Threads |-> None]
        /\ list = [t \in Threads |-> << >>]
        /\ host = [t \in Threads |-> << >>]
        /\ interfaces = << >> /\ hostInterfaces = << >>
        /\ calls = [t \in Threads |-> 0]

-----------------------------------------------------------------------------
(* getaddrinfo: the hints are read, converted and written, twice *)

Step(t, from, to) == pc[t] = from /\ pc' = [pc EXCEPT ![t] = to]

Reads(t, from, to) == /\ Step(t, from, to)
                      /\ copy' = [copy EXCEPT ![t] = hints[Hints(t)]]
                      /\ UNCHANGED <<shared, hints, meant, asked, list, host,
                                     interfaces, hostInterfaces>>

Writes(t, from, to, node) ==
    /\ Step(t, from, to)
    /\ hints' = [hints EXCEPT ![Hints(t)] = node]
    /\ UNCHANGED <<shared, meant, copy, asked, list, host, interfaces, hostInterfaces, calls>>

Call(t) == /\ list[t] = << >> /\ calls[t] < MaxCalls
           /\ Reads(t, "image", "read")
           /\ calls' = [calls EXCEPT ![t] = @ + 1]

HintsToGnu(t) == Writes(t, "read", "gnu", AddrinfoToGnu(copy[t]))

\* The host answers with addresses of the family it was asked for, or of any
\* for UNSPEC, or fails.
HostAnswers(t) ==
    /\ Step(t, "gnu", "answered")
    /\ asked' = [asked EXCEPT ![t] = hints[Hints(t)].family]
    /\ \E fs \in HostLists \cup {<< >>} :
          /\ \A i \in DOMAIN fs : hints[Hints(t)].family \in {0, fs[i]}
          /\ list' = [list EXCEPT ![t] = HostList(fs)]
          /\ host' = [host EXCEPT ![t] = HostList(fs)]
    /\ UNCHANGED <<shared, hints, meant, copy, interfaces, hostInterfaces, calls>>

\* Variant with a plausible bug: the hints are put back after a success only.
ReadBackOnSuccess(t) == /\ Reads(t, "answered", IF list[t] = << >> THEN "image" ELSE "reread")
                        /\ UNCHANGED calls

ReadBack(t) == Reads(t, "answered", "reread") /\ UNCHANGED calls

HintsToDarwin(t) == Writes(t, "reread", "list", AddrinfoToDarwin(copy[t]))

\* The list is nobody else's; it is empty when the host failed.
Answer(t) == /\ Step(t, "list", "image")
             /\ list' = [list EXCEPT ![t] = OverList(@, AddrinfoToDarwin)]
             /\ UNCHANGED <<shared, hints, meant, copy, asked, host,
                            interfaces, hostInterfaces, calls>>

-----------------------------------------------------------------------------
\* The list freeaddrinfo of the host is given.
Freed(t) == OverList(list[t], AddrinfoToGnu)

Freeaddrinfo(t) == /\ pc[t] = "image" /\ list[t] # << >>
                   /\ list' = [list EXCEPT ![t] = << >>]
                   /\ UNCHANGED <<shared, hints, meant, pc, copy, asked, host,
                                  interfaces, hostInterfaces, calls>>

-----------------------------------------------------------------------------
(* getifaddrs: address, netmask, and the pointer to a third, whose own bytes *)
(* are taken for an address.                                                 *)

Interface(f, p) == [addr |-> Bytes(f, 0), netmask |-> Bytes(f, 0), ifu |-> p]

IfaddrsToDarwin(n) == [addr    |-> SockaddrToDarwin(n.addr),
                       netmask |-> SockaddrToDarwin(n.netmask),
                       ifu     |-> SockaddrToDarwin(n.ifu)]

Getifaddrs == /\ interfaces = << >>
              /\ \E fs \in HostLists, p \in Dstaddrs :
                    hostInterfaces' = [i \in DOMAIN fs |-> Interface(fs[i], p)]
              /\ interfaces' = OverList(hostInterfaces', IfaddrsToDarwin)
              /\ UNCHANGED <<shared, hints, meant, pc, copy, asked, list, host, calls>>

\* The host frees one block, as it is.
Freeifaddrs == /\ interfaces # << >>
               /\ interfaces' = << >> /\ hostInterfaces' = << >>
               /\ UNCHANGED <<shared, hints, meant, pc, copy, asked, list, host, calls>>

Next == \/ \E t \in Threads : \/ Call(t) \/ HintsToGnu(t) \/ HostAnswers(t)
                              \/ ReadBack(t) \/ HintsToDarwin(t) \/ Answer(t)
                              \/ Freeaddrinfo(t)
        \/ Getifaddrs \/ Freeifaddrs

Spec == Init /\ [][Next]_vars

-----------------------------------------------------------------------------
\* The families of a list the image reads are Darwin's, its addresses have the
\* lengths of their families and lie where Darwin has them, in every entry
\* (stub_socket.c:166-184, 196-204, 274-275).
ReadsDarwin ==
    /\ \A t \in Threads : pc[t] = "image" => \A i \in DOMAIN list[t] :
          LET n == list[t][i]
              f == SaFamilyToDarwin(host[t][i].family)
          IN  /\ n.second = "addr" /\ n.first = host[t][i].second
              /\ n.family = f /\ DarwinFamily(n.address) = f
              /\ n.address.b0 = (IF f = DarwinInet6 THEN SizeofIn6 ELSE SizeofIn)
    /\ \A i \in DOMAIN interfaces : \A b \in {interfaces[i].addr, interfaces[i].netmask} :
          /\ SaFamilyToGnu(DarwinFamily(b)) = hostInterfaces[i].addr.b0
          /\ b.b0 = (IF DarwinFamily(b) = DarwinInet6 THEN SizeofIn6 ELSE SizeofIn)

\* Converted back to be freed, each list is what the host made, entry by entry:
\* it frees the name and not the address (stub_socket.c:146-164, 265-268).
FreesAsMade == \A t \in Threads : pc[t] = "image" /\ list[t] # << >> => Freed(t) = host[t]

\* The image finds its hints as it wrote them once no call is in progress,
\* whether the host failed or not and even when threads share them
\* (stub_socket.c:270-277).
HintsRestored ==
    \A p \in Places : (\A t \in Threads : Hints(t) = p => pc[t] \in {"image", "list"})
                      => hints[p] = EmptyHints(meant[p])

\* The host is asked for the family the image means, in hints that no other thread
\* converts (stub_socket.c:272-273).
AskedAsMeant == ~ shared =>
    \A t \in Threads : asked[t] # None => asked[t] = SaFamilyToGnu(meant[Hints(t)])
=============================================================================
