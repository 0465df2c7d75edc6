------------------------------ MODULE Resolver ------------------------------
(***************************************************************************)
(* What a name of the image is bound to (src/loader/stubs.rs, stubs/src/   *)
(* stub.c): a few functions of stubs.rs, then the table of the shim, then  *)
(* nothing for the names of the blocklist, then the C++ and mathematical   *)
(* libraries in order, then whatever the process has.                      *)
(*                                                                         *)
(* A name is the blocklist's prefix it begins with, if any, and the rest.  *)
(***************************************************************************)
EXTENDS StubTable, Integers, Sequences, FiniteSets

CONSTANTS Libraries,   \* what each library and the process export, by the host
          Installed,   \* sets of libraries a host may have
          Imports,     \* names the image imports
          LookedUp,    \* names it looks up as it runs
          Shimmed      \* of those, the names that take an object with the shim's layout

Name(prefix, rest) == [prefix |-> prefix, rest |-> rest]
Plain(rests)       == {Name("", r) : r \in rests}
With(prefix, rests) == {Name(prefix, r) : r \in rests}

\* stub.c:27-55
Locking == {"4lockEv", "6unlockEv", "8try_lockEv", "D1Ev", "D2Ev"}
CxxNames == With("_ZNSt3__115recursive_mutex", Locking \cup {"C1Ev", "C2Ev"})
       \cup With("_ZNSt3__121recursive_timed_mutex", Locking \cup {"C1Ev", "C2Ev"})
       \cup With("_ZNSt3__15mutex", Locking)
       \cup With("_ZNSt3__16thread", {"4joinEv", "6detachEv", "D1Ev", "D2Ev"})
       \cup With("_ZNSt3__118condition_variable", {"10notify_allEv", "10notify_oneEv",
                 "15__do_timed_wait", "4wait", "D1Ev", "D2Ev"})

\* stub.c:134-176
PthreadNames == With("pthread_", {"atfork", "create", "detach", "equal", "getspecific", "join",
    "key_create", "key_delete", "once", "self", "setname_np", "setspecific", "threadid_np",
    "attr_destroy", "attr_getinheritsched", "attr_getschedparam", "attr_init",
    "attr_setdetachstate", "attr_setinheritsched", "attr_setschedparam",
    "attr_setschedpolicy", "attr_setstacksize",
    "cond_broadcast", "cond_destroy", "cond_init", "cond_signal", "cond_timedwait",
    "cond_wait", "condattr_destroy", "condattr_init",
    "mutex_destroy", "mutex_init", "mutex_lock", "mutex_trylock", "mutex_unlock",
    "mutexattr_destroy", "mutexattr_init", "mutexattr_settype",
    "rwlock_destroy", "rwlock_init", "rwlock_rdlock", "rwlock_unlock", "rwlock_wrlock"})

\* stub.c:86, 128-130
ProcessNames == {Name("fork", "")}
     \cup With("posix_spawn", {"_file_actions_addinherit_np", "_file_actions_destroy",
                               "_file_actions_init"})

\* stub.c:4-26, 56-133: names the blocklist leaves alone, to the letter p.
EarlyStubs == AudioStubs \cup PortStubs \cup XpcStubs \cup DispatchStubs \cup SocketStubs
    \cup QueueStubs \cup PasswdStubs \cup ThrowStubs \cup LogStubs \cup EventStubs
    \cup PollStubs \cup HostStubs \cup {"proc_listpidspath", "proc_pidinfo", "proc_pidpath"}
    \cup {"NDR_record", "_DefaultRuneLocale", "__bzero", "__error", "__exp10f", "__maskrune",
          "__sincosf_stret", "__stack_chk_guard", "__tolower", "__toupper",
          "_objc_empty_cache", "accept", "arc4random_buf", "bind", "chdir",
          "close$NOCANCEL", "closedir", "connect", "freeaddrinfo", "freeifaddrs",
          "fstat$INODE64", "getaddrinfo", "getifaddrs", "getnameinfo", "getpeername",
          "getsockname", "getsockopt", "glob$INODE64", "if_nametoindex", "inet_ntop",
          "inet_pton", "lstat$INODE64", "mach_absolute_time", "mach_task_self_",
          "mach_timebase_info", "memset_pattern16", "mmap", "objc_alloc",
          "objc_empty_vtable", "objc_msgSend", "opendir$INODE64"}
EarlyNames == Plain(EarlyStubs)

\* stub.c:177-213
LateNames == Plain(TaskStubs \cup ResolvStubs \cup GraphicStubs
    \cup {"readdir$INODE64", "realpath$DARWIN_EXTSN", "recvfrom", "sched_get_priority_max",
          "sched_get_priority_min", "select$1050", "semaphore_create", "semaphore_destroy",
          "semaphore_signal", "semaphore_timedwait", "semaphore_wait", "sendto",
          "setsockopt", "sigaction", "stat$INODE64", "strlcat", "strlcpy",
          "sysctlbyname", "uname", "uuid_generate", "vsnprintf_l"})

Table == CxxNames \cup PthreadNames \cup ProcessNames \cup EarlyNames \cup LateNames

\* stubs.rs:76-88
Streams  == [s \in {"__stderrp", "__stdinp", "__stdoutp"} |->
               CASE s = "__stderrp" -> "stderr" [] s = "__stdinp" -> "stdin" [] OTHER -> "stdout"]
RustNames == {"atexit", "__cxa_atexit", "dladdr", "dlclose", "dlerror", "dlopen", "dlsym"}

Blocklist == {"pthread_", "tlv_bootstrap", "dyld_", "_ZNSt3__15mutex",
    "_ZNSt3__115recursive_mutex", "_ZNSt3__121recursive_timed_mutex", "_ZNSt3__16thread",
    "_ZNSt3__118condition_variable", "fork", "exec", "posix_spawn"}

Order   == <<"libc++.so.1", "libc++abi.so.1", "libm.so.6", "libc++.so", "libc++abi.so", "libm.so">>
Process == "process"
Null    == [from |-> "null"]
Pointer(from, name) == [from |-> from, name |-> name]

ASSUME LibrariesAssumption ==
    /\ {Order[i] : i \in DOMAIN Order} \cup {Process} = DOMAIN Libraries
    /\ UNION Installed \subseteq DOMAIN Libraries
    /\ Shimmed \subseteq Imports \cup LookedUp
    /\ \A n \in Shimmed : n \in Table \/ n.prefix \in Blocklist
    /\ Name("", "") \notin Imports

VARIABLES opened,  \* whether the libraries were looked for
          dlls,    \* the ones that were found, in order
          bound,   \* the last import: the name and what it was bound to
          found    \* the last call of dlsym, the same

vars == <<opened, dlls, bound, found>>

Nothing == [name |-> Name("", ""), pointer |-> Null]

Init == opened = FALSE /\ dlls = << >> /\ bound = Nothing /\ found = Nothing

\* Before the first name is resolved (stubs.rs:7-25, 132).
OpenLibraries ==
    /\ ~ opened /\ opened' = TRUE
    /\ \E present \in Installed :
          dlls' = SelectSeq(Order, LAMBDA l : l \in present)
    /\ UNCHANGED <<bound, found>>

\* dlsym of the host; of several libraries the first.
HostSymbol(n) ==
    LET having == {i \in DOMAIN dlls : n \in Libraries[dlls[i]]}
    IN  IF having # {}
          THEN Pointer(dlls[CHOOSE i \in having : \A j \in having : i <= j], n)
        ELSE IF n \in Libraries[Process] THEN Pointer(Process, n) ELSE Null

\* Names that are in none of stubs.rs's own.
LookUp(n) ==
    IF n \in Table THEN Pointer("shim", n)
    ELSE IF n.prefix \in Blocklist THEN Null
    ELSE HostSymbol(n)

ResolveImpl(n) ==
    IF n \in Plain(DOMAIN Streams) THEN Pointer(Process, Name("", Streams[n.rest]))
    ELSE IF n \in Plain(RustNames) THEN Pointer("stubs.rs", n)
    ELSE LookUp(n)

\* An import has one more underscore, which resolve takes off.
Resolve(n) == /\ opened
              /\ bound' = [name |-> n, pointer |-> ResolveImpl(n)]
              /\ UNCHANGED <<opened, dlls, found>>

\* Variant with a plausible bug: dlsym goes past the table.
DlsymHost(n) == /\ opened
                /\ found' = [name |-> n, pointer |-> HostSymbol(n)]
                /\ UNCHANGED <<opened, dlls, bound>>

Dlsym(n) == /\ opened
            /\ found' = [name |-> n, pointer |-> ResolveImpl(n)]
            /\ UNCHANGED <<opened, dlls, bound>>

Next == \/ OpenLibraries
        \/ \E n \in Imports : Resolve(n)
        \/ \E n \in LookedUp : Dlsym(n)

Spec == Init /\ [][Next]_vars

-----------------------------------------------------------------------------
\* A name is the same thing however the image comes by it: importing it and
\* looking it up give one pointer (stubs.rs:45-50, 131-142).
OneMeaning == bound # Nothing /\ found.name = bound.name => found.pointer = bound.pointer

\* An object whose layout the shim has is never passed to the host's functions:
\* the image has the shim's or none (stubs.rs:93-119: "These would need more
\* complex to handle properly"; "filter unimplemented C++ thread stubs").
ShimOrNothing == \A r \in {bound, found} : r.name \in Shimmed =>
                    r.pointer = Null \/ r.pointer.from = "shim"

\* Whatever is blocked or exported by the host, the image gets each stub that
\* the shim has (stubs.rs:110-114, stub.c:215-225).
OverridesWin == \A r \in {bound, found} :
    r.name \in Table => r.pointer = Pointer("shim", r.name)
=============================================================================
