----------------------------- MODULE MCResolver -----------------------------
EXTENDS Resolver, TLC

\* Functions of Darwin that take a mutex, a condition variable, a lock or a
\* thread's attributes and are not in the table.
MCBlocked == With("pthread_", {"mutex_getprioceiling", "cond_timedwait_relative_np",
                               "rwlock_tryrdlock", "rwlock_trywrlock", "attr_getstacksize"})
       \cup With("_ZNSt3__121recursive_timed_mutex", {"11__try_lock_until"})
       \cup With("_ZNSt3__16thread", {"20hardware_concurrencyEv"})

\* Threads of C++ whose names begin otherwise.
MCUnfiltered == Plain({"_ZNSt3__125notify_all_at_thread_exitERNS_18condition_variableE",
                       "_ZNSt3__117__assoc_sub_state4waitEv"})

MCOthers == Plain({"__stderrp", "__stdoutp", "atexit", "dlsym", "malloc", "sinf",
                   "_ZNSt3__16locale5classicEv", "no_such_function"})
            \cup {Name("exec", "vp"), Name("dyld_", "stub_binder")}

\* The stubs without a prefix are alike: those of three groups are left out.
MCImports  == (Table \ Plain(AudioStubs \cup PortStubs \cup TaskStubs)) \cup MCBlocked \cup MCOthers
MCShimmed  == {n \in Table : n.prefix \in {"pthread_"} \cup {c.prefix : c \in CxxNames}}
                \cup MCBlocked

\* Some of each kind.
MCLookedUp == MCBlocked \cup MCOthers \cup ProcessNames
              \cup Plain({"accept", "vm_page_size", "__cxa_throw"})
              \cup With("_ZNSt3__15mutex", {"4lockEv"}) \cup With("pthread_", {"create"})

\* The host: two versions of libc++, one of them with what the other has not.
MCLibraries ==
    LET cxx == CxxNames \cup MCUnfiltered \cup Plain({"_ZNSt3__16locale5classicEv"})
               \cup With("_ZNSt3__16thread", {"20hardware_concurrencyEv"})
        abi == Plain({"__cxa_throw"})
        m   == Plain({"sinf"})
    IN  "libc++.so.1" :> cxx @@ "libc++abi.so.1" :> abi @@ "libm.so.6" :> m
        @@ "libc++.so" :> cxx @@ "libc++abi.so" :> abi @@ "libm.so" :> m
        @@ "process" :> PthreadNames \cup MCBlocked \cup Plain({"malloc", "sinf", "accept",
               "bind", "connect", "mmap", "sigaction", "strlcpy"})
               \cup {Name("fork", ""), Name("exec", "vp")}

\* No C++ library, those of Ubuntu, and those with a development package.
MCInstalled == {{"libm.so.6"}, {"libc++.so.1", "libc++abi.so.1", "libm.so.6"},
                {"libc++.so.1", "libc++abi.so.1", "libm.so.6", "libc++.so", "libc++abi.so"}}
=============================================================================
