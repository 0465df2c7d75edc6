----------------------------- MODULE StubTable -----------------------------
(***************************************************************************)
(* The functions of Darwin that are stubs: what each file of stubs/src     *)
(* leaves unimplemented, by panic, and what it answers without doing it.   *)
(***************************************************************************)

\* stub_audio.c
AudioStubs == {"NewAUGraph", "DisposeAUGraph", "AudioObjectGetPropertyData",
    "AudioObjectGetPropertyDataSize", "AudioObjectSetPropertyData", "AudioOutputUnitStop",
    "AudioUnitSetParameter", "AudioUnitSetProperty", "AudioUnitUninitialize",
    "AUGraphAddNode", "AUGraphClose", "AUGraphConnectNodeInput", "AUGraphInitialize",
    "AUGraphNodeInfo", "AUGraphOpen", "AUGraphSetNodeInputCallback", "AUGraphStart", "AUGraphStop"}

\* stub_kernel.c: messages, ports and exceptions; host_statistics and
\* mach_host_self, between them, answer.
PortStubs == {"bootstrap_port", "host_get_exception_ports", "host_set_exception_ports",
    "host_swap_exception_ports", "mach_error_string", "mach_msg", "mach_msg_destroy",
    "mach_port_allocate", "mach_port_deallocate", "mach_port_extract_right",
    "mach_port_mod_refs", "mach_port_request_notification", "mach_thread_self"}

\* task_info answers hardware statistics (flavor 22) and panics for the rest.
TaskStubs == {"task_get_exception_ports", "task_info", "task_set_exception_ports",
    "task_swap_exception_ports", "thread_get_exception_ports", "thread_set_exception_ports",
    "thread_swap_exception_ports", "vm_allocate", "vm_deallocate", "vm_page_size",
    "voucher_mach_msg_set"}

\* stub_process.c; proc_pidinfo answers flavor 4.
ProcessStubs == {"proc_listpidspath", "proc_pidinfo", "proc_pidpath", "fork",
    "posix_spawn_file_actions_addinherit_np", "posix_spawn_file_actions_destroy",
    "posix_spawn_file_actions_init"}

\* stub_xpc.c, stub_resolv.c, stub_misc.c, stub_dispatch.c, stub_io.c,
\* stub_kernel_kqueue.c, stub_sys.c
XpcStubs      == {"_availability_version_check", "bootstrap_look_up", "bootstrap_strerror"}
ResolvStubs   == {"res_9_query", "res_9_dn_skipname"}
PasswdStubs   == {"getpwuid"}
DispatchStubs == {"dispatch_data_create"}
SocketStubs   == {"connectx"}
QueueStubs    == {"kqueuex"}
ThrowStubs    == {"__cxa_throw"}

Unimplemented == AudioStubs \cup PortStubs \cup TaskStubs \cup ProcessStubs \cup XpcStubs
                 \cup ResolvStubs \cup PasswdStubs \cup DispatchStubs \cup SocketStubs
                 \cup QueueStubs \cup ThrowStubs

\* Those of them that Darwin has as variables: the image reads them.
DarwinVariables == {"bootstrap_port", "vm_page_size"}

\* Calls that two flavors of an unimplemented function answer.
AnsweredFlavors == {"task_info", "proc_pidinfo"}

\* stub_asl.c, stub_nvcg.c, stub_objc.c, stub_kernel_kqueue.c, stub_kernel.c
LogStubs     == {"asl_close", "asl_free", "asl_new", "asl_open", "asl_send", "asl_set"}
GraphicStubs == {"cgCreateContext", "cgDestroyContext", "cgSetContextBehavior"}
EventStubs   == {"NXOpenEventStatus", "NXCloseEventStatus"}
PollStubs    == {"kqueue", "kevent"}
HostStubs    == {"Gestalt", "__darwin_check_fd_set_overflow", "host_statistics", "mach_host_self"}

Answering == LogStubs \cup GraphicStubs \cup EventStubs \cup PollStubs \cup HostStubs
=============================================================================
