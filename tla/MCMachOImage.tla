---------------------------- MODULE MCMachOImage ----------------------------
(***************************************************************************)
(* Two small executables for MachOImage.                                   *)
(*                                                                         *)
(* Game has a __PAGEZERO, code, and a data segment with plain, lazily      *)
(* bound and weak pointers, two initializers, two thread-local variables   *)
(* with zero-filled storage, and exports of an operator and of something   *)
(* else.  Tool spreads its initializers over two segments, has a bss, a    *)
(* relocation that is not a pointer, a re-export, and no thread-locals.    *)
(***************************************************************************)
EXTENDS MachOImage

Section(a, n, t) == [addr |-> a, size |-> n, type |-> t]
Export(n, t, a)  == [name |-> n, kind |-> t, address |-> a]
Pointer(a)       == [kind |-> "pointer", vmaddr |-> a]
Import(n, a, d, weak) ==
    [name |-> n, address |-> a, addend |-> d, is_weak |-> weak]

Game ==
    [vmbase   |-> 20,
     vmsize   |-> 36,
     segments |->
        << [vmaddr |-> 0, vmsize |-> 20, filesize |-> 0, data |-> << >>,
            sections |-> << >>],
           [vmaddr |-> 20, vmsize |-> 3, filesize |-> 3, data |-> <<5, 6, 7>>,
            sections |-> <<Section(20, 3, "regular")>>],
           [vmaddr |-> 23, vmsize |-> 13, filesize |-> 10,
            data |-> <<21, 22, 20, 21, 0, 0, 0, 0, 0, 1>>,
            sections |-> <<Section(23, 2, "regular"),
                           Section(25, 2, "mod_init_func_pointers"),
                           Section(27, 6, "thread_local_variables"),
                           Section(33, 2, "thread_local_zerofill"),
                           Section(35, 1, "zerofill")>>] >>,
     rebase   |-> <<Pointer(23), Pointer(24), Pointer(25), Pointer(26)>>,
     imports  |-> <<Import("data", 27, 0, FALSE), Import("data", 23, 0, TRUE),
                    Import("func", 24, 2, FALSE)>>,
     exports  |-> <<Export("main", "regular", 1), Export("new", "regular", 2),
                    Export("delete", "regular", 0)>>,
     entry    |-> 21,
     tlv      |-> [start |-> 33, var_ranges |-> << [addr |-> 27, size |-> 6] >>]]

Tool ==
    [vmbase   |-> 16,
     vmsize   |-> 24,
     segments |->
        << [vmaddr |-> 16, vmsize |-> 3, filesize |-> 3, data |-> <<8, 17, 9>>,
            sections |-> <<Section(16, 1, "regular"),
                           Section(17, 1, "mod_init_func_pointers")>>],
           [vmaddr |-> 19, vmsize |-> 5, filesize |-> 3,
            data |-> <<18, 16, 22>>,
            sections |-> <<Section(19, 2, "mod_init_func_pointers"),
                           Section(21, 1, "regular"),
                           Section(22, 2, "gb_zerofill")>>] >>,
     rebase   |-> <<Pointer(17), [kind |-> "text_absolute32", vmaddr |-> 18],
                    Pointer(20), Pointer(19), Pointer(21)>>,
     imports  |-> <<Import("data", 21, -1, FALSE)>>,
     exports  |-> <<Export("new", "reexport", 1), Export("delete", "regular", 2)>>,
     entry    |-> 18,
     tlv      |-> [start |-> 0, var_ranges |-> << >>]]

MCImages    == {Game, Tool}
MCNames     == {"func", "data"}
MCHookNames == {"new", "delete"}
MCHostAddrs == {240}
MCBases     == {20, 100, 200}
MCThunk     == 250
MCWordMod   == 256
=============================================================================
