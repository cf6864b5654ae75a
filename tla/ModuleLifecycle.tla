-------------------------- MODULE ModuleLifecycle ---------------------------
(***************************************************************************)
(* The kernel module from insmod to rmmod: the system call table and its   *)
(* page, the netlink socket, the commands and system calls that run while  *)
(* the module comes and goes, and the memory that goes with it.            *)
(*                                                                         *)
(* One whitelist stands for the three; WhitelistSmp is about the steps in  *)
(* it.  What the kernel does is modelled as far as the module relies on    *)
(* it: a user socket of the module's protocol holds a reference, so rmmod  *)
(* is refused while one is open, and none can be opened once rmmod began.  *)
(* Nothing of the kind protects the hooks: a system call may be in one of  *)
(* them, or in an original that returns to one, when the module is freed.  *)
(***************************************************************************)
EXTENDS WhitelistSmp, SafeCopy

CONSTANTS
  Length,       \* [Data -> Nat], the lengths of the strings
  MaxSize,      \* the max_size a hook passes to safe_copy_from_user
  Commands,     \* [uid, data], what administrators may add to the list
  Calls,        \* [syscall, uid, data, pointer], what users may call
  MaxSockets,   \* user sockets open at a time (bounds the model only)
  MaxLoads      \* times the module is loaded (bounds the model only)

\* In the order they are replaced and restored.
Slots == <<"openat", "write", "execve", "connect">>
Syscall == {Slots[i] : i \in DOMAIN Slots}

\* A system call, with the pointer to its string (or address).  Not write, whose
\* hook copies nothing from user space: FreezerModule has its decision.
Call == [syscall : Syscall \ {"write"}, uid : Uid, data : Data, pointer : {"null", "bad", "good"}]

ASSUME LifecycleAssumption ==
  /\ Length \in [Data -> Nat]
  /\ MaxSize \in Nat \ {0}
  /\ Commands \subseteq [uid : Uid, data : Data]
  /\ Calls \subseteq Call
  /\ MaxSockets \in Nat
  /\ MaxLoads \in Nat

VARIABLES
  table,      \* sys_call_table: whose function each replaced slot points to
  original,   \* original_openat, original_write, ...
  writable,   \* the page of sys_call_table
  module,     \* the life of the module
  step,       \* where freezer_init or freezer_exit is, and at which slot or entry
  at,
  socket,     \* nl_sk is registered, and the user sockets of its protocol
  loads,      \* how often the module was loaded
  failed,     \* a load failed after the socket was registered (history)
  call        \* each process: the hook it is in, if any

cyclevars == <<table, original, writable, module, step, at, socket, loads, failed, call>>
vars == <<listvars, cyclevars>>

NoCall == [pc |-> "outside", syscall |-> "openat", load |-> 0, uid |-> Root,
           data |-> NoData, pointer |-> "null", copy |-> NoCopy]

\* The string of the call in user space.
Source(k) == [pointer |-> call[k].pointer, length |-> Length[call[k].data]]

CycleTypeOK ==
  /\ ListTypeOK
  /\ table \in [Syscall -> {"kernel", "module"}]
  /\ original \in [Syscall -> {"none", "kernel", "module"}]
  /\ writable \in BOOLEAN
  /\ module \in {"absent", "loading", "live", "unloading", "stuck"}
  /\ step \in {"none", "create", "acquire", "save", "replace", "protect",
               "unprotect", "restore", "reprotect", "dispose", "release"}
  /\ at \in Nat
  /\ socket \in [registered : BOOLEAN, users : 0 .. MaxSockets]
  /\ loads \in 0 .. MaxLoads
  /\ failed \in BOOLEAN
  /\ call \in [Hooks ->
       [pc : {"outside", "hook", "lookup", "original", "sleeping"},
        syscall : Syscall, load : 0 .. MaxLoads, uid : Uid, data : Data \cup {NoData},
        pointer : {"null", "bad", "good"}, copy : Copy]]

CycleInit ==
  /\ ListInit
  /\ table = [s \in Syscall |-> "kernel"]
  /\ original = [s \in Syscall |-> "none"]
  /\ writable = FALSE
  /\ module = "absent"
  /\ step = "none"
  /\ at = 0
  /\ socket = [registered |-> FALSE, users |-> 0]
  /\ loads = 0
  /\ failed = FALSE
  /\ call = [k \in Hooks |-> NoCall]

\* The code and data of the load a process entered are there.
Text(load) == module # "absent" /\ load = loads

\* The module is freed, the pointers and the index of the list with it.  A
\* handler that is still in it (a load failed) dies.
Free ==
  /\ module' = "absent" /\ step' = "none"
  /\ list' = << >> /\ index' = 0
  /\ handler' = IdleHandler
  /\ hook' = [k \in Hooks |-> IF Searching(k) THEN [hook[k] EXCEPT !.disturbed = TRUE]
                                              ELSE hook[k]]

-----------------------------------------------------------------------------
(* freezer_init and init_freezer_syscalls. *)

LoaderKeeps == UNCHANGED <<handler, hook, call>>

\* Bound of the model: no further load after one that failed half way.
insmod ==
  /\ module = "absent" /\ loads < MaxLoads /\ ~failed
  /\ module' = "loading" /\ step' = "create" /\ loads' = loads + 1
  /\ original' = [s \in Syscall |-> "none"]
  /\ UNCHANGED <<list, index, table, writable, at, socket, failed>>
  /\ LoaderKeeps

\* netlink_kernel_create.
create_socket ==
  /\ step = "create"
  /\ \/ /\ socket' = [socket EXCEPT !.registered = TRUE]
        /\ step' = "acquire"
        /\ UNCHANGED module
     \/ /\ module' = "absent" /\ step' = "none"
        /\ UNCHANGED socket
  /\ UNCHANGED <<list, index, table, original, writable, at, loads, failed>>
  /\ LoaderKeeps

\* acquire_sys_call_table and enable_page_rw.  The NULL of a failed kprobe is
\* followed: insmod dies and the module stays half loaded.
acquire_table ==
  /\ step = "acquire"
  /\ \/ /\ writable' = TRUE /\ step' = "save"
        /\ UNCHANGED <<module, failed>>
     \/ /\ module' = "stuck" /\ step' = "none" /\ failed' = TRUE
        /\ UNCHANGED writable
  /\ UNCHANGED <<list, index, table, original, at, socket, loads>>
  /\ LoaderKeeps

\* Faulty variant: forgets one of the originals.
save_originals_but_one ==
  /\ step = "save"
  /\ original' = [table EXCEPT !["connect"] = "none"]
  /\ step' = "replace" /\ at' = 1
  /\ UNCHANGED <<list, index, table, writable, module, socket, loads, failed>>
  /\ LoaderKeeps

\* A slot that is NULL makes the load fail: the socket stays registered, the
\* page stays writable, and the module is freed.
save_originals ==
  /\ step = "save"
  /\ original' = table
  /\ \/ /\ step' = "replace" /\ at' = 1
        /\ UNCHANGED <<module, failed, list, index, handler, hook>>
     \/ /\ Free /\ failed' = TRUE
        /\ UNCHANGED at
  /\ UNCHANGED <<table, writable, socket, loads, call>>

replace_slot ==
  /\ step = "replace"
  /\ table' = [table EXCEPT ![Slots[at]] = "module"]
  /\ IF at < Len(Slots) THEN at' = at + 1 /\ UNCHANGED step
                        ELSE at' = 0 /\ step' = "protect"
  /\ UNCHANGED <<list, index, original, writable, module, socket, loads, failed>>
  /\ LoaderKeeps

\* Faulty variant: leaves the page as it is.
protect_not ==
  /\ step = "protect"
  /\ module' = "live" /\ step' = "none"
  /\ UNCHANGED <<list, index, table, original, writable, at, socket, loads, failed>>
  /\ LoaderKeeps

\* disable_page_rw.
protect ==
  /\ step = "protect"
  /\ writable' = FALSE /\ module' = "live" /\ step' = "none"
  /\ UNCHANGED <<list, index, table, original, at, socket, loads, failed>>
  /\ LoaderKeeps

-----------------------------------------------------------------------------
(* freezer_exit and reset_freezer_syscalls. *)

rmmod ==
  /\ module = "live" /\ socket.users = 0
  /\ module' = "unloading" /\ step' = "unprotect"
  /\ UNCHANGED <<list, index, table, original, writable, at, socket, loads, failed>>
  /\ LoaderKeeps

unprotect ==
  /\ step = "unprotect"
  /\ writable' = TRUE /\ step' = "restore" /\ at' = 1
  /\ UNCHANGED <<list, index, table, original, module, socket, loads, failed>>
  /\ LoaderKeeps

\* Faulty variant: leaves the last slot as it is.
restore_slot_short ==
  /\ step = "restore"
  /\ table' = [table EXCEPT ![Slots[at]] = original[Slots[at]]]
  /\ IF at + 1 < Len(Slots) THEN at' = at + 1 /\ UNCHANGED step
                            ELSE at' = 0 /\ step' = "reprotect"
  /\ UNCHANGED <<list, index, original, writable, module, socket, loads, failed>>
  /\ LoaderKeeps

restore_slot ==
  /\ step = "restore"
  /\ table' = [table EXCEPT ![Slots[at]] = original[Slots[at]]]
  /\ IF at < Len(Slots) THEN at' = at + 1 /\ UNCHANGED step
                        ELSE at' = 0 /\ step' = "reprotect"
  /\ UNCHANGED <<list, index, original, writable, module, socket, loads, failed>>
  /\ LoaderKeeps

reprotect ==
  /\ step = "reprotect"
  /\ writable' = FALSE /\ step' = "dispose" /\ at' = 1
  /\ UNCHANGED <<list, index, table, original, module, socket, loads, failed>>
  /\ LoaderKeeps

whitelist_dispose ==
  /\ step = "dispose"
  /\ IF at <= index
       THEN whitelist_dispose_entry(at) /\ at' = at + 1 /\ UNCHANGED step
       ELSE UNCHANGED listvars /\ at' = 0 /\ step' = "release"
  /\ UNCHANGED <<table, original, writable, module, socket, loads, failed, call>>

\* Faulty variant: forgets the socket.
release_nothing ==
  /\ step = "release"
  /\ Free
  /\ UNCHANGED <<table, original, writable, at, socket, loads, failed, call>>

\* netlink_kernel_release, after which the kernel frees the module.
release ==
  /\ step = "release"
  /\ socket' = [socket EXCEPT !.registered = FALSE]
  /\ Free
  /\ UNCHANGED <<table, original, writable, at, loads, failed, call>>

-----------------------------------------------------------------------------
(* Commands.  freezer_recv_msg runs in the context of a sender, whose      *)
(* socket stays open meanwhile.                                            *)

SocketOnly ==
  UNCHANGED <<listvars, table, original, writable, module, step, at, loads, failed, call>>

open_socket ==
  /\ socket.registered /\ module # "unloading" /\ socket.users < MaxSockets
  /\ socket' = [socket EXCEPT !.users = @ + 1]
  /\ SocketOnly

HandlerActive == handler.pc # "idle"

close_socket ==
  /\ socket.users > (IF HandlerActive THEN 1 ELSE 0)
  /\ socket' = [socket EXCEPT !.users = @ - 1]
  /\ SocketOnly

recv_msg(uid, data) ==
  /\ socket.registered /\ socket.users > 0 /\ module # "absent"
  /\ add_call(uid, data)
  /\ UNCHANGED cyclevars

HandlerRuns ==
  /\ module # "absent"
  /\ HandlerStep
  /\ UNCHANGED cyclevars

-----------------------------------------------------------------------------
(* System calls. *)

CallOnly == UNCHANGED <<list, index, handler, table, original, writable, module, step, at,
                        socket, loads, failed>>

Inside(k) == call[k].pc \in {"hook", "lookup", "original", "sleeping"}

\* The kernel calls what the slot points to.
syscall(k, c) ==
  /\ ~Inside(k) /\ table[c.syscall] = "module"
  /\ call' = [call EXCEPT ![k] =
       IF Text(loads)
         THEN [NoCall EXCEPT !.pc = "hook", !.syscall = c.syscall, !.load = loads,
                             !.uid = c.uid, !.data = c.data, !.pointer = c.pointer]
         ELSE NoCall]
  /\ CallOnly /\ UNCHANGED hook

\* The hook is done with the string.
ToOriginal(k) ==
  call' = [call EXCEPT ![k] = [NoCall EXCEPT !.pc = "original", !.load = call[k].load,
                                             !.syscall = call[k].syscall]]

\* is_hooked_user says no.
not_hooked(k) ==
  /\ call[k].pc = "hook" /\ Text(call[k].load)
  /\ ToOriginal(k)
  /\ CallOnly /\ UNCHANGED hook

\* The string is copied; without a copy nothing is decided.
copy_string(k) ==
  /\ call[k].pc = "hook" /\ Text(call[k].load)
  /\ \E copy \in safe_copy_from_user(Source(k), MaxSize) :
       IF copy = NoCopy
         THEN /\ ToOriginal(k)
              /\ UNCHANGED hook
         ELSE /\ call' = [call EXCEPT ![k].pc = "lookup", ![k].copy = copy]
              /\ lookup_call(k, call[k].uid,
                             IF Exact(copy, Source(k)) THEN call[k].data ELSE Unfit)
  /\ CallOnly

lookup(k) ==
  /\ call[k].pc = "lookup" /\ Text(call[k].load)
  /\ LookupStep(k)
  /\ call' = IF hook'[k].pc = "idle" THEN [call EXCEPT ![k] = NoCall] ELSE call
  /\ CallOnly

\* A string that is not on the list ends the call.
decide(k) ==
  /\ call[k].pc = "lookup" /\ Text(call[k].load)
  /\ lookup_return(k)
  /\ IF hook[k].hit THEN ToOriginal(k) ELSE call' = [call EXCEPT ![k] = NoCall]
  /\ CallOnly

\* The hook ends with a call of the original: a jump, or a call that comes back
\* to the hook when the original is done, which may take any time.
call_original(k) ==
  /\ call[k].pc = "original" /\ Text(call[k].load)
  /\ call' \in {[call EXCEPT ![k] = NoCall], [call EXCEPT ![k].pc = "sleeping"]}
  /\ CallOnly /\ UNCHANGED hook

wake(k) ==
  /\ call[k].pc = "sleeping" /\ Text(call[k].load)
  /\ call' = [call EXCEPT ![k] = NoCall]
  /\ CallOnly /\ UNCHANGED hook

\* The code the process is in, or returns to, is gone.
crash(k) ==
  /\ Inside(k) /\ ~Text(call[k].load)
  /\ call' = [call EXCEPT ![k] = NoCall]
  /\ hook' = [hook EXCEPT ![k] = IdleHook]
  /\ CallOnly

HookRuns(k) == not_hooked(k) \/ copy_string(k) \/ lookup(k) \/ decide(k) \/ call_original(k)

-----------------------------------------------------------------------------

Loader ==
  \/ create_socket \/ acquire_table \/ save_originals \/ replace_slot \/ protect
  \/ unprotect \/ restore_slot \/ reprotect \/ whitelist_dispose \/ release

Next ==
  \/ insmod \/ rmmod \/ Loader
  \/ open_socket \/ close_socket
  \/ \E c \in Commands : recv_msg(c.uid, c.data)
  \/ HandlerRuns
  \/ \E k \in Hooks :
       \/ \E c \in Calls : syscall(k, c)
       \/ HookRuns(k) \/ wake(k) \/ crash(k)

\* A process in a hook is given the processor again and again; an original may
\* sleep for ever, and nobody has to load, to call or to command.
Spec == CycleInit /\ [][Next]_vars /\ \A k \in Hooks : WF_vars(HookRuns(k) \/ crash(k))

-----------------------------------------------------------------------------
(* Properties. *)

\* Once the module is gone no slot of the system call table leads into it: every
\* slot that was replaced is restored, with what was there before, and across
\* several loads.
NoDanglingHook ==
  module \in {"absent", "stuck"} => \A s \in Syscall : table[s] = "kernel"

\* The hooks are live as soon as their slots are replaced, one after the other,
\* and while they are restored: each of them must find its original saved, and
\* must not find a hook in its place.
OriginalsReachKernel ==
  \A k \in Hooks : Inside(k) /\ Text(call[k].load) => original[call[k].syscall] = "kernel"

\* The table is written only while its page is writable, and the page is
\* read-only again whenever the module is up or gone, unless a load failed.
PageProtected ==
  /\ [][table' # table => writable]_vars
  /\ [](writable => failed \/ module \in {"loading", "unloading"})

\* The commands run beside the loading of the module and are kept off its
\* unloading by the references of their sockets only: the socket never outlives
\* the module, and no handler is at work when the lists are given back, unless
\* a load failed.
HandlersInLiveModule ==
  failed \/ /\ socket.registered => module # "absent"
            /\ HandlerActive => module \in {"loading", "live"} /\ socket.users > 0

\* What a hook looks up is the whole string, terminated in a buffer of exactly
\* its size, unless the string has max_size characters or more.
DecidedOnWhole ==
  \A k \in Hooks : call[k].pc = "lookup" =>
    Exact(call[k].copy, Source(k)) \/ Length[call[k].data] >= MaxSize

=============================================================================
