----------------------- MODULE ModuleLifecycleProofs ------------------------
(***************************************************************************)
(* The safety of loading and unloading, for every number of processes,     *)
(* sockets, loads, commands and strings.                                   *)
(*                                                                         *)
(* The inductive invariant Inv ties the phase of the loader to what it has *)
(* done to the table, the originals, the page and the socket, and the      *)
(* processes in a hook to the load they entered.  Of the whitelist it says *)
(* nothing: the loader only needs to know whether a handler is at work.    *)
(* What a hook decides on rests on two theorems about what                 *)
(* safe_copy_from_user returns, which come first.                          *)
(***************************************************************************)
EXTENDS ModuleLifecycle, TLAPS

Loading == {"create", "acquire", "save", "replace", "protect"}
Unloading == {"unprotect", "restore", "reprotect", "dispose", "release"}

CallRecord ==
  [pc : {"outside", "hook", "lookup", "original", "sleeping"}, syscall : Syscall,
   load : Nat, uid : Uid, data : Data \cup {NoData},
   pointer : {"null", "bad", "good"}, copy : Copy]

Types ==
  /\ table \in [Syscall -> {"kernel", "module"}]
  /\ original \in [Syscall -> {"none", "kernel", "module"}]
  /\ at \in Nat /\ loads \in Nat
  /\ socket \in [registered : BOOLEAN, users : Nat]
  /\ call \in [Hooks -> CallRecord]
  /\ \A k \in Hooks : call[k].pc = "hook" => call[k].data \in Data

\* Where the loader is, and that a failed load is the last one.
Phases ==
  /\ module \in {"absent", "loading", "live", "unloading", "stuck"}
  /\ module = "loading" <=> step \in Loading
  /\ module = "unloading" <=> step \in Unloading
  /\ step \in {"none"} \cup Loading \cup Unloading
  /\ failed => module \in {"absent", "stuck"}
  /\ module = "stuck" => failed

\* The steps before the first slot is replaced and after the last is restored.
Untouched == {"create", "acquire", "save", "reprotect", "dispose", "release"}

\* What it has done to the table and the originals.
Tables ==
  /\ module \in {"absent", "stuck"} \/ step \in Untouched
       => \A s \in Syscall : table[s] = "kernel"
  /\ step = "replace" =>
       /\ at \in DOMAIN Slots
       /\ \A i \in DOMAIN Slots : i >= at => table[Slots[i]] = "kernel"
  /\ step = "restore" =>
       /\ at \in DOMAIN Slots
       /\ \A i \in DOMAIN Slots : i < at => table[Slots[i]] = "kernel"
  /\ module = "live" \/ step \in {"replace", "protect"} \cup Unloading
       => \A s \in Syscall : original[s] = "kernel"

Pages ==
  /\ step \in {"save", "replace", "protect", "restore", "reprotect"} => writable
  /\ step \in {"create", "acquire", "dispose", "release"} => ~writable
  /\ writable => failed \/ module \in {"loading", "unloading"}

Sockets ==
  failed \/ /\ module = "absent" \/ step = "create" => ~socket.registered
            /\ module = "unloading" => socket.users = 0
            /\ HandlerActive => /\ socket.registered /\ socket.users > 0
                                /\ module \in {"loading", "live"}

LoadKnown(k) == Inside(k) => call[k].load <= loads

InCalls ==
  /\ \A k \in Hooks : LoadKnown(k)
  /\ OriginalsReachKernel
  /\ DecidedOnWhole

Inv == Types /\ Phases /\ Tables /\ Pages /\ Sockets /\ InCalls

-----------------------------------------------------------------------------
(* What safe_copy_from_user returns, for strings of every length.          *)

\* The function returns NULL or a copy that is no longer than the string and
\* than max_size, in a buffer with room for all of its characters.
THEOREM CopyInRoom ==
  ASSUME NEW src \in UserString, NEW max_size \in Nat \ {0},
         NEW copy \in safe_copy_from_user(src, max_size)
  PROVE  /\ copy \in Copy
         /\ copy.chars <= copy.room /\ copy.chars <= src.length
         /\ copy.chars <= max_size
         /\ copy.terminated => copy.chars < copy.room
<1> DEFINE copied_len == strncpy_from_user(src, max_size)
<1>1. /\ copied_len \in Nat /\ src.length \in Nat
      /\ copied_len <= src.length /\ copied_len <= max_size
  BY DEF UserString, strncpy_from_user
<1>2. CASE copy = NoCopy
  BY <1>2 DEF NoCopy, Copy, UserString
<1>3. CASE copy # NoCopy
  <2>1. \/ /\ copy = [chars |-> copied_len, room |-> max_size, terminated |-> TRUE]
           /\ copied_len = max_size - 1
        \/ \E t \in BOOLEAN :
             copy = [chars |-> copied_len, room |-> copied_len + 1, terminated |-> t]
    BY <1>3 DEF safe_copy_from_user
  <2> HIDE DEF copied_len
  <2>2. CASE /\ copy = [chars |-> copied_len, room |-> max_size, terminated |-> TRUE]
             /\ copied_len = max_size - 1
    BY <1>1, <2>2 DEF Copy
  <2>3. CASE \E t \in BOOLEAN :
               copy = [chars |-> copied_len, room |-> copied_len + 1, terminated |-> t]
    BY <1>1, <2>3 DEF Copy
  <2> QED
    BY <2>1, <2>2, <2>3
<1> QED
  BY <1>2, <1>3

\* A copy of a string shorter than max_size is all of it, terminated, in a
\* buffer of exactly its size: what freezer_hook_utils.h promises, also for the
\* string that just fits (a comparison with max_size - 1 decides).
THEOREM ShortCopyIsExact ==
  ASSUME NEW src \in UserString, NEW max_size \in Nat \ {0},
         src.length < max_size,
         NEW copy \in safe_copy_from_user(src, max_size), copy # NoCopy
  PROVE  Exact(copy, src)
<1>1. src.length \in Nat /\ strncpy_from_user(src, max_size) = src.length
  BY DEF UserString, strncpy_from_user
<1>2. copy \in IF src.length = max_size - 1
                 THEN {[chars |-> src.length, room |-> max_size, terminated |-> TRUE]}
                 ELSE {[chars |-> src.length, room |-> src.length + 1, terminated |-> t] :
                         t \in {TRUE}}
  BY <1>1 DEF safe_copy_from_user
<1> QED
  BY <1>1, <1>2 DEF Exact

-----------------------------------------------------------------------------

LEMMA SlotsFacts ==
  /\ Len(Slots) = 4 /\ DOMAIN Slots = 1 .. 4
  /\ \A i \in DOMAIN Slots : Slots[i] \in Syscall
  /\ \A s \in Syscall : \E i \in DOMAIN Slots : Slots[i] = s
  /\ \A i, j \in DOMAIN Slots : Slots[i] = Slots[j] => i = j
<1>1. Len(Slots) = 4 /\ DOMAIN Slots = 1 .. 4
  BY DEF Slots
<1>2. /\ Slots[1] = "openat" /\ Slots[2] = "write" /\ Slots[3] = "execve"
      /\ Slots[4] = "connect"
  BY DEF Slots
<1> QED
  BY <1>1, <1>2 DEF Syscall

LEMMA NoCallTyped == NoCall \in CallRecord /\ NoCall.pc = "outside"
<1>1. "openat" \in Syscall
  BY DEF Syscall, Slots
<1> QED
  BY <1>1, UidTableAssumption DEF NoCall, NoCopy, Copy, CallRecord

LEMMA InitInv == CycleInit => Inv
<1> SUFFICES ASSUME CycleInit PROVE Inv
  OBVIOUS
<1> USE DEF CycleInit
<1>2. Types
  BY NoCallTyped DEF Types
<1>3. Phases /\ Pages
  BY DEF Phases, Pages, Loading, Unloading
<1>4. Tables
  BY DEF Tables, Untouched, Unloading
<1>5. Sockets
  BY DEF Sockets, HandlerActive, ListInit, IdleHandler
<1>6. InCalls
  BY DEF InCalls, LoadKnown, Inside, OriginalsReachKernel, DecidedOnWhole, NoCall
<1> QED
  BY <1>2, <1>3, <1>4, <1>5, <1>6 DEF Inv

-----------------------------------------------------------------------------
(* Steps of the loader. *)

\* The processes do not move, and either a new load begins or none loses the
\* originals it entered with.
LEMMA CallsKept ==
  ASSUME Types, InCalls, UNCHANGED call,
         \/ loads' = loads + 1
         \/ /\ loads' = loads
            /\ module' # "absent" => module # "absent"
            /\ original' = original \/ \A s \in Syscall : original'[s] = "kernel"
  PROVE  InCalls'
<1>1. ASSUME NEW k \in Hooks PROVE LoadKnown(k)'
  <2>1. call[k].load \in Nat
    BY DEF Types, CallRecord
  <2> QED
    BY <2>1 DEF InCalls, LoadKnown, Inside, Types
<1>2. ASSUME NEW k \in Hooks, Inside(k)', Text(call[k].load)'
      PROVE  original'[call'[k].syscall] = "kernel"
  <2>1. call[k].load \in Nat /\ call[k].syscall \in Syscall /\ call[k].load <= loads
    BY <1>2 DEF Types, CallRecord, InCalls, LoadKnown, Inside
  <2>2. loads' = loads
    BY <1>2, <2>1 DEF Text, Types
  <2>3. original[call[k].syscall] = "kernel"
    BY <1>2, <2>2 DEF Types, Text, InCalls, OriginalsReachKernel, Inside
  <2> QED
    BY <2>1, <2>2, <2>3 DEF Types
<1>3. DecidedOnWhole'
  BY DEF InCalls, DecidedOnWhole, Source
<1> QED
  BY <1>1, <1>2, <1>3 DEF InCalls, OriginalsReachKernel

\* Writing a slot of the table.
LEMMA SlotWritten ==
  ASSUME Types, NEW i \in DOMAIN Slots, NEW v \in {"kernel", "module"},
         table' = [table EXCEPT ![Slots[i]] = v]
  PROVE  /\ table' \in [Syscall -> {"kernel", "module"}]
         /\ table'[Slots[i]] = v
         /\ \A j \in DOMAIN Slots : j # i => table'[Slots[j]] = table[Slots[j]]
BY SlotsFacts DEF Types

LEMMA LoadingInv ==
  ASSUME Inv,
         insmod \/ create_socket \/ acquire_table \/ save_originals \/ replace_slot
                \/ protect
  PROVE  Inv'
<1> USE DEF Inv
<1>1. CASE insmod
  <2> USE <1>1 DEF insmod, LoaderKeeps
  <2>1. Types' /\ Phases' /\ Tables' /\ Pages'
    <3>1. Types'
      BY DEF Types
    <3>2. Phases'
      BY DEF Phases, Loading, Unloading
    <3>3. Tables'
      BY DEF Types, Phases, Tables, Untouched, Loading, Unloading
    <3>4. Pages'
      BY DEF Phases, Pages, Loading, Unloading
    <3> QED
      BY <3>1, <3>2, <3>3, <3>4
  <2>2. Sockets'
    BY DEF Sockets, HandlerActive, Phases
  <2>3. InCalls'
    BY CallsKept
  <2> QED
    BY <2>1, <2>2, <2>3
<1>2. CASE create_socket
  <2> USE <1>2 DEF create_socket, LoaderKeeps
  <2>1. module = "loading" /\ module' \in {"loading", "absent"} /\ ~failed
    BY DEF Phases, Loading
  <2>2. Types' /\ Phases' /\ Tables' /\ Pages'
    <3>1. Types'
      BY <2>1 DEF Types
    <3>2. Phases'
      BY <2>1 DEF Phases, Loading, Unloading
    <3>3. Tables'
      BY <2>1 DEF Types, Phases, Tables, Untouched, Loading, Unloading
    <3>4. Pages'
      BY <2>1 DEF Phases, Pages, Loading, Unloading
    <3> QED
      BY <3>1, <3>2, <3>3, <3>4
  <2>3. Sockets'
    BY <2>1 DEF Sockets, HandlerActive, Types, Phases, Unloading
  <2>4. InCalls'
    BY <2>1, CallsKept
  <2> QED
    BY <2>2, <2>3, <2>4
<1>3. CASE acquire_table
  <2> USE <1>3 DEF acquire_table, LoaderKeeps
  <2>1. module = "loading" /\ ~failed
    BY DEF Phases, Loading
  <2>2. Types' /\ Phases' /\ Tables' /\ Pages'
    <3>1. Types'
      BY <2>1 DEF Types
    <3>2. Phases'
      BY <2>1 DEF Phases, Loading, Unloading
    <3>3. Tables'
      BY <2>1 DEF Types, Phases, Tables, Untouched, Loading, Unloading
    <3>4. Pages'
      BY <2>1 DEF Phases, Pages, Loading, Unloading
    <3> QED
      BY <3>1, <3>2, <3>3, <3>4
  <2>3. Sockets'
    BY <2>1 DEF Sockets, HandlerActive
  <2>4. InCalls'
    BY <2>1, CallsKept
  <2> QED
    BY <2>2, <2>3, <2>4
<1>4. CASE save_originals
  <2> USE <1>4 DEF save_originals
  <2>1. module = "loading" /\ ~failed /\ \A s \in Syscall : table[s] = "kernel"
    BY DEF Phases, Loading, Tables, Untouched
  <2>2. CASE step' = "replace" /\ at' = 1 /\ UNCHANGED <<module, failed, handler>>
    <3>1. Types' /\ Phases' /\ Tables' /\ Pages'
      <4>1. Types'
        BY <2>1, <2>2, SlotsFacts DEF Types
      <4>2. Phases'
        BY <2>1, <2>2, SlotsFacts DEF Phases, Loading, Unloading
      <4>3. Tables'
        BY <2>1, <2>2, SlotsFacts DEF Types, Phases, Tables, Untouched, Loading, Unloading
      <4>4. Pages'
        BY <2>1, <2>2, SlotsFacts DEF Phases, Pages, Loading, Unloading
      <4> QED
        BY <4>1, <4>2, <4>3, <4>4
    <3>2. Sockets'
      BY <2>1, <2>2 DEF Sockets, HandlerActive
    <3> QED
      BY <2>1, <2>2, <3>1, <3>2, CallsKept
  <2>3. CASE Free /\ failed' = TRUE /\ UNCHANGED at
    <3>1. Types' /\ Phases' /\ Tables' /\ Pages'
      BY <2>1, <2>3 DEF Free, Types, Phases, Tables, Pages, Loading, Unloading
    <3>2. Sockets'
      BY <2>3 DEF Sockets
    <3> QED
      BY <2>1, <2>3, <3>1, <3>2, CallsKept DEF Free
  <2> QED
    BY <2>2, <2>3
<1>5. CASE replace_slot
  <2> USE <1>5 DEF replace_slot, LoaderKeeps
  <2>1. /\ module = "loading" /\ ~failed /\ at \in DOMAIN Slots /\ writable
        /\ \A s \in Syscall : original[s] = "kernel"
    BY DEF Phases, Loading, Tables, Untouched, Pages
  <2>2. /\ table' \in [Syscall -> {"kernel", "module"}]
        /\ \A j \in DOMAIN Slots : j # at => table'[Slots[j]] = table[Slots[j]]
    BY <2>1, SlotWritten
  <2>3. \/ /\ at \in 1 .. 3 /\ at' = at + 1 /\ step' = "replace"
        \/ /\ at' = 0 /\ step' = "protect"
    BY <2>1, SlotsFacts
  <2>4. Types' /\ Phases' /\ Pages'
    BY <2>1, <2>2, <2>3 DEF Types, Phases, Pages, Loading, Unloading
  <2>5. Tables'
    BY <2>1, <2>2, <2>3, SlotsFacts DEF Tables, Untouched, Phases, Loading, Unloading
  <2>6. Sockets'
    BY <2>1, <2>3 DEF Sockets, HandlerActive
  <2>7. InCalls'
    BY CallsKept
  <2> QED
    BY <2>4, <2>5, <2>6, <2>7
<1>6. CASE protect
  <2> USE <1>6 DEF protect, LoaderKeeps
  <2>1. module = "loading" /\ ~failed
    BY DEF Phases, Loading
  <2>2. Types' /\ Phases' /\ Tables' /\ Pages'
    <3>1. Types'
      BY <2>1 DEF Types
    <3>2. Phases'
      BY <2>1 DEF Phases, Loading, Unloading
    <3>3. Tables'
      BY <2>1 DEF Types, Phases, Tables, Untouched, Loading, Unloading
    <3>4. Pages'
      BY <2>1 DEF Phases, Pages, Loading, Unloading
    <3> QED
      BY <3>1, <3>2, <3>3, <3>4
  <2>3. Sockets'
    BY <2>1 DEF Sockets, HandlerActive
  <2>4. InCalls'
    BY <2>1, CallsKept
  <2> QED
    BY <2>2, <2>3, <2>4
<1> QED
  BY <1>1, <1>2, <1>3, <1>4, <1>5, <1>6

LEMMA UnloadingInv ==
  ASSUME Inv,
         rmmod \/ unprotect \/ restore_slot \/ reprotect \/ whitelist_dispose
               \/ release
  PROVE  Inv'
<1> USE DEF Inv
<1>1. CASE rmmod
  <2> USE <1>1 DEF rmmod, LoaderKeeps
  <2>1. Types' /\ Phases' /\ Tables' /\ Pages'
    <3>1. Types'
      BY DEF Types
    <3>2. Phases'
      BY DEF Phases, Loading, Unloading
    <3>3. Tables'
      BY DEF Types, Phases, Tables, Untouched, Loading, Unloading
    <3>4. Pages'
      BY DEF Phases, Pages, Loading, Unloading
    <3> QED
      BY <3>1, <3>2, <3>3, <3>4
  <2>2. Sockets'
    BY DEF Sockets, HandlerActive, Phases, Unloading, Types
  <2>3. InCalls'
    BY CallsKept
  <2> QED
    BY <2>1, <2>2, <2>3
<1>2. CASE unprotect
  <2> USE <1>2 DEF unprotect, LoaderKeeps
  <2>1. module = "unloading" /\ ~failed
    BY DEF Phases, Unloading
  <2>2. Types' /\ Phases' /\ Tables' /\ Pages'
    <3>1. Types'
      BY <2>1, SlotsFacts DEF Types
    <3>2. Phases'
      BY <2>1, SlotsFacts DEF Phases, Loading, Unloading
    <3>3. Tables'
      BY <2>1, SlotsFacts DEF Types, Phases, Tables, Untouched, Loading, Unloading
    <3>4. Pages'
      BY <2>1, SlotsFacts DEF Phases, Pages, Loading, Unloading
    <3> QED
      BY <3>1, <3>2, <3>3, <3>4
  <2>3. Sockets'
    BY <2>1, SlotsFacts DEF Sockets, HandlerActive
  <2>4. InCalls'
    BY <2>1, CallsKept
  <2> QED
    BY <2>2, <2>3, <2>4
<1>3. CASE restore_slot
  <2> USE <1>3 DEF restore_slot, LoaderKeeps
  <2>1. /\ module = "unloading" /\ ~failed /\ at \in DOMAIN Slots /\ writable
        /\ \A s \in Syscall : original[s] = "kernel"
        /\ \A i \in DOMAIN Slots : i < at => table[Slots[i]] = "kernel"
    BY DEF Phases, Unloading, Tables, Pages
  <2>2. /\ table' \in [Syscall -> {"kernel", "module"}]
        /\ table'[Slots[at]] = "kernel"
        /\ \A j \in DOMAIN Slots : j # at => table'[Slots[j]] = table[Slots[j]]
    <3>1. original[Slots[at]] = "kernel"
      BY <2>1, SlotsFacts
    <3> QED
      BY <2>1, <3>1, SlotWritten
  <2>3. \/ /\ at \in 1 .. 3 /\ at' = at + 1 /\ step' = "restore"
        \/ /\ at = 4 /\ at' = 0 /\ step' = "reprotect"
    BY <2>1, SlotsFacts
  <2>4. Types' /\ Phases' /\ Pages'
    BY <2>1, <2>2, <2>3 DEF Types, Phases, Pages, Loading, Unloading
  <2>5. \A i \in DOMAIN Slots : i <= at => table'[Slots[i]] = "kernel"
    BY <2>1, <2>2, SlotsFacts
  <2>6. Tables'
    <3>1. CASE step' = "restore"
      BY <2>1, <2>3, <2>5, <3>1, SlotsFacts DEF Tables, Untouched, Unloading
    <3>2. CASE step' = "reprotect"
      <4>1. \A s \in Syscall : table'[s] = "kernel"
        BY <2>3, <2>5, <3>2, SlotsFacts
      <4> QED
        BY <2>1, <3>2, <4>1 DEF Tables
    <3> QED
      BY <2>3, <3>1, <3>2
  <2>7. Sockets'
    BY <2>1, <2>3 DEF Sockets, HandlerActive
  <2>8. InCalls'
    BY CallsKept
  <2> QED
    BY <2>4, <2>6, <2>7, <2>8
<1>4. CASE reprotect
  <2> USE <1>4 DEF reprotect, LoaderKeeps
  <2>1. module = "unloading" /\ ~failed
    BY DEF Phases, Unloading
  <2>2. Types' /\ Phases' /\ Tables' /\ Pages'
    <3>1. Types'
      BY <2>1 DEF Types
    <3>2. Phases'
      BY <2>1 DEF Phases, Loading, Unloading
    <3>3. Tables'
      BY <2>1 DEF Types, Phases, Tables, Untouched, Loading, Unloading
    <3>4. Pages'
      BY <2>1 DEF Phases, Pages, Loading, Unloading
    <3> QED
      BY <3>1, <3>2, <3>3, <3>4
  <2>3. Sockets'
    BY <2>1 DEF Sockets, HandlerActive
  <2>4. InCalls'
    BY <2>1, CallsKept
  <2> QED
    BY <2>2, <2>3, <2>4
<1>5. CASE whitelist_dispose
  <2>1. /\ module = "unloading" /\ ~failed /\ step = "dispose"
        /\ UNCHANGED <<handler, table, original, writable, module, socket, loads,
                       failed, call>>
        /\ at' \in Nat /\ step' \in {"dispose", "release"}
    BY <1>5 DEF whitelist_dispose, whitelist_dispose_entry, listvars, Phases, Unloading,
                Types
  <2>2. Types' /\ Phases' /\ Tables' /\ Pages'
    <3>1. Types'
      BY <2>1 DEF Types
    <3>2. Phases'
      BY <2>1 DEF Phases, Loading, Unloading
    <3>3. Tables'
      BY <2>1 DEF Types, Phases, Tables, Untouched, Loading, Unloading
    <3>4. Pages'
      BY <2>1 DEF Phases, Pages, Loading, Unloading
    <3> QED
      BY <3>1, <3>2, <3>3, <3>4
  <2>3. Sockets'
    BY <2>1 DEF Sockets, HandlerActive
  <2>4. InCalls'
    BY <2>1, CallsKept
  <2> QED
    BY <2>2, <2>3, <2>4
<1>6. CASE release
  <2> USE <1>6 DEF release, Free
  <2>1. module = "unloading" /\ ~failed
    BY DEF Phases, Unloading
  <2>2. Types' /\ Phases' /\ Tables' /\ Pages'
    <3>1. Types'
      BY <2>1 DEF Types
    <3>2. Phases'
      BY <2>1 DEF Phases, Loading, Unloading
    <3>3. Tables'
      BY <2>1 DEF Types, Phases, Tables, Untouched, Loading, Unloading
    <3>4. Pages'
      BY <2>1 DEF Phases, Pages, Loading, Unloading
    <3> QED
      BY <3>1, <3>2, <3>3, <3>4
  <2>3. Sockets'
    BY <2>1 DEF Sockets, HandlerActive, Types, IdleHandler
  <2>4. InCalls'
    BY <2>1, CallsKept
  <2> QED
    BY <2>2, <2>3, <2>4
<1> QED
  BY <1>1, <1>2, <1>3, <1>4, <1>5, <1>6

-----------------------------------------------------------------------------
(* Commands and system calls. *)

LEMMA LoaderKept ==
  ASSUME Phases, Tables, Pages,
         UNCHANGED <<table, original, writable, module, step, at, loads, failed>>
  PROVE  Phases' /\ Tables' /\ Pages'
<1>1. Phases'
  BY DEF Phases
<1>2. Tables'
  BY DEF Tables
<1>3. Pages'
  BY DEF Pages
<1> QED
  BY <1>1, <1>2, <1>3

LEMMA CommandInv ==
  ASSUME Inv,
         \/ open_socket \/ close_socket \/ HandlerRuns
         \/ \E c \in Commands : recv_msg(c.uid, c.data)
  PROVE  Inv'
<1> USE DEF Inv
<1>1. CASE open_socket \/ close_socket
  <2>1. /\ UNCHANGED <<handler, table, original, writable, module, step, at, loads,
                       failed, call>>
        /\ socket.users \in Nat
        /\ \/ /\ socket.registered /\ module # "unloading"
              /\ socket' = [socket EXCEPT !.users = @ + 1]
           \/ /\ socket.users > (IF HandlerActive THEN 1 ELSE 0)
              /\ socket' = [socket EXCEPT !.users = @ - 1]
    BY <1>1 DEF open_socket, close_socket, SocketOnly, listvars, Types
  <2>2. Types'
    BY <2>1 DEF Types
  <2>3. Sockets'
    BY <2>1 DEF Sockets, HandlerActive, Types
  <2>4. Phases' /\ Tables' /\ Pages' /\ InCalls'
    BY <2>1, LoaderKept, CallsKept
  <2> QED
    BY <2>2, <2>3, <2>4
<1>2. CASE HandlerRuns \/ \E c \in Commands : recv_msg(c.uid, c.data)
  <2>1. UNCHANGED cyclevars
    BY <1>2 DEF HandlerRuns, recv_msg
  <2>2. \/ HandlerActive
        \/ socket.registered /\ socket.users > 0 /\ module # "absent"
    BY <1>2 DEF HandlerRuns, HandlerStep, recv_msg, HandlerActive, add_check, add_scan,
                push_check, push_realloc, push_storage, push_cell, push_size, add_new,
                add_publish, add_raise, add_return
  <2>3. Types'
    BY <2>1 DEF cyclevars, Types
  <2>4. Sockets'
    <3>1. ~failed => \/ HandlerActive
                     \/ /\ socket.registered /\ socket.users > 0
                        /\ module \in {"loading", "live"}
      BY <2>2 DEF Sockets, Phases, Types
    <3> QED
      BY <2>1, <3>1 DEF cyclevars, Sockets, HandlerActive
  <2>5. Phases' /\ Tables' /\ Pages' /\ InCalls'
    BY <2>1, LoaderKept, CallsKept DEF cyclevars
  <2> QED
    BY <2>3, <2>4, <2>5
<1> QED
  BY <1>1, <1>2

\* One process goes on to r.
LEMMA CallMoves ==
  ASSUME Inv, CallOnly, NEW k \in Hooks, NEW r \in CallRecord,
         call' = [call EXCEPT ![k] = r],
         r.pc = "hook" => r.data \in Data,
         r.pc # "outside" =>
           /\ r.load <= loads
           /\ Text(r.load) => original[r.syscall] = "kernel",
         r.pc = "lookup" =>
           \/ Exact(r.copy, [pointer |-> r.pointer, length |-> Length[r.data]])
           \/ Length[r.data] >= MaxSize
  PROVE  Inv'
<1> USE DEF Inv
<1>1. /\ UNCHANGED <<handler, table, original, writable, module, step, at, socket, loads,
                     failed>>
      /\ call'[k] = r
      /\ \A other \in Hooks : other # k => call'[other] = call[other]
  BY DEF CallOnly, Types
<1>2. Types'
  BY <1>1 DEF Types
<1>3. Sockets' /\ Phases' /\ Tables' /\ Pages'
  <2>1. Sockets'
    BY <1>1 DEF Sockets, HandlerActive
  <2> QED
    BY <1>1, <2>1, LoaderKept
<1>4. ASSUME NEW p \in Hooks
      PROVE  /\ LoadKnown(p)'
             /\ Inside(p)' /\ Text(call[p].load)' => original'[call'[p].syscall] = "kernel"
             /\ call'[p].pc = "lookup" =>
                  Exact(call'[p].copy, Source(p)') \/ Length[call'[p].data] >= MaxSize
  <2>1. CASE p = k
    BY <1>1, <2>1 DEF LoadKnown, Inside, Text, Source
  <2>2. CASE p # k
    BY <1>1, <2>2
       DEF LoadKnown, Inside, Text, Source, InCalls, OriginalsReachKernel, DecidedOnWhole
  <2> QED
    BY <2>1, <2>2
<1>5. InCalls'
  BY <1>4 DEF InCalls, OriginalsReachKernel, DecidedOnWhole
<1> QED
  BY <1>2, <1>3, <1>5

\* What is left of a call when the hook is done with the string.
LEMMA ToOriginalInv ==
  ASSUME Inv, CallOnly, NEW k \in Hooks, Inside(k), Text(call[k].load), ToOriginal(k)
  PROVE  Inv'
<1> DEFINE r == [NoCall EXCEPT !.pc = "original", !.load = call[k].load,
                               !.syscall = call[k].syscall]
<1>1. call[k] \in CallRecord
  BY DEF Inv, Types
<1>2. r \in CallRecord /\ r.pc = "original" /\ r.load = call[k].load
      /\ r.syscall = call[k].syscall
  BY <1>1, NoCallTyped DEF CallRecord, NoCall
<1>3. r.load <= loads /\ original[r.syscall] = "kernel"
  BY <1>2 DEF Inv, InCalls, LoadKnown, OriginalsReachKernel
<1>4. call' = [call EXCEPT ![k] = r]
  BY DEF ToOriginal
<1> HIDE DEF r
<1> QED
  BY <1>2, <1>3, <1>4, CallMoves

LEMMA NoCallInv ==
  ASSUME Inv, CallOnly, NEW k \in Hooks, call' = [call EXCEPT ![k] = NoCall]
  PROVE  Inv'
BY NoCallTyped, CallMoves

LEMMA CallInv ==
  ASSUME Inv, NEW k \in Hooks,
         \/ \E c \in Calls : syscall(k, c)
         \/ HookRuns(k) \/ wake(k) \/ crash(k)
  PROVE  Inv'
<1>1. ASSUME NEW c \in Calls, syscall(k, c) PROVE Inv'
  <2>1. c \in [syscall : Syscall, uid : Uid, data : Data, pointer : {"null", "bad", "good"}]
    BY LifecycleAssumption DEF Call
  <2>2. CASE Text(loads)
    <3> DEFINE r == [NoCall EXCEPT !.pc = "hook", !.syscall = c.syscall, !.load = loads,
                                   !.uid = c.uid, !.data = c.data, !.pointer = c.pointer]
    <3>1. r \in CallRecord /\ r.pc = "hook" /\ r.load = loads /\ r.data \in Data
          /\ r.syscall = c.syscall /\ c.syscall \in Syscall
      BY <2>1, NoCallTyped DEF CallRecord, NoCall, Inv, Types
    <3>2. original[r.syscall] = "kernel"
      <4>1. table[c.syscall] = "module"
        BY <1>1 DEF syscall
      <4>2. ~ (module \in {"absent", "stuck"} \/ step \in Untouched)
        BY <3>1, <4>1 DEF Inv, Tables
      <4>3. module = "live" \/ step \in {"replace", "protect"} \cup Unloading
        BY <4>2 DEF Inv, Phases, Untouched, Loading, Unloading
      <4> QED
        BY <3>1, <4>3 DEF Inv, Tables
    <3>3. call' = [call EXCEPT ![k] = r] /\ CallOnly
      BY <1>1, <2>2 DEF syscall
    <3>4. r.load <= loads
      BY <3>1 DEF Inv, Types
    <3> HIDE DEF r
    <3> QED
      BY <3>1, <3>2, <3>3, <3>4, CallMoves
  <2>3. CASE ~Text(loads)
    BY <1>1, <2>3, NoCallInv DEF syscall
  <2> QED
    BY <2>2, <2>3
<1>2. CASE not_hooked(k)
  BY <1>2, ToOriginalInv DEF not_hooked, Inside
<1>3. CASE copy_string(k)
  <2>1. PICK copy \in safe_copy_from_user(Source(k), MaxSize) :
          IF copy = NoCopy
            THEN ToOriginal(k)
            ELSE call' = [call EXCEPT ![k].pc = "lookup", ![k].copy = copy]
    BY <1>3 DEF copy_string
  <2>2. /\ call[k] \in CallRecord /\ call[k].data \in Data /\ CallOnly
        /\ call[k].pc = "hook" /\ Text(call[k].load)
    BY <1>3 DEF copy_string, Inv, Types
  <2>3. CASE copy = NoCopy
    BY <2>1, <2>2, <2>3, ToOriginalInv DEF Inside
  <2>4. CASE copy # NoCopy
    <3> DEFINE r == [call[k] EXCEPT !.pc = "lookup", !.copy = copy]
    <3>1. Source(k) \in UserString /\ Source(k).length = Length[call[k].data]
          /\ Source(k) = [pointer |-> call[k].pointer, length |-> Length[call[k].data]]
      BY <2>2, LifecycleAssumption DEF Source, UserString, CallRecord
    <3>2. copy \in Copy
      BY <3>1, LifecycleAssumption, CopyInRoom
    <3>3. /\ r \in CallRecord /\ r.pc = "lookup" /\ r.copy = copy
          /\ r.load = call[k].load /\ r.syscall = call[k].syscall
          /\ r.data = call[k].data /\ r.pointer = call[k].pointer
      BY <2>2, <3>2 DEF CallRecord
    <3>4. r.load <= loads /\ original[r.syscall] = "kernel"
      BY <2>2, <3>3 DEF Inv, InCalls, LoadKnown, OriginalsReachKernel, Inside
    <3>5. \/ Exact(r.copy, [pointer |-> r.pointer, length |-> Length[r.data]])
          \/ Length[r.data] >= MaxSize
      <4>1. CASE Length[call[k].data] < MaxSize
        BY <2>4, <3>1, <3>3, <4>1, LifecycleAssumption, ShortCopyIsExact
      <4>2. Length[call[k].data] \in Nat /\ MaxSize \in Nat
        BY <2>2, LifecycleAssumption
      <4> QED
        BY <3>3, <4>1, <4>2
    <3>6. call' = [call EXCEPT ![k] = r]
      BY <2>1, <2>4 DEF Inv, Types
    <3> HIDE DEF r
    <3> QED
      BY <2>2, <3>3, <3>4, <3>5, <3>6, CallMoves
  <2> QED
    BY <2>3, <2>4
<1>4. CASE lookup(k)
  <2>1. CASE call' = call
    <3>1. UNCHANGED <<handler, table, original, writable, module, step, at, socket, loads,
                      failed, call>>
      BY <1>4, <2>1 DEF lookup, CallOnly
    <3>2. Types' /\ Sockets'
      BY <3>1 DEF Inv, Types, Sockets, HandlerActive
    <3> QED
      BY <3>1, <3>2, LoaderKept, CallsKept DEF Inv
  <2>2. CASE call' = [call EXCEPT ![k] = NoCall]
    BY <1>4, <2>2, NoCallInv DEF lookup
  <2> QED
    BY <1>4, <2>1, <2>2 DEF lookup
<1>5. CASE decide(k)
  BY <1>5, NoCallInv, ToOriginalInv DEF decide, Inside
<1>6. CASE call_original(k) \/ wake(k) \/ crash(k)
  <2>1. CASE call' = [call EXCEPT ![k] = NoCall]
    BY <1>6, <2>1, NoCallInv DEF call_original, wake, crash
  <2>2. CASE call_original(k) /\ call' = [call EXCEPT ![k].pc = "sleeping"]
    <3> DEFINE r == [call[k] EXCEPT !.pc = "sleeping"]
    <3>1. call[k] \in CallRecord /\ CallOnly /\ Inside(k) /\ Text(call[k].load)
      BY <2>2 DEF call_original, Inv, Types, Inside
    <3>2. /\ r \in CallRecord /\ r.pc = "sleeping" /\ r.load = call[k].load
          /\ r.syscall = call[k].syscall
      BY <3>1 DEF CallRecord
    <3>3. r.load <= loads /\ original[r.syscall] = "kernel"
      BY <3>1, <3>2 DEF Inv, InCalls, LoadKnown, OriginalsReachKernel
    <3>4. call' = [call EXCEPT ![k] = r]
      BY <2>2 DEF Inv, Types
    <3> HIDE DEF r
    <3> QED
      BY <3>1, <3>2, <3>3, <3>4, CallMoves
  <2> QED
    BY <1>6, <2>1, <2>2 DEF call_original, wake, crash
<1> QED
  BY <1>1, <1>2, <1>3, <1>4, <1>5, <1>6 DEF HookRuns

LEMMA StutterInv == ASSUME Inv, UNCHANGED vars PROVE Inv'
<1>1. UNCHANGED <<handler, table, original, writable, module, step, at, socket, loads,
                  failed, call>>
  BY DEF vars, listvars, cyclevars
<1>2. Types' /\ Sockets'
  BY <1>1 DEF Inv, Types, Sockets, HandlerActive
<1> QED
  BY <1>1, <1>2, LoaderKept, CallsKept DEF Inv

LEMMA NextInv == Inv /\ [Next]_vars => Inv'
BY LoadingInv, UnloadingInv, CommandInv, CallInv, StutterInv DEF Next, Loader

-----------------------------------------------------------------------------

\* Whatever runs beside the loader, and however often the module is loaded.
THEOREM InvHolds == Spec => []Inv
<1> QED
  BY InitInv, NextInv, PTL DEF Spec

\* A module that is gone leaves no slot of the system call table behind.
THEOREM NoSlotLeftBehind == Spec => []NoDanglingHook
<1>1. Inv => NoDanglingHook
  BY DEF Inv, Tables, NoDanglingHook
<1> QED
  BY <1>1, InvHolds, PTL

\* A hook finds the kernel's own function behind it from its first call on,
\* also while the slots are being replaced or restored one by one.
THEOREM HooksReachKernel == Spec => []OriginalsReachKernel
<1>1. Inv => OriginalsReachKernel
  BY DEF Inv, InCalls
<1> QED
  BY <1>1, InvHolds, PTL

\* Handlers are kept off the unloading by the references of the sockets alone:
\* none is at work when the lists are given back, unless a load failed.
THEOREM HandlersKeptOff == Spec => []HandlersInLiveModule
<1>1. Inv => HandlersInLiveModule
  BY DEF Inv, Sockets, HandlersInLiveModule
<1> QED
  BY <1>1, InvHolds, PTL

\* A hook decides on a copy that is the whole string, for strings of every
\* length below its limit.
THEOREM WholeStringsDecided == Spec => []DecidedOnWhole
<1>1. Inv => DecidedOnWhole
  BY DEF Inv, InCalls
<1> QED
  BY <1>1, InvHolds, PTL

\* The table is written only while its page is writable, and the page does not
\* stay writable unless a load failed.
THEOREM PageIsProtected == Spec => PageProtected
<1> DEFINE Guarded == table' # table => writable
           Shut == writable => failed \/ module \in {"loading", "unloading"}
<1>1. Inv => Shut
  BY DEF Inv, Pages
<1>2. ASSUME Inv, [Next]_vars PROVE [Guarded]_vars
  <2>1. CASE replace_slot \/ restore_slot
    BY <1>2, <2>1 DEF Inv, Pages, replace_slot, restore_slot
  <2>2. CASE Next /\ ~replace_slot /\ ~restore_slot
    BY <2>2 DEF Next, Loader, insmod, rmmod, create_socket, acquire_table, save_originals,
         protect, unprotect, reprotect, whitelist_dispose, release, open_socket,
         close_socket, SocketOnly, recv_msg, HandlerRuns, cyclevars, syscall, CallOnly,
         HookRuns, not_hooked, copy_string, lookup, decide, call_original, wake, crash
  <2> QED
    BY <1>2, <2>1, <2>2
<1> HIDE DEF Guarded, Shut
<1>3. Spec => [][Guarded]_vars
  BY <1>2, InvHolds, PTL DEF Spec
<1>4. Spec => []Shut
  BY <1>1, InvHolds, PTL
<1> USE DEF Guarded, Shut
<1> QED
  BY <1>3, <1>4, PTL DEF PageProtected
=============================================================================
