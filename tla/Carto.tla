------------------------------- MODULE Carto -------------------------------
(***************************************************************************)
(* The snapshots of carto (src/carto/src/carto.c): one call of get_users,  *)
(* get_processes, get_files or get_connections, one read of the system at  *)
(* a time, while processes start, exec and exit (and pids are used again), *)
(* descriptors are opened and closed, and logins change.                   *)
(*                                                                         *)
(* Everything outside carto that can be read is represented by where it    *)
(* comes from: `born' stamps what replaces something else with the time it *)
(* appeared, 1 for what was there when the call began.  A field that could *)
(* not be read, which stays 0 or NULL in the code, is Missing.             *)
(***************************************************************************)
EXTENDS CartoArray, Connections, FiniteSets

CONSTANTS MaxPid, MaxFd,
          Self,         \* the process that calls carto
          MaxChanges,   \* bound: changes of the system during the call
          MaxLogins,    \* bound: entries of utmp
          MaxLines,     \* bound: lines of one file of /proc/net
          Views,        \* which directories the caller may open: sets of pids
                        \* and 0, that is /proc
          Addresses4, Addresses6   \* addresses, as digits, to print

VARIABLES
    running,    \* pid -> stamp of the program it runs, 0 if there is none
    files,      \* pid -> descriptor -> stamp of the open file, 0 if closed
    utmp,       \* stamps of the entries of utmp
    view,       \* the directories the caller may open
    time,       \* stamp of the last change
    function,   \* the function of carto.h that is called
    at,         \* where it is
    dir,        \* the directory being listed and what was found in it, or
                \* the file of /proc/net being read
    pids, fds,  \* what is left to visit
    item,       \* the record being filled
    array       \* the result

system == << running, files, utmp, view, time >>
caller == << function, at, dir, pids, fds, item, array >>
vars == << system, caller >>

Pids == 1..MaxPid
Fds == 0..MaxFd
Stamps == 0..(MaxChanges + 1)

ASSUME CartoAssumption == /\ MaxPid \in Nat /\ MaxFd \in Nat /\ Self \in Pids
                          /\ MaxChanges \in Nat /\ MaxLogins \in Nat
                          /\ MaxLines \in Nat /\ Views \subseteq SUBSET (0..MaxPid)
                          /\ Addresses4 \subseteq [1..8 -> 0..(Base - 1)]
                          /\ Addresses6 \subseteq [1..(8 * Words) -> 0..(Base - 1)]

Missing == [pid |-> 0, born |-> 0]
Null == [null |-> TRUE]               \* the last cell of a result
Here(pid) == IF running[pid] = 0 THEN Missing
             ELSE [pid |-> pid, born |-> running[pid]]

-----------------------------------------------------------------------------
(* The system.                                                             *)

Changes == time <= MaxChanges /\ time' = time + 1 /\ UNCHANGED view

fork(pid) == /\ Changes
             /\ running[pid] = 0
             /\ running' = [running EXCEPT ![pid] = time']
             /\ \E inherited \in { {}, Fds } :
                    files' = [files EXCEPT ![pid] =
                                  [fd \in Fds |-> IF fd \in inherited THEN time' ELSE 0]]
             /\ UNCHANGED utmp

exec(pid) == /\ Changes
             /\ running[pid] # 0 /\ pid # Self
             /\ running' = [running EXCEPT ![pid] = time']
             /\ UNCHANGED << files, utmp >>

exit(pid) == /\ Changes
             /\ running[pid] # 0 /\ pid # Self
             /\ running' = [running EXCEPT ![pid] = 0]
             /\ files' = [files EXCEPT ![pid] = [fd \in Fds |-> 0]]
             /\ UNCHANGED utmp

\* open, close, or dup2 over an open descriptor.
open_or_close(pid, fd) ==
    /\ Changes
    /\ running[pid] # 0
    /\ \E stamp \in {0, time'} \ {files[pid][fd]} :
           files' = [files EXCEPT ![pid][fd] = stamp]
    /\ UNCHANGED << running, utmp >>

\* A login or logout adds an entry or overwrites one.
login(entry) == /\ Changes
                /\ entry <= Len(utmp) + 1
                /\ utmp' = IF entry > Len(utmp) THEN Append(utmp, time')
                           ELSE [utmp EXCEPT ![entry] = time']
                /\ UNCHANGED << running, files >>

System == /\ at \notin {"returned", "exited", "crashed"}
          /\ UNCHANGED caller
          /\ \/ function \in {"get_processes", "get_files"} /\ \E pid \in Pids :
                    fork(pid) \/ exec(pid) \/ exit(pid)
             \/ function = "get_files" /\ \E pid \in Pids, fd \in Fds :
                    open_or_close(pid, fd)
             \/ function = "get_users" /\ \E entry \in 1..MaxLogins : login(entry)

-----------------------------------------------------------------------------
(* get_num_dir_contents.                                                   *)

\* Of 0, /proc: the pids, and names that are no number, which atoi makes 0.
\* Of a pid: its descriptors.
Entries(of) == IF of = 0 THEN {0} \cup {pid \in Pids : running[pid] # 0}
               ELSE {fd \in Fds : files[of][fd] # 0}

Idle == [of |-> 0, born |-> 0, last |-> -1, found |-> array_new]

\* What the entry adds to the array: names that give 0 are passed over.
list_entry(found, id) == IF id # 0 THEN array_push(found, id) ELSE found

CanOpen(of) == of \in view \cap ({0} \cup {pid \in Pids : running[pid] # 0})

opendir ==
    /\ at = "opendir"
    /\ \/ /\ CanOpen(dir.of)
          /\ at' = "readdir"
          /\ dir' = [dir EXCEPT !.born = IF dir.of = 0 THEN 0 ELSE running[dir.of]]
          /\ UNCHANGED pids
       \/ \* Without /proc both callers go through a null pointer.
          /\ ~CanOpen(dir.of) /\ dir.of = 0
          /\ at' = "crashed"
          /\ UNCHANGED << dir, pids >>
       \/ /\ ~CanOpen(dir.of) /\ dir.of # 0
          /\ at' = "next" /\ pids' = Tail(pids)
          /\ UNCHANGED dir
    /\ UNCHANGED << function, fds, item, array, system >>

\* A directory of descriptors goes on through an exec and ends with its
\* process: if another program runs, either may have happened.
readdir ==
    /\ at = "readdir"
    /\ LET left == {id \in Entries(dir.of) : id > dir.last}
           same == dir.of = 0 \/ running[dir.of] = dir.born
       IN  \/ /\ left # {}
              /\ LET id == CHOOSE x \in left : \A y \in left : x <= y
                 IN  dir' = [dir EXCEPT !.last = id, !.found = list_entry(@, id)]
              /\ UNCHANGED << function, at, pids, fds, item, array, system >>
           \/ /\ left = {} \/ ~same
              /\ dir' = Idle
              /\ IF dir.of = 0
                 THEN /\ pids' = dir.found.cells /\ UNCHANGED fds
                      /\ at' = "next"
                      /\ array' = IF function = "get_processes"
                                  THEN array_with_capacity(Len(dir.found.cells) + 1)
                                  ELSE array
                 ELSE /\ fds' = dir.found.cells /\ at' = "next_fd"
                      /\ UNCHANGED << pids, array >>
              /\ UNCHANGED << function, item, system >>

-----------------------------------------------------------------------------
(* The calls.                                                              *)

\* The loop over the pids, and the end of it.
next_pid ==
    /\ at = "next"
    /\ IF pids = <<>>
       THEN at' = "last" /\ UNCHANGED << dir, item >>
       ELSE \/ /\ function = "get_processes"
               /\ at' = "uid" /\ UNCHANGED dir
               /\ item' = [pid |-> Head(pids), uid |-> Missing, exe_path |-> Missing,
                           cwd |-> Missing, root |-> Missing, cmdline |-> Missing]
            \/ /\ function = "get_files"
               /\ at' = "opendir" /\ UNCHANGED item
               /\ dir' = [Idle EXCEPT !.of = Head(pids)]
    /\ UNCHANGED << function, pids, fds, array, system >>

\* FAULTY After: the command line comes before the links.
After_cmdline_early == [uid |-> "cmdline", cmdline |-> "exe_path",
                        exe_path |-> "cwd", cwd |-> "root", root |-> "push"]

\* The order in which get_processes reads the fields of one process.  uid
\* stands for all that one stat gives: uid, gid and etime.
After == [uid |-> "exe_path", exe_path |-> "cwd", cwd |-> "root",
          root |-> "cmdline", cmdline |-> "push"]

Links == {"exe_path", "cwd", "root"}

\* FAULTY Attribute: the links of /proc/self.
Attribute_of_self(pid, field) == IF field \in Links THEN Here(Self) ELSE Here(pid)

\* What stat, proc_readlink or the read of cmdline gives.  The links of a
\* process that the caller may not look into cannot be read.
Attribute(pid, field) == IF field \in Links /\ pid \notin view THEN Missing ELSE Here(pid)

read_field ==
    /\ at \in DOMAIN After
    /\ item' = [item EXCEPT ![at] = Attribute(item.pid, at)]
    /\ at' = After[at]
    /\ UNCHANGED << function, dir, pids, fds, array, system >>

\* The loop over the descriptors of one process.
next_fd ==
    /\ at = "next_fd"
    /\ IF fds = <<>> THEN at' = "next" /\ pids' = Tail(pids)
                     ELSE at' = "readlink" /\ UNCHANGED pids
    /\ UNCHANGED << function, dir, fds, item, array, system >>

\* The file behind a descriptor, by its name under /proc.
Opened(pid, fd) == IF files[pid][fd] = 0 THEN Missing
                   ELSE [pid |-> pid, fd |-> fd, born |-> files[pid][fd]]

\* FAULTY advance: the loop goes on without ++j.
advance_not == at' = "next_fd" /\ UNCHANGED fds

\* FAULTY advance: out of the loop, where the code goes on.
advance_break == at' = "next_fd" /\ fds' = <<>>

\* The next turn of the loop over the descriptors.
advance == at' = "next_fd" /\ fds' = Tail(fds)

\* readlink_str: a descriptor without a name is passed over.
readlink ==
    /\ at = "readlink"
    /\ LET path == Opened(Head(pids), Head(fds))
       IN  \/ path = Missing /\ advance /\ UNCHANGED item
          \/ /\ path # Missing
             /\ item' = [path |-> path, pid |-> Head(pids), file_stat |-> Missing]
             /\ at' = "stat" /\ UNCHANGED fds
    /\ UNCHANGED << function, dir, pids, array, system >>

\* FAULTY file_stat: copied even if stat failed and left the last result.
file_stat_unchecked(pid, fd) ==
    IF Opened(pid, fd) = Missing /\ array.cells # <<>>
    THEN array.cells[Len(array.cells)].file_stat
    ELSE Opened(pid, fd)

\* Only what stat found is copied; the fields of the record are 0 otherwise.
file_stat(pid, fd) == Opened(pid, fd)

stat ==
    /\ at = "stat"
    /\ item' = [item EXCEPT !.file_stat = file_stat(Head(pids), Head(fds))]
    /\ at' = "push"
    /\ UNCHANGED << function, dir, pids, fds, array, system >>

push ==
    /\ at = "push"
    /\ array' = array_push(array, item)
    /\ IF function = "get_processes"
       THEN at' = "next" /\ pids' = Tail(pids) /\ UNCHANGED fds
       ELSE advance /\ UNCHANGED pids
    /\ UNCHANGED << function, dir, item, system >>

\* clone_utmp: the entry as it was when getutxent read it.  (ut_addr_v6 is
\* not copied; nothing here looks at it.)
clone_utmp(entry) == [entry |-> entry]

getutxent ==
    /\ at = "getutxent"
    /\ LET next == Len(array.cells) + 1
       IN  IF next <= Len(utmp)
           THEN array' = array_push(array, clone_utmp(utmp[next])) /\ UNCHANGED at
           ELSE at' = "last" /\ UNCHANGED array
    /\ UNCHANGED << function, dir, pids, fds, item, system >>

\* One line of the dir.of-th file of /proc/net, or its end; a file that cannot
\* be opened has no lines.  from and to remember what was printed.
fscanf ==
    /\ at = "fscanf"
    /\ LET source == Sources[dir.of]
           lines  == {i \in DOMAIN array.cells : array.cells[i].source = dir.of}
       IN  \/ /\ Cardinality(lines) < MaxLines
              /\ \E from, to \in IF source.addr_type = "AF_INET" THEN Addresses4
                                                                 ELSE Addresses6 :
                 \E content \in [1..Words -> {0, Byte - 1}] :
                    array' = array_push(array,
                                 [connection |-> connection(source, from, to, content),
                                  source |-> dir.of, from |-> from, to |-> to])
              /\ UNCHANGED << at, dir >>
           \/ /\ IF dir.of = Len(Sources)
                 THEN at' = "last" /\ UNCHANGED dir
                 ELSE dir' = [dir EXCEPT !.of = @ + 1] /\ UNCHANGED at
              /\ UNCHANGED array
    /\ UNCHANGED << function, pids, fds, item, system >>

\* The terminator, and array_as_raw.
last ==
    /\ at = "last"
    /\ array' = array_push(array, Null)
    /\ at' = "returned"
    /\ UNCHANGED << function, dir, pids, fds, item, system >>

\* xmalloc or xcalloc fails where a pid, a record or a path is allocated: the
\* program ends with an error.
xmalloc_fails ==
    /\ \/ at \in {"readdir", "readlink", "getutxent", "fscanf"} \cup DOMAIN After
       \/ at = "next" /\ pids # <<>> /\ function = "get_processes"
    /\ at' = "exited"
    /\ UNCHANGED << function, dir, pids, fds, item, array, system >>

\* A block that should grow does not, and the push goes through the null
\* pointer that xreallocarray returned.
growth_fails ==
    /\ \/ at \in {"push", "getutxent", "fscanf", "last"} /\ Full(array)
       \/ at = "readdir" /\ Full(dir.found)
    /\ at' = "crashed"
    /\ UNCHANGED << function, dir, pids, fds, item, array, system >>

-----------------------------------------------------------------------------
Start == [get_users |-> "getutxent", get_connections |-> "fscanf",
          get_processes |-> "opendir", get_files |-> "opendir"]

Init ==
    /\ function \in DOMAIN Start
    /\ running \in [Pids -> {0, 1}] /\ running[Self] = 1
    /\ files \in [Pids -> [Fds -> {0, 1}]]
    /\ \A pid \in Pids : running[pid] = 0 => files[pid] = [fd \in Fds |-> 0]
    /\ function # "get_files" => \A pid \in Pids : files[pid] = [fd \in Fds |-> 0]
    /\ function \in {"get_users", "get_connections"} =>
           \A pid \in Pids \ {Self} : running[pid] = 0
    /\ utmp \in {<<>>} \cup (IF function = "get_users"
                             THEN {[i \in 1..n |-> 1] : n \in 1..MaxLogins} ELSE {})
    /\ view \in Views
    /\ time = 1
    /\ at = Start[function]
    /\ dir = IF function = "get_connections" THEN [Idle EXCEPT !.of = 1] ELSE Idle
    /\ pids = <<>> /\ fds = <<>>
    /\ item = Null
    /\ array = array_new

Caller ==
    \/ opendir \/ readdir \/ next_pid \/ read_field \/ next_fd \/ readlink
    \/ stat \/ push \/ getutxent \/ fscanf \/ last
    \/ xmalloc_fails \/ growth_fails

\* The call has ended, one way or another.
Ended == at \in {"returned", "exited", "crashed"} /\ UNCHANGED vars

Next == Caller \/ System \/ Ended

\* The calling thread keeps running.
Spec == Init /\ [][Next]_vars /\ WF_vars(Caller)

-----------------------------------------------------------------------------
(* Properties.                                                             *)

Result == array_as_raw(array)
Records == {i \in DOMAIN Result : Result[i] # Null}

\* The arrays stay within their blocks, whatever is pushed; the one that
\* get_processes sizes beforehand never has to grow; and a result ends with
\* its only NULL.
CartoTypeOK ==
    /\ running \in [Pids -> Stamps] /\ files \in [Pids -> [Fds -> Stamps]]
    /\ \A i \in DOMAIN pids : pids[i] \in Pids
    /\ \A i \in DOMAIN fds : fds[i] \in Fds
    /\ Fits(array) /\ Fits(dir.found)
    /\ function = "get_processes" /\ at \in DOMAIN After \cup {"next", "push", "last"}
           => Len(array.cells) + Len(pids) < array.capacity
    /\ at = "returned" =>
           Records = 1..(Len(Result) - 1) /\ Result[Len(Result)] = Null

\* Every program that runs during the whole call of get_processes is reported
\* once, with fields that are all its own (links only if the caller may read
\* them), and the records are in the order of the pids, without repetition.
ProcessesReported ==
    at = "returned" /\ function = "get_processes" =>
        /\ \A i, j \in Records : i < j => Result[i].pid < Result[j].pid
        /\ \A pid \in Pids : running[pid] = 1 =>
               \E i \in Records :
                   /\ Result[i].pid = pid
                   /\ \A field \in DOMAIN After :
                          IF field \in Links /\ pid \notin view
                          THEN Result[i][field] = Missing
                          ELSE Result[i][field] = Here(pid)

\* Fields of one record may come from different programs, but a field comes
\* from a program that had the pid, the record takes root's uid (its field
\* was left 0) only from a process that went away, and if what was read first
\* and what was read last come from one program then so does all between.
RecordsHonest ==
    at = "returned" /\ function = "get_processes" =>
        \A i \in Records :
            LET record == Result[i]
                read == {field \in DOMAIN After : record[field] # Missing}
            IN  /\ \A field \in read : record[field].pid = record.pid
                /\ "uid" \notin read => running[record.pid] # 1
                /\ "uid" \in read /\ record.uid = record.cmdline =>
                       \A field \in read : record[field] = record.uid

\* Every descriptor but 0 that stays open during the whole call of get_files,
\* in a process the caller may look into, is reported once, with the name and
\* the attributes of its file.
FilesReported ==
    at = "returned" /\ function = "get_files" =>
        \A pid \in view \ {0}, fd \in Fds \ {0} :
            running[pid] = 1 /\ files[pid][fd] = 1 =>
                Cardinality({i \in Records :
                    Result[i] = [pid |-> pid, path |-> Opened(pid, fd),
                                 file_stat |-> Opened(pid, fd)]}) = 1

\* A descriptor may be opened again between the two reads: the name is then
\* of the older file, never of a later one, and of the process and descriptor
\* the record names.
FilesHonest ==
    at = "returned" /\ function = "get_files" =>
        \A i \in Records :
            LET file == Result[i]
            IN  /\ file.path.pid = file.pid
                /\ file.file_stat # Missing =>
                       /\ file.file_stat.pid = file.pid
                       /\ file.file_stat.fd = file.path.fd
                       /\ file.path.born <= file.file_stat.born

\* An address is what the kernel printed, in the family and the protocol of
\* its file, whatever the block of the record held before; and an entry of
\* utmp that does not change is reported at its place.
EntriesReported ==
    /\ function = "get_connections" => \A i \in Records :
           LET entry == Result[i]
           IN  entry.connection = [prot |-> Sources[entry.source].prot,
                                   addr_type |-> Sources[entry.source].addr_type,
                                   s_addr |-> Printed(entry.from),
                                   d_addr |-> Printed(entry.to)]
    /\ function = "get_users" /\ at = "returned" => \A i \in DOMAIN utmp :
           utmp[i] = 1 => i \in Records /\ Result[i].entry = 1

\* Every call ends, however the system changes meanwhile.
SnapshotEnds == <>(at \in {"returned", "exited", "crashed"})

\* carto.h: get_files returns the "active file descriptors".
AllDescriptorsReported ==
    at = "returned" /\ function = "get_files" =>
        \A pid \in view \ {0}, fd \in Fds :
            running[pid] = 1 /\ files[pid][fd] = 1 =>
                \E i \in Records : Result[i].path = Opened(pid, fd)
=============================================================================
