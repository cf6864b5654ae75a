---------------------------- MODULE CartoProofs -----------------------------
(***************************************************************************)
(* The safety of the snapshots of carto, for every number of processes,    *)
(* descriptors, changes, logins and lines, and for every capacity.         *)
(*                                                                         *)
(* Inv has one part for what the calls share (Shape: the types, where each *)
(* call may be, the arrays and the directory being listed) and one for     *)
(* each call.  Two ideas carry the calls.  What has stamp 1 never changed, *)
(* and what changes once never gets stamp 1 back: so whatever has it at    *)
(* the end had it at every read.  And pids and descriptors are listed and  *)
(* visited in increasing order: so what is left to visit, the record being *)
(* filled and the records of the result divide them.                       *)
(***************************************************************************)
EXTENDS Carto, TLAPS, FiniteSetTheorems

Done == {"returned", "exited", "crashed"}
Failed == at \in {"exited", "crashed"}
Fields == DOMAIN After

\* The records of the result; the terminator is not one of them.
Count == IF at = "returned" THEN Len(array.cells) - 1 ELSE Len(array.cells)
Cell(i) == array.cells[i]

Increasing(s) == \A i, j \in DOMAIN s : i < j => s[i] < s[j]
Among(x, s) == \E i \in DOMAIN s : s[i] = x

\* What did not change since the call began.
Stable(pid) == running[pid] = 1
StableFd(pid, fd) == running[pid] = 1 /\ files[pid][fd] = 1

-----------------------------------------------------------------------------
(* What the calls share.                                                   *)

Types ==
  /\ function \in DOMAIN Start
  /\ time \in Nat /\ 1 <= time /\ time <= MaxChanges + 1
  /\ running \in [Pids -> 0..time] /\ files \in [Pids -> [Fds -> 0..time]]
  /\ utmp \in Seq(Nat) /\ view \subseteq 0..MaxPid
  /\ dir \in [of : Nat, born : Nat, last : Int,
              found : [cells : Seq(Nat), capacity : Nat \ {0}]]
  /\ pids \in Seq(Pids) /\ fds \in Seq(Fds \ {0})
  /\ Increasing(pids) /\ Increasing(fds)

Places ==
  /\ function = "get_users" => at \in {"getutxent", "last"} \cup Done
  /\ function = "get_connections" => at \in {"fscanf", "last"} \cup Done
  /\ function = "get_processes" =>
       at \in {"opendir", "readdir", "next", "push", "last"} \cup Fields \cup Done
  /\ function = "get_files" =>
       at \in {"opendir", "readdir", "next", "next_fd", "readlink", "stat", "push", "last"}
                \cup Done
  /\ at \in Fields \cup {"push", "next_fd", "readlink", "stat"} => pids # <<>>
  /\ at \in {"readlink", "stat"} \/ (at = "push" /\ function = "get_files") => fds # <<>>
  /\ at \in {"last", "returned"} \/ function \in {"get_users", "get_connections"}
       => pids = <<>>

Blocks ==
  /\ \E S : array.cells \in Seq(S)
  /\ array.capacity \in Nat \ {0}
  /\ Fits(array) /\ Fits(dir.found)
  /\ function = "get_processes" /\ at \in Fields \cup {"next", "push", "last"}
       => Len(array.cells) + Len(pids) < array.capacity
  /\ \A i \in 1..Count : Cell(i) # Null
  /\ at = "returned" => array.cells # <<>> /\ Cell(Len(array.cells)) = Null
  /\ at = "push" => item # Null

\* The directory that is opened or listed: /proc, or the first of the pids.
Listing ==
  /\ at \in {"opendir", "readdir"} /\ dir.of = 0 => pids = <<>> /\ array.cells = <<>>
  /\ at \in {"opendir", "readdir"} /\ dir.of # 0 =>
       function = "get_files" /\ pids # <<>> /\ dir.of = Head(pids)
  /\ at = "opendir" => dir = [Idle EXCEPT !.of = dir.of]
  /\ at = "readdir" =>
       LET found == dir.found.cells
       IN  /\ Increasing(found)
           /\ \A i \in DOMAIN found : found[i] <= dir.last
           /\ \A i \in DOMAIN found : found[i] \in IF dir.of = 0 THEN Pids ELSE Fds \ {0}
           /\ dir.of = 0 =>
                \A pid \in Pids : Stable(pid) /\ pid <= dir.last => Among(pid, found)
           /\ dir.of # 0 /\ Stable(dir.of) =>
                /\ dir.born = 1
                /\ \A fd \in Fds \ {0} :
                     StableFd(dir.of, fd) /\ fd <= dir.last => Among(fd, found)

Shape == Types /\ Places /\ Blocks /\ Listing

-----------------------------------------------------------------------------
(* get_processes.                                                          *)

ProcessRecord ==
  [pid : Pids, uid : [pid : Nat, born : Nat], exe_path : [pid : Nat, born : Nat],
   cwd : [pid : Nat, born : Nat], root : [pid : Nat, born : Nat],
   cmdline : [pid : Nat, born : Nat]]

\* The fields read before the caller came to a place of the loop.
ReadBefore ==
  [uid |-> {}, exe_path |-> {"uid"}, cwd |-> {"uid", "exe_path"},
   root |-> {"uid", "exe_path", "cwd"}, cmdline |-> {"uid", "exe_path", "cwd", "root"},
   push |-> Fields]

\* A field is Missing or of a program that had the pid, until now.
Own(record, now) ==
  \A field \in Fields :
    record[field] # Missing =>
      record[field].pid = record.pid /\ record[field].born \in 1..now

\* Of a program that still runs, the fields that were read are there: those that
\* the caller may see.
Complete(record, read, running_now, seen) ==
  running_now[record.pid] = 1 =>
    \A field \in read :
      record[field] = IF field \in Links /\ record.pid \notin seen
                      THEN Missing ELSE [pid |-> record.pid, born |-> 1]

OneProgram(record) == \A field \in Fields : record[field] \in {Missing, record.uid}

\* As long as the first program read is there, nothing else was read.
Steady(record, running_now) ==
  record.uid # Missing /\ running_now[record.pid] = record.uid.born => OneProgram(record)

Together(record) ==
  record.uid # Missing /\ record.uid = record.cmdline => OneProgram(record)

ProcessInv ==
  function = "get_processes" /\ ~Failed =>
    /\ \A i \in 1..Count :
         /\ Cell(i) \in ProcessRecord
         /\ Own(Cell(i), time) /\ Complete(Cell(i), Fields, running, view)
         /\ Together(Cell(i))
         /\ \A j \in 1..Count : i < j => Cell(i).pid < Cell(j).pid
         /\ \A k \in DOMAIN pids : Cell(i).pid < pids[k]
    /\ at \in Fields \cup {"next", "push", "last", "returned"} =>
         \A pid \in Pids : Stable(pid) =>
           Among(pid, pids) \/ \E i \in 1..Count : Cell(i).pid = pid
    /\ at \in DOMAIN ReadBefore =>
         /\ item \in ProcessRecord /\ item.pid = Head(pids)
         /\ Own(item, time) /\ Complete(item, ReadBefore[at], running, view)
         /\ Steady(item, running)
         /\ at = "uid" => \A field \in Fields : item[field] = Missing
         /\ at = "push" => Together(item)

-----------------------------------------------------------------------------
(* get_files.                                                              *)

Path == [pid : Pids, fd : Fds, born : Nat]
FileRecord == [pid : Pids, path : Path, file_stat : Path \cup {Missing}]

\* The order in which get_files visits descriptors.
Before(pid, fd, p, f) == pid < p \/ (pid = p /\ fd < f)

\* Inside the loop over the descriptors of the first of the pids.
InPid == at \in {"next_fd", "readlink", "stat", "push"}

\* What is named and what is described are one descriptor, in this order.
HonestFile(file, now) ==
  /\ file.path.pid = file.pid /\ file.path.born \in 1..now
  /\ file.file_stat # Missing =>
       /\ file.file_stat.pid = file.pid /\ file.file_stat.fd = file.path.fd
       /\ file.path.born <= file.file_stat.born

\* The file that was open when the call began, and the record of it.
First(pid, fd) == [pid |-> pid, fd |-> fd, born |-> 1]
Whole(file, pid, fd) ==
  file = [pid |-> pid, path |-> First(pid, fd), file_stat |-> First(pid, fd)]

\* The records: each is honest, and they are behind what is left to visit.
FileCells ==
  /\ \A i \in 1..Count :
       /\ Cell(i) \in FileRecord /\ HonestFile(Cell(i), time)
       /\ \A j \in 1..Count : i < j =>
            Before(Cell(i).pid, Cell(i).path.fd, Cell(j).pid, Cell(j).path.fd)
       /\ \A k \in DOMAIN pids : IF InPid /\ k = 1 THEN Cell(i).pid <= pids[k]
                                                   ELSE Cell(i).pid < pids[k]
       /\ InPid /\ Cell(i).pid = Head(pids) =>
            \A k \in DOMAIN fds : Cell(i).path.fd < fds[k]

\* What was open all the time is left to visit or among the records.
FileCovered ==
  \A pid \in view \ {0}, fd \in Fds \ {0} : StableFd(pid, fd) =>
    \/ \E k \in DOMAIN pids : pids[k] = pid /\ (InPid => k # 1)
    \/ InPid /\ pid = Head(pids) /\ Among(fd, fds)
    \/ \E i \in 1..Count : Whole(Cell(i), pid, fd)

\* The record being filled.
FileItem ==
  /\ item \in FileRecord /\ HonestFile(item, time)
  /\ item.pid = Head(pids) /\ item.path.fd = Head(fds)
  /\ files[Head(pids)][Head(fds)] \in {0} \cup item.path.born..time
  /\ StableFd(Head(pids), Head(fds)) => item.path = First(Head(pids), Head(fds))
  /\ at = "stat" => item.file_stat = Missing
  /\ at = "push" /\ StableFd(Head(pids), Head(fds)) => Whole(item, Head(pids), Head(fds))

FileInv ==
  function = "get_files" /\ ~Failed =>
    /\ FileCells
    /\ pids # <<>> \/ at \in {"next", "last", "returned"} => FileCovered
    /\ at \in {"stat", "push"} => FileItem

-----------------------------------------------------------------------------
(* get_users and get_connections.                                          *)

UserInv ==
  function = "get_users" /\ ~Failed =>
    /\ Count <= Len(utmp)
    /\ \A i \in 1..Count : utmp[i] = 1 => Cell(i) = clone_utmp(1)
    /\ at \in {"last", "returned"} =>
         \A i \in DOMAIN utmp : utmp[i] = 1 => i <= Count

\* The connection that a line describes.
AsPrinted(entry) ==
  entry.connection = [prot |-> Sources[entry.source].prot,
                      addr_type |-> Sources[entry.source].addr_type,
                      s_addr |-> Printed(entry.from), d_addr |-> Printed(entry.to)]

ConnectionInv ==
  function = "get_connections" =>
    /\ dir.of \in DOMAIN Sources
    /\ \A i \in 1..Count : AsPrinted(Cell(i))

Inv == Shape /\ ProcessInv /\ FileInv /\ UserInv /\ ConnectionInv

-----------------------------------------------------------------------------
(* Sequences that are visited from the head, and arrays that are pushed on. *)

LEMMA HeadTail ==
  ASSUME NEW S, NEW s \in Seq(S), s # <<>>
  PROVE  /\ Head(s) \in S /\ Head(s) = s[1] /\ 1 \in DOMAIN s
         /\ Tail(s) \in Seq(S) /\ Len(Tail(s)) = Len(s) - 1
         /\ \A i \in DOMAIN Tail(s) : i + 1 \in DOMAIN s /\ Tail(s)[i] = s[i + 1]
         /\ \A i \in DOMAIN s \ {1} : i - 1 \in DOMAIN Tail(s) /\ Tail(s)[i - 1] = s[i]
OBVIOUS

\* What is left behind the head.
LEMMA TailIncreases ==
  ASSUME NEW S, S \subseteq Int, NEW s \in Seq(S), s # <<>>, Increasing(s)
  PROVE  /\ Increasing(Tail(s))
         /\ \A x : Among(x, s) <=> x = Head(s) \/ Among(x, Tail(s))
         /\ \A i \in DOMAIN Tail(s) : Head(s) < Tail(s)[i]
<1>1. Increasing(Tail(s)) /\ \A i \in DOMAIN Tail(s) : Head(s) < Tail(s)[i]
  BY HeadTail DEF Increasing
<1>2. ASSUME NEW x, Among(x, s) PROVE x = Head(s) \/ Among(x, Tail(s))
  <2>1. PICK i \in DOMAIN s : s[i] = x
    BY <1>2 DEF Among
  <2>2. CASE i = 1
    BY <2>1, <2>2, HeadTail
  <2>3. CASE i # 1
    <3>1. i - 1 \in DOMAIN Tail(s) /\ Tail(s)[i - 1] = x
      BY <2>1, <2>3, HeadTail
    <3> QED
      BY <3>1 DEF Among
  <2> QED
    BY <2>2, <2>3
<1>3. ASSUME NEW x, x = Head(s) \/ Among(x, Tail(s)) PROVE Among(x, s)
  <2>1. CASE x = Head(s)
    BY <2>1, HeadTail DEF Among
  <2>2. CASE Among(x, Tail(s))
    <3>1. PICK i \in DOMAIN Tail(s) : Tail(s)[i] = x
      BY <2>2 DEF Among
    <3>2. i + 1 \in DOMAIN s /\ s[i + 1] = x
      BY <3>1, HeadTail
    <3> QED
      BY <3>2 DEF Among
  <2> QED
    BY <1>3, <2>1, <2>2
<1> QED
  BY <1>1, <1>2, <1>3

LEMMA Appended ==
  ASSUME NEW S, NEW s \in Seq(S), NEW e
  PROVE  /\ Append(s, e) \in Seq(S \cup {e})
         /\ Len(Append(s, e)) = Len(s) + 1 /\ Len(s) \in Nat
         /\ \A i \in 1..Len(s) : Append(s, e)[i] = s[i]
         /\ Append(s, e)[Len(s) + 1] = e
         /\ Append(s, e) # <<>>
<1>1. s \in Seq(S \cup {e}) /\ e \in S \cup {e}
  OBVIOUS
<1>2. /\ Append(s, e) \in Seq(S \cup {e})
      /\ Len(Append(s, e)) = Len(s) + 1 /\ Len(s) \in Nat
  BY <1>1
<1>3. Append(s, e) # <<>>
  BY <1>2
<1>4. /\ \A i \in 1..Len(s) : Append(s, e)[i] = s[i]
      /\ Append(s, e)[Len(s) + 1] = e
  BY <1>1
<1> QED
  BY <1>2, <1>3, <1>4

\* A push stays in the block, and reallocates it only if it is full.
LEMMA PushFits ==
  ASSUME NEW S, NEW a, a.cells \in Seq(S), a.capacity \in Nat \ {0}, Fits(a), NEW e
  PROVE  /\ array_push(a, e).cells = Append(a.cells, e)
         /\ array_push(a, e) \in [cells : Seq(S \cup {e}), capacity : Nat \ {0}]
         /\ Fits(array_push(a, e))
         /\ ~Full(a) => array_push(a, e).capacity = a.capacity
<1> DEFINE capacity == IF Full(a) THEN 2 * a.capacity ELSE a.capacity
           cells == Append(a.cells, e)
<1>1. cells \in Seq(S \cup {e}) /\ Len(cells) = Len(a.cells) + 1 /\ Len(a.cells) \in Nat
  BY Appended
<1>2. /\ capacity \in Nat \ {0} /\ Len(cells) <= capacity
      /\ ~Full(a) => capacity = a.capacity
  BY <1>1 DEF Full, Fits
<1>3. array_push(a, e) = [cells |-> cells, capacity |-> capacity]
  BY DEF array_push
<1> HIDE DEF cells, capacity
<1>4. Fits(array_push(a, e))
  BY <1>2, <1>3 DEF Fits
<1> QED
  BY <1>1, <1>2, <1>3, <1>4 DEF cells

-----------------------------------------------------------------------------
(* What a change of the system may do.                                     *)

LEMMA StampsFacts ==
  /\ Pids \subseteq Nat /\ 0 \notin Pids /\ Fds \subseteq Nat /\ Self \in Pids
  /\ MaxChanges \in Nat
BY CartoAssumption DEF Pids, Fds

LEMMA SystemSteps ==
  ASSUME Types, System
  PROVE  /\ time' = time + 1 /\ time <= MaxChanges /\ view' = view /\ UNCHANGED caller
         /\ running' \in [Pids -> 0..time'] /\ files' \in [Pids -> [Fds -> 0..time']]
         /\ utmp' \in Seq(Nat) /\ Len(utmp) <= Len(utmp')
         /\ \A pid \in Pids : running'[pid] \in {running[pid], 0, time'}
         /\ \A pid \in Pids, fd \in Fds : files'[pid][fd] \in {files[pid][fd], 0, time'}
         /\ \A i \in DOMAIN utmp' :
              (i \in DOMAIN utmp /\ utmp'[i] = utmp[i]) \/ utmp'[i] = time'
<1>1. UNCHANGED caller
  BY DEF System
<1>2. /\ time' = time + 1 /\ time <= MaxChanges /\ view' = view
  BY DEF System, fork, exec, exit, open_or_close, login, Changes
<1>3. /\ time \in Nat /\ running \in [Pids -> 0..time] /\ files \in [Pids -> [Fds -> 0..time]]
      /\ utmp \in Seq(Nat)
  BY DEF Types
<1>4. /\ running \in [Pids -> 0..time'] /\ files \in [Pids -> [Fds -> 0..time']]
      /\ time' \in 0..time' /\ 0 \in 0..time'
  <2>1. 0..time \subseteq 0..time' /\ time' \in 0..time' /\ 0 \in 0..time'
    BY <1>2, <1>3
  <2> HIDE DEF Types
  <2> QED
    BY <1>3, <2>1
<1>5. ASSUME NEW pid \in Pids, fork(pid) \/ exec(pid) \/ exit(pid)
      PROVE  /\ utmp' = utmp /\ running' \in [Pids -> 0..time']
             /\ \A p \in Pids : running'[p] \in {running[p], 0, time'}
  <2>1. utmp' = utmp /\ \E stamp \in {0, time'} : running' = [running EXCEPT ![pid] = stamp]
    BY <1>5 DEF fork, exec, exit
  <2> QED
    BY <1>4, <2>1
<1>6. ASSUME NEW pid \in Pids, fork(pid) \/ exec(pid) \/ exit(pid)
      PROVE  /\ files' \in [Pids -> [Fds -> 0..time']]
             /\ \A p \in Pids, fd \in Fds : files'[p][fd] \in {files[p][fd], 0, time'}
  <2>1. files' = files \/ \E new \in [Fds -> {0, time'}] : files' = [files EXCEPT ![pid] = new]
    <3>1. CASE fork(pid)
      <4>1. PICK F : files' = [files EXCEPT ![pid] = [fd \in Fds |-> IF fd \in F THEN time' ELSE 0]]
        BY <3>1 DEF fork
      <4> DEFINE new == [fd \in Fds |-> IF fd \in F THEN time' ELSE 0]
      <4>2. new \in [Fds -> {0, time'}] /\ files' = [files EXCEPT ![pid] = new]
        BY <4>1
      <4> HIDE DEF new
      <4> QED
        BY <4>2
    <3>2. CASE exec(pid)
      BY <3>2 DEF exec
    <3>3. CASE exit(pid)
      <4> DEFINE new == [fd \in Fds |-> 0]
      <4>1. new \in [Fds -> {0, time'}] /\ files' = [files EXCEPT ![pid] = new]
        BY <3>3 DEF exit
      <4> HIDE DEF new
      <4> QED
        BY <4>1
    <3> QED
      BY <1>6, <3>1, <3>2, <3>3
  <2>2. CASE files' = files
    BY <1>4, <2>2
  <2>3. ASSUME NEW new \in [Fds -> {0, time'}], files' = [files EXCEPT ![pid] = new]
        PROVE  /\ files' \in [Pids -> [Fds -> 0..time']]
               /\ \A p \in Pids, fd \in Fds : files'[p][fd] \in {files[p][fd], 0, time'}
    <3>1. new \in [Fds -> 0..time'] /\ \A fd \in Fds : new[fd] \in {0, time'}
      BY <1>4
    <3> QED
      BY <1>4, <2>3, <3>1
  <2> QED
    BY <2>1, <2>2, <2>3
<1>7. ASSUME NEW pid \in Pids, NEW fd \in Fds, open_or_close(pid, fd)
      PROVE  /\ utmp' = utmp /\ running' = running
             /\ files' \in [Pids -> [Fds -> 0..time']]
             /\ \A p \in Pids, f \in Fds : files'[p][f] \in {files[p][f], 0, time'}
  <2>1. PICK stamp \in {0, time'} : files' = [files EXCEPT ![pid][fd] = stamp]
    BY <1>7 DEF open_or_close
  <2>2. utmp' = utmp /\ running' = running
    BY <1>7 DEF open_or_close
  <2> DEFINE new == [files[pid] EXCEPT ![fd] = stamp]
  <2>3. /\ new \in [Fds -> 0..time']
        /\ \A f \in Fds : new[f] \in {files[pid][f], 0, time'}
    BY <1>4, <2>1
  <2>4. files' = [files EXCEPT ![pid] = new]
    BY <2>1
  <2> HIDE DEF new
  <2> QED
    BY <1>4, <2>2, <2>3, <2>4
<1>8. ASSUME NEW entry \in 1..MaxLogins, login(entry)
      PROVE  /\ running' = running /\ files' = files /\ utmp' \in Seq(Nat)
             /\ Len(utmp) <= Len(utmp')
             /\ \A i \in DOMAIN utmp' :
                  (i \in DOMAIN utmp /\ utmp'[i] = utmp[i]) \/ utmp'[i] = time'
  <2>1. running' = running /\ files' = files /\ entry <= Len(utmp) + 1 /\ entry \in Nat
    BY <1>8 DEF login
  <2>2. time' \in Nat
    BY <1>2, <1>3
  <2>3. CASE utmp' = Append(utmp, time')
    BY <1>3, <2>1, <2>2, <2>3
  <2>4. CASE entry <= Len(utmp) /\ utmp' = [utmp EXCEPT ![entry] = time']
    BY <1>3, <2>1, <2>2, <2>4
  <2> QED
    BY <1>3, <1>8, <2>1, <2>3, <2>4 DEF login
<1>9. \/ \E pid \in Pids : fork(pid) \/ exec(pid) \/ exit(pid)
      \/ \E pid \in Pids, fd \in Fds : open_or_close(pid, fd)
      \/ \E entry \in 1..MaxLogins : login(entry)
  BY DEF System
<1>10. ASSUME utmp' = utmp
       PROVE  /\ utmp' \in Seq(Nat) /\ Len(utmp) <= Len(utmp')
              /\ \A i \in DOMAIN utmp' :
                   (i \in DOMAIN utmp /\ utmp'[i] = utmp[i]) \/ utmp'[i] = time'
  BY <1>3, <1>10
<1> QED
  BY <1>1, <1>2, <1>3, <1>4, <1>5, <1>6, <1>7, <1>8, <1>9, <1>10

LEMMA StableBack ==
  ASSUME Types, System
  PROVE  /\ \A pid \in Pids : Stable(pid)' => Stable(pid)
         /\ \A pid \in Pids, fd \in Fds : StableFd(pid, fd)' => StableFd(pid, fd)
<1>1. time' # 1
  BY SystemSteps DEF Types
<1>2. \A pid \in Pids : Stable(pid)' => Stable(pid)
  BY <1>1, SystemSteps DEF Stable
<1>3. \A pid \in Pids, fd \in Fds : StableFd(pid, fd)' => StableFd(pid, fd)
  BY <1>1, SystemSteps DEF StableFd
<1> QED
  BY <1>2, <1>3

-----------------------------------------------------------------------------
(* What the calls share is kept.                                           *)

LEMMA EmptyBlock ==
  /\ array_new.cells = <<>> /\ array_new.capacity \in Nat \ {0} /\ Fits(array_new)
  /\ array_new \in [cells : Seq(Nat), capacity : Nat \ {0}]
  /\ Idle \in [of : Nat, born : Nat, last : Int,
               found : [cells : Seq(Nat), capacity : Nat \ {0}]]
  /\ Idle.of = 0 /\ Idle.found = array_new /\ Idle.last = -1
<1>1. array_new = [cells |-> <<>>, capacity |-> ARRAY_DEFAULT_CAPACITY]
  BY DEF array_new, array_with_capacity
<1>2. array_new \in [cells : Seq(Nat), capacity : Nat \ {0}]
  BY <1>1, CapacityAssumption
<1>3. Fits(array_new)
  BY <1>1, CapacityAssumption DEF Fits
<1> QED
  BY <1>1, <1>2, <1>3, CapacityAssumption DEF Idle

LEMMA ShapeInit == Init => Shape
<1> SUFFICES ASSUME Init PROVE Shape
  OBVIOUS
<1>1. /\ at = Start[function] /\ pids = <<>> /\ fds = <<>> /\ array = array_new
      /\ dir = IF function = "get_connections" THEN [Idle EXCEPT !.of = 1] ELSE Idle
      /\ function \in {"get_users", "get_connections", "get_processes", "get_files"}
      /\ time = 1
  BY DEF Init, Start
<1>2. /\ at \in {"getutxent", "fscanf", "opendir"}
      /\ at = "opendir" => function # "get_connections"
      /\ function = "get_users" => at = "getutxent"
      /\ function = "get_connections" => at = "fscanf"
      /\ function \in {"get_processes", "get_files"} => at = "opendir"
  BY <1>1 DEF Start
<1>3. Types
  <2>1. running \in [Pids -> 0..1] /\ files \in [Pids -> [Fds -> 0..1]]
    <3>1. {0, 1} \subseteq 0..1
      OBVIOUS
    <3>2. running \in [Pids -> {0, 1}] /\ files \in [Pids -> [Fds -> {0, 1}]]
      BY DEF Init
    <3> QED
      BY <3>1, <3>2
  <2>2. utmp \in Seq(Nat)
    <3> DEFINE Logins(n) == [i \in 1..n |-> 1]
    <3>1. \A n \in Nat : Logins(n) \in Seq(Nat)
      OBVIOUS
    <3>2. utmp \in {<<>>} \cup (IF function = "get_users"
                               THEN {Logins(n) : n \in 1..MaxLogins} ELSE {})
      BY Zenon DEF Init, Logins
    <3> HIDE DEF Logins
    <3>3. 1..MaxLogins \subseteq Nat /\ <<>> \in Seq(Nat)
      OBVIOUS
    <3> QED
      BY <3>1, <3>2, <3>3
  <2>3. view \subseteq 0..MaxPid
    BY CartoAssumption DEF Init
  <2>4. dir \in [of : Nat, born : Nat, last : Int,
                 found : [cells : Seq(Nat), capacity : Nat \ {0}]]
    BY <1>1, EmptyBlock
  <2>5. pids \in Seq(Pids) /\ fds \in Seq(Fds \ {0}) /\ Increasing(pids) /\ Increasing(fds)
    BY <1>1 DEF Increasing
  <2> QED
    BY <1>1, <2>1, <2>2, <2>3, <2>4, <2>5, StampsFacts DEF Types, Init
<1>4. Places
  BY <1>1, <1>2 DEF Places, Fields, After
<1>5. Blocks
  <2>1. Fits(array) /\ Fits(dir.found) /\ array.capacity \in Nat \ {0}
    BY <1>1, EmptyBlock DEF Idle
  <2>2. array.cells \in Seq({}) /\ Len(array.cells) = 0
    BY <1>1, EmptyBlock
  <2> QED
    BY <1>2, <2>1, <2>2 DEF Blocks, Count, Fields, After
<1>6. Listing
  BY <1>1, <1>2, EmptyBlock DEF Listing, Idle
<1> QED
  BY <1>3, <1>4, <1>5, <1>6 DEF Shape

LEMMA SystemShape ==
  ASSUME Shape, System
  PROVE  Shape'
<1>1. UNCHANGED <<function, at, dir, pids, fds, item, array>>
  BY SystemSteps DEF Shape, caller
<1>2. Types'
  <2>1. /\ function \in DOMAIN Start /\ time \in Nat /\ 1 <= time
        /\ view \subseteq 0..MaxPid
        /\ dir \in [of : Nat, born : Nat, last : Int,
                   found : [cells : Seq(Nat), capacity : Nat \ {0}]]
        /\ pids \in Seq(Pids) /\ fds \in Seq(Fds \ {0})
        /\ Increasing(pids) /\ Increasing(fds)
    BY DEF Shape, Types
  <2>2. time' \in Nat /\ 1 <= time' /\ time' <= MaxChanges + 1
    BY <2>1, SystemSteps, StampsFacts DEF Shape
  <2>3. /\ running' \in [Pids -> 0..time'] /\ files' \in [Pids -> [Fds -> 0..time']]
        /\ utmp' \in Seq(Nat) /\ view' = view
    BY SystemSteps DEF Shape
  <2>4. Increasing(pids)' /\ Increasing(fds)'
    BY <1>1, <2>1 DEF Increasing
  <2> QED
    BY <1>1, <2>1, <2>2, <2>3, <2>4 DEF Types
<1>3. Places' /\ Blocks'
  BY <1>1 DEF Shape, Places, Blocks, Count, Cell, Failed, Fits
<1>4. Listing'
  <2>1. /\ \A pid \in Pids : Stable(pid)' => Stable(pid)
        /\ \A pid \in Pids, fd \in Fds : StableFd(pid, fd)' => StableFd(pid, fd)
    BY StableBack DEF Shape
  <2>2. at \in {"opendir", "readdir"} /\ dir.of # 0 => dir.of \in Pids
    <3>1. pids \in Seq(Pids)
      BY DEF Shape, Types
    <3>2. pids # <<>> => Head(pids) \in Pids
      BY <3>1, HeadTail
    <3> QED
      BY <3>2 DEF Shape, Listing
  <2>3. Stable(dir.of)' => running'[dir.of] = 1
    BY <1>1 DEF Stable
  <2>4. at = "readdir" /\ dir.of # 0 /\ Stable(dir.of)' =>
          /\ Stable(dir.of)
          /\ \A fd \in Fds \ {0} : StableFd(dir.of, fd)' => StableFd(dir.of, fd)
    <3>1. \A fd : StableFd(dir.of, fd)' => running'[dir.of] = 1 /\ files'[dir.of][fd] = 1
      BY <1>1 DEF StableFd
    <3> QED
      BY <2>1, <2>2, <2>3, <3>1 DEF Stable, StableFd
  <2> QED
    BY <1>1, <2>1, <2>4 DEF Shape, Listing, Increasing, Among
<1> QED
  BY <1>2, <1>3, <1>4 DEF Shape

LEMMA FailShape ==
  ASSUME Shape, xmalloc_fails \/ growth_fails
  PROVE  Shape'
<1>1. /\ at' \in {"exited", "crashed"} /\ at # "returned"
      /\ UNCHANGED <<function, dir, pids, fds, item, array, system>>
  BY DEF xmalloc_fails, growth_fails, After
<1>2. Types' /\ Places' /\ Listing'
  BY <1>1 DEF Shape, Types, Places, Listing, Done, Fields, After, Increasing, system
<1>3. Blocks'
  BY <1>1 DEF Shape, Blocks, Count, Cell, Fits, Fields, After
<1> QED
  BY <1>2, <1>3 DEF Shape

\* There is a least id to go on with: the intervals below two ids are ordered by
\* inclusion, and inclusion of finite sets is well-founded.
LEMMA Least ==
  ASSUME NEW T, T \subseteq Nat, T # {}
  PROVE  \E x \in T : \A y \in T : x <= y
<1> DEFINE U == {0..x : x \in T}
           R == StrictSubsetOrdering(Nat)
<1>1. U \subseteq FiniteSubsetsOf(Nat) /\ U # {}
  <2>1. ASSUME NEW x \in T PROVE 0..x \in SUBSET Nat /\ IsFiniteSet(0..x)
    <3>1. x \in Int /\ 0 \in Int
      OBVIOUS
    <3> QED
      BY <3>1, FS_Interval
  <2> QED
    BY <2>1 DEF FiniteSubsetsOf
<1>2. IsWellFoundedOn(R, FiniteSubsetsOf(Nat))
  BY FS_StrictSubsetOrderingWellFounded
<1> HIDE DEF R
<1>3. PICK X \in U : \A Y \in U : <<Y, X>> \notin R
  BY <1>1, <1>2, WFMin
<1>4. PICK x \in T : X = 0..x
  OBVIOUS
<1>5. ASSUME NEW y \in T, ~(x <= y)
      PROVE  FALSE
  <2>1. x \in Nat /\ y \in Nat /\ y < x
    BY <1>5
  <2>2. 0..y \subseteq 0..x /\ x \in 0..x /\ x \notin 0..y /\ 0..x \subseteq Nat
    BY <2>1
  <2>3. <<0..y, 0..x>> \in R
    BY <2>2 DEF R, StrictSubsetOrdering
  <2> QED
    BY <1>3, <1>4, <2>3
<1> QED
  BY <1>5

\* The calls only read the system.
LEMMA TypesKept ==
  ASSUME Shape, UNCHANGED << function, system >>,
         dir' \in [of : Nat, born : Nat, last : Int,
                   found : [cells : Seq(Nat), capacity : Nat \ {0}]],
         pids' \in Seq(Pids), Increasing(pids)',
         fds' \in Seq(Fds \ {0}), Increasing(fds)'
  PROVE  Types'
BY DEF Shape, Types, system

LEMMA Kept ==
  ASSUME Shape
  PROVE  /\ dir \in [of : Nat, born : Nat, last : Int,
                     found : [cells : Seq(Nat), capacity : Nat \ {0}]]
         /\ pids \in Seq(Pids) /\ Increasing(pids)
         /\ fds \in Seq(Fds \ {0}) /\ Increasing(fds)
         /\ pids' = pids => Increasing(pids)'
         /\ fds' = fds => Increasing(fds)'
         /\ pids # <<>> => /\ Head(pids) \in Pids /\ Tail(pids) \in Seq(Pids)
                           /\ Len(Tail(pids)) = Len(pids) - 1
                           /\ pids' = Tail(pids) => Increasing(pids)'
         /\ fds # <<>> => /\ Head(fds) \in Fds \ {0} /\ Tail(fds) \in Seq(Fds \ {0})
                          /\ fds' = Tail(fds) => Increasing(fds)'
<1>1. /\ dir \in [of : Nat, born : Nat, last : Int,
                  found : [cells : Seq(Nat), capacity : Nat \ {0}]]
      /\ pids \in Seq(Pids) /\ Increasing(pids)
      /\ fds \in Seq(Fds \ {0}) /\ Increasing(fds)
  BY DEF Shape, Types
<1>2. Pids \subseteq Int /\ Fds \ {0} \subseteq Int
  BY StampsFacts
<1>3. pids # <<>> => /\ Head(pids) \in Pids /\ Tail(pids) \in Seq(Pids)
                     /\ Len(Tail(pids)) = Len(pids) - 1
                     /\ Increasing(Tail(pids))
  BY <1>1, <1>2, HeadTail, TailIncreases
<1>4. fds # <<>> => /\ Head(fds) \in Fds \ {0} /\ Tail(fds) \in Seq(Fds \ {0})
                    /\ Increasing(Tail(fds))
  <2> SUFFICES ASSUME fds # <<>>
               PROVE  /\ Head(fds) \in Fds \ {0} /\ Tail(fds) \in Seq(Fds \ {0})
                      /\ Increasing(Tail(fds))
    OBVIOUS
  <2> HIDE DEF Increasing
  <2>1. Increasing(Tail(fds))
    BY <1>1, <1>2, TailIncreases
  <2> QED
    BY <1>1, <2>1, HeadTail
<1>5. /\ pids' = pids => Increasing(pids)'
      /\ fds' = fds => Increasing(fds)'
      /\ pids # <<>> /\ pids' = Tail(pids) => Increasing(pids)'
      /\ fds # <<>> /\ fds' = Tail(fds) => Increasing(fds)'
  BY <1>1, <1>3, <1>4 DEF Increasing
<1> QED
  BY <1>1, <1>3, <1>4, <1>5

LEMMA OpendirShape ==
  ASSUME Shape, opendir
  PROVE  Shape'
<1> USE DEF Shape
<1>1. /\ at = "opendir" /\ function \in {"get_processes", "get_files"}
      /\ dir = [Idle EXCEPT !.of = dir.of]
      /\ UNCHANGED << function, fds, item, array, system >>
      /\ at' \in {"readdir", "crashed", "next"} /\ at' # "returned" /\ at' # "push"
      /\ at' = "next" => pids # <<>> /\ function = "get_files"
  BY DEF opendir, Types, Places, Listing, Start, Fields, After, Done
<1>2. dir.of = 0 \/ dir.of \in Pids
  BY <1>1, Kept DEF Listing
<1>3. CASE at' = "readdir"
  <2>1. /\ dir' = [dir EXCEPT !.born = IF dir.of = 0 THEN 0 ELSE running[dir.of]]
        /\ pids' = pids
    BY <1>3 DEF opendir
  <2>2. /\ dir'.of = dir.of /\ dir'.last = -1 /\ dir'.found = array_new
        /\ dir'.born = IF dir.of = 0 THEN 0 ELSE running[dir.of]
        /\ dir'.born \in Nat
    <3>1. dir.last = -1 /\ dir.found = array_new
      BY <1>1, EmptyBlock
    <3>2. dir.of \in Pids => running[dir.of] \in Nat
      BY DEF Types
    <3> QED
      BY <1>2, <2>1, <3>1, <3>2, Kept
  <2>3. Types'
    <3>1. dir' \in [of : Nat, born : Nat, last : Int,
                    found : [cells : Seq(Nat), capacity : Nat \ {0}]]
      BY <2>1, <2>2, Kept
    <3> QED
      BY <1>1, <2>1, <3>1, Kept, TypesKept
  <2>4. Places'
    BY <1>1, <1>3, <2>1 DEF Places, Fields, After, Done
  <2>5. Blocks'
    BY <1>1, <1>3, <2>2, EmptyBlock DEF Blocks, Count, Cell, Fits, Fields, After
  <2>6. Listing'
    <3>1. dir'.found.cells = <<>>
      BY <2>2, EmptyBlock
    <3>2. \A n \in Nat : ~(n <= -1)
      OBVIOUS
    <3>3. \A x : ~(Among(x, <<>>)) /\ Increasing(<<>>)
      BY DEF Among, Increasing
    <3>4. dir.of # 0 /\ Stable(dir.of)' => dir'.born = 1
      BY <1>1, <2>2 DEF Stable, system
    <3> QED
      BY <1>1, <1>3, <2>1, <2>2, <3>1, <3>2, <3>4, StampsFacts DEF Listing, Increasing
  <2> QED
    BY <2>3, <2>4, <2>5, <2>6
<1>4. CASE at' = "crashed"
  <2>1. UNCHANGED << pids, dir >>
    BY <1>4 DEF opendir
  <2>2. Types'
    BY <1>1, <2>1, Kept, TypesKept
  <2>3. Places' /\ Listing'
    BY <1>1, <1>4, <2>1 DEF Places, Listing, Fields, After, Done
  <2>4. Blocks'
    BY <1>1, <1>4, <2>1 DEF Blocks, Count, Cell, Fits, Fields, After
  <2> QED
    BY <2>2, <2>3, <2>4
<1>5. CASE at' = "next"
  <2>1. pids' = Tail(pids) /\ dir' = dir
    BY <1>5 DEF opendir
  <2>2. Types'
    BY <1>1, <1>5, <2>1, Kept, TypesKept
  <2>3. Places' /\ Listing'
    BY <1>1, <1>5, <2>1 DEF Places, Listing, Fields, After, Done
  <2>4. Blocks'
    BY <1>1, <1>5, <2>1 DEF Blocks, Count, Cell, Fits, Fields, After
  <2> QED
    BY <2>2, <2>3, <2>4
<1> QED
  BY <1>1, <1>3, <1>4, <1>5

\* One more entry, and the least of those left.
LEMMA NextEntry ==
  ASSUME Shape, at = "readdir",
         {id \in Entries(dir.of) : id > dir.last} # {}
  PROVE  LET left == {id \in Entries(dir.of) : id > dir.last}
             id == CHOOSE x \in left : \A y \in left : x <= y
         IN  id \in left /\ id \in Nat /\ \A y \in left : id <= y
<1> DEFINE left == {id \in Entries(dir.of) : id > dir.last}
<1>1. left \subseteq Nat /\ left # {}
  <2>1. ASSUME NEW x \in Entries(dir.of)
        PROVE  x \in Nat
    <3>1. x = 0 \/ x \in Pids \/ x \in Fds
      BY DEF Entries
    <3>2. 0 \in Nat /\ Pids \subseteq Nat /\ Fds \subseteq Nat
      BY StampsFacts
    <3> QED
      BY <3>1, <3>2, Zenon
  <2> QED
    BY <2>1
<1> HIDE DEF left
<1>2. \E x \in left : \A y \in left : x <= y
  BY <1>1, Least
<1> QED
  BY <1>1, <1>2 DEF left

\* A list of what was found, with one more at its end.
LEMMA Longer ==
  ASSUME NEW s \in Seq(Nat), Increasing(s), NEW bound \in Int, NEW id \in Nat, bound < id,
         \A i \in DOMAIN s : s[i] <= bound
  PROVE  /\ Increasing(Append(s, id))
         /\ \A i \in DOMAIN Append(s, id) : Append(s, id)[i] <= id
         /\ \A i \in DOMAIN Append(s, id) : \/ i \in DOMAIN s /\ Append(s, id)[i] = s[i]
                                            \/ Append(s, id)[i] = id
         /\ Among(id, Append(s, id))
         /\ \A x : Among(x, s) => Among(x, Append(s, id))
<1>1. /\ DOMAIN Append(s, id) = 1..(Len(s) + 1) /\ Len(s) \in Nat /\ DOMAIN s = 1..Len(s)
      /\ \A i \in 1..Len(s) : Append(s, id)[i] = s[i] /\ s[i] \in Nat
      /\ Append(s, id)[Len(s) + 1] = id
  OBVIOUS
<1> QED
  BY <1>1 DEF Increasing, Among

LEMMA ReaddirMore ==
  ASSUME Shape, at = "readdir", UNCHANGED << function, at, pids, fds, item, array, system >>,
         NEW id \in Nat, id \in Entries(dir.of), id > dir.last,
         \A x \in Entries(dir.of) : x > dir.last => id <= x,
         dir' = [dir EXCEPT !.last = id, !.found = list_entry(dir.found, id)]
  PROVE  Shape'
<1> USE DEF Shape
<1> DEFINE found == dir.found.cells
           more == dir'.found.cells
<1>1. /\ dir.found \in [cells : Seq(Nat), capacity : Nat \ {0}]
      /\ found \in Seq(Nat) /\ dir.of \in Nat /\ dir.last \in Int
      /\ dir'.of = dir.of /\ dir'.born = dir.born /\ dir'.last = id
      /\ dir'.found = list_entry(dir.found, id)
      /\ Fits(dir.found)
  BY Kept DEF Blocks
<1>2. /\ dir'.found \in [cells : Seq(Nat), capacity : Nat \ {0}] /\ Fits(dir'.found)
      /\ more = IF id # 0 THEN Append(found, id) ELSE found
  <2>1. CASE id = 0
    BY <1>1, <2>1 DEF list_entry
  <2>2. CASE id # 0
    <3>1. dir'.found = array_push(dir.found, id)
      BY <1>1, <2>2 DEF list_entry
    <3>a. PICK a : a = dir.found
      OBVIOUS
    <3>b. a.cells \in Seq(Nat) /\ a.capacity \in Nat \ {0} /\ Fits(a)
      BY <1>1, <3>a
    <3>c. /\ array_push(a, id) \in [cells : Seq(Nat \cup {id}), capacity : Nat \ {0}]
          /\ Fits(array_push(a, id)) /\ array_push(a, id).cells = Append(a.cells, id)
      BY <3>b, PushFits
    <3>2. /\ dir'.found \in [cells : Seq(Nat \cup {id}), capacity : Nat \ {0}]
          /\ Fits(dir'.found) /\ more = Append(found, id)
      BY <3>1, <3>a, <3>c
    <3>3. Nat \cup {id} = Nat
      OBVIOUS
    <3> QED
      BY <2>2, <3>2, <3>3
  <2> QED
    BY <2>1, <2>2
<1> HIDE DEF more
<1>3. Types'
  <2>1. dir' \in [of : Nat, born : Nat, last : Int,
                  found : [cells : Seq(Nat), capacity : Nat \ {0}]]
    <3> DEFINE a == list_entry(dir.found, id)
               A == [cells : Seq(Nat), capacity : Nat \ {0}]
    <3>1. a \in A /\ id \in Int /\ dir \in [of : Nat, born : Nat, last : Int, found : A]
          /\ dir' = [dir EXCEPT !.last = id, !.found = a]
      BY <1>1, <1>2, Kept
    <3> HIDE DEF a, A
    <3>2. dir' \in [of : Nat, born : Nat, last : Int, found : A]
      BY <3>1
    <3> QED
      BY <3>2 DEF A
  <2> QED
    BY <2>1, Kept, TypesKept
<1>4. Places' /\ Blocks'
  BY <1>2 DEF Places, Blocks, Fields, After, Done, Count, Cell, Fits
<1>5. Listing'
  <2>1. /\ dir.of = 0 => pids = <<>> /\ array.cells = <<>>
        /\ dir.of # 0 => function = "get_files" /\ pids # <<>> /\ dir.of = Head(pids)
        /\ Increasing(found)
        /\ \A i \in DOMAIN found : found[i] <= dir.last
        /\ \A i \in DOMAIN found : found[i] \in IF dir.of = 0 THEN Pids ELSE Fds \ {0}
    BY DEF Listing
  <2>2. /\ dir.of = 0 =>
             \A pid \in Pids : Stable(pid) /\ pid <= dir.last => Among(pid, found)
        /\ dir.of # 0 /\ Stable(dir.of) =>
             /\ dir.born = 1
             /\ \A fd \in Fds \ {0} :
                  StableFd(dir.of, fd) /\ fd <= dir.last => Among(fd, found)
    BY DEF Listing
  <2>3. id # 0 => id \in IF dir.of = 0 THEN Pids ELSE Fds \ {0}
    BY DEF Entries
  <2>4. /\ Increasing(more)
        /\ \A i \in DOMAIN more : more[i] <= id
        /\ \A i \in DOMAIN more : more[i] \in IF dir.of = 0 THEN Pids ELSE Fds \ {0}
        /\ id # 0 => Among(id, more)
        /\ \A x : Among(x, found) => Among(x, more)
    <3>1. CASE id = 0
      <4>1. \A i \in DOMAIN found : found[i] \in Nat
        BY <1>1
      <4> QED
        BY <1>1, <1>2, <2>1, <3>1, <4>1
    <3>2. CASE id # 0
      <4>1. dir.last < id
        BY <1>1
      <4>2. more = Append(found, id)
        BY <1>2, <3>2
      <4> HIDE DEF found, Increasing
      <4>3. /\ Increasing(more)
            /\ \A i \in DOMAIN more : more[i] <= id
            /\ \A i \in DOMAIN more : (i \in DOMAIN found /\ more[i] = found[i]) \/ more[i] = id
            /\ Among(id, more)
            /\ \A x : Among(x, found) => Among(x, more)
        BY <1>1, <2>1, <4>1, <4>2, Longer
      <4> QED
        BY <2>1, <2>3, <3>2, <4>3
    <3> QED
      BY <3>1, <3>2
  <2>5. ASSUME dir.of = 0, NEW pid \in Pids, Stable(pid), pid <= id
        PROVE  Among(pid, more)
    <3>1. pid \in Entries(dir.of) /\ pid \in Nat /\ pid # 0
      BY <2>5, StampsFacts DEF Entries, Stable
    <3>2. pid <= dir.last \/ pid = id
      BY <1>1, <2>5, <3>1
    <3> QED
      BY <2>2, <2>4, <2>5, <3>1, <3>2
  <2>6. ASSUME dir.of # 0, NEW fd \in Fds \ {0}, StableFd(dir.of, fd), fd <= id
        PROVE  Among(fd, more)
    <3>1. fd \in Entries(dir.of) /\ fd \in Nat /\ fd # 0 /\ Stable(dir.of)
      BY <2>6, StampsFacts DEF Entries, StableFd, Stable
    <3>2. fd <= dir.last \/ fd = id
      BY <1>1, <2>6, <3>1
    <3> QED
      BY <2>2, <2>4, <2>6, <3>1, <3>2
  <2>7. \A p, f : /\ Stable(p)' <=> Stable(p)
                  /\ StableFd(p, f)' <=> StableFd(p, f)
    BY DEF Stable, StableFd, system
  <2> HIDE DEF found, Increasing, Among, Stable, StableFd
  <2>8. /\ Increasing(dir'.found.cells)
        /\ \A i \in DOMAIN dir'.found.cells : dir'.found.cells[i] <= dir'.last
        /\ \A i \in DOMAIN dir'.found.cells :
             dir'.found.cells[i] \in IF dir'.of = 0 THEN Pids ELSE Fds \ {0}
        /\ dir'.of = 0 =>
             \A pid \in Pids : Stable(pid)' /\ pid <= dir'.last => Among(pid, dir'.found.cells)
        /\ dir'.of # 0 /\ Stable(dir.of)' =>
             /\ dir'.born = 1
             /\ \A fd \in Fds \ {0} :
                  StableFd(dir.of, fd)' /\ fd <= dir'.last => Among(fd, dir'.found.cells)
    BY <1>1, <2>2, <2>4, <2>5, <2>6, <2>7 DEF more
  <2> QED
    BY <1>1, <2>1, <2>8 DEF Listing, Increasing, Among, Stable, StableFd
<1> QED
  BY <1>3, <1>4, <1>5

\* The end of a listing: what was found becomes what is left to visit.
LEMMA ReaddirEnd ==
  ASSUME Shape, at = "readdir", dir' = Idle, UNCHANGED << function, item, system >>,
         IF dir.of = 0
         THEN /\ pids' = dir.found.cells /\ UNCHANGED fds
              /\ at' = "next"
              /\ array' = IF function = "get_processes"
                          THEN array_with_capacity(Len(dir.found.cells) + 1) ELSE array
         ELSE /\ fds' = dir.found.cells /\ at' = "next_fd" /\ UNCHANGED << pids, array >>
  PROVE  Shape'
<1> USE DEF Shape
<1>1. /\ dir.found.cells \in Seq(Nat) /\ Increasing(dir.found.cells)
      /\ \A i \in DOMAIN dir.found.cells :
           dir.found.cells[i] \in IF dir.of = 0 THEN Pids ELSE Fds \ {0}
      /\ dir.of # 0 => function = "get_files" /\ pids # <<>>
      /\ dir.of = 0 => array.cells = <<>>
      /\ function \in {"get_processes", "get_files"}
  BY Kept DEF Listing, Places, Types, Start, Done, Fields, After
<1>2. dir.found.cells \in Seq(IF dir.of = 0 THEN Pids ELSE Fds \ {0})
  BY <1>1
<1>3. /\ dir' \in [of : Nat, born : Nat, last : Int,
                   found : [cells : Seq(Nat), capacity : Nat \ {0}]]
      /\ Fits(dir'.found)
  BY EmptyBlock
<1>4. CASE dir.of = 0
  <2>1. pids' \in Seq(Pids) /\ Increasing(pids)'
    BY <1>1, <1>2, <1>4 DEF Increasing
  <2>2. Types'
    BY <1>3, <1>4, <2>1, Kept, TypesKept
  <2>3. Places' /\ Listing'
    BY <1>1, <1>4 DEF Places, Listing, Fields, After, Done
  <2>4. array'.cells = <<>>
    BY <1>1, <1>4 DEF array_with_capacity
  <2>5. /\ array'.capacity \in Nat \ {0} /\ Fits(array')
        /\ function = "get_processes" => Len(array'.cells) + Len(pids') < array'.capacity
    <3>1. CASE function = "get_processes"
      <4>1. Len(pids') \in Nat /\ array'.capacity = Len(pids') + 1
        BY <1>4, <2>1, <3>1 DEF array_with_capacity
      <4> QED
        BY <2>4, <4>1 DEF Fits
    <3>2. CASE function # "get_processes"
      BY <1>4, <3>2 DEF Blocks
    <3> QED
      BY <3>1, <3>2
  <2>6. array'.cells \in Seq({}) /\ Len(array'.cells) = 0
    BY <2>4
  <2>7. Blocks'
    BY <1>3, <1>4, <2>5, <2>6 DEF Blocks, Count, Fields, After
  <2> QED
    BY <2>2, <2>3, <2>7
<1>5. CASE dir.of # 0
  <2>1. fds' \in Seq(Fds \ {0}) /\ Increasing(fds)'
    BY <1>1, <1>2, <1>5 DEF Increasing
  <2>2. Types'
    BY <1>3, <1>5, <2>1, Kept, TypesKept
  <2>3. Places' /\ Listing'
    BY <1>1, <1>5 DEF Places, Listing, Fields, After, Done
  <2>4. Blocks'
    BY <1>1, <1>3, <1>5 DEF Blocks, Count, Cell, Fits, Fields, After
  <2> QED
    BY <2>2, <2>3, <2>4
<1> QED
  BY <1>4, <1>5

LEMMA ReaddirShape ==
  ASSUME Shape, readdir
  PROVE  Shape'
<1> DEFINE left == {id \in Entries(dir.of) : id > dir.last}
           least == CHOOSE x \in left : \A y \in left : x <= y
<1>1. at = "readdir"
  BY DEF readdir
<1>2. \/ /\ left # {}
         /\ dir' = [dir EXCEPT !.last = least, !.found = list_entry(dir.found, least)]
         /\ UNCHANGED << function, at, pids, fds, item, array, system >>
      \/ /\ dir' = Idle
         /\ IF dir.of = 0
            THEN /\ pids' = dir.found.cells /\ UNCHANGED fds
                 /\ at' = "next"
                 /\ array' = IF function = "get_processes"
                             THEN array_with_capacity(Len(dir.found.cells) + 1) ELSE array
            ELSE /\ fds' = dir.found.cells /\ at' = "next_fd" /\ UNCHANGED << pids, array >>
         /\ UNCHANGED << function, item, system >>
  BY Zenon DEF readdir
<1>3. CASE left # {} /\ UNCHANGED << function, at, pids, fds, item, array, system >>
           /\ dir' = [dir EXCEPT !.last = least, !.found = list_entry(dir.found, least)]
  <2>1. least \in left /\ least \in Nat /\ \A y \in left : least <= y
    BY <1>1, <1>3, NextEntry
  <2>2. /\ least \in Entries(dir.of) /\ least > dir.last
        /\ \A x \in Entries(dir.of) : x > dir.last => least <= x
    BY <2>1
  <2> HIDE DEF least
  <2> QED
    BY <1>1, <1>3, <2>1, <2>2, ReaddirMore
<1> HIDE DEF left, least
<1> QED
  BY <1>1, <1>2, <1>3, ReaddirEnd

LEMMA NextPidShape ==
  ASSUME Shape, next_pid
  PROVE  Shape'
<1> USE DEF Shape
<1>1. at = "next" /\ UNCHANGED << function, pids, fds, array, system >>
      /\ function \in {"get_processes", "get_files"}
  BY DEF next_pid, Types, Places, Start, Done, Fields, After
<1>2. CASE pids = <<>> \/ function = "get_processes"
  <2>1. UNCHANGED dir /\ at' = IF pids = <<>> THEN "last" ELSE "uid"
    BY <1>2 DEF next_pid
  <2>2. Types'
    BY <1>1, <2>1, Kept, TypesKept
  <2>3. Places' /\ Listing'
    BY <1>1, <1>2, <2>1 DEF Places, Listing, Fields, After, Done
  <2>4. Blocks'
    BY <1>1, <2>1 DEF Blocks, Count, Cell, Fits, Fields, After
  <2> QED
    BY <2>2, <2>3, <2>4
<1>3. CASE pids # <<>> /\ function = "get_files"
  <2>1. at' = "opendir" /\ dir' = [Idle EXCEPT !.of = Head(pids)]
    BY <1>3 DEF next_pid
  <2>2. Head(pids) \in Pids /\ Head(pids) \in Nat /\ Head(pids) # 0
    BY <1>3, Kept, StampsFacts
  <2>3. /\ dir' \in [of : Nat, born : Nat, last : Int,
                     found : [cells : Seq(Nat), capacity : Nat \ {0}]]
        /\ dir'.of = Head(pids) /\ dir'.found = array_new
        /\ dir' = [Idle EXCEPT !.of = dir'.of]
    BY <2>1, <2>2, EmptyBlock
  <2>4. Types'
    BY <1>1, <2>3, Kept, TypesKept
  <2>5. Places' /\ Listing'
    BY <1>1, <1>3, <2>1, <2>2, <2>3 DEF Places, Listing, Fields, After, Done
  <2>6. Blocks'
    BY <1>1, <2>1, <2>3, EmptyBlock DEF Blocks, Count, Cell, Fits, Fields, After
  <2> QED
    BY <2>4, <2>5, <2>6
<1> QED
  BY <1>1, <1>2, <1>3

LEMMA NextFdShape ==
  ASSUME Shape, next_fd
  PROVE  Shape'
<1> USE DEF Shape
<1>1. /\ at = "next_fd" /\ UNCHANGED << function, dir, fds, item, array, system >>
      /\ function = "get_files" /\ pids # <<>>
      /\ at' = (IF fds = <<>> THEN "next" ELSE "readlink")
      /\ pids' = IF fds = <<>> THEN Tail(pids) ELSE pids
  BY DEF next_fd, Types, Places, Start, Done, Fields, After
<1>2. Types'
  BY <1>1, Kept, TypesKept
<1>3. Places' /\ Listing'
  BY <1>1 DEF Places, Listing, Fields, After, Done
<1>4. Blocks'
  BY <1>1 DEF Blocks, Count, Cell, Fits, Fields, After
<1> QED
  BY <1>2, <1>3, <1>4

LEMMA ReadlinkShape ==
  ASSUME Shape, readlink
  PROVE  Shape'
<1> USE DEF Shape
<1>1. /\ at = "readlink" /\ UNCHANGED << function, dir, pids, array, system >>
      /\ function = "get_files" /\ pids # <<>> /\ fds # <<>>
      /\ (at' = "next_fd" /\ fds' = Tail(fds)) \/ (at' = "stat" /\ UNCHANGED fds)
  BY DEF readlink, advance, Types, Places, Start, Done, Fields, After
<1>2. Types'
  BY <1>1, Kept, TypesKept
<1>3. Places' /\ Listing'
  BY <1>1 DEF Places, Listing, Fields, After, Done
<1>4. Blocks'
  BY <1>1 DEF Blocks, Count, Cell, Fits, Fields, After
<1> QED
  BY <1>2, <1>3, <1>4

LEMMA StatShape ==
  ASSUME Shape, FileInv, stat
  PROVE  Shape'
<1> USE DEF Shape
<1>1. /\ at = "stat" /\ UNCHANGED << function, dir, pids, fds, array, system >>
      /\ function = "get_files" /\ pids # <<>> /\ fds # <<>> /\ at' = "push"
      /\ item' = [item EXCEPT !.file_stat = file_stat(Head(pids), Head(fds))]
  BY DEF stat, Types, Places, Start, Done, Fields, After
<1>2. Types'
  BY <1>1, Kept, TypesKept
<1>3. Places' /\ Listing'
  BY <1>1 DEF Places, Listing, Fields, After, Done
<1>4. item' # Null
  <2>1. item \in FileRecord
    BY <1>1 DEF FileInv, FileItem, Failed
  <2>2. "pid" \in DOMAIN item'
    BY <1>1, <2>1 DEF FileRecord
  <2>3. "pid" \notin DOMAIN Null
    BY DEF Null
  <2> QED
    BY <2>2, <2>3
<1>5. Blocks'
  BY <1>1, <1>4 DEF Blocks, Count, Cell, Fits, Fields, After, Null
<1> QED
  BY <1>2, <1>3, <1>5

LEMMA FieldOrder ==
  /\ Fields = {"uid", "exe_path", "cwd", "root", "cmdline"}
  /\ After["uid"] = "exe_path" /\ After["exe_path"] = "cwd" /\ After["cwd"] = "root"
  /\ After["root"] = "cmdline" /\ After["cmdline"] = "push"
BY DEF Fields, After

LEMMA ReadFieldShape ==
  ASSUME Shape, ProcessInv, read_field
  PROVE  Shape'
<1> USE DEF Shape
<1>1. /\ at \in Fields /\ UNCHANGED << function, dir, pids, fds, array, system >>
      /\ function = "get_processes" /\ pids # <<>> /\ at' = After[at]
      /\ at' \in {"exe_path", "cwd", "root", "cmdline", "push"}
      /\ item' = [item EXCEPT ![at] = Attribute(item.pid, at)]
  <2>1. /\ at \in Fields /\ UNCHANGED << function, dir, pids, fds, array, system >>
        /\ at' = After[at] /\ item' = [item EXCEPT ![at] = Attribute(item.pid, at)]
    BY DEF read_field, Fields
  <2>2. at \in {"uid", "exe_path", "cwd", "root", "cmdline"}
    BY <2>1, FieldOrder
  <2>3. function = "get_processes" /\ pids # <<>>
    BY <2>1, <2>2 DEF Types, Places, Start, Done
  <2> QED
    BY <2>1, <2>2, <2>3, FieldOrder
<1>2. Types'
  BY <1>1, Kept, TypesKept
<1>3. Places' /\ Listing'
  BY <1>1 DEF Places, Listing, Fields, After, Done
<1>4. item' # Null
  <2>1. item \in ProcessRecord
    BY <1>1 DEF ProcessInv, Failed, ReadBefore, Fields, After
  <2>2. "pid" \in DOMAIN item'
    BY <1>1, <2>1 DEF ProcessRecord
  <2>3. "pid" \notin DOMAIN Null
    BY DEF Null
  <2> QED
    BY <2>2, <2>3
<1>5. Blocks'
  BY <1>1, <1>4 DEF Blocks, Count, Cell, Fits, Fields, After, Null
<1> QED
  BY <1>2, <1>3, <1>5

\* One more record behind those there are.
LEMMA Pushed ==
  ASSUME Blocks, NEW e, array' = array_push(array, e)
  PROVE  /\ array'.cells = Append(array.cells, e) /\ Len(array.cells) \in Nat
         /\ Len(array'.cells) = Len(array.cells) + 1 /\ array'.cells # <<>>
         /\ \E S : array'.cells \in Seq(S)
         /\ array'.capacity \in Nat \ {0} /\ Fits(array')
         /\ ~Full(array) => array'.capacity = array.capacity
         /\ \A i \in 1..Len(array.cells) : array'.cells[i] = array.cells[i]
         /\ array'.cells[Len(array.cells) + 1] = e
<1>1. PICK S : array.cells \in Seq(S)
  BY DEF Blocks
<1>2. PICK a : a = array
  OBVIOUS
<1>3. a.cells \in Seq(S) /\ a.capacity \in Nat \ {0} /\ Fits(a)
  BY <1>1, <1>2 DEF Blocks
<1>4. /\ array_push(a, e) \in [cells : Seq(S \cup {e}), capacity : Nat \ {0}]
      /\ array_push(a, e).cells = Append(a.cells, e)
      /\ Fits(array_push(a, e))
      /\ ~Full(a) => array_push(a, e).capacity = a.capacity
  <2>1. /\ array_push(a, e) \in [cells : Seq(S \cup {e}), capacity : Nat \ {0}]
        /\ array_push(a, e).cells = Append(a.cells, e)
        /\ Fits(array_push(a, e))
    <3>1. array_push(a, e) \in [cells : Seq(S \cup {e}), capacity : Nat \ {0}]
      BY <1>3, PushFits, Zenon
    <3> QED
      BY <1>3, <3>1, PushFits
  <2>2. ~Full(a) => array_push(a, e).capacity = a.capacity
    BY DEF array_push
  <2> QED
    BY <2>1, <2>2
<1>5. /\ array' \in [cells : Seq(S \cup {e}), capacity : Nat \ {0}]
      /\ array'.cells = Append(array.cells, e)
      /\ Fits(array')
      /\ ~Full(array) => array'.capacity = array.capacity
  BY <1>2, <1>4
<1>6. /\ Append(array.cells, e) \in Seq(S \cup {e})
      /\ Len(Append(array.cells, e)) = Len(array.cells) + 1 /\ Len(array.cells) \in Nat
      /\ \A i \in 1..Len(array.cells) : Append(array.cells, e)[i] = array.cells[i]
      /\ Append(array.cells, e)[Len(array.cells) + 1] = e
      /\ Append(array.cells, e) # <<>>
  BY <1>1, Appended
<1>7. array'.capacity \in Nat \ {0}
  BY <1>5
<1> QED
  BY <1>5, <1>6, <1>7

LEMMA CountPushed ==
  ASSUME Blocks, at # "returned", at' # "returned", NEW e, array' = array_push(array, e)
  PROVE  /\ Count \in Nat /\ Count = Len(array.cells) /\ Count' = Count + 1
         /\ \A i \in 1..Count : Cell(i)' = Cell(i)
         /\ \A i : i = Count + 1 => Cell(i)' = e
         /\ \A i \in 1..Count' : i \in 1..Count \/ i = Count + 1
<1>1. /\ Len(array.cells) \in Nat /\ Len(array'.cells) = Len(array.cells) + 1
      /\ \A i \in 1..Len(array.cells) : array'.cells[i] = array.cells[i]
      /\ array'.cells[Len(array.cells) + 1] = e
  BY Pushed
<1>2. Count = Len(array.cells) /\ Count' = Len(array'.cells)
  BY DEF Count
<1>3. Count \in Nat /\ Count' = Count + 1
  BY <1>1, <1>2
<1>4. \A i \in 1..Count' : i \in 1..Count \/ i = Count + 1
  BY <1>3
<1> QED
  BY <1>1, <1>2, <1>3, <1>4 DEF Cell

\* The records stay what they are when one is pushed.
LEMMA PushBlocks ==
  ASSUME Blocks, NEW e, e # Null, array' = array_push(array, e),
         at # "returned", at' \notin {"returned", "push"}, UNCHANGED << dir, function >>,
         function = "get_processes" =>
           /\ at' \in Fields \cup {"next", "push", "last"}
                => /\ at \in Fields \cup {"next", "push", "last"}
                   /\ Len(pids') \in Nat /\ Len(pids) = Len(pids') + 1
  PROVE  Blocks'
<1>1. /\ Len(array.cells) \in Nat
      /\ Len(array'.cells) = Len(array.cells) + 1
      /\ \E S : array'.cells \in Seq(S)
      /\ array'.capacity \in Nat \ {0} /\ Fits(array')
      /\ ~Full(array) => array'.capacity = array.capacity
      /\ \A i \in 1..Len(array.cells) : array'.cells[i] = array.cells[i]
      /\ array'.cells[Len(array.cells) + 1] = e
  BY Pushed
<1>2. Fits(dir'.found)
  BY DEF Blocks
<1>3. ASSUME function = "get_processes", at' \in Fields \cup {"next", "push", "last"}
      PROVE  Len(array'.cells) + Len(pids') < array'.capacity
  <2>1. Len(array.cells) + Len(pids) < array.capacity /\ array.capacity \in Nat
    BY <1>3 DEF Blocks
  <2>2. PICK n \in Nat, m \in Nat, c \in Nat :
          n = Len(array.cells) /\ m = Len(pids') /\ c = array.capacity
    BY <1>1, <1>3, <2>1
  <2>3. n + (m + 1) < c
    BY <1>3, <2>1, <2>2
  <2>4. n # c /\ n + 1 + m < c
    BY <2>3
  <2>5. array'.capacity = c /\ Len(array'.cells) = n + 1
    BY <1>1, <2>2, <2>4 DEF Full
  <2> QED
    BY <2>2, <2>4, <2>5
<1>4. \A i \in 1..Len(array'.cells) : array'.cells[i] # Null
  <2>1. \A i \in 1..Len(array.cells) : array.cells[i] # Null
    BY DEF Blocks, Count, Cell
  <2>2. \A i \in 1..(Len(array.cells) + 1) : i \in 1..Len(array.cells) \/ i = Len(array.cells) + 1
    BY <1>1
  <2> QED
    BY <1>1, <2>1, <2>2
<1> QED
  BY <1>1, <1>2, <1>3, <1>4, Zenon DEF Blocks, Count, Cell, Null

LEMMA PushShape ==
  ASSUME Shape, push
  PROVE  Shape'
<1> USE DEF Shape
<1>1. /\ at = "push" /\ UNCHANGED << function, dir, item, system >>
      /\ function \in {"get_processes", "get_files"} /\ pids # <<>>
      /\ array' = array_push(array, item) /\ item # Null
      /\ IF function = "get_processes"
         THEN at' = "next" /\ pids' = Tail(pids) /\ UNCHANGED fds
         ELSE at' = "next_fd" /\ fds' = Tail(fds) /\ fds # <<>> /\ UNCHANGED pids
  BY DEF push, advance, Types, Places, Blocks, Start, Done, Fields, After
<1>2. Types'
  BY <1>1, Kept, TypesKept
<1>3. Places' /\ Listing'
  BY <1>1 DEF Places, Listing, Fields, After, Done
<1>4. Blocks'
  <2>1. function = "get_processes" => Len(pids') \in Nat /\ Len(pids) = Len(pids') + 1
    <3>1. pids \in Seq(Pids) /\ Tail(pids) \in Seq(Pids) /\ Len(Tail(pids)) = Len(pids) - 1
      BY <1>1, Kept
    <3>2. function = "get_processes" => pids' = Tail(pids)
      BY <1>1
    <3>3. Len(Tail(pids)) \in Nat /\ Len(pids) = Len(Tail(pids)) + 1
      BY <3>1
    <3> QED
      BY <3>2, <3>3, Zenon
  <2>2. PICK e : e = item
    OBVIOUS
  <2>3. e # Null /\ array' = array_push(array, e)
    BY <1>1, <2>2
  <2> QED
    BY <1>1, <2>1, <2>3, PushBlocks
<1> QED
  BY <1>2, <1>3, <1>4

LEMMA GetutxentShape ==
  ASSUME Shape, getutxent
  PROVE  Shape'
<1> USE DEF Shape
<1>1. /\ at = "getutxent" /\ UNCHANGED << function, dir, pids, fds, item, system >>
      /\ function = "get_users" /\ at' \in {at, "last"}
      /\ \/ array' = array_push(array, clone_utmp(utmp[Len(array.cells) + 1]))
         \/ UNCHANGED array
  BY DEF getutxent, Types, Places, Start, Done, Fields, After
<1>2. Types'
  BY <1>1, Kept, TypesKept
<1>3. Places' /\ Listing'
  BY <1>1 DEF Places, Listing, Fields, After, Done
<1>4. CASE UNCHANGED array
  <2>1. Blocks'
    BY <1>1, <1>4 DEF Blocks, Count, Cell, Fits, Fields, After
  <2> QED
    BY <1>2, <1>3, <2>1
<1>5. CASE array' = array_push(array, clone_utmp(utmp[Len(array.cells) + 1]))
  <2>1. PICK e : e = clone_utmp(utmp[Len(array.cells) + 1])
    OBVIOUS
  <2>2. e # Null
    BY <2>1 DEF clone_utmp, Null
  <2>3. Blocks'
    BY <1>1, <1>5, <2>1, <2>2, PushBlocks
  <2> QED
    BY <1>2, <1>3, <2>3
<1> QED
  BY <1>1, <1>2, <1>3, <1>4, <1>5

LEMMA FscanfShape ==
  ASSUME Shape, fscanf
  PROVE  Shape'
<1> USE DEF Shape
<1>1. /\ at = "fscanf" /\ UNCHANGED << function, pids, fds, item, system >>
      /\ function = "get_connections" /\ at' \in {at, "last"}
  BY DEF fscanf, Types, Places, Start, Done, Fields, After
<1>2. CASE UNCHANGED << at, dir >> /\ \E e : e # Null /\ array' = array_push(array, e)
  <2>1. Types'
    BY <1>1, <1>2, Kept, TypesKept
  <2>2. Places' /\ Listing'
    BY <1>1, <1>2 DEF Places, Listing, Fields, After, Done
  <2>3. PICK e : e # Null /\ array' = array_push(array, e)
    BY <1>2
  <2>4. Blocks'
    BY <1>1, <1>2, <2>3, PushBlocks
  <2> QED
    BY <2>1, <2>2, <2>4
<1>3. CASE UNCHANGED array /\ (UNCHANGED dir \/ dir' = [dir EXCEPT !.of = dir.of + 1])
  <2>1. /\ dir' \in [of : Nat, born : Nat, last : Int,
                     found : [cells : Seq(Nat), capacity : Nat \ {0}]]
        /\ dir'.found = dir.found
    <3>1. dir.of + 1 \in Nat
      BY Kept
    <3>2. PICK n \in Nat : n = dir.of + 1
      BY <3>1
    <3> QED
      BY <1>3, <3>2, Kept
  <2>2. Types'
    BY <1>1, <2>1, Kept, TypesKept
  <2>3. Places' /\ Listing'
    BY <1>1 DEF Places, Listing, Fields, After, Done
  <2>4. Blocks'
    BY <1>1, <1>3, <2>1 DEF Blocks, Count, Cell, Fits, Fields, After
  <2> QED
    BY <2>2, <2>3, <2>4
<1>4. \/ UNCHANGED << at, dir >> /\ \E e : e # Null /\ array' = array_push(array, e)
      \/ UNCHANGED array /\ (UNCHANGED dir \/ dir' = [dir EXCEPT !.of = dir.of + 1])
  <2> DEFINE Entry(from, to, content) ==
               [connection |-> connection(Sources[dir.of], from, to, content),
                source |-> dir.of, from |-> from, to |-> to]
  <2>1. \A from, to, content : Entry(from, to, content) # Null
    <3>1. \A from, to, content : "source" \in DOMAIN Entry(from, to, content)
      OBVIOUS
    <3>2. "source" \notin DOMAIN Null
      BY DEF Null
    <3> HIDE DEF Entry
    <3> QED
      BY <3>1, <3>2, Zenon
  <2>2. \/ /\ UNCHANGED << at, dir >>
           /\ \E from, to, content : array' = array_push(array, Entry(from, to, content))
        \/ UNCHANGED array /\ (UNCHANGED dir \/ dir' = [dir EXCEPT !.of = dir.of + 1])
    BY Zenon DEF fscanf, Entry
  <2> HIDE DEF Entry
  <2> QED
    BY <2>1, <2>2, Zenon
<1> QED
  BY <1>2, <1>3, <1>4

LEMMA LastShape ==
  ASSUME Shape, last
  PROVE  Shape' /\ Count' = Count /\ \A i \in 1..Count : Cell(i)' = Cell(i)
<1> USE DEF Shape
<1>1. /\ at = "last" /\ UNCHANGED << function, dir, pids, fds, item, system >>
      /\ at' = "returned" /\ array' = array_push(array, Null)
  BY DEF last
<1>2. Types'
  BY <1>1, Kept, TypesKept
<1>3. Places' /\ Listing'
  BY <1>1 DEF Places, Listing, Fields, After, Done
<1>4. /\ Len(array.cells) \in Nat /\ array'.cells # <<>>
      /\ Len(array'.cells) = Len(array.cells) + 1
      /\ \E S : array'.cells \in Seq(S)
      /\ array'.capacity \in Nat \ {0} /\ Fits(array')
      /\ \A i \in 1..Len(array.cells) : array'.cells[i] = array.cells[i]
      /\ array'.cells[Len(array.cells) + 1] = Null
  BY <1>1, Pushed
<1>5. Count' = Len(array.cells) /\ Count = Len(array.cells)
  BY <1>1, <1>4 DEF Count
<1>6. \A i \in 1..Count : Cell(i)' = Cell(i)
  BY <1>4, <1>5 DEF Cell
<1>7. Fits(dir'.found) /\ \A i \in 1..Count : Cell(i) # Null
  BY <1>1 DEF Blocks
<1>8. /\ Cell(Len(array.cells))' = Null
      /\ \A i \in 1..Count' : Cell(i)' # Null
  BY <1>4, <1>5, <1>6, <1>7 DEF Cell
<1>9. Blocks'
  BY <1>1, <1>4, <1>5, <1>6, <1>7, <1>8 DEF Blocks, Fields, After, Fits, Null
<1> QED
  BY <1>2, <1>3, <1>5, <1>6, <1>9

LEMMA StutterShape ==
  ASSUME Shape, UNCHANGED vars
  PROVE  Shape'
BY DEF Shape, Types, Places, Blocks, Listing, Increasing, Among, Stable, StableFd, Count, Cell,
       Fits, vars, system, caller

LEMMA ShapeNext ==
  ASSUME Inv, [Next]_vars
  PROVE  Shape'
<1> USE DEF Inv
<1>1. CASE Caller
  BY <1>1, OpendirShape, ReaddirShape, NextPidShape, ReadFieldShape, NextFdShape,
     ReadlinkShape, StatShape, PushShape, GetutxentShape, FscanfShape, LastShape, FailShape,
     Zenon DEF Caller
<1>2. CASE System
  BY <1>2, SystemShape
<1>3. CASE Ended \/ UNCHANGED vars
  BY <1>3, StutterShape DEF Ended
<1> QED
  BY <1>1, <1>2, <1>3 DEF Next

-----------------------------------------------------------------------------
(* The records of get_processes.                                           *)

LEMMA RecordFields ==
  ASSUME NEW r \in ProcessRecord
  PROVE  /\ r.pid \in Pids /\ r # Null
         /\ \A field \in Fields : r[field] \in [pid : Nat, born : Nat]
<1>1. "pid" \in DOMAIN r /\ "pid" \notin DOMAIN Null
  BY DEF ProcessRecord, Null
<1>2. \A field \in Fields : r[field] \in [pid : Nat, born : Nat]
  BY FieldOrder DEF ProcessRecord
<1> QED
  BY <1>1, <1>2 DEF ProcessRecord

LEMMA FieldSet ==
  ASSUME NEW r \in ProcessRecord, NEW field \in Fields, NEW v \in [pid : Nat, born : Nat]
  PROVE  /\ [r EXCEPT ![field] = v] \in ProcessRecord
         /\ [r EXCEPT ![field] = v].pid = r.pid
         /\ [r EXCEPT ![field] = v][field] = v
         /\ \A g \in Fields \ {field} : [r EXCEPT ![field] = v][g] = r[g]
<1>1. /\ DOMAIN r = {"pid", "uid", "exe_path", "cwd", "root", "cmdline"}
      /\ Fields \subseteq DOMAIN r /\ field # "pid"
  BY FieldOrder DEF ProcessRecord
<1>2. CASE field = "uid"
  BY <1>2, FieldOrder DEF ProcessRecord
<1>3. CASE field = "exe_path"
  BY <1>3, FieldOrder DEF ProcessRecord
<1>4. CASE field = "cwd"
  BY <1>4, FieldOrder DEF ProcessRecord
<1>5. CASE field = "root"
  BY <1>5, FieldOrder DEF ProcessRecord
<1>6. CASE field = "cmdline"
  BY <1>6, FieldOrder DEF ProcessRecord
<1> QED
  BY <1>2, <1>3, <1>4, <1>5, <1>6, FieldOrder

\* What the system does leaves a record what it is.
LEMMA RecordSystem ==
  ASSUME Types, System, NEW r \in ProcessRecord, NEW read
  PROVE  /\ Own(r, time) => Own(r, time')
         /\ Complete(r, read, running, view) => Complete(r, read, running', view')
         /\ Own(r, time) /\ Steady(r, running) => Steady(r, running')
<1>1. /\ r.pid \in Pids /\ time' = time + 1 /\ view' = view /\ time \in Nat
      /\ running'[r.pid] \in {running[r.pid], 0, time'}
      /\ running'[r.pid] = 1 => running[r.pid] = 1
      /\ "uid" \in Fields
  BY RecordFields, SystemSteps, StableBack, FieldOrder DEF Types, Stable
<1>2. Own(r, time) => Own(r, time')
  BY <1>1 DEF Own
<1>3. Complete(r, read, running, view) => Complete(r, read, running', view')
  BY <1>1 DEF Complete
<1>4. ASSUME Own(r, time), Steady(r, running) PROVE Steady(r, running')
  <2>1. r.uid # Missing => r.uid.born \in 1..time
    BY <1>1, <1>4 DEF Own
  <2>2. r.uid # Missing /\ running'[r.pid] = r.uid.born => running[r.pid] = r.uid.born
    BY <1>1, <2>1
  <2> QED
    BY <1>4, <2>2 DEF Steady
<1> QED
  BY <1>2, <1>3, <1>4

LEMMA ProcessSystem ==
  ASSUME Shape, ProcessInv, System
  PROVE  ProcessInv'
<1>1. UNCHANGED <<function, at, dir, pids, fds, item, array>>
  BY SystemSteps DEF Shape, caller
<1>2. Count' = Count /\ \A i : Cell(i)' = Cell(i)
  BY <1>1 DEF Count, Cell
<1>3. \A pid \in Pids : Stable(pid)' => Stable(pid)
  BY StableBack DEF Shape
<1>4. \A r \in ProcessRecord : \A read :
        /\ Own(r, time) => Own(r, time')
        /\ Complete(r, read, running, view) => Complete(r, read, running', view')
        /\ Own(r, time) /\ Steady(r, running) => Steady(r, running')
  BY RecordSystem DEF Shape
<1>5. ASSUME function = "get_processes", ~Failed
      PROVE  \A i \in 1..Count :
               /\ Cell(i) \in ProcessRecord
               /\ Own(Cell(i), time') /\ Complete(Cell(i), Fields, running', view')
               /\ Together(Cell(i))
               /\ \A j \in 1..Count : i < j => Cell(i).pid < Cell(j).pid
               /\ \A k \in DOMAIN pids : Cell(i).pid < pids[k]
  BY <1>4, <1>5 DEF ProcessInv
<1>6. ASSUME function = "get_processes", ~Failed, at \in DOMAIN ReadBefore
      PROVE  /\ item \in ProcessRecord /\ item.pid = Head(pids)
             /\ Own(item, time') /\ Complete(item, ReadBefore[at], running', view')
             /\ Steady(item, running')
             /\ at = "uid" => \A field \in Fields : item[field] = Missing
             /\ at = "push" => Together(item)
  <2>1. /\ item \in ProcessRecord /\ item.pid = Head(pids)
        /\ Own(item, time) /\ Complete(item, ReadBefore[at], running, view)
        /\ Steady(item, running)
        /\ at = "uid" => \A field \in Fields : item[field] = Missing
        /\ at = "push" => Together(item)
    BY <1>6 DEF ProcessInv
  <2> QED
    BY <1>4, <2>1
<1>7. ASSUME function = "get_processes", ~Failed,
             at \in Fields \cup {"next", "push", "last", "returned"},
             NEW pid \in Pids, Stable(pid)
      PROVE  Among(pid, pids) \/ \E i \in 1..Count : Cell(i).pid = pid
  BY <1>7 DEF ProcessInv
<1>8. Failed' <=> Failed
  BY <1>1 DEF Failed
<1> HIDE DEF Count, Cell, Failed, Stable, Fields
<1> QED
  BY <1>1, <1>2, <1>3, <1>5, <1>6, <1>7, <1>8 DEF ProcessInv, Among

\* The places of the loops of get_processes.
LEMMA ProcessPlaces ==
  ASSUME Shape, function = "get_processes"
  PROVE  /\ at \notin {"next_fd", "readlink", "stat", "getutxent", "fscanf"}
         /\ at \in Fields \cup {"push"} <=> at \in DOMAIN ReadBefore
         /\ at \in Fields \cup {"push"} => pids # <<>>
         /\ at \in {"opendir", "readdir"} => dir.of = 0 /\ array.cells = <<>>
         /\ {"opendir", "readdir", "next", "last", "returned", "exited", "crashed"}
              \cap (Fields \cup {"push"}) = {}
BY FieldOrder DEF Shape, Places, Listing, Done, ReadBefore

\* Nothing is in the result yet.
LEMMA ProcessListing ==
  ASSUME Shape, function = "get_processes", opendir \/ readdir
  PROVE  ProcessInv'
<1>1. at \in {"opendir", "readdir"} /\ dir.of = 0 /\ array.cells = <<>>
  BY ProcessPlaces DEF opendir, readdir
<1>2. CASE at' # "next"
  <2>1. at' \in {"readdir", "crashed"} /\ array' = array
    BY <1>1, <1>2 DEF opendir, readdir
  <2>2. at' \notin DOMAIN ReadBefore
        /\ at' \notin Fields \cup {"next", "push", "last", "returned"}
    BY <2>1, FieldOrder DEF ReadBefore
  <2>3. Count' = 0
    BY <1>1, <2>1 DEF Count
  <2>4. 1..Count' = {}
    BY <2>3
  <2> HIDE DEF Count, Cell, Fields
  <2> QED
    BY <2>2, <2>4 DEF ProcessInv
<1>3. CASE at' = "next"
  <2> DEFINE left == {id \in Entries(dir.of) : id > dir.last}
  <2>1. /\ at = "readdir" /\ left = {} /\ pids' = dir.found.cells
        /\ array'.cells = <<>> /\ UNCHANGED << function, system >>
    <3>1. at = "readdir"
      <4>1. opendir => at' \in {"readdir", "crashed"} \/ dir.of # 0
        BY Zenon DEF opendir
      <4>2. ~opendir
        BY <1>1, <1>3, <4>1
      <4> QED
        BY <4>2 DEF readdir
    <3>2. left = {} /\ pids' = dir.found.cells /\ UNCHANGED << function, system >>
          /\ array' = array_with_capacity(Len(dir.found.cells) + 1)
      BY <1>1, <1>3, <3>1, Zenon DEF readdir, opendir
    <3> QED
      BY <3>1, <3>2 DEF array_with_capacity
  <2>2. Count' = 0
    BY <1>3, <2>1 DEF Count
  <2>3. 1..Count' = {} /\ at' \notin DOMAIN ReadBefore
    BY <1>3, <2>2 DEF ReadBefore
  <2>4. ASSUME NEW pid \in Pids, Stable(pid)'
        PROVE  Among(pid, pids')
    <3>1. Stable(pid) /\ pid \in Entries(dir.of) /\ pid \in Nat /\ dir.last \in Int
      BY <1>1, <2>1, <2>4, StampsFacts, Kept DEF Stable, system, Entries
    <3>2. pid <= dir.last
      BY <2>1, <3>1
    <3> QED
      BY <1>1, <2>1, <3>1, <3>2 DEF Shape, Listing
  <2> HIDE DEF Count, Cell, Fields, Among, Stable
  <2> QED
    BY <2>3, <2>4 DEF ProcessInv, Among
<1> QED
  BY <1>2, <1>3

LEMMA ProcessNext ==
  ASSUME Shape, ProcessInv, function = "get_processes", next_pid
  PROVE  ProcessInv'
<1>1. /\ at = "next" /\ UNCHANGED << function, pids, fds, array, system >>
      /\ at' = IF pids = <<>> THEN "last" ELSE "uid"
      /\ pids # <<>> =>
           item' = [pid |-> Head(pids), uid |-> Missing, exe_path |-> Missing,
                    cwd |-> Missing, root |-> Missing, cmdline |-> Missing]
  BY DEF next_pid
<1>2. Count' = Count /\ \A i : Cell(i)' = Cell(i)
  BY <1>1 DEF Count, Cell
<1>3. /\ \A i \in 1..Count :
           /\ Cell(i) \in ProcessRecord
           /\ Own(Cell(i), time) /\ Complete(Cell(i), Fields, running, view)
           /\ Together(Cell(i))
           /\ \A j \in 1..Count : i < j => Cell(i).pid < Cell(j).pid
           /\ \A k \in DOMAIN pids : Cell(i).pid < pids[k]
      /\ \A pid \in Pids : Stable(pid) =>
           Among(pid, pids) \/ \E i \in 1..Count : Cell(i).pid = pid
  BY <1>1 DEF ProcessInv, Failed
<1>4. ASSUME pids # <<>>
      PROVE  /\ item' \in ProcessRecord /\ item'.pid = Head(pids')
             /\ Own(item', time') /\ Complete(item', ReadBefore["uid"], running', view')
             /\ Steady(item', running')
             /\ \A field \in Fields : item'[field] = Missing
  <2>1. Head(pids) \in Pids /\ Missing \in [pid : Nat, born : Nat]
    BY <1>4, Kept DEF Missing
  <2>2. item' \in ProcessRecord /\ item'.pid = Head(pids') /\ item'.uid = Missing
    BY <1>1, <1>4, <2>1 DEF ProcessRecord
  <2>3. \A field \in Fields : item'[field] = Missing
    BY <1>1, <1>4, FieldOrder
  <2>4. Own(item', time') /\ Steady(item', running')
    BY <2>2, <2>3 DEF Own, Steady
  <2>5. Complete(item', ReadBefore["uid"], running', view')
    BY DEF Complete, ReadBefore
  <2> QED
    BY <2>2, <2>3, <2>4, <2>5
<1>5. \A pid : Stable(pid)' <=> Stable(pid)
  BY <1>1 DEF Stable, system
<1>6. at' \in DOMAIN ReadBefore => pids # <<>> /\ at' = "uid"
  BY <1>1 DEF ReadBefore
<1> HIDE DEF Count, Cell, Failed, Stable, Fields
<1> QED
  BY <1>1, <1>2, <1>3, <1>4, <1>5, <1>6 DEF ProcessInv, Among, system

\* One more field of the record.
Filled(record, field) == [record EXCEPT ![field] = Attribute(record.pid, field)]

LEMMA FieldRead ==
  ASSUME Types, NEW field \in Fields, NEW r \in ProcessRecord,
         Own(r, time), Steady(r, running), Complete(r, ReadBefore[field], running, view),
         field = "uid" => \A g \in Fields : r[g] = Missing
  PROVE  /\ Filled(r, field) \in ProcessRecord /\ Filled(r, field).pid = r.pid
         /\ Own(Filled(r, field), time) /\ Steady(Filled(r, field), running)
         /\ Complete(Filled(r, field), ReadBefore[After[field]], running, view)
         /\ field = "cmdline" => Together(Filled(r, field))
<1> DEFINE v == Attribute(r.pid, field)
           s == [r EXCEPT ![field] = v]
<1>1. r.pid \in Pids /\ running[r.pid] \in Nat /\ running[r.pid] <= time /\ time \in Nat
      /\ r.pid \in Nat
  <2>1. time \in Nat /\ running \in [Pids -> 0..time]
    BY DEF Types
  <2>2. r.pid \in Pids /\ Pids \subseteq Nat
    BY RecordFields, StampsFacts
  <2>3. \A p \in Pids : running[p] \in Nat /\ running[p] <= time /\ p \in Nat
    BY <2>1, <2>2
  <2> QED
    BY <2>1, <2>2, <2>3, Zenon
<1>2. /\ v = Missing \/ v = [pid |-> r.pid, born |-> running[r.pid]]
      /\ v # Missing => running[r.pid] \in 1..time
  BY <1>1 DEF Attribute, Here
<1>3. running[r.pid] = 1 => v = IF field \in Links /\ r.pid \notin view
                                THEN Missing ELSE [pid |-> r.pid, born |-> 1]
  BY DEF Attribute, Here
<1>4. v \in [pid : Nat, born : Nat]
  BY <1>1, <1>2 DEF Missing
<1>5. s = Filled(r, field)
  BY DEF Filled
<1> HIDE DEF v
<1>6. /\ s \in ProcessRecord /\ s.pid = r.pid /\ s[field] = v
      /\ \A g \in Fields \ {field} : s[g] = r[g]
  BY <1>4, FieldSet
<1> HIDE DEF s
<1>7. Own(s, time)
  <2>1. ASSUME NEW g \in Fields, s[g] # Missing
        PROVE  s[g].pid = s.pid /\ s[g].born \in 1..time
    <3>1. CASE g = field
      BY <1>2, <1>6, <2>1, <3>1
    <3>2. CASE g # field
      BY <1>6, <2>1, <3>2 DEF Own
    <3> QED
      BY <3>1, <3>2
  <2> QED
    BY <2>1 DEF Own
<1>8. Complete(s, ReadBefore[After[field]], running, view)
  <2>1. ReadBefore[After[field]] \subseteq ReadBefore[field] \cup {field}
        /\ ReadBefore[field] \subseteq Fields \ {field}
    BY FieldOrder DEF ReadBefore
  <2>2. ASSUME running[s.pid] = 1, NEW g \in ReadBefore[After[field]]
        PROVE  s[g] = IF g \in Links /\ s.pid \notin view
                      THEN Missing ELSE [pid |-> s.pid, born |-> 1]
    <3>1. CASE g = field
      BY <1>3, <1>6, <2>2, <3>1
    <3>2. CASE g # field
      <4>1. g \in ReadBefore[field] /\ s[g] = r[g]
        BY <1>6, <2>1, <2>2, <3>2
      <4> QED
        BY <1>6, <2>2, <4>1 DEF Complete
    <3> QED
      BY <3>1, <3>2
  <2> QED
    BY <2>2 DEF Complete
<1>9. "uid" \in Fields /\ "cmdline" \in Fields /\ "uid" # "cmdline"
      /\ s["uid"] = s.uid /\ r["uid"] = r.uid /\ s["cmdline"] = s.cmdline
  BY FieldOrder
<1>10. ASSUME s.uid # Missing, running[s.pid] = s.uid.born
      PROVE  OneProgram(s)
  <2>1. CASE field = "uid"
    <3>1. \A g \in Fields : s[g] \in {Missing, s.uid}
      BY <1>6, <1>9, <2>1
    <3> QED
      BY <3>1 DEF OneProgram
  <2>2. CASE field # "uid"
    <3>1. s.uid = r.uid /\ OneProgram(r)
      BY <1>6, <1>9, <1>10, <2>2 DEF Steady
    <3>2. r.uid.pid = r.pid /\ r.uid \in [pid : Nat, born : Nat]
      BY <1>9, <1>10, <3>1, RecordFields DEF Own
    <3>3. v \in {Missing, s.uid}
      BY <1>2, <1>6, <1>10, <3>1, <3>2
    <3>4. \A g \in Fields : s[g] \in {Missing, s.uid}
      BY <1>6, <3>1, <3>3 DEF OneProgram
    <3> QED
      BY <3>4 DEF OneProgram
  <2> QED
    BY <2>1, <2>2
<1>11. Steady(s, running)
  BY <1>10 DEF Steady
<1>12. field = "cmdline" => Together(s)
  <2>1. ASSUME field = "cmdline", s.uid # Missing, s.uid = s.cmdline
        PROVE  running[s.pid] = s.uid.born
    BY <1>2, <1>6, <1>9, <2>1
  <2> QED
    BY <1>10, <2>1 DEF Together
<1> QED
  BY <1>5, <1>6, <1>7, <1>8, <1>11, <1>12

LEMMA ProcessRead ==
  ASSUME Shape, ProcessInv, function = "get_processes", read_field
  PROVE  ProcessInv'
<1>1. /\ at \in Fields /\ UNCHANGED << function, dir, pids, fds, array, system >>
      /\ item' = [item EXCEPT ![at] = Attribute(item.pid, at)] /\ at' = After[at]
  BY DEF read_field, Fields
<1>2. at \in DOMAIN ReadBefore /\ at' \in Fields \cup {"push"} /\ at' # "uid"
      /\ (at' = "push" => at = "cmdline") /\ at # "returned" /\ at' # "returned" /\ ~Failed
  BY <1>1, FieldOrder DEF ReadBefore, Failed
<1>3. Count' = Count /\ \A i : Cell(i)' = Cell(i)
  BY <1>1, <1>2 DEF Count, Cell
<1>4. /\ \A i \in 1..Count :
           /\ Cell(i) \in ProcessRecord
           /\ Own(Cell(i), time) /\ Complete(Cell(i), Fields, running, view)
           /\ Together(Cell(i))
           /\ \A j \in 1..Count : i < j => Cell(i).pid < Cell(j).pid
           /\ \A k \in DOMAIN pids : Cell(i).pid < pids[k]
      /\ \A pid \in Pids : Stable(pid) =>
           Among(pid, pids) \/ \E i \in 1..Count : Cell(i).pid = pid
      /\ item \in ProcessRecord /\ item.pid = Head(pids)
      /\ Own(item, time) /\ Complete(item, ReadBefore[at], running, view)
      /\ Steady(item, running)
      /\ at = "uid" => \A field \in Fields : item[field] = Missing
  BY <1>1, <1>2 DEF ProcessInv
<1>5. PICK r, field, s : r = item /\ field = at /\ s = item'
  OBVIOUS
<1>6. /\ s \in ProcessRecord /\ s.pid = r.pid
      /\ Own(s, time) /\ Steady(s, running)
      /\ Complete(s, ReadBefore[After[field]], running, view)
      /\ field = "cmdline" => Together(s)
  <2>1. Types
    BY DEF Shape
  <2>2. /\ field \in Fields /\ r \in ProcessRecord
        /\ Own(r, time) /\ Steady(r, running) /\ Complete(r, ReadBefore[field], running, view)
        /\ field = "uid" => \A g \in Fields : r[g] = Missing
    BY <1>1, <1>4, <1>5
  <2>3. s = Filled(r, field)
    BY <1>1, <1>5 DEF Filled
  <2> QED
    BY <2>1, <2>2, <2>3, FieldRead
<1>7. /\ item' \in ProcessRecord /\ item'.pid = Head(pids')
      /\ Own(item', time') /\ Complete(item', ReadBefore[at'], running', view')
      /\ Steady(item', running')
      /\ at' = "push" => Together(item')
  BY <1>1, <1>2, <1>4, <1>5, <1>6 DEF system
<1>8. \A pid : Stable(pid)' <=> Stable(pid)
  BY <1>1 DEF Stable, system
<1> HIDE DEF Count, Cell, Failed, Stable, Fields
<1> QED
  BY <1>1, <1>2, <1>3, <1>4, <1>7, <1>8 DEF ProcessInv, Among, system

LEMMA ProcessPush ==
  ASSUME Shape, ProcessInv, function = "get_processes", push
  PROVE  ProcessInv'
<1>1. /\ at = "push" /\ UNCHANGED << function, dir, fds, item, system >>
      /\ array' = array_push(array, item) /\ at' = "next" /\ pids' = Tail(pids)
  BY DEF push
<1>2. at \in DOMAIN ReadBefore /\ ReadBefore[at] = Fields /\ at' \notin DOMAIN ReadBefore
      /\ at # "returned" /\ at' # "returned" /\ ~Failed /\ pids # <<>>
  <2>1. at \in DOMAIN ReadBefore /\ ReadBefore[at] = Fields /\ at' \notin DOMAIN ReadBefore
    BY <1>1 DEF ReadBefore
  <2> QED
    BY <1>1, <2>1, ProcessPlaces DEF Failed
<1>3. /\ \A i \in 1..Count :
           /\ Cell(i) \in ProcessRecord
           /\ Own(Cell(i), time) /\ Complete(Cell(i), Fields, running, view)
           /\ Together(Cell(i))
           /\ \A j \in 1..Count : i < j => Cell(i).pid < Cell(j).pid
           /\ \A k \in DOMAIN pids : Cell(i).pid < pids[k]
      /\ \A pid \in Pids : Stable(pid) =>
           Among(pid, pids) \/ \E i \in 1..Count : Cell(i).pid = pid
      /\ item \in ProcessRecord /\ item.pid = Head(pids)
      /\ Own(item, time) /\ Complete(item, Fields, running, view) /\ Together(item)
  BY <1>1, <1>2 DEF ProcessInv
<1>4. /\ Count \in Nat /\ Count' = Count + 1 /\ \A i : i = Count + 1 => Cell(i)' = item
      /\ \A i \in 1..Count : Cell(i)' = Cell(i)
  <2>1. PICK e : e = item
    OBVIOUS
  <2>2. array' = array_push(array, e)
    BY <1>1, <2>1
  <2> QED
    BY <1>2, <2>1, <2>2, CountPushed DEF Shape
<1>5. /\ 1 \in DOMAIN pids /\ pids[1] = item.pid
      /\ \A i \in DOMAIN pids' : i + 1 \in DOMAIN pids /\ pids'[i] = pids[i + 1]
      /\ \A i \in DOMAIN pids' : item.pid < pids'[i]
      /\ \A x : Among(x, pids) <=> x = item.pid \/ Among(x, pids')
  <2>1. pids \in Seq(Pids) /\ Pids \subseteq Int /\ Increasing(pids)
    BY StampsFacts DEF Shape, Types
  <2> HIDE DEF Increasing, Among
  <2>2. /\ \A x : Among(x, pids) <=> x = Head(pids) \/ Among(x, Tail(pids))
        /\ \A i \in DOMAIN Tail(pids) : Head(pids) < Tail(pids)[i]
    BY <1>2, <2>1, TailIncreases
  <2>3. /\ 1 \in DOMAIN pids /\ pids[1] = Head(pids)
        /\ \A i \in DOMAIN Tail(pids) : i + 1 \in DOMAIN pids /\ Tail(pids)[i] = pids[i + 1]
    BY <1>2, <2>1, HeadTail
  <2> QED
    BY <1>1, <1>3, <2>2, <2>3
<1>6. \A i \in 1..Count' : (i \in 1..Count /\ Cell(i)' = Cell(i))
                           \/ (i = Count + 1 /\ Cell(i)' = item)
  BY <1>4
<1>7. \A pid : Stable(pid)' <=> Stable(pid)
  BY <1>1 DEF Stable, system
<1>8. ASSUME NEW i \in 1..Count'
      PROVE  /\ Cell(i)' \in ProcessRecord
             /\ Own(Cell(i)', time) /\ Complete(Cell(i)', Fields, running, view)
             /\ Together(Cell(i)')
             /\ \A j \in 1..Count' : i < j => Cell(i)'.pid < Cell(j)'.pid
             /\ \A k \in DOMAIN pids' : Cell(i)'.pid < pids'[k]
  <2>1. CASE i \in 1..Count /\ Cell(i)' = Cell(i)
    <3>1. \A j \in 1..Count' : i < j => Cell(i)'.pid < Cell(j)'.pid
      BY <1>3, <1>5, <1>6, <2>1
    <3> QED
      BY <1>3, <1>5, <2>1, <3>1
  <2>2. CASE i = Count + 1 /\ Cell(i)' = item
    <3>1. \A j \in 1..Count' : ~(i < j)
      BY <1>4, <2>2
    <3> QED
      BY <1>3, <1>5, <2>2, <3>1
  <2> QED
    BY <1>6, <2>1, <2>2
<1>9. ASSUME NEW pid \in Pids, Stable(pid)
      PROVE  Among(pid, pids') \/ \E i \in 1..Count' : Cell(i)'.pid = pid
  <2>1. CASE Among(pid, pids')
    BY <2>1
  <2>2. CASE pid = item.pid
    <3>1. PICK i \in 1..Count' : i = Count + 1
      BY <1>4
    <3>2. Cell(i)'.pid = pid
      BY <1>4, <2>2, <3>1
    <3> QED
      BY <3>2
  <2>3. CASE \E i \in 1..Count : Cell(i).pid = pid
    <3>1. PICK i \in 1..Count : Cell(i).pid = pid
      BY <2>3
    <3>2. i \in 1..Count' /\ Cell(i)'.pid = pid
      BY <1>4, <3>1
    <3> QED
      BY <3>2
  <2> QED
    BY <1>3, <1>5, <1>9, <2>1, <2>2, <2>3
<1> HIDE DEF Count, Cell, Failed, Stable, Fields
<1> QED
  BY <1>1, <1>2, <1>7, <1>8, <1>9 DEF ProcessInv, Among, system

LEMMA ProcessLast ==
  ASSUME Shape, ProcessInv, function = "get_processes", last
  PROVE  ProcessInv'
<1>1. /\ at = "last" /\ at' = "returned"
      /\ UNCHANGED << function, dir, pids, fds, item, system >>
  BY DEF last
<1>2. Count' = Count /\ \A i \in 1..Count : Cell(i)' = Cell(i)
  BY LastShape
<1>3. \A pid : Stable(pid)' <=> Stable(pid)
  BY <1>1 DEF Stable, system
<1>4. ~Failed /\ at' \notin DOMAIN ReadBefore
  BY <1>1 DEF Failed, ReadBefore
<1> HIDE DEF Count, Cell, Failed, Stable, Fields
<1> QED
  BY <1>1, <1>2, <1>3, <1>4 DEF ProcessInv, Among, system

LEMMA SameCall ==
  ASSUME Caller
  PROVE  function' = function /\ UNCHANGED system
BY Zenon DEF Caller, opendir, readdir, next_pid, read_field, next_fd, readlink, stat, push,
             getutxent, fscanf, last, xmalloc_fails, growth_fails

\* Steps of the other calls, and those that end the program.
LEMMA NotProcess ==
  ASSUME function # "get_processes" \/ xmalloc_fails \/ growth_fails, Caller
  PROVE  ProcessInv'
<1>1. function' = function
  BY SameCall
<1>2. xmalloc_fails \/ growth_fails => Failed'
  BY DEF xmalloc_fails, growth_fails, Failed
<1> QED
  BY <1>1, <1>2, Zenon DEF ProcessInv

LEMMA ProcessStutter ==
  ASSUME ProcessInv, UNCHANGED vars
  PROVE  ProcessInv'
<1>1. UNCHANGED <<function, at, dir, pids, fds, item, array, running, view, time>>
  BY DEF vars, system, caller
<1>2. /\ Count' = Count /\ \A i : Cell(i)' = Cell(i) /\ Stable(i)' = Stable(i)
      /\ Failed' = Failed
  BY <1>1 DEF Count, Cell, Stable, Failed
<1> HIDE DEF Count, Cell, Failed, Stable, Fields
<1> QED
  BY <1>1, <1>2 DEF ProcessInv, Among

LEMMA ProcessInit == Init => ProcessInv
<1> SUFFICES ASSUME Init, function = "get_processes" PROVE ProcessInv
  BY DEF ProcessInv
<1>1. at = "opendir" /\ array.cells = <<>>
  BY EmptyBlock DEF Init, Start
<1>2. 1..Count = {}
  BY <1>1 DEF Count
<1>3. at \notin DOMAIN ReadBefore
      /\ at \notin Fields \cup {"next", "push", "last", "returned"}
  BY <1>1, FieldOrder DEF ReadBefore
<1> HIDE DEF Count, Cell, Fields
<1> QED
  BY <1>2, <1>3 DEF ProcessInv

LEMMA ProcessesNext ==
  ASSUME Inv, [Next]_vars
  PROVE  ProcessInv'
<1> USE DEF Inv
<1>1. CASE System
  BY <1>1, ProcessSystem
<1>2. CASE Ended \/ UNCHANGED vars
  BY <1>2, ProcessStutter DEF Ended
<1>3. CASE Caller /\ (function # "get_processes" \/ xmalloc_fails \/ growth_fails)
  BY <1>3, NotProcess
<1>4. CASE Caller /\ function = "get_processes" /\ ~xmalloc_fails /\ ~growth_fails
  <2>1. /\ ~next_fd /\ ~readlink /\ ~stat /\ ~getutxent /\ ~fscanf
    BY <1>4, ProcessPlaces DEF next_fd, readlink, stat, getutxent, fscanf
  <2> QED
    BY <1>4, <2>1, ProcessListing, ProcessNext, ProcessRead, ProcessPush, ProcessLast,
       Zenon DEF Caller
<1> QED
  BY <1>1, <1>2, <1>3, <1>4 DEF Next

-----------------------------------------------------------------------------
(* The records of get_files.                                               *)

LEMMA FileFacts ==
  ASSUME NEW file \in FileRecord
  PROVE  /\ file.pid \in Pids /\ file.pid \in Nat /\ file.path.fd \in Fds
         /\ file.path.fd \in Nat /\ file # Null
         /\ file.path.born \in Nat /\ file.path.pid \in Pids
<1>1. "pid" \in DOMAIN file /\ "pid" \notin DOMAIN Null
  BY DEF FileRecord, Null
<1> QED
  BY <1>1, StampsFacts DEF FileRecord, Path

LEMMA FileSystem ==
  ASSUME Shape, FileInv, System
  PROVE  FileInv'
<1> SUFFICES ASSUME function = "get_files", ~Failed
             PROVE  FileInv'
  BY SystemSteps DEF Shape, FileInv, Failed, caller
<1>1. UNCHANGED <<function, at, dir, pids, fds, item, array>> /\ UNCHANGED view
      /\ time' = time + 1 /\ time \in Nat
  BY SystemSteps DEF Shape, Types, caller
<1>2. Count' = Count /\ (\A i : Cell(i)' = Cell(i)) /\ (InPid' <=> InPid) /\ (Failed' <=> Failed)
  BY <1>1 DEF Count, Cell, InPid, Failed
<1>3. \A pid \in Pids, fd \in Fds : StableFd(pid, fd)' => StableFd(pid, fd)
  BY StableBack DEF Shape
<1>4. \A file : HonestFile(file, time) => HonestFile(file, time')
  BY <1>1 DEF HonestFile
<1>5. FileCells => FileCells'
  <2> HIDE DEF Count, Cell, InPid
  <2> QED
    BY <1>1, <1>2, <1>4 DEF FileCells
<1>6. FileCovered => FileCovered'
  <2>1. view \subseteq 0..MaxPid /\ view \ {0} \subseteq Pids
    BY CartoAssumption DEF Shape, Types, Pids
  <2>2. \A pid \in view \ {0}, fd \in Fds \ {0} : StableFd(pid, fd)' => StableFd(pid, fd)
    BY <1>3, <2>1
  <2> HIDE DEF Count, Cell, InPid, StableFd
  <2> QED
    BY <1>1, <1>2, <2>2 DEF FileCovered, Among
<1>7. at \in {"stat", "push"} /\ FileItem => FileItem'
  <2> SUFFICES ASSUME at \in {"stat", "push"}, FileItem PROVE FileItem'
    OBVIOUS
  <2>1. pids # <<>> /\ fds # <<>>
    BY DEF Shape, Places
  <2>2. PICK pid \in Pids, fd \in Fds : pid = Head(pids) /\ fd = Head(fds)
    BY <2>1, Kept
  <2>3. StableFd(Head(pids), Head(fds))' => StableFd(Head(pids), Head(fds))
    <3>1. StableFd(Head(pids), Head(fds))' <=> StableFd(pid, fd)'
      BY <1>1, <2>2 DEF StableFd
    <3> QED
      BY <1>3, <2>2, <3>1
  <2>4. files'[pid][fd] \in {files[pid][fd], 0, time'}
    BY SystemSteps DEF Shape
  <2>5. item.path.born \in 1..time /\ files[pid][fd] \in {0} \cup item.path.born..time
    BY <2>2 DEF FileItem, HonestFile
  <2>6. files'[pid][fd] \in {0} \cup item.path.born..time'
    BY <1>1, <2>4, <2>5
  <2> HIDE DEF StableFd
  <2> QED
    BY <1>1, <1>4, <2>2, <2>3, <2>6 DEF FileItem
<1> QED
  BY <1>1, <1>2, <1>5, <1>6, <1>7 DEF FileInv

\* Nothing that FileInv speaks of changes.
LEMMA FileQuiet ==
  ASSUME Shape, FileInv, function = "get_files", ~Failed,
         UNCHANGED << function, pids, fds, array, system >>,
         InPid' <=> InPid, at # "returned", at' # "returned", at' \notin {"stat", "push"},
         at' \in {"next", "last"} => pids # <<>> \/ at \in {"next", "last"}
  PROVE  FileInv'
<1>1. Count' = Count /\ (\A i : Cell(i)' = Cell(i)) /\ UNCHANGED << time, view >>
      /\ \A pid, fd : StableFd(pid, fd)' <=> StableFd(pid, fd)
  BY DEF Count, Cell, StableFd, system
<1> HIDE DEF Count, Cell, StableFd, InPid
<1>2. FileCells'
  BY <1>1 DEF FileInv, FileCells
<1>3. pids' # <<>> \/ at' \in {"next", "last", "returned"} => FileCovered'
  BY <1>1 DEF FileInv, FileCovered, Among
<1> QED
  BY <1>2, <1>3 DEF FileInv

\* The loop leaves a pid of which nothing is left to visit.
LEMMA FileTail ==
  ASSUME Shape, FileInv, function = "get_files", ~Failed, pids # <<>>,
         UNCHANGED << function, fds, array, system >>, pids' = Tail(pids),
         at # "returned", at' = "next",
         \A fd \in Fds \ {0} : Head(pids) \in view /\ StableFd(Head(pids), fd)
                                 => InPid /\ ~Among(fd, fds)
  PROVE  FileInv'
<1>1. Count' = Count /\ (\A i : Cell(i)' = Cell(i)) /\ UNCHANGED << time, view >>
      /\ (\A pid, fd : StableFd(pid, fd)' <=> StableFd(pid, fd)) /\ ~(InPid')
  BY DEF Count, Cell, StableFd, system, InPid
<1>2. /\ \A i \in DOMAIN pids' : i + 1 \in DOMAIN pids /\ pids'[i] = pids[i + 1] /\ i + 1 # 1
      /\ \A i \in DOMAIN pids \ {1} : i - 1 \in DOMAIN pids' /\ pids'[i - 1] = pids[i]
      /\ pids[1] = Head(pids) /\ 1 \in DOMAIN pids
  <2>1. /\ \A i \in DOMAIN pids' : i + 1 \in DOMAIN pids /\ pids'[i] = pids[i + 1]
        /\ \A i \in DOMAIN pids \ {1} : i - 1 \in DOMAIN pids' /\ pids'[i - 1] = pids[i]
        /\ pids[1] = Head(pids) /\ 1 \in DOMAIN pids
    <3>1. pids \in Seq(Pids)
      BY Kept
    <3>2. /\ \A i \in DOMAIN Tail(pids) : i + 1 \in DOMAIN pids /\ Tail(pids)[i] = pids[i + 1]
          /\ \A i \in DOMAIN pids \ {1} : i - 1 \in DOMAIN Tail(pids)
                                          /\ Tail(pids)[i - 1] = pids[i]
          /\ pids[1] = Head(pids) /\ 1 \in DOMAIN pids
      BY <3>1, HeadTail
    <3> QED
      BY <3>2
  <2>2. \A i \in DOMAIN pids' : i + 1 # 1
    <3>1. pids' \in Seq(Pids)
      BY Kept
    <3> QED
      BY <3>1
  <2> QED
    BY <2>1, <2>2
<1>3. FileCells /\ FileCovered
  BY DEF FileInv
<1> HIDE DEF Count, Cell, StableFd, InPid
<1>4. FileCells'
  <2>1. \A i \in 1..Count, k \in DOMAIN pids' : Cell(i).pid < pids'[k]
    BY <1>2, <1>3 DEF FileCells
  <2> QED
    BY <1>1, <1>3, <2>1 DEF FileCells
<1>5. ASSUME NEW pid \in view \ {0}, NEW fd \in Fds \ {0}, StableFd(pid, fd)
      PROVE  (\E k \in DOMAIN pids' : pids'[k] = pid) \/ \E i \in 1..Count : Whole(Cell(i), pid, fd)
  <2>1. CASE \E k \in DOMAIN pids : pids[k] = pid /\ (InPid => k # 1)
    <3>1. PICK k \in DOMAIN pids : pids[k] = pid /\ (InPid => k # 1)
      BY <2>1
    <3>2. k # 1
      BY <1>2, <1>5, <3>1
    <3>3. k - 1 \in DOMAIN pids' /\ pids'[k - 1] = pid
      BY <1>2, <3>1, <3>2
    <3> QED
      BY <3>3
  <2>2. ~(InPid /\ pid = Head(pids) /\ Among(fd, fds))
    BY <1>5
  <2> QED
    BY <1>3, <1>5, <2>1, <2>2 DEF FileCovered
<1>6. FileCovered'
  BY <1>1, <1>5 DEF FileCovered
<1> QED
  BY <1>4, <1>6 DEF FileInv

\* The places of the loops of get_files.
LEMMA FilePlaces ==
  ASSUME Shape, function = "get_files"
  PROVE  /\ at \notin Fields \cup {"getutxent", "fscanf"}
         /\ InPid => pids # <<>>
         /\ at \in {"readlink", "stat", "push"} => fds # <<>>
         /\ at \in {"last", "returned"} => pids = <<>>
BY FieldOrder DEF Shape, Places, Done, InPid

\* What the listing of /proc or of a process left.
LEMMA FilesListed ==
  ASSUME Shape, at = "readdir",
         dir.of # 0 /\ Stable(dir.of) => {id \in Entries(dir.of) : id > dir.last} = {},
         dir.of = 0 => {id \in Entries(dir.of) : id > dir.last} = {}
  PROVE  /\ dir.of = 0 => \A pid \in Pids : Stable(pid) => Among(pid, dir.found.cells)
         /\ dir.of # 0 => \A fd \in Fds \ {0} :
                            StableFd(dir.of, fd) => Among(fd, dir.found.cells)
<1>1. dir.last \in Int /\ dir.of \in Nat
  BY Kept
<1>2. ASSUME dir.of = 0, NEW pid \in Pids, Stable(pid)
      PROVE  Among(pid, dir.found.cells)
  <2>1. pid \in Entries(dir.of) /\ pid \in Nat
    BY <1>2, StampsFacts DEF Stable, Entries
  <2>2. pid <= dir.last
    BY <1>1, <1>2, <2>1
  <2> QED
    BY <1>2, <2>1, <2>2 DEF Shape, Listing
<1>3. ASSUME dir.of # 0, NEW fd \in Fds \ {0}, StableFd(dir.of, fd)
      PROVE  Among(fd, dir.found.cells)
  <2>1. fd \in Entries(dir.of) /\ Stable(dir.of)
    BY <1>3 DEF Stable, StableFd, Entries
  <2>2. fd \in Nat
    BY StampsFacts
  <2>3. fd <= dir.last
    BY <1>1, <1>3, <2>1, <2>2
  <2> QED
    BY <1>3, <2>1, <2>3 DEF Shape, Listing
<1> QED
  BY <1>2, <1>3

LEMMA FileOpendir ==
  ASSUME Shape, FileInv, function = "get_files", opendir
  PROVE  FileInv'
<1>1. /\ at = "opendir" /\ UNCHANGED << function, fds, item, array, system >> /\ ~Failed
      /\ \/ at' = "readdir" /\ UNCHANGED pids
         \/ at' = "crashed"
         \/ ~CanOpen(dir.of) /\ dir.of # 0 /\ at' = "next" /\ pids' = Tail(pids)
  BY DEF opendir, Failed
<1>2. CASE at' = "readdir" /\ UNCHANGED pids
  BY <1>1, <1>2, FileQuiet DEF InPid
<1>3. CASE at' = "crashed"
  BY <1>1, <1>3 DEF FileInv, Failed
<1>4. CASE ~CanOpen(dir.of) /\ dir.of # 0 /\ at' = "next" /\ pids' = Tail(pids)
  <2>1. pids # <<>> /\ dir.of = Head(pids) /\ Head(pids) \in Pids
    BY <1>1, <1>4, Kept DEF Shape, Listing
  <2>2. \A fd \in Fds \ {0} : ~(Head(pids) \in view /\ StableFd(Head(pids), fd))
    BY <1>4, <2>1 DEF CanOpen, StableFd
  <2> QED
    BY <1>1, <1>4, <2>1, <2>2, FileTail
<1> QED
  BY <1>1, <1>2, <1>3, <1>4

LEMMA FileReaddir ==
  ASSUME Shape, FileInv, function = "get_files", readdir
  PROVE  FileInv'
<1> DEFINE left == {id \in Entries(dir.of) : id > dir.last}
<1>1. /\ at = "readdir" /\ UNCHANGED << function, item, system >> /\ ~Failed
      /\ \/ UNCHANGED << at, pids, fds, array >>
         \/ /\ left = {} \/ ~(dir.of = 0 \/ running[dir.of] = dir.born)
            /\ IF dir.of = 0
               THEN pids' = dir.found.cells /\ at' = "next" /\ UNCHANGED << fds, array >>
               ELSE fds' = dir.found.cells /\ at' = "next_fd" /\ UNCHANGED << pids, array >>
  <2>1. at = "readdir"
    BY DEF readdir
  <2> QED
    BY <2>1, Zenon DEF readdir, Failed
<1>2. CASE UNCHANGED << at, pids, fds, array >>
  BY <1>1, <1>2, FileQuiet DEF InPid
<1>3. CASE /\ left = {} \/ ~(dir.of = 0 \/ running[dir.of] = dir.born)
           /\ IF dir.of = 0
              THEN pids' = dir.found.cells /\ at' = "next" /\ UNCHANGED << fds, array >>
              ELSE fds' = dir.found.cells /\ at' = "next_fd" /\ UNCHANGED << pids, array >>
  <2>1. /\ Count' = Count /\ (\A i : Cell(i)' = Cell(i)) /\ UNCHANGED << time, view >>
        /\ \A pid, fd : StableFd(pid, fd)' <=> StableFd(pid, fd)
    BY <1>1, <1>3 DEF Count, Cell, StableFd, system
  <2>2. dir.of # 0 /\ Stable(dir.of) => dir.born = 1
    BY <1>1 DEF Shape, Listing
  <2>3. dir.of = 0 \/ Stable(dir.of) => left = {}
    BY <1>3, <2>2 DEF Stable
  <2>4. /\ dir.of = 0 => \A pid \in Pids : Stable(pid) => Among(pid, dir.found.cells)
        /\ dir.of # 0 => \A fd \in Fds \ {0} :
                           StableFd(dir.of, fd) => Among(fd, dir.found.cells)
    BY <1>1, <2>3, FilesListed
  <2>5. view \ {0} \subseteq Pids
    BY CartoAssumption DEF Shape, Types, Pids
  <2>6. CASE dir.of = 0
    <3>1. array.cells = <<>> /\ at' = "next" /\ pids' = dir.found.cells
      BY <1>1, <1>3, <2>6 DEF Shape, Listing
    <3>2. 1..Count = {} /\ ~(InPid')
      BY <1>1, <3>1 DEF Count, InPid
    <3>3. \A pid \in Pids : \A fd : StableFd(pid, fd) => Stable(pid)
      BY DEF StableFd, Stable
    <3> HIDE DEF Count, Cell, StableFd, InPid
    <3>4. FileCells'
      BY <2>1, <3>2 DEF FileCells
    <3>5. FileCovered'
      BY <2>1, <2>4, <2>5, <2>6, <3>1, <3>2, <3>3 DEF FileCovered, Among
    <3> QED
      BY <3>1, <3>4, <3>5 DEF FileInv
  <2>7. CASE dir.of # 0
    <3>1. /\ at' = "next_fd" /\ fds' = dir.found.cells /\ pids' = pids
          /\ pids # <<>> /\ dir.of = Head(pids)
      BY <1>1, <1>3, <2>7 DEF Shape, Listing
    <3>2. ~InPid /\ InPid'
      BY <1>1, <3>1 DEF InPid
    <3>3. pids[1] = Head(pids) /\ 1 \in DOMAIN pids
      BY <3>1, HeadTail, Kept
    <3>4. FileCells /\ FileCovered
      BY <1>1, <3>1 DEF FileInv
    <3>5. \A i \in 1..Count : Cell(i).pid \in Nat
      BY <3>4, FileFacts DEF FileCells
    <3>6. \A i \in DOMAIN pids : pids[i] \in Nat
      <4>1. \A i \in DOMAIN pids : pids[i] \in Pids
        <5>1. pids \in Seq(Pids)
          BY Kept
        <5> QED
          BY <5>1
      <4>2. Pids \subseteq Nat
        BY StampsFacts
      <4> QED
        BY <4>1, <4>2, Zenon
    <3> HIDE DEF Count, Cell, StableFd, InPid
    <3>7. \A i \in 1..Count, k \in DOMAIN pids :
             Cell(i).pid < pids[k] /\ Cell(i).pid <= pids[k] /\ Cell(i).pid # Head(pids)
      BY <3>2, <3>3, <3>4, <3>5, <3>6 DEF FileCells
    <3>8. FileCells'
      <4>1. \A i \in 1..Count :
              /\ Cell(i) \in FileRecord /\ HonestFile(Cell(i), time)
              /\ \A j \in 1..Count : i < j =>
                   Before(Cell(i).pid, Cell(i).path.fd, Cell(j).pid, Cell(j).path.fd)
        BY <3>4 DEF FileCells
      <4> HIDE DEF Before, HonestFile
      <4>2. ASSUME NEW i \in 1..Count'
            PROVE  /\ Cell(i)' \in FileRecord /\ HonestFile(Cell(i)', time')
                   /\ \A j \in 1..Count' : i < j =>
                        Before(Cell(i)'.pid, Cell(i)'.path.fd, Cell(j)'.pid, Cell(j)'.path.fd)
                   /\ \A k \in DOMAIN pids' : IF InPid' /\ k = 1 THEN Cell(i)'.pid <= pids'[k]
                                                                ELSE Cell(i)'.pid < pids'[k]
                   /\ Cell(i)'.pid # Head(pids')
        <5>1. Count' = Count /\ i \in 1..Count /\ time' = time /\ pids' = pids
              /\ \A j : Cell(j)' = Cell(j)
          BY <2>1, <3>1
        <5>2. /\ Cell(i)' \in FileRecord /\ HonestFile(Cell(i)', time')
              /\ \A j \in 1..Count' : i < j =>
                   Before(Cell(i)'.pid, Cell(i)'.path.fd, Cell(j)'.pid, Cell(j)'.path.fd)
          BY <4>1, <5>1
        <5>3. \A k \in DOMAIN pids' : Cell(i)'.pid < pids'[k] /\ Cell(i)'.pid <= pids'[k]
          BY <3>7, <5>1
        <5>4. Cell(i)'.pid # Head(pids')
          BY <3>3, <3>7, <5>1
        <5> QED
          BY <3>2, <5>2, <5>3, <5>4
      <4> QED
        BY <4>2 DEF FileCells
    <3>9. FileCovered'
      <4>1. ASSUME NEW pid \in view \ {0}, NEW fd \in Fds \ {0}, StableFd(pid, fd)
            PROVE  \/ \E k \in DOMAIN pids : pids[k] = pid /\ k # 1
                   \/ pid = Head(pids) /\ Among(fd, fds')
                   \/ \E i \in 1..Count : Whole(Cell(i), pid, fd)
        BY <2>4, <2>7, <3>1, <3>2, <3>3, <3>4, <4>1 DEF FileCovered
      <4> QED
        BY <2>1, <3>1, <3>2, <4>1 DEF FileCovered, Among
    <3> QED
      BY <3>1, <3>8, <3>9 DEF FileInv
  <2> QED
    BY <2>6, <2>7
<1> QED
  BY <1>1, <1>2, <1>3

LEMMA FileNext ==
  ASSUME Shape, FileInv, function = "get_files", next_pid \/ next_fd
  PROVE  FileInv'
<1>1. CASE next_pid
  <2>1. /\ at = "next" /\ at' \in {"last", "opendir"} /\ ~Failed
        /\ UNCHANGED << function, pids, fds, array, system >>
    BY <1>1 DEF next_pid, Failed
  <2> QED
    BY <2>1, FileQuiet DEF InPid
<1>2. CASE next_fd
  <2>1. /\ at = "next_fd" /\ ~Failed /\ UNCHANGED << function, fds, array, system >>
        /\ IF fds = <<>> THEN at' = "next" /\ pids' = Tail(pids)
                         ELSE at' = "readlink" /\ UNCHANGED pids
    BY <1>2 DEF next_fd, Failed
  <2>2. InPid /\ pids # <<>>
    BY <2>1, FilePlaces DEF InPid
  <2>3. CASE fds # <<>>
    <3>1. UNCHANGED pids /\ at' = "readlink" /\ (InPid' <=> InPid)
      BY <2>1, <2>3 DEF InPid
    <3> QED
      BY <2>1, <2>2, <3>1, FileQuiet
  <2>4. CASE fds = <<>>
    <3>1. \A fd : ~Among(fd, fds)
      BY <2>4 DEF Among
    <3> QED
      BY <2>1, <2>2, <2>4, <3>1, FileTail
  <2> QED
    BY <2>3, <2>4
<1> QED
  BY <1>1, <1>2

LEMMA HeadsOfFiles ==
  ASSUME Shape, pids # <<>>, fds # <<>>
  PROVE  /\ Head(pids) \in Pids /\ Head(pids) = pids[1] /\ 1 \in DOMAIN pids
         /\ Head(pids) \in Nat
         /\ \A k \in DOMAIN pids : pids[k] \in Nat /\ (k # 1 => Head(pids) < pids[k])
         /\ Head(fds) \in Fds \ {0} /\ Head(fds) \in Nat
         /\ Head(fds) = fds[1] /\ 1 \in DOMAIN fds
         /\ \A k \in DOMAIN Tail(fds) : k + 1 \in DOMAIN fds /\ Tail(fds)[k] = fds[k + 1]
                                        /\ Head(fds) < Tail(fds)[k]
         /\ \A x : Among(x, fds) <=> x = Head(fds) \/ Among(x, Tail(fds))
         /\ files[Head(pids)][Head(fds)] \in Nat
         /\ files[Head(pids)][Head(fds)] <= time /\ time \in Nat
<1>1. /\ pids \in Seq(Pids) /\ Pids \subseteq Int /\ Increasing(pids)
      /\ fds \in Seq(Fds \ {0}) /\ Fds \ {0} \subseteq Int /\ Increasing(fds)
      /\ Head(pids) \in Pids /\ Head(fds) \in Fds \ {0}
  BY Kept, StampsFacts
<1>2. /\ \A k \in DOMAIN pids : k # 1 => Head(pids) < pids[k]
      /\ Head(pids) = pids[1] /\ 1 \in DOMAIN pids
  <2>1. Head(pids) = pids[1] /\ 1 \in DOMAIN pids
    BY <1>1, HeadTail
  <2>2. \A k \in DOMAIN pids : k # 1 => 1 < k
    BY <1>1
  <2> QED
    BY <1>1, <2>1, <2>2 DEF Increasing
<1>3. \A k \in DOMAIN pids : pids[k] \in Nat
  <2>1. \A k \in DOMAIN pids : pids[k] \in Pids
    BY <1>1
  <2> QED
    BY <2>1, StampsFacts, Zenon
<1>4. /\ Head(fds) = fds[1] /\ 1 \in DOMAIN fds
      /\ \A k \in DOMAIN Tail(fds) : k + 1 \in DOMAIN fds /\ Tail(fds)[k] = fds[k + 1]
  BY <1>1, HeadTail
<1>5. /\ \A k \in DOMAIN Tail(fds) : Head(fds) < Tail(fds)[k]
      /\ \A x : Among(x, fds) <=> x = Head(fds) \/ Among(x, Tail(fds))
  <2> HIDE DEF Increasing, Among
  <2> QED
    BY <1>1, TailIncreases
<1>6. time \in Nat /\ files[Head(pids)][Head(fds)] \in 0..time
  BY <1>1 DEF Shape, Types
<1>7. files[Head(pids)][Head(fds)] \in Nat /\ files[Head(pids)][Head(fds)] <= time
  BY <1>6
<1>8. Head(pids) \in Nat /\ Head(fds) \in Nat
  BY <1>1, StampsFacts, Zenon
<1> QED
  BY <1>1, <1>2, <1>3, <1>4, <1>5, <1>6, <1>7, <1>8

LEMMA FileReadlink ==
  ASSUME Shape, FileInv, function = "get_files", readlink
  PROVE  FileInv'
<1> DEFINE path == Opened(Head(pids), Head(fds))
<1>1. /\ at = "readlink" /\ ~Failed /\ UNCHANGED << function, pids, array, system >>
      /\ \/ path = Missing /\ at' = "next_fd" /\ fds' = Tail(fds)
         \/ /\ path # Missing /\ at' = "stat" /\ UNCHANGED fds
            /\ item' = [path |-> path, pid |-> Head(pids), file_stat |-> Missing]
  BY DEF readlink, advance, Failed
<1>2. pids # <<>> /\ fds # <<>> /\ InPid /\ InPid'
  BY <1>1, FilePlaces DEF InPid
<1>3. /\ Count' = Count /\ (\A i : Cell(i)' = Cell(i)) /\ UNCHANGED << time, view, files >>
      /\ \A pid, fd : StableFd(pid, fd)' <=> StableFd(pid, fd)
  BY <1>1 DEF Count, Cell, StableFd, system
<1>4. FileCells /\ FileCovered
  BY <1>1, <1>2 DEF FileInv
<1>5. CASE path = Missing /\ at' = "next_fd" /\ fds' = Tail(fds)
  <2>1. ~StableFd(Head(pids), Head(fds))
    <3>1. files[Head(pids)][Head(fds)] # 1 \/ Head(pids) = 0
      BY <1>5 DEF Opened, Missing
    <3> QED
      BY <1>2, <3>1, HeadsOfFiles, StampsFacts DEF StableFd
  <2>2. FileCells'
    <3>1. \A i \in 1..Count : Cell(i).pid = Head(pids) =>
             \A k \in DOMAIN Tail(fds) : Cell(i).path.fd < Tail(fds)[k]
      BY <1>2, <1>4, HeadsOfFiles DEF FileCells
    <3> HIDE DEF Count, Cell, InPid
    <3> QED
      BY <1>1, <1>2, <1>3, <1>4, <1>5, <3>1 DEF FileCells
  <2>3. FileCovered'
    <3>1. \A x : Among(x, fds) <=> x = Head(fds) \/ Among(x, fds')
      BY <1>2, <1>5, HeadsOfFiles
    <3> HIDE DEF Count, Cell, InPid, StableFd
    <3>2. ASSUME NEW pid \in view \ {0}, NEW fd \in Fds \ {0}, StableFd(pid, fd)
          PROVE  \/ \E k \in DOMAIN pids : pids[k] = pid /\ k # 1
                 \/ pid = Head(pids) /\ Among(fd, fds')
                 \/ \E i \in 1..Count : Whole(Cell(i), pid, fd)
      BY <1>2, <1>4, <2>1, <3>1, <3>2 DEF FileCovered
    <3> QED
      BY <1>1, <1>2, <1>3, <3>2 DEF FileCovered, Among
  <2> QED
    BY <1>5, <2>2, <2>3 DEF FileInv
<1>6. CASE /\ path # Missing /\ at' = "stat" /\ UNCHANGED fds
           /\ item' = [path |-> path, pid |-> Head(pids), file_stat |-> Missing]
  <2>1. FileCells' /\ FileCovered'
    <3> HIDE DEF Count, Cell, InPid, StableFd
    <3> QED
      BY <1>1, <1>2, <1>3, <1>4, <1>6 DEF FileCells, FileCovered, Among
  <2>2. FileItem'
    <3> DEFINE pid == Head(pids)
               fd == Head(fds)
               born == files[pid][fd]
    <3>1. /\ pid \in Pids /\ fd \in Fds /\ born \in Nat /\ born <= time /\ time \in Nat
      BY <1>2, HeadsOfFiles
    <3>2. born # 0 /\ path = [pid |-> pid, fd |-> fd, born |-> born]
      BY <1>6 DEF Opened
    <3>3. born \in 1..time /\ born \in born..time
      BY <3>1, <3>2
    <3>4. StableFd(pid, fd) => born = 1
      BY DEF StableFd
    <3> HIDE DEF pid, fd, born, path
    <3>5. /\ item' \in FileRecord /\ item'.pid = pid /\ item'.path = path
          /\ item'.file_stat = Missing /\ path.pid = pid /\ path.fd = fd /\ path.born = born
      BY <1>6, <3>1, <3>2 DEF FileRecord, Path, pid
    <3>6. HonestFile(item', time')
      BY <1>3, <3>3, <3>5 DEF HonestFile
    <3>7. StableFd(pid, fd) => item'.path = First(pid, fd)
      BY <3>2, <3>4, <3>5 DEF First
    <3>8. pid = Head(pids') /\ fd = Head(fds') /\ born = files'[pid][fd]
      BY <1>1, <1>3, <1>6 DEF pid, fd, born
    <3>9. StableFd(Head(pids), Head(fds))' => StableFd(pid, fd)
      BY <1>1, <1>3, <1>6 DEF StableFd, pid, fd, system
    <3> QED
      BY <1>3, <1>6, <3>3, <3>5, <3>6, <3>7, <3>8, <3>9 DEF FileItem
  <2> QED
    BY <2>1, <2>2 DEF FileInv
<1> QED
  BY <1>1, <1>5, <1>6

LEMMA FileStat ==
  ASSUME Shape, FileInv, function = "get_files", stat
  PROVE  FileInv'
<1> DEFINE pid == Head(pids)
           fd == Head(fds)
           now == files[pid][fd]
           found == Opened(pid, fd)
<1>1. /\ at = "stat" /\ at' = "push" /\ ~Failed
      /\ UNCHANGED << function, dir, pids, fds, array, system >>
      /\ item' = [item EXCEPT !.file_stat = found]
  BY DEF stat, file_stat, Failed
<1>2. pids # <<>> /\ fds # <<>> /\ InPid /\ InPid'
  BY <1>1, FilePlaces DEF InPid
<1>3. /\ Count' = Count /\ (\A i : Cell(i)' = Cell(i)) /\ UNCHANGED << time, view, files >>
      /\ \A p, f : StableFd(p, f)' <=> StableFd(p, f)
  BY <1>1 DEF Count, Cell, StableFd, system
<1>4. FileCells /\ FileCovered /\ FileItem
  BY <1>1, <1>2 DEF FileInv
<1>5. FileCells' /\ FileCovered'
  <2> HIDE DEF Count, Cell, InPid, StableFd, pid, fd, now, found
  <2> QED
    BY <1>1, <1>2, <1>3, <1>4 DEF FileCells, FileCovered, Among
<1>6. FileItem'
  <2>1. pid \in Pids /\ fd \in Fds /\ now \in Nat /\ now <= time /\ time \in Nat
    BY <1>2, HeadsOfFiles
  <2>2. /\ item \in FileRecord /\ HonestFile(item, time)
        /\ item.pid = pid /\ item.path.fd = fd
        /\ now \in {0} \cup item.path.born..time
        /\ StableFd(pid, fd) => item.path = First(pid, fd)
    BY <1>4 DEF FileItem
  <2>3. found = IF now = 0 THEN Missing ELSE [pid |-> pid, fd |-> fd, born |-> now]
    BY DEF Opened
  <2>4. StableFd(pid, fd) => now = 1
    BY DEF StableFd
  <2>5. StableFd(Head(pids), Head(fds))' => StableFd(pid, fd)
    BY <1>1, <1>3 DEF StableFd, system
  <2>6. pid = Head(pids') /\ fd = Head(fds') /\ now = files'[pid][fd]
    BY <1>1, <1>3
  <2> HIDE DEF pid, fd, now, found
  <2>7. /\ found = Missing \/ found \in Path
        /\ found # Missing => found.pid = pid /\ found.fd = fd /\ found.born = now /\ now # 0
    BY <2>1, <2>3 DEF Path
  <2>8. /\ item' \in FileRecord /\ item'.pid = item.pid /\ item'.path = item.path
        /\ item'.file_stat = found
    BY <1>1, <2>2, <2>7 DEF FileRecord
  <2>9. HonestFile(item', time')
    <3>1. now # 0 => item.path.born <= now
      BY <2>1, <2>2 DEF HonestFile
    <3> QED
      BY <1>3, <2>2, <2>7, <2>8, <3>1 DEF HonestFile
  <2>10. StableFd(pid, fd) => Whole(item', pid, fd)
    <3> SUFFICES ASSUME StableFd(pid, fd) PROVE Whole(item', pid, fd)
      OBVIOUS
    <3>1. found = First(pid, fd) /\ item.path = First(pid, fd)
      BY <2>2, <2>3, <2>4 DEF First
    <3>2. /\ item' \in [pid : Pids, path : Path, file_stat : Path \cup {Missing}]
          /\ item'.pid = pid /\ item'.path = First(pid, fd) /\ item'.file_stat = First(pid, fd)
      BY <2>2, <2>8, <3>1 DEF FileRecord
    <3> HIDE DEF First
    <3> QED
      BY <3>2 DEF Whole
  <2> QED
    BY <1>1, <1>3, <2>2, <2>5, <2>6, <2>8, <2>9, <2>10 DEF FileItem
<1> QED
  BY <1>5, <1>6 DEF FileInv

LEMMA FilePush ==
  ASSUME Shape, FileInv, function = "get_files", push
  PROVE  FileInv'
<1> DEFINE pid == Head(pids)
           fd == Head(fds)
<1>1. /\ at = "push" /\ at' = "next_fd" /\ ~Failed /\ fds' = Tail(fds)
      /\ UNCHANGED << function, pids, item, system >>
      /\ array' = array_push(array, item)
  BY DEF push, advance, Failed
<1>2. pids # <<>> /\ fds # <<>> /\ InPid /\ InPid'
  BY <1>1, FilePlaces DEF InPid
<1>3. /\ UNCHANGED << time, view, files >>
      /\ \A p, f : StableFd(p, f)' <=> StableFd(p, f)
  BY <1>1 DEF StableFd, system
<1>4. FileCells /\ FileCovered /\ FileItem
  BY <1>1, <1>2 DEF FileInv
<1>5. /\ Count \in Nat /\ Count' = Count + 1
      /\ \A i \in 1..Count : Cell(i)' = Cell(i)
      /\ \A i : i = Count + 1 => Cell(i)' = item
      /\ \A i \in 1..Count' : i \in 1..Count \/ i = Count + 1
  <2>1. PICK e : e = item
    OBVIOUS
  <2>2. array' = array_push(array, e) /\ at # "returned" /\ at' # "returned"
    BY <1>1, <2>1
  <2> QED
    BY <2>1, <2>2, CountPushed DEF Shape
<1>6. /\ \A k \in DOMAIN pids : pids[k] \in Nat /\ (k # 1 => pid < pids[k])
      /\ pid = pids[1] /\ pid \in Nat /\ 1 \in DOMAIN pids
      /\ fd = fds[1] /\ 1 \in DOMAIN fds
      /\ \A k \in DOMAIN fds' : k + 1 \in DOMAIN fds /\ fds'[k] = fds[k + 1] /\ fd < fds'[k]
      /\ \A x : Among(x, fds) <=> x = fd \/ Among(x, fds')
  BY <1>1, <1>2, HeadsOfFiles
<1>7. /\ item \in FileRecord /\ HonestFile(item, time)
      /\ item.pid = pid /\ item.path.fd = fd
      /\ StableFd(pid, fd) => Whole(item, pid, fd)
  BY <1>1, <1>4 DEF FileItem
<1> HIDE DEF Count, Cell, InPid, StableFd, pid, fd
<1>8. FileCells'
  <2>1. ASSUME NEW i \in 1..Count'
        PROVE  /\ Cell(i)' \in FileRecord /\ HonestFile(Cell(i)', time')
               /\ \A j \in 1..Count' : i < j =>
                    Before(Cell(i)'.pid, Cell(i)'.path.fd, Cell(j)'.pid, Cell(j)'.path.fd)
               /\ \A k \in DOMAIN pids' : IF InPid' /\ k = 1 THEN Cell(i)'.pid <= pids'[k]
                                                            ELSE Cell(i)'.pid < pids'[k]
               /\ Cell(i)'.pid = Head(pids') => \A k \in DOMAIN fds' : Cell(i)'.path.fd < fds'[k]
    <3>1. CASE i \in 1..Count
      <4>1. /\ Cell(i)' = Cell(i) /\ Cell(i) \in FileRecord /\ HonestFile(Cell(i), time)
            /\ \A j \in 1..Count : i < j =>
                 Before(Cell(i).pid, Cell(i).path.fd, Cell(j).pid, Cell(j).path.fd)
            /\ \A k \in DOMAIN pids : IF k = 1 THEN Cell(i).pid <= pids[k]
                                               ELSE Cell(i).pid < pids[k]
            /\ Cell(i).pid = pid => \A k \in DOMAIN fds : Cell(i).path.fd < fds[k]
        BY <1>2, <1>4, <1>5, <3>1 DEF FileCells, pid
      <4>2. Cell(i).pid \in Nat /\ Cell(i).path.fd \in Nat
        BY <4>1, FileFacts
      <4>3. Before(Cell(i).pid, Cell(i).path.fd, item.pid, item.path.fd)
        BY <1>6, <1>7, <4>1, <4>2 DEF Before
      <4>4. \A j \in 1..Count' : i < j =>
              Before(Cell(i).pid, Cell(i).path.fd, Cell(j)'.pid, Cell(j)'.path.fd)
        <5> HIDE DEF Before
        <5> QED
          BY <1>5, <4>1, <4>3
      <4>5. Cell(i).pid = pid => \A k \in DOMAIN fds' : Cell(i).path.fd < fds'[k]
        BY <1>6, <4>1
      <4>6. Head(pids') = pid /\ pids' = pids /\ time' = time
        BY <1>1, <1>3 DEF pid
      <4> QED
        BY <1>2, <4>1, <4>4, <4>5, <4>6
    <3>2. CASE i = Count + 1
      <4>1. Cell(i)' = item /\ \A j \in 1..Count' : ~(i < j)
        BY <1>5, <3>2
      <4>2. \A k \in DOMAIN pids : IF k = 1 THEN item.pid <= pids[k] ELSE item.pid < pids[k]
        BY <1>6, <1>7
      <4> QED
        BY <1>1, <1>2, <1>3, <1>6, <1>7, <4>1, <4>2
    <3> QED
      BY <1>5, <3>1, <3>2
  <2> QED
    BY <2>1 DEF FileCells
<1>9. FileCovered'
  <2>1. ASSUME NEW p \in view \ {0}, NEW f \in Fds \ {0}, StableFd(p, f)
        PROVE  \/ \E k \in DOMAIN pids : pids[k] = p /\ k # 1
               \/ p = pid /\ Among(f, fds')
               \/ \E i \in 1..Count' : Whole(Cell(i)', p, f)
    <3>1. CASE p = pid /\ f = fd
      <4>1. Whole(item, p, f)
        BY <1>7, <2>1, <3>1
      <4>2. PICK i \in 1..Count' : i = Count + 1
        BY <1>5
      <4>3. Cell(i)' = item
        BY <1>5, <4>2
      <4> QED
        BY <4>1, <4>3
    <3>2. CASE \E i \in 1..Count : Whole(Cell(i), p, f)
      <4>1. PICK i \in 1..Count : Whole(Cell(i), p, f)
        BY <3>2
      <4>2. i \in 1..Count' /\ Cell(i)' = Cell(i)
        BY <1>5
      <4> QED
        BY <4>1, <4>2
    <3> HIDE DEF Whole
    <3> QED
      BY <1>2, <1>4, <1>6, <2>1, <3>1, <3>2 DEF FileCovered, pid
  <2> QED
    BY <1>1, <1>2, <1>3, <2>1 DEF FileCovered, Among, pid
<1> QED
  BY <1>1, <1>8, <1>9 DEF FileInv

LEMMA FileLast ==
  ASSUME Shape, FileInv, function = "get_files", last
  PROVE  FileInv'
<1>1. /\ at = "last" /\ at' = "returned" /\ ~Failed
      /\ UNCHANGED << function, dir, pids, fds, item, system >>
  BY DEF last, Failed
<1>2. Count' = Count /\ \A i \in 1..Count : Cell(i)' = Cell(i)
  BY LastShape
<1>3. /\ UNCHANGED << time, view >> /\ ~InPid /\ ~(InPid')
      /\ \A p, f : StableFd(p, f)' <=> StableFd(p, f)
  BY <1>1 DEF StableFd, system, InPid
<1>4. FileCells /\ FileCovered
  BY <1>1 DEF FileInv
<1> HIDE DEF Count, Cell, InPid, StableFd
<1>5. FileCells' /\ FileCovered'
  BY <1>1, <1>2, <1>3, <1>4 DEF FileCells, FileCovered, Among
<1> QED
  BY <1>1, <1>5 DEF FileInv

\* Steps of the other calls, and those that end the program.
LEMMA NotFile ==
  ASSUME function # "get_files" \/ xmalloc_fails \/ growth_fails, Caller
  PROVE  FileInv'
<1>1. function' = function
  BY SameCall
<1>2. xmalloc_fails \/ growth_fails => Failed'
  BY DEF xmalloc_fails, growth_fails, Failed
<1> QED
  BY <1>1, <1>2, Zenon DEF FileInv

LEMMA FileStutter ==
  ASSUME FileInv, UNCHANGED vars
  PROVE  FileInv'
<1>1. UNCHANGED <<function, at, dir, pids, fds, item, array, running, files, view, time>>
  BY DEF vars, system, caller
<1>2. /\ Count' = Count /\ (\A i : Cell(i)' = Cell(i)) /\ (Failed' <=> Failed)
      /\ (InPid' <=> InPid) /\ \A p, f : StableFd(p, f)' <=> StableFd(p, f)
  BY <1>1 DEF Count, Cell, StableFd, Failed, InPid
<1>3. StableFd(Head(pids), Head(fds))' <=> StableFd(Head(pids), Head(fds))
  BY <1>1 DEF StableFd
<1> HIDE DEF Count, Cell, Failed, StableFd, InPid
<1>4. (FileCells => FileCells') /\ (FileCovered => FileCovered')
  BY <1>1, <1>2 DEF FileCells, FileCovered, Among
<1>5. FileItem => FileItem'
  BY <1>1, <1>3 DEF FileItem
<1> QED
  BY <1>1, <1>2, <1>4, <1>5 DEF FileInv

LEMMA FileInit == Init => FileInv
<1> SUFFICES ASSUME Init, function = "get_files" PROVE FileInv
  BY DEF FileInv
<1>1. at = "opendir" /\ array.cells = <<>> /\ pids = <<>>
  BY EmptyBlock DEF Init, Start
<1>2. 1..Count = {}
  BY <1>1 DEF Count
<1>3. FileCells
  BY <1>2 DEF FileCells
<1> QED
  BY <1>1, <1>3 DEF FileInv

LEMMA FilesNext ==
  ASSUME Inv, [Next]_vars
  PROVE  FileInv'
<1> USE DEF Inv
<1>1. CASE System
  BY <1>1, FileSystem
<1>2. CASE Ended \/ UNCHANGED vars
  BY <1>2, FileStutter DEF Ended
<1>3. CASE Caller /\ (function # "get_files" \/ xmalloc_fails \/ growth_fails)
  BY <1>3, NotFile
<1>4. CASE Caller /\ function = "get_files" /\ ~xmalloc_fails /\ ~growth_fails
  <2>1. /\ ~read_field /\ ~getutxent /\ ~fscanf
    BY <1>4, FilePlaces DEF read_field, getutxent, fscanf, Fields
  <2> QED
    BY <1>4, <2>1, FileOpendir, FileReaddir, FileNext, FileReadlink, FileStat, FilePush,
       FileLast, Zenon DEF Caller
<1> QED
  BY <1>1, <1>2, <1>3, <1>4 DEF Next

-----------------------------------------------------------------------------
(* The records of get_users.                                               *)

LEMMA UserSystem ==
  ASSUME Shape, UserInv, System
  PROVE  UserInv'
<1> SUFFICES ASSUME function = "get_users", ~Failed
             PROVE  UserInv'
  BY SystemSteps DEF Shape, UserInv, Failed, caller
<1>1. /\ UNCHANGED << function, at, array >> /\ time' # 1
      /\ Len(utmp) <= Len(utmp') /\ Len(utmp) \in Nat /\ Len(utmp') \in Nat
      /\ \A i \in DOMAIN utmp' : utmp'[i] = 1 => i \in DOMAIN utmp /\ utmp[i] = 1
      /\ DOMAIN utmp = 1..Len(utmp) /\ DOMAIN utmp' = 1..Len(utmp')
  BY SystemSteps DEF Shape, Types, caller
<1>2. Count' = Count /\ (\A i : Cell(i)' = Cell(i)) /\ (Failed' <=> Failed)
  BY <1>1 DEF Count, Cell, Failed
<1>3. /\ Count <= Len(utmp)
      /\ \A i \in 1..Count : utmp[i] = 1 => Cell(i) = clone_utmp(1)
      /\ at \in {"last", "returned"} => \A i \in DOMAIN utmp : utmp[i] = 1 => i <= Count
  BY DEF UserInv
<1>4. Count \in Int
  <2>1. PICK S : array.cells \in Seq(S)
    BY DEF Shape, Blocks
  <2> QED
    BY <2>1 DEF Count
<1> HIDE DEF Count, Cell, Failed
<1>5. /\ Count' <= Len(utmp')
      /\ \A i \in 1..Count' : utmp'[i] = 1 => Cell(i)' = clone_utmp(1)
  BY <1>1, <1>2, <1>3, <1>4
<1>6. at' \in {"last", "returned"} => \A i \in DOMAIN utmp' : utmp'[i] = 1 => i <= Count'
  BY <1>1, <1>2, <1>3
<1> QED
  BY <1>5, <1>6 DEF UserInv

LEMMA UserGetutxent ==
  ASSUME Shape, UserInv, function = "get_users", getutxent
  PROVE  UserInv'
<1> DEFINE next == Len(array.cells) + 1
<1>1. /\ at = "getutxent" /\ UNCHANGED << function, system >> /\ ~Failed
      /\ IF next <= Len(utmp)
         THEN array' = array_push(array, clone_utmp(utmp[next])) /\ UNCHANGED at
         ELSE at' = "last" /\ UNCHANGED array
  BY DEF getutxent, Failed
<1>2. /\ utmp' = utmp /\ utmp \in Seq(Nat)
  BY <1>1 DEF Shape, Types, system
<1>3. /\ Count <= Len(utmp)
      /\ \A i \in 1..Count : utmp[i] = 1 => Cell(i) = clone_utmp(1)
  BY <1>1 DEF UserInv
<1>4. Len(array.cells) \in Nat /\ Count = Len(array.cells)
  <2>1. PICK S : array.cells \in Seq(S)
    BY DEF Shape, Blocks
  <2> QED
    BY <1>1, <2>1 DEF Count
<1>5. CASE next <= Len(utmp)
  <2>1. PICK e : e = clone_utmp(utmp[next])
    OBVIOUS
  <2>2. array' = array_push(array, e) /\ at' = "getutxent" /\ at # "returned"
    BY <1>1, <1>5, <2>1
  <2>3. /\ Count' = Count + 1
        /\ \A i \in 1..Count : Cell(i)' = Cell(i)
        /\ \A i : i = Count + 1 => Cell(i)' = e
        /\ \A i \in 1..Count' : i \in 1..Count \/ i = Count + 1
    BY <2>2, CountPushed DEF Shape
  <2> HIDE DEF Count, Cell
  <2>4. \A i \in 1..Count' : utmp'[i] = 1 => Cell(i)' = clone_utmp(1)
    BY <1>2, <1>3, <1>4, <2>1, <2>3
  <2> QED
    BY <1>2, <1>4, <1>5, <2>2, <2>3, <2>4 DEF UserInv
<1>6. CASE ~(next <= Len(utmp))
  <2>1. at' = "last" /\ UNCHANGED array
    BY <1>1, <1>6
  <2>2. Count' = Count /\ \A i : Cell(i)' = Cell(i)
    BY <1>1, <2>1 DEF Count, Cell
  <2>3. \A i \in DOMAIN utmp : i <= Count
    BY <1>2, <1>4, <1>6
  <2> HIDE DEF Count, Cell, next
  <2> QED
    BY <1>2, <1>3, <2>2, <2>3 DEF UserInv
<1> QED
  BY <1>5, <1>6

LEMMA UserLast ==
  ASSUME Shape, UserInv, function = "get_users", last
  PROVE  UserInv'
<1>1. /\ at = "last" /\ at' = "returned" /\ ~Failed /\ utmp' = utmp
      /\ UNCHANGED << function, dir, pids, fds, item, system >>
  BY DEF last, Failed, system
<1>2. Count' = Count /\ \A i \in 1..Count : Cell(i)' = Cell(i)
  BY LastShape
<1> HIDE DEF Count, Cell
<1> QED
  BY <1>1, <1>2 DEF UserInv

LEMMA UserInit == Init => UserInv
<1> SUFFICES ASSUME Init, function = "get_users" PROVE UserInv
  BY DEF UserInv
<1>1. at = "getutxent" /\ array.cells = <<>>
  BY EmptyBlock DEF Init, Start
<1>2. Count = 0
  BY <1>1 DEF Count
<1>3. utmp \in Seq(Nat)
  BY ShapeInit DEF Shape, Types
<1> HIDE DEF Count
<1> QED
  BY <1>1, <1>2, <1>3 DEF UserInv

LEMMA UsersNext ==
  ASSUME Inv, [Next]_vars
  PROVE  UserInv'
<1> USE DEF Inv
<1>1. CASE System
  BY <1>1, UserSystem
<1>2. CASE Ended \/ UNCHANGED vars
  <2>1. UNCHANGED << function, at, array, utmp >>
    BY <1>2 DEF Ended, vars, system, caller
  <2>2. Count' = Count /\ (\A i : Cell(i)' = Cell(i)) /\ (Failed' <=> Failed)
    BY <2>1 DEF Count, Cell, Failed
  <2> HIDE DEF Count, Cell, Failed
  <2> QED
    BY <2>1, <2>2 DEF UserInv
<1>3. CASE Caller /\ (function # "get_users" \/ xmalloc_fails \/ growth_fails)
  <2>1. xmalloc_fails \/ growth_fails => Failed'
    BY DEF xmalloc_fails, growth_fails, Failed
  <2> QED
    BY <1>3, <2>1, SameCall, Zenon DEF UserInv
<1>4. CASE Caller /\ function = "get_users" /\ ~xmalloc_fails /\ ~growth_fails
  <2>1. at \in {"getutxent", "last"} \cup Done
    BY <1>4 DEF Shape, Places
  <2>2. getutxent \/ last
    BY <1>4, <2>1, FieldOrder DEF Done, Caller, opendir, readdir, next_pid, read_field, next_fd,
       readlink, stat, push, fscanf, Fields
  <2> QED
    BY <1>4, <2>2, UserGetutxent, UserLast
<1> QED
  BY <1>1, <1>2, <1>3, <1>4 DEF Next

-----------------------------------------------------------------------------
(* The words of an address.  A word is read modulo its width, so what it    *)
(* held is multiplied out by the four bytes that follow.                   *)

LEMMA DivMod ==
  ASSUME NEW z \in Int, NEW W \in Nat \ {0}
  PROVE  z = (z \div W) * W + (z % W) /\ z % W \in 0..(W - 1) /\ z \div W \in Int
OBVIOUS

\* A number has one remainder.
LEMMA Unique ==
  ASSUME NEW W \in Nat \ {0}, NEW q \in Int, NEW d \in Int,
         NEW r \in 0..(W - 1), NEW s \in 0..(W - 1), q * W + r = d * W + s
  PROVE  r = s
<1>1. CASE q = d
  BY <1>1
<1>2. CASE q < d
  <2>1. PICK e \in Nat : d = q + 1 + e
    <3>1. d - q - 1 \in Nat
      BY <1>2
    <3> QED
      BY <3>1
  <2>2. d * W = q * W + W + e * W
    BY <2>1
  <2>3. e * W >= 0 /\ e * W \in Int /\ q * W \in Int
    BY <2>1
  <2> QED
    BY <2>2, <2>3
<1>3. CASE d < q
  <2>1. PICK e \in Nat : q = d + 1 + e
    <3>1. q - d - 1 \in Nat
      BY <1>3
    <3> QED
      BY <3>1
  <2>2. q * W = d * W + W + e * W
    BY <2>1
  <2>3. e * W >= 0 /\ e * W \in Int /\ d * W \in Int
    BY <2>1
  <2> QED
    BY <2>2, <2>3
<1> QED
  BY <1>1, <1>2, <1>3

\* A digit behind a number.
LEMMA Horner ==
  ASSUME NEW K \in Nat \ {0}, NEW k \in Nat \ {0}, NEW v \in 0..(K - 1), NEW x \in 0..(k - 1)
  PROVE  v * k + x \in 0..(K * k - 1) /\ K * k \in Nat \ {0}
<1>1. PICK e \in Nat : K = v + 1 + e
  <2>1. K - v - 1 \in Nat
    OBVIOUS
  <2> QED
    BY <2>1
<1>2. K * k = v * k + k + e * k
  BY <1>1
<1>3. v * k \in Nat /\ e * k \in Nat
  BY <1>1
<1> QED
  BY <1>2, <1>3

\* a is b without a multiple of W.
Congruent(a, b, W) == \E d \in Int : a = b - d * W

\* One byte more, modulo the width of a word or without it.
Shifted(a, k, x, W) == (a * k + x) % W
Widened(b, k, x) == b * k + x

LEMMA ShiftStep ==
  ASSUME NEW W \in Nat \ {0}, NEW k \in Nat, NEW a \in Int, NEW b \in Int, NEW x \in Int,
         Congruent(a, b, W)
  PROVE  /\ Shifted(a, k, x, W) \in 0..(W - 1) /\ Shifted(a, k, x, W) \in Int
         /\ Widened(b, k, x) \in Int
         /\ Congruent(Shifted(a, k, x, W), Widened(b, k, x), W)
<1>1. a * k + x \in Int /\ b * k + x \in Int
  OBVIOUS
<1>2. PICK d \in Int, s \in 0..(W - 1) : a * k + x = d * W + s /\ s = (a * k + x) % W
  BY <1>1, DivMod
<1>3. PICK q \in Int : a = b - q * W
  BY DEF Congruent
<1>4. a * k = b * k - (q * k) * W
  BY <1>3
<1>5. q * k \in Int /\ b * k \in Int /\ (q * k) * W \in Int /\ d * W \in Int
  OBVIOUS
<1>6. (q * k + d) * W = (q * k) * W + d * W /\ q * k + d \in Int
  BY <1>5
<1>7. s = (b * k + x) - (q * k + d) * W
  <2>1. PICK m \in Int, n \in Int, p \in Int, r \in Int :
          m = (q * k) * W /\ n = d * W /\ p = b * k /\ r = a * k
    BY <1>5
  <2>2. r + x = n + s /\ r = p - m /\ (q * k + d) * W = m + n
    BY <1>2, <1>4, <1>6, <2>1
  <2>3. s = (p + x) - (m + n)
    BY <2>2
  <2> QED
    BY <2>1, <2>2, <2>3
<1>8. \E e \in Int : s = (b * k + x) - e * W
  BY <1>6, <1>7
<1>9. s \in Int
  OBVIOUS
<1> QED
  BY <1>1, <1>2, <1>8, <1>9 DEF Congruent, Shifted, Widened

\* What the block held is pushed out by four bytes.
LEMMA FourShifts ==
  ASSUME NEW k \in Nat \ {0}, NEW c \in Int,
         NEW x1 \in 0..(k - 1), NEW x2 \in 0..(k - 1), NEW x3 \in 0..(k - 1), NEW x4 \in 0..(k - 1),
         NEW W, W = k * k * k * k
  PROVE  Shifted(Shifted(Shifted(Shifted(c, k, x1, W), k, x2, W), k, x3, W), k, x4, W)
           = Widened(Widened(Widened(x1, k, x2), k, x3), k, x4)
<1>1. W \in Nat \ {0} /\ ((x1 * k + x2) * k + x3) * k + x4 \in 0..(W - 1)
  <2>1. x1 * k + x2 \in 0..(k * k - 1) /\ k * k \in Nat \ {0}
    BY Horner
  <2>2. PICK y \in 0..(k * k - 1) : y = x1 * k + x2
    BY <2>1
  <2>3. y * k + x3 \in 0..(k * k * k - 1) /\ k * k * k \in Nat \ {0}
    BY <2>1, Horner
  <2>4. PICK u \in 0..(k * k * k - 1) : u = y * k + x3
    BY <2>3
  <2>5. u * k + x4 \in 0..(k * k * k * k - 1) /\ k * k * k * k \in Nat \ {0}
    BY <2>3, Horner
  <2> QED
    BY <2>2, <2>4, <2>5
<1>2. PICK v \in 0..(W - 1) : v = ((x1 * k + x2) * k + x3) * k + x4
  BY <1>1
<1>3. PICK a1, a2, a3, a4, b1, b2, b3, b4 :
        /\ a1 = Shifted(c, k, x1, W)  /\ b1 = Widened(c, k, x1)
        /\ a2 = Shifted(a1, k, x2, W) /\ b2 = Widened(b1, k, x2)
        /\ a3 = Shifted(a2, k, x3, W) /\ b3 = Widened(b2, k, x3)
        /\ a4 = Shifted(a3, k, x4, W) /\ b4 = Widened(b3, k, x4)
  OBVIOUS
<1>4. a4 \in 0..(W - 1) /\ b4 \in Int /\ Congruent(a4, b4, W)
  <2>1. x1 \in Int /\ x2 \in Int /\ x3 \in Int /\ x4 \in Int /\ k \in Nat
    OBVIOUS
  <2>2. Congruent(c, c, W)
    <3>1. c = c - 0 * W
      BY <1>1
    <3> QED
      BY <3>1 DEF Congruent
  <2>3. a1 \in Int /\ b1 \in Int /\ Congruent(a1, b1, W)
    BY <1>1, <1>3, <2>1, <2>2, ShiftStep
  <2>4. a2 \in Int /\ b2 \in Int /\ Congruent(a2, b2, W)
    BY <1>1, <1>3, <2>1, <2>3, ShiftStep
  <2>5. a3 \in Int /\ b3 \in Int /\ Congruent(a3, b3, W)
    BY <1>1, <1>3, <2>1, <2>4, ShiftStep
  <2>6. /\ Shifted(a3, k, x4, W) \in 0..(W - 1)
        /\ Widened(b3, k, x4) \in Int
        /\ Congruent(Shifted(a3, k, x4, W), Widened(b3, k, x4), W)
    BY <1>1, <2>1, <2>5, ShiftStep, Zenon
  <2>7. a4 = Shifted(a3, k, x4, W) /\ b4 = Widened(b3, k, x4)
    BY <1>3
  <2> QED
    BY <2>6, <2>7, Zenon
<1>5. b4 = c * W + v
  BY <1>2, <1>3 DEF Widened
<1>6. PICK d \in Int : a4 = b4 - d * W
  BY <1>4 DEF Congruent
<1>7. c * W \in Int /\ d * W \in Int /\ c - d \in Int /\ (c - d) * W = c * W - d * W
  BY <1>1
<1>8. (c - d) * W + v = 0 * W + a4
  BY <1>1, <1>2, <1>4, <1>5, <1>6, <1>7
<1>9. v = a4
  BY <1>1, <1>4, <1>7, <1>8, Unique
<1> QED
  BY <1>2, <1>3, <1>9 DEF Widened

LEMMA CellOf ==
  ASSUME NEW S, NEW d \in Seq(S), NEW i \in 1..Len(d)
  PROVE  d[i] \in S
OBVIOUS

LEMMA EightCells ==
  ASSUME NEW S, NEW d \in Seq(S), Len(d) = 8
  PROVE  /\ d[1] \in S /\ d[2] \in S /\ d[3] \in S /\ d[4] \in S
         /\ d[5] \in S /\ d[6] \in S /\ d[7] \in S /\ d[8] \in S
<1>1. \A i \in 1..8 : d[i] \in S
  <2>1. \A i \in 1..Len(d) : d[i] \in S
    BY CellOf
  <2> QED
    BY <2>1
<1>2. /\ 1 \in 1..8 /\ 2 \in 1..8 /\ 3 \in 1..8 /\ 4 \in 1..8
      /\ 5 \in 1..8 /\ 6 \in 1..8 /\ 7 \in 1..8 /\ 8 \in 1..8
  OBVIOUS
<1> QED
  BY <1>1, <1>2, Zenon

\* The value of eight digits, unrolled.
LEMMA EightDigits ==
  ASSUME NEW d \in Seq(0..(Base - 1)), Len(d) = 8,
         NEW h1, h1 = d[1],
         NEW h2, h2 = Widened(h1, Base, d[2]),
         NEW h3, h3 = Widened(h2, Base, d[3]),
         NEW h4, h4 = Widened(h3, Base, d[4]),
         NEW h5, h5 = Widened(h4, Base, d[5]),
         NEW h6, h6 = Widened(h5, Base, d[6]),
         NEW h7, h7 = Widened(h6, Base, d[7]),
         NEW h8, h8 = Widened(h7, Base, d[8])
  PROVE  ValueOf(d) = h8
<1> DEFINE Rule(n, value) == IF n = 0 THEN 0 ELSE Widened(value[n - 1], Base, d[n])
           f == [n \in 0..8 |-> IF n = 0 THEN 0 ELSE IF n = 1 THEN h1 ELSE IF n = 2 THEN h2
                                ELSE IF n = 3 THEN h3 ELSE IF n = 4 THEN h4
                                ELSE IF n = 5 THEN h5 ELSE IF n = 6 THEN h6
                                ELSE IF n = 7 THEN h7 ELSE h8]
           g == CHOOSE value : value = [n \in 0..8 |-> Rule(n, value)]
<1>1. h1 = Widened(0, Base, d[1])
  <2>1. d[1] \in Int
    <3>1. d[1] \in 0..(Base - 1)
      BY EightCells
    <3>2. \A x \in 0..(Base - 1) : x \in Int
      BY DigitsAssumption
    <3> QED
      BY <3>1, <3>2, Zenon
  <2>2. \A x \in Int : x = 0 * Base + x
    BY DigitsAssumption
  <2>3. d[1] = Widened(0, Base, d[1])
    BY <2>1, <2>2, Zenon DEF Widened
  <2> QED
    BY <2>3
<1>2. \E value : value = [n \in 0..8 |-> Rule(n, value)]
  <2>1. /\ f[0] = 0 /\ f[1] = h1 /\ f[2] = h2 /\ f[3] = h3 /\ f[4] = h4
        /\ f[5] = h5 /\ f[6] = h6 /\ f[7] = h7 /\ f[8] = h8
    OBVIOUS
  <2>2. f = [n \in 0..8 |-> f[n]]
    OBVIOUS
  <2> HIDE DEF f
  <2>3. ASSUME NEW n \in 0..8 PROVE f[n] = Rule(n, f)
    <3>1. n = 0 \/ n = 1 \/ n = 2 \/ n = 3 \/ n = 4 \/ n = 5 \/ n = 6 \/ n = 7 \/ n = 8
      OBVIOUS
    <3>2. /\ Rule(0, f) = 0                       /\ Rule(1, f) = Widened(f[0], Base, d[1])
          /\ Rule(2, f) = Widened(f[1], Base, d[2]) /\ Rule(3, f) = Widened(f[2], Base, d[3])
          /\ Rule(4, f) = Widened(f[3], Base, d[4]) /\ Rule(5, f) = Widened(f[4], Base, d[5])
          /\ Rule(6, f) = Widened(f[5], Base, d[6]) /\ Rule(7, f) = Widened(f[6], Base, d[7])
          /\ Rule(8, f) = Widened(f[7], Base, d[8])
      OBVIOUS
    <3> HIDE DEF Rule
    <3> QED
      BY <1>1, <2>1, <3>1, <3>2
  <2>4. f = [n \in 0..8 |-> Rule(n, f)]
    BY <2>2, <2>3
  <2> QED
    BY <2>4
<1>3. g = [n \in 0..8 |-> Rule(n, g)]
  BY <1>2
<1>4. \A n \in 0..8 : g[n] = Rule(n, g)
  <2> HIDE DEF g, Rule
  <2> QED
    BY <1>3
<1>5. g[8] = h8
  <2> HIDE DEF g
  <2>1. /\ Rule(0, g) = 0                       /\ Rule(1, g) = Widened(g[0], Base, d[1])
        /\ Rule(2, g) = Widened(g[1], Base, d[2]) /\ Rule(3, g) = Widened(g[2], Base, d[3])
        /\ Rule(4, g) = Widened(g[3], Base, d[4]) /\ Rule(5, g) = Widened(g[4], Base, d[5])
        /\ Rule(6, g) = Widened(g[5], Base, d[6]) /\ Rule(7, g) = Widened(g[6], Base, d[7])
        /\ Rule(8, g) = Widened(g[7], Base, d[8])
    OBVIOUS
  <2> HIDE DEF Rule
  <2>2. /\ g[0] = Rule(0, g) /\ g[1] = Rule(1, g) /\ g[2] = Rule(2, g)
        /\ g[3] = Rule(3, g) /\ g[4] = Rule(4, g) /\ g[5] = Rule(5, g)
        /\ g[6] = Rule(6, g) /\ g[7] = Rule(7, g) /\ g[8] = Rule(8, g)
    BY <1>4
  <2> QED
    BY <1>1, <2>1, <2>2
<1>6. ValueOf(d) = g[8]
  BY DEF ValueOf, Widened
<1> QED
  BY <1>5, <1>6

\* One byte of a word, as its two digits.
Pair(hex, i) == Widened(hex[2 * i - 1], Base, hex[2 * i])

LEMMA ReadWord ==
  ASSUME NEW c \in Int, NEW d \in Seq(0..(Base - 1)), Len(d) = 8
  PROVE  read_word(c, d) = ValueOf(d)
<1> DEFINE W == Byte * Byte * Byte * Byte
<1>1. Base \in Nat \ {0} /\ Byte \in Nat \ {0} /\ Byte \in Int /\ W \in Nat \ {0}
  <2>1. Base \in Nat \ {0}
    BY DigitsAssumption
  <2>2. \A x, y \in Nat \ {0} : x * y \in Nat \ {0}
    OBVIOUS
  <2>3. Byte \in Nat \ {0}
    BY <2>1, <2>2 DEF Byte
  <2>4. Byte * Byte \in Nat \ {0}
    BY <2>2, <2>3
  <2>5. Byte * Byte * Byte \in Nat \ {0}
    BY <2>2, <2>3, <2>4
  <2> QED
    BY <2>1, <2>2, <2>3, <2>5
<1>2. /\ d[1] \in 0..(Base - 1) /\ d[2] \in 0..(Base - 1) /\ d[3] \in 0..(Base - 1)
      /\ d[4] \in 0..(Base - 1) /\ d[5] \in 0..(Base - 1) /\ d[6] \in 0..(Base - 1)
      /\ d[7] \in 0..(Base - 1) /\ d[8] \in 0..(Base - 1)
      /\ \A x \in 0..(Base - 1) : x \in Int
  <2>1. \A x \in 0..(Base - 1) : x \in Int
    BY <1>1
  <2> QED
    BY <2>1, EightCells
<1>3. /\ Pair(d, 1) = Widened(d[1], Base, d[2]) /\ Pair(d, 2) = Widened(d[3], Base, d[4])
      /\ Pair(d, 3) = Widened(d[5], Base, d[6]) /\ Pair(d, 4) = Widened(d[7], Base, d[8])
  BY DEF Pair
<1>4. ASSUME NEW x \in 0..(Base - 1), NEW y \in 0..(Base - 1)
      PROVE  Widened(x, Base, y) \in 0..(Byte - 1) /\ Widened(x, Base, y) \in Int
  <2>1. x * Base + y \in 0..(Base * Base - 1) /\ Base * Base \in Nat
    BY <1>1, Horner
  <2> QED
    BY <2>1 DEF Widened, Byte
<1>5. /\ Pair(d, 1) \in 0..(Byte - 1) /\ Pair(d, 1) \in Int
      /\ Pair(d, 2) \in 0..(Byte - 1) /\ Pair(d, 2) \in Int
      /\ Pair(d, 3) \in 0..(Byte - 1) /\ Pair(d, 3) \in Int
      /\ Pair(d, 4) \in 0..(Byte - 1) /\ Pair(d, 4) \in Int
  BY <1>2, <1>3, <1>4
<1> HIDE DEF W
<1> DEFINE In(w, x, y) == (w * Byte + x * Base + y) % W
<1>6. ASSUME NEW w \in Int, NEW x \in Int, NEW y \in Int
      PROVE  /\ In(w, x, y) = Shifted(w, Byte, Widened(x, Base, y), W)
             /\ Shifted(w, Byte, Widened(x, Base, y), W) \in Int
  <2>1. w * Byte + x * Base + y = w * Byte + (x * Base + y)
    BY <1>1
  <2>2. w * Byte + (x * Base + y) \in Int
    BY <1>1
  <2>3. (w * Byte + (x * Base + y)) % W \in Int
    BY <1>1, <2>2, DivMod
  <2> QED
    BY <2>1, <2>3 DEF Shifted, Widened
<1> HIDE DEF In
<1>7. read_word(c, d)
        = Shifted(Shifted(Shifted(Shifted(c, Byte, Pair(d, 1), W), Byte, Pair(d, 2), W),
                          Byte, Pair(d, 3), W), Byte, Pair(d, 4), W)
  <2>1. PICK a1 \in Int : a1 = shift_in(c, d, 1) /\ a1 = Shifted(c, Byte, Pair(d, 1), W)
    <3>1. shift_in(c, d, 1) = In(c, d[1], d[2])
      <4>1. 2 * 1 - 1 = 1 /\ 2 * 1 = 2
        OBVIOUS
      <4> QED
        BY <4>1, Zenon DEF shift_in, W, In
    <3>2. d[1] \in Int /\ d[2] \in Int /\ Pair(d, 1) = Widened(d[1], Base, d[2])
      BY <1>2, <1>3, Zenon
    <3>3. shift_in(c, d, 1) = Shifted(c, Byte, Pair(d, 1), W)
      BY <1>6, <3>1, <3>2
    <3>4. Shifted(c, Byte, Widened(d[1], Base, d[2]), W) \in Int
      BY <1>6, <3>2
    <3> QED
      BY <3>2, <3>3, <3>4, Zenon
  <2>2. PICK a2 \in Int : a2 = shift_in(a1, d, 2) /\ a2 = Shifted(a1, Byte, Pair(d, 2), W)
    <3>1. shift_in(a1, d, 2) = In(a1, d[3], d[4])
      <4>1. 2 * 2 - 1 = 3 /\ 2 * 2 = 4
        OBVIOUS
      <4> QED
        BY <4>1, Zenon DEF shift_in, W, In
    <3>2. d[3] \in Int /\ d[4] \in Int /\ Pair(d, 2) = Widened(d[3], Base, d[4])
      BY <1>2, <1>3, Zenon
    <3>3. shift_in(a1, d, 2) = Shifted(a1, Byte, Pair(d, 2), W)
      BY <1>6, <3>1, <3>2
    <3>4. Shifted(a1, Byte, Widened(d[3], Base, d[4]), W) \in Int
      BY <1>6, <3>2
    <3> QED
      BY <3>2, <3>3, <3>4, Zenon
  <2>3. PICK a3 \in Int : a3 = shift_in(a2, d, 3) /\ a3 = Shifted(a2, Byte, Pair(d, 3), W)
    <3>1. shift_in(a2, d, 3) = In(a2, d[5], d[6])
      <4>1. 2 * 3 - 1 = 5 /\ 2 * 3 = 6
        OBVIOUS
      <4> QED
        BY <4>1, Zenon DEF shift_in, W, In
    <3>2. d[5] \in Int /\ d[6] \in Int /\ Pair(d, 3) = Widened(d[5], Base, d[6])
      BY <1>2, <1>3, Zenon
    <3>3. shift_in(a2, d, 3) = Shifted(a2, Byte, Pair(d, 3), W)
      BY <1>6, <3>1, <3>2
    <3>4. Shifted(a2, Byte, Widened(d[5], Base, d[6]), W) \in Int
      BY <1>6, <3>2
    <3> QED
      BY <3>2, <3>3, <3>4, Zenon
  <2>4. shift_in(a3, d, 4) = Shifted(a3, Byte, Pair(d, 4), W)
    <3>1. shift_in(a3, d, 4) = In(a3, d[7], d[8])
      <4>1. 2 * 4 - 1 = 7 /\ 2 * 4 = 8
        OBVIOUS
      <4> QED
        BY <4>1, Zenon DEF shift_in, W, In
    <3>2. d[7] \in Int /\ d[8] \in Int /\ Pair(d, 4) = Widened(d[7], Base, d[8])
      BY <1>2, <1>3, Zenon
    <3> QED
      BY <1>6, <3>1, <3>2
  <2> QED
    BY <2>1, <2>2, <2>3, <2>4 DEF read_word
<1>8. read_word(c, d)
        = Widened(Widened(Widened(Pair(d, 1), Byte, Pair(d, 2)), Byte, Pair(d, 3)),
                  Byte, Pair(d, 4))
  <2>1. W = Byte * Byte * Byte * Byte
    BY DEF W
  <2> QED
    BY <1>1, <1>5, <1>7, <2>1, FourShifts
<1>9. PICK h1, h2, h3, h4, h5, h6, h7, h8 :
         /\ h1 = d[1]                     /\ h2 = Widened(h1, Base, d[2])
         /\ h3 = Widened(h2, Base, d[3])  /\ h4 = Widened(h3, Base, d[4])
         /\ h5 = Widened(h4, Base, d[5])  /\ h6 = Widened(h5, Base, d[6])
         /\ h7 = Widened(h6, Base, d[7])  /\ h8 = Widened(h7, Base, d[8])
  OBVIOUS
<1>10. ASSUME NEW h \in Int, NEW a \in Int, NEW b \in Int
       PROVE  /\ Widened(Widened(h, Base, a), Base, b) = Widened(h, Byte, Widened(a, Base, b))
              /\ Widened(Widened(h, Base, a), Base, b) \in Int
  <2>1. (h * Base + a) * Base + b = h * (Base * Base) + (a * Base + b)
    BY <1>1
  <2>2. (h * Base + a) * Base + b \in Int
    BY <1>1
  <2> QED
    BY <2>1, <2>2 DEF Widened, Byte
<1>11. h2 = Pair(d, 1) /\ h2 \in Int
  BY <1>3, <1>5, <1>9
<1>12. h4 = Widened(h2, Byte, Pair(d, 2)) /\ h4 \in Int
  <2>1. /\ h4 = Widened(Widened(h2, Base, d[3]), Base, d[4])
        /\ d[3] \in Int /\ d[4] \in Int
    BY <1>2, <1>9, Zenon
  <2> QED
    BY <1>3, <1>10, <1>11, <2>1
<1>13. h6 = Widened(h4, Byte, Pair(d, 3)) /\ h6 \in Int
  <2>1. /\ h6 = Widened(Widened(h4, Base, d[5]), Base, d[6])
        /\ d[5] \in Int /\ d[6] \in Int
    BY <1>2, <1>9, Zenon
  <2> QED
    BY <1>3, <1>10, <1>12, <2>1
<1>14. h8 = Widened(h6, Byte, Pair(d, 4))
  <2>1. /\ h8 = Widened(Widened(h6, Base, d[7]), Base, d[8])
        /\ d[7] \in Int /\ d[8] \in Int
    BY <1>2, <1>9, Zenon
  <2> QED
    BY <1>3, <1>10, <1>13, <2>1
<1>15. ValueOf(d) = h8
  BY <1>9, EightDigits
<1> QED
  BY <1>8, <1>11, <1>12, <1>13, <1>14, <1>15
LEMMA FunctionIsSequence ==
  ASSUME NEW S, NEW n \in Nat, NEW f \in [1..n -> S]
  PROVE  f \in Seq(S) /\ Len(f) = n
OBVIOUS

\* A part of eight digits.
LEMMA PartOfDigits ==
  ASSUME NEW S, NEW s \in Seq(S), NEW m \in Nat, m + 8 <= Len(s)
  PROVE  SubSeq(s, m + 1, m + 8) \in Seq(S) /\ Len(SubSeq(s, m + 1, m + 8)) = 8
<1>1. \A i \in (m + 1)..(m + 8) : s[i] \in S
  <2>1. (m + 1)..(m + 8) \subseteq 1..Len(s)
    OBVIOUS
  <2> QED
    BY <2>1, CellOf
<1> QED
  BY <1>1

\* An address is what the kernel printed, whatever the block held.
LEMMA IPv4ReadBack ==
  ASSUME NEW hex \in [1..8 -> 0..(Base - 1)], NEW content
  PROVE  hex_to_ipv4(hex, content) = Printed(hex)
<1>1. hex \in Seq(0..(Base - 1)) /\ Len(hex) = 8
  <2> DEFINE S == 0..(Base - 1)
  <2>1. hex \in [1..8 -> S] /\ 8 \in Nat
    OBVIOUS
  <2> HIDE DEF S
  <2>2. hex \in Seq(S) /\ Len(hex) = 8
    BY <2>1, FunctionIsSequence, Zenon
  <2> QED
    BY <2>2 DEF S
<1>2. read_word(0, hex) = ValueOf(hex)
  BY <1>1, ReadWord, 0 \in Int
<1>3. SubSeq(hex, 1, 8) = hex
  <2> DEFINE part == SubSeq(hex, 0 + 1, 0 + 8)
  <2>1. part = [i \in 1..8 |-> hex[i]]
    BY <1>1
  <2>2. hex = [i \in 1..8 |-> hex[i]]
    OBVIOUS
  <2> QED
    BY <2>1, <2>2
<1>4. Printed(hex) = [i \in 1..1 |-> ValueOf(SubSeq(hex, 8 * i - 7, 8 * i))]
  BY <1>1 DEF Printed
<1>5. \A i \in 1..1 : SubSeq(hex, 8 * i - 7, 8 * i) = hex
  <2>1. \A i \in 1..1 : 8 * i - 7 = 1 /\ 8 * i = 8
    OBVIOUS
  <2> QED
    BY <1>3, <2>1
<1>6. Printed(hex) = [i \in 1..1 |-> ValueOf(hex)]
  BY <1>4, <1>5
<1>7. [i \in 1..1 |-> ValueOf(hex)] = << ValueOf(hex) >>
  OBVIOUS
<1> QED
  BY <1>2, <1>6, <1>7 DEF hex_to_ipv4

LEMMA IPv6ReadBack ==
  ASSUME NEW hex \in [1..(8 * Words) -> 0..(Base - 1)], NEW content \in [1..Words -> Int]
  PROVE  hex_to_ipv6(hex, content) = Printed(hex)
<1>1. Words \in Nat /\ 8 * Words \in Nat /\ (8 * Words) \div 8 = Words
  BY DigitsAssumption
<1>2. hex \in Seq(0..(Base - 1)) /\ Len(hex) = 8 * Words
  <2> DEFINE S == 0..(Base - 1)
             n == 8 * Words
  <2>1. hex \in [1..n -> S] /\ n \in Nat
    BY <1>1
  <2> HIDE DEF S, n
  <2>2. hex \in Seq(S) /\ Len(hex) = n
    BY <2>1, FunctionIsSequence, Zenon
  <2> QED
    BY <2>2 DEF S, n
<1>3. ASSUME NEW i \in 1..Words
      PROVE  read_word(content[i], SubSeq(hex, 8 * i - 7, 8 * i))
               = ValueOf(SubSeq(hex, 8 * i - 7, 8 * i))
  <2>1. PICK m \in Nat : m = 8 * i - 8
    OBVIOUS
  <2>2. 8 * i - 7 = m + 1 /\ 8 * i = m + 8 /\ m + 8 <= Len(hex)
    BY <1>1, <1>2, <2>1
  <2>3. /\ SubSeq(hex, m + 1, m + 8) \in Seq(0..(Base - 1))
        /\ Len(SubSeq(hex, m + 1, m + 8)) = 8
    BY <1>2, <2>2, PartOfDigits
  <2>4. content[i] \in Int
    OBVIOUS
  <2> HIDE DEF read_word
  <2> QED
    BY <2>2, <2>3, <2>4, ReadWord
<1>4. Len(hex) \div 8 = Words
  BY <1>1, <1>2
<1> QED
  BY <1>3, <1>4 DEF hex_to_ipv6, Printed
-----------------------------------------------------------------------------
(* The records of get_connections.                                         *)

LEMMA LineAsPrinted ==
  ASSUME NEW n \in DOMAIN Sources,
         NEW from \in IF Sources[n].addr_type = "AF_INET" THEN Addresses4 ELSE Addresses6,
         NEW to \in IF Sources[n].addr_type = "AF_INET" THEN Addresses4 ELSE Addresses6,
         NEW content \in [1..Words -> {0, Byte - 1}],
         NEW e, e = [connection |-> connection(Sources[n], from, to, content),
                     source |-> n, from |-> from, to |-> to]
  PROVE  AsPrinted(e)
<1>1. content \in [1..Words -> Int]
  <2>1. Byte \in Int
    BY DigitsAssumption DEF Byte
  <2> QED
    BY <2>1
<1>2. CASE Sources[n].addr_type = "AF_INET"
  <2>1. from \in [1..8 -> 0..(Base - 1)] /\ to \in [1..8 -> 0..(Base - 1)]
    BY <1>2, CartoAssumption
  <2>2. hex_to_ipv4(from, content) = Printed(from) /\ hex_to_ipv4(to, content) = Printed(to)
    BY <2>1, IPv4ReadBack
  <2> QED
    BY <1>2, <2>2 DEF AsPrinted, connection
<1>3. CASE Sources[n].addr_type # "AF_INET"
  <2>1. from \in [1..(8 * Words) -> 0..(Base - 1)] /\ to \in [1..(8 * Words) -> 0..(Base - 1)]
    BY <1>3, CartoAssumption
  <2>2. hex_to_ipv6(from, content) = Printed(from) /\ hex_to_ipv6(to, content) = Printed(to)
    BY <1>1, <2>1, IPv6ReadBack
  <2> QED
    BY <1>3, <2>2 DEF AsPrinted, connection
<1> QED
  BY <1>2, <1>3

LEMMA ConnectionFscanf ==
  ASSUME Shape, ConnectionInv, function = "get_connections", fscanf
  PROVE  ConnectionInv'
<1>1. /\ at = "fscanf" /\ at' # "returned" /\ function' = function
      /\ dir.of \in DOMAIN Sources
      /\ \A i \in 1..Count : AsPrinted(Cell(i))
  BY DEF fscanf, ConnectionInv
<1>2. CASE UNCHANGED << at, dir >> /\ \E e : AsPrinted(e) /\ array' = array_push(array, e)
  <2>1. PICK e : AsPrinted(e) /\ array' = array_push(array, e)
    BY <1>2
  <2>2. /\ \A i \in 1..Count : Cell(i)' = Cell(i)
        /\ \A i : i = Count + 1 => Cell(i)' = e
        /\ \A i \in 1..Count' : i \in 1..Count \/ i = Count + 1
    BY <1>1, <2>1, CountPushed DEF Shape
  <2> HIDE DEF Count, Cell
  <2>3. \A i \in 1..Count' : AsPrinted(Cell(i)')
    BY <1>1, <2>1, <2>2, Zenon
  <2> QED
    BY <1>1, <1>2, <2>3 DEF ConnectionInv, AsPrinted
<1>3. CASE UNCHANGED array /\ dir'.of \in DOMAIN Sources
  <2>1. Count' = Count /\ \A i : Cell(i)' = Cell(i)
    BY <1>1, <1>3 DEF Count, Cell
  <2> HIDE DEF Count, Cell
  <2> QED
    BY <1>1, <1>3, <2>1 DEF ConnectionInv, AsPrinted
<1>4. \/ UNCHANGED << at, dir >> /\ \E e : AsPrinted(e) /\ array' = array_push(array, e)
      \/ /\ UNCHANGED array
         /\ IF dir.of = Len(Sources) THEN UNCHANGED dir
                                     ELSE dir' = [dir EXCEPT !.of = @ + 1]
  BY <1>1, LineAsPrinted DEF fscanf
<1>5. ASSUME IF dir.of = Len(Sources) THEN UNCHANGED dir ELSE dir' = [dir EXCEPT !.of = @ + 1]
      PROVE  dir'.of \in DOMAIN Sources
  <2>1. DOMAIN Sources = 1..4 /\ Len(Sources) = 4
    BY DEF Sources
  <2>2. dir.of # 4 => dir'.of = dir.of + 1
    BY <1>5, <2>1 DEF Shape, Types
  <2> QED
    BY <1>1, <1>5, <2>1, <2>2
<1> QED
  BY <1>2, <1>3, <1>4, <1>5

LEMMA ConnectionLast ==
  ASSUME Shape, ConnectionInv, function = "get_connections", last
  PROVE  ConnectionInv'
<1>1. UNCHANGED << function, dir >>
  BY DEF last
<1>2. Count' = Count /\ \A i \in 1..Count : Cell(i)' = Cell(i)
  BY LastShape
<1> HIDE DEF Count, Cell
<1> QED
  BY <1>1, <1>2 DEF ConnectionInv, AsPrinted

LEMMA ConnectionInit == Init => ConnectionInv
<1> SUFFICES ASSUME Init, function = "get_connections" PROVE ConnectionInv
  BY DEF ConnectionInv
<1>1. at = "fscanf" /\ array.cells = <<>> /\ dir.of = 1
  BY EmptyBlock DEF Init, Start, Idle
<1>2. 1..Count = {}
  BY <1>1 DEF Count
<1>3. 1 \in DOMAIN Sources
  BY DEF Sources
<1> HIDE DEF Count
<1> QED
  BY <1>1, <1>2, <1>3 DEF ConnectionInv

LEMMA ConnectionsNext ==
  ASSUME Inv, [Next]_vars
  PROVE  ConnectionInv'
<1> USE DEF Inv
<1>1. ASSUME UNCHANGED << function, dir, array >>, at = "returned" <=> at' = "returned"
      PROVE  ConnectionInv'
  <2>1. Count' = Count /\ \A i : Cell(i)' = Cell(i)
    BY <1>1 DEF Count, Cell
  <2> HIDE DEF Count, Cell
  <2> QED
    BY <1>1, <2>1 DEF ConnectionInv, AsPrinted
<1>2. CASE System \/ Ended \/ UNCHANGED vars
  <2>1. UNCHANGED << function, dir, array, at >>
    BY <1>2 DEF System, Ended, vars, caller
  <2> QED
    BY <1>1, <2>1
<1>3. CASE xmalloc_fails \/ growth_fails
  <2>1. UNCHANGED << function, dir, array >> /\ at # "returned" /\ at' # "returned"
    BY <1>3, FieldOrder DEF xmalloc_fails, growth_fails, Fields
  <2> QED
    BY <1>1, <2>1
<1>4. CASE Caller /\ function # "get_connections"
  BY <1>4, SameCall DEF ConnectionInv
<1>5. CASE Caller /\ function = "get_connections" /\ ~xmalloc_fails /\ ~growth_fails
  <2>1. at \in {"fscanf", "last"} \cup Done
    BY <1>5 DEF Shape, Places
  <2>2. fscanf \/ last
    BY <1>5, <2>1, FieldOrder DEF Done, Caller, opendir, readdir, next_pid, read_field, next_fd,
       readlink, stat, push, getutxent, Fields
  <2> QED
    BY <1>5, <2>2, ConnectionFscanf, ConnectionLast
<1> QED
  BY <1>2, <1>3, <1>4, <1>5 DEF Next

-----------------------------------------------------------------------------
(* The invariant.                                                          *)

LEMMA InvInit == Init => Inv
BY ShapeInit, ProcessInit, FileInit, UserInit, ConnectionInit DEF Inv

LEMMA InvNext == Inv /\ [Next]_vars => Inv'
BY ShapeNext, ProcessesNext, FilesNext, UsersNext, ConnectionsNext DEF Inv

LEMMA InvHolds == Spec => []Inv
BY InvInit, InvNext, PTL DEF Spec

\* The records of the result are the cells before the terminator.
LEMMA RecordsAre ==
  ASSUME Shape
  PROVE  /\ Records = 1..Count /\ \A i \in 1..Count : Result[i] = Cell(i)
         /\ Count \in Nat
         /\ at = "returned" => Count = Len(Result) - 1 /\ Result[Len(Result)] = Null
<1>1. PICK S : array.cells \in Seq(S)
  BY DEF Shape, Blocks
<1>2. /\ \A i \in 1..Count : Cell(i) # Null
      /\ at = "returned" => array.cells # <<>> /\ Cell(Len(array.cells)) = Null
  BY DEF Shape, Blocks
<1>3. Result = array.cells /\ DOMAIN Result = 1..Len(array.cells) /\ Len(array.cells) \in Nat
  BY <1>1 DEF Result, array_as_raw
<1>4. CASE at = "returned"
  <2>1. Count = Len(array.cells) - 1 /\ Len(array.cells) # 0
    BY <1>1, <1>2, <1>4 DEF Count
  <2> QED
    BY <1>2, <1>3, <1>4, <2>1 DEF Records, Cell
<1>5. CASE at # "returned"
  <2>1. Count = Len(array.cells)
    BY <1>5 DEF Count
  <2> QED
    BY <1>2, <1>3, <1>5, <2>1 DEF Records, Cell
<1> QED
  BY <1>4, <1>5

\* Whatever carto pushes stays within its blocks, the array that get_processes
\* sizes before the loop never has to grow, and a result ends with its only
\* NULL (array_push, get_processes, array_as_raw).
THEOREM CartoTypesHold == Spec => []CartoTypeOK
<1>1. Inv => CartoTypeOK
  <2> SUFFICES ASSUME Inv PROVE CartoTypeOK
    OBVIOUS
  <2>1. running \in [Pids -> Stamps] /\ files \in [Pids -> [Fds -> Stamps]]
    <3>1. time \in Nat /\ time <= MaxChanges + 1
      BY DEF Inv, Shape, Types
    <3>2. 0..time \subseteq Stamps
      BY <3>1, StampsFacts DEF Stamps
    <3>3. running \in [Pids -> 0..time] /\ files \in [Pids -> [Fds -> 0..time]]
      BY DEF Inv, Shape, Types
    <3> QED
      BY <3>2, <3>3
  <2>2. (\A i \in DOMAIN pids : pids[i] \in Pids) /\ (\A i \in DOMAIN fds : fds[i] \in Fds)
    <3>1. pids \in Seq(Pids) /\ fds \in Seq(Fds \ {0})
      BY DEF Inv, Shape, Types
    <3> QED
      BY <3>1
  <2>3. /\ Fits(array) /\ Fits(dir.found)
        /\ function = "get_processes" /\ at \in DOMAIN After \cup {"next", "push", "last"}
             => Len(array.cells) + Len(pids) < array.capacity
    BY DEF Inv, Shape, Blocks, Fields
  <2>4. at = "returned" => Records = 1..(Len(Result) - 1) /\ Result[Len(Result)] = Null
    BY RecordsAre DEF Inv
  <2> QED
    BY <2>1, <2>2, <2>3, <2>4 DEF CartoTypeOK
<1> QED
  BY <1>1, InvHolds, PTL

\* Every program that runs during the whole call of get_processes is in the
\* result once, with fields that are its own, in the order of the pids.
THEOREM ProcessesReportedAlways == Spec => []ProcessesReported
<1>1. Inv => ProcessesReported
  <2> SUFFICES ASSUME Inv, at = "returned", function = "get_processes"
               PROVE  ProcessesReported
    BY DEF ProcessesReported
  <2>1. Records = 1..Count /\ \A i \in 1..Count : Result[i] = Cell(i)
    BY RecordsAre DEF Inv
  <2>2. /\ \A i \in 1..Count :
             /\ Complete(Cell(i), Fields, running, view)
             /\ \A j \in 1..Count : i < j => Cell(i).pid < Cell(j).pid
        /\ \A pid \in Pids : Stable(pid) =>
             Among(pid, pids) \/ \E i \in 1..Count : Cell(i).pid = pid
    BY DEF Inv, ProcessInv, Failed
  <2>3. \A pid : ~Among(pid, pids)
    BY DEF Inv, Shape, Places, Among
  <2> HIDE DEF Count, Cell
  <2>4. ASSUME NEW pid \in Pids, running[pid] = 1
        PROVE  \E i \in Records :
                 /\ Result[i].pid = pid
                 /\ \A field \in DOMAIN After :
                      IF field \in Links /\ pid \notin view
                      THEN Result[i][field] = Missing
                      ELSE Result[i][field] = Here(pid)
    <3>1. PICK i \in 1..Count : Cell(i).pid = pid
      BY <2>2, <2>3, <2>4 DEF Stable
    <3>2. \A field \in Fields :
            Cell(i)[field] = IF field \in Links /\ pid \notin view
                             THEN Missing ELSE [pid |-> pid, born |-> 1]
      BY <2>2, <2>4, <3>1 DEF Complete
    <3>3. Here(pid) = [pid |-> pid, born |-> 1]
      BY <2>4 DEF Here
    <3>4. Result[i] = Cell(i) /\ i \in Records
      BY <2>1
    <3> QED
      BY <3>1, <3>2, <3>3, <3>4 DEF Fields
  <2>5. \A i, j \in Records : i < j => Result[i].pid < Result[j].pid
    BY <2>1, <2>2
  <2> QED
    BY <2>4, <2>5 DEF ProcessesReported
<1> QED
  BY <1>1, InvHolds, PTL

\* A field of a record comes from a program that had the pid; the uid is
\* missing only if its process went away; and if the first and the last read
\* found one program, so did all between.
THEOREM RecordsHonestAlways == Spec => []RecordsHonest
<1>1. Inv => RecordsHonest
  <2> SUFFICES ASSUME Inv, at = "returned", function = "get_processes"
               PROVE  RecordsHonest
    BY DEF RecordsHonest
  <2>1. Records = 1..Count /\ \A i \in 1..Count : Result[i] = Cell(i)
    BY RecordsAre DEF Inv
  <2>2. \A i \in 1..Count :
          /\ Cell(i) \in ProcessRecord /\ Own(Cell(i), time)
          /\ Complete(Cell(i), Fields, running, view) /\ Together(Cell(i))
    BY DEF Inv, ProcessInv, Failed
  <2>3. ASSUME NEW record \in ProcessRecord, Own(record, time),
               Complete(record, Fields, running, view), Together(record),
               NEW read, read = {field \in DOMAIN After : record[field] # Missing}
        PROVE  /\ \A field \in read : record[field].pid = record.pid
               /\ "uid" \notin read => running[record.pid] # 1
               /\ "uid" \in read /\ record.uid = record.cmdline =>
                      \A field \in read : record[field] = record.uid
    <3>1. "uid" \in Fields /\ "uid" \notin Links
      BY DEF Fields, After, Links
    <3>2. \A field \in read : record[field].pid = record.pid
      BY <2>3 DEF Own, Fields
    <3>3. ASSUME "uid" \notin read PROVE running[record.pid] # 1
      <4>1. record["uid"] = Missing
        BY <2>3, <3>1, <3>3 DEF Fields
      <4>2. Missing # [pid |-> record.pid, born |-> 1]
        BY DEF Missing
      <4> QED
        BY <2>3, <3>1, <4>1, <4>2 DEF Complete
    <3>4. ASSUME "uid" \in read, record.uid = record.cmdline
          PROVE  \A field \in read : record[field] = record.uid
      <4>1. record.uid # Missing
        BY <2>3, <3>4
      <4>2. OneProgram(record)
        BY <2>3, <3>4, <4>1 DEF Together
      <4> QED
        BY <2>3, <4>2 DEF OneProgram, Fields
    <3> QED
      BY <3>2, <3>3, <3>4
  <2> HIDE DEF Count, Cell
  <2> QED
    BY <2>1, <2>2, <2>3 DEF RecordsHonest
<1> QED
  BY <1>1, InvHolds, PTL

\* Every descriptor but 0 that stays open during the whole call of get_files,
\* in a process whose directory the caller may open, is in the result exactly
\* once, with the name and the attributes of its file.
THEOREM FilesReportedAlways == Spec => []FilesReported
<1>1. Inv => FilesReported
  <2> SUFFICES ASSUME Inv, at = "returned", function = "get_files",
                      NEW pid \in view \ {0}, NEW fd \in Fds \ {0},
                      running[pid] = 1, files[pid][fd] = 1
               PROVE  Cardinality({i \in Records :
                        Result[i] = [pid |-> pid, path |-> Opened(pid, fd),
                                     file_stat |-> Opened(pid, fd)]}) = 1
    BY DEF FilesReported
  <2>1. Records = 1..Count /\ (\A i \in 1..Count : Result[i] = Cell(i)) /\ Count \in Nat
    BY RecordsAre DEF Inv
  <2>2. FileCells /\ FileCovered
    BY DEF Inv, FileInv, Failed
  <2>3. pids = <<>> /\ ~InPid
    BY DEF Inv, Shape, Places, InPid
  <2>4. Opened(pid, fd) = First(pid, fd)
    BY DEF Opened, First
  <2> HIDE DEF Count, Cell, InPid
  <2>5. PICK i \in 1..Count : Whole(Cell(i), pid, fd)
    BY <2>2, <2>3 DEF FileCovered, StableFd
  <2>6. ASSUME NEW j \in 1..Count, Whole(Cell(j), pid, fd) PROVE j = i
    <3>1. ASSUME NEW k \in 1..Count, NEW m \in 1..Count, k < m,
                 Whole(Cell(k), pid, fd), Whole(Cell(m), pid, fd)
          PROVE  FALSE
      <4>1. Before(Cell(k).pid, Cell(k).path.fd, Cell(m).pid, Cell(m).path.fd)
        BY <2>2, <3>1 DEF FileCells
      <4>2. Before(pid, fd, pid, fd)
        BY <3>1, <4>1 DEF Whole, First
      <4>3. pid \in Nat /\ fd \in Nat
        <5>1. view \subseteq 0..MaxPid
          BY DEF Inv, Shape, Types
        <5> QED
          BY <5>1, StampsFacts
      <4> QED
        BY <4>2, <4>3 DEF Before
    <3>2. i \in Nat /\ j \in Nat
      BY <2>1
    <3> QED
      BY <2>5, <2>6, <3>1, <3>2
  <2>7. {k \in Records : Result[k] = [pid |-> pid, path |-> Opened(pid, fd),
                                      file_stat |-> Opened(pid, fd)]} = {i}
    BY <2>1, <2>4, <2>5, <2>6 DEF Whole
  <2> QED
    BY <2>7, FS_Singleton
<1> QED
  BY <1>1, InvHolds, PTL

\* A record of get_files names and describes one descriptor of its process, and
\* the name is never of a later file than the attributes.
THEOREM FilesHonestAlways == Spec => []FilesHonest
<1>1. Inv => FilesHonest
  <2> SUFFICES ASSUME Inv, at = "returned", function = "get_files"
               PROVE  FilesHonest
    BY DEF FilesHonest
  <2>1. Records = 1..Count /\ \A i \in 1..Count : Result[i] = Cell(i)
    BY RecordsAre DEF Inv
  <2>2. \A i \in 1..Count : HonestFile(Cell(i), time)
    BY DEF Inv, FileInv, FileCells, Failed
  <2> HIDE DEF Count, Cell
  <2> QED
    BY <2>1, <2>2 DEF FilesHonest, HonestFile
<1> QED
  BY <1>1, InvHolds, PTL

\* An address is what the kernel printed, whatever its block held before, and an
\* entry of utmp that does not change is reported at its place.
THEOREM EntriesReportedAlways == Spec => []EntriesReported
<1>1. Inv => EntriesReported
  <2> SUFFICES ASSUME Inv PROVE EntriesReported
    OBVIOUS
  <2>1. /\ Records = 1..Count /\ (\A i \in 1..Count : Result[i] = Cell(i)) /\ Count \in Nat
    BY RecordsAre DEF Inv
  <2>2. ASSUME function = "get_connections", NEW i \in Records
        PROVE  AsPrinted(Result[i])
    <3>1. \A k \in 1..Count : AsPrinted(Cell(k))
      BY <2>2 DEF Inv, ConnectionInv
    <3> HIDE DEF Count, Cell
    <3> QED
      BY <2>1, <2>2, <3>1
  <2>3. ASSUME function = "get_users", at = "returned", NEW i \in DOMAIN utmp, utmp[i] = 1
        PROVE  i \in Records /\ Result[i].entry = 1
    <3>1. /\ \A k \in 1..Count : utmp[k] = 1 => Cell(k) = clone_utmp(1)
          /\ \A k \in DOMAIN utmp : utmp[k] = 1 => k <= Count
      BY <2>3 DEF Inv, UserInv, Failed
    <3>2. utmp \in Seq(Nat)
      BY DEF Inv, Shape, Types
    <3> HIDE DEF Count, Cell
    <3>3. i \in 1..Count
      BY <2>1, <2>3, <3>1, <3>2
    <3> QED
      BY <2>1, <2>3, <3>1, <3>3 DEF clone_utmp
  <2> QED
    BY <2>2, <2>3 DEF EntriesReported, AsPrinted
<1> QED
  BY <1>1, InvHolds, PTL

=============================================================================
