--------------------------- MODULE FreezerModule ----------------------------
(***************************************************************************)
(* The freezer kernel module once it is loaded: the netlink input callback *)
(* freezer_recv_msg, which carries out the commands, and the four system   *)
(* calls it replaces.                                                      *)
(*                                                                         *)
(* One action is one whole handler or one whole decision of a hook, with   *)
(* nothing in between; UidTableSmp takes the two apart.  The hooks read    *)
(* the tables and never write them.  Whatever a hook or a handler          *)
(* allocates may be refused by the kernel, and following a NULL pointer    *)
(* kills the calling process (oops) and leaves the tables as they are.     *)
(***************************************************************************)
EXTENDS Whitelist

CONSTANTS
  PasswdFile,   \* "/etc/passwd", as compared by hooked_openat
  Ipv4,         \* the addresses whose family is AF_INET
  Requests,     \* commands the administrators may send
  Calls,        \* system calls the users may make
  ListBound     \* strings ever pushed on one Array (bounds the model only)

VARIABLES
  uid_array,    \* the four uid tables with their indexes
  whitelist,    \* the three whitelists
  event         \* what the last step did, as its caller saw it

vars == <<uid_array, whitelist, event>>

Resource == {"FILE", "PROCESS", "NETWORK", "SESSIONS"}
Listed == {"FILE", "PROCESS", "NETWORK"}
Syscall == {"execve", "connect", "write", "openat"}

\* struct netlink_cmd and the string behind it.  "OTHER" stands for the
\* numbers that name no resource or no action.
Request == [resource : Resource \cup {"OTHER"},
            uid : Uid,
            action : {"LOCK", "UNLOCK", "WHITELIST", "OTHER"},
            data : Data]

\* A system call: its caller and the string the hook gets hold of.  NoData:
\* the copy from user space or the search of the path name gave NULL.
Call == [syscall : Syscall, uid : Uid, data : Data \cup {NoData}]

ASSUME FreezerModuleAssumption ==
  /\ PasswdFile \in Data
  /\ Ipv4 \subseteq Data
  /\ Requests \subseteq Request
  /\ Calls \subseteq Call

\* The allocations of a handler: the copy of the string, the reply, and those
\* of add_to_whitelist.
Allocation(req) ==
  {"copy", "reply"}
    \cup IF req.action = "WHITELIST" THEN WhitelistAllocation ELSE {}

Nothing == [kind |-> "none"]

Event ==
  {Nothing}
    \cup [kind : {"command"}, request : Request, reply : {"DONE", "ERROR", "NONE"}]
    \cup [kind : {"call"}, call : Call,
          result : {"original", "-1", "0", "EACCES", "oops"}]

TypeOK ==
  /\ uid_array \in [Resource -> Table]
  /\ whitelist \in [Listed -> Seq(Entry)]
  /\ event \in Event

Init ==
  /\ uid_array = [r \in Resource |-> EmptyTable]
  /\ whitelist = [r \in Listed |-> << >>]
  /\ event = Nothing

-----------------------------------------------------------------------------
(* Commands. *)

\* The wrapper looks at the action and the resource only: what add, remove
\* or add_to_whitelist returned is dropped.
Accepted(req) ==
  IF req.action = "WHITELIST"
    THEN req.resource \in Listed
    ELSE req.action \in {"LOCK", "UNLOCK"} /\ req.resource \in Resource

HandlerFaults(req, refused) ==
  /\ req.action = "WHITELIST" /\ req.resource \in Listed
  /\ add_to_whitelist_faults(whitelist[req.resource], req.uid, refused)

freezer_call_wrapper(req, refused) ==
  \/ /\ req.action = "LOCK" /\ req.resource \in Resource
     /\ uid_array' = [uid_array EXCEPT
                        ![req.resource] = add_uid_to_array(@, req.uid)]
     /\ UNCHANGED whitelist
  \/ /\ req.action = "UNLOCK" /\ req.resource \in Resource
     /\ uid_array' = [uid_array EXCEPT
                        ![req.resource] = remove_uid_from_array(@, req.uid)]
     /\ UNCHANGED whitelist
  \/ /\ req.action = "WHITELIST" /\ req.resource \in Listed
     /\ whitelist' = [whitelist EXCEPT
                        ![req.resource] =
                          add_to_whitelist(@, req.data, req.uid, refused)]
     /\ UNCHANGED uid_array
  \/ /\ ~Accepted(req)
     /\ UNCHANGED <<uid_array, whitelist>>

WithinBound(req) ==
  req.action = "WHITELIST" /\ req.resource \in Listed =>
    \A i \in DOMAIN whitelist[req.resource] :
      Len(whitelist[req.resource][i].array) < ListBound

\* No copy of the string: no effect and no reply.  No room for the reply: the
\* command took effect all the same.
freezer_recv_msg(req, refused) ==
  /\ WithinBound(req)
  /\ IF "copy" \in refused
       THEN UNCHANGED <<uid_array, whitelist>>
       ELSE freezer_call_wrapper(req, refused)
  /\ event' = [kind |-> "command", request |-> req,
               reply |-> CASE \/ "copy" \in refused
                              \/ HandlerFaults(req, refused)
                              \/ "reply" \in refused -> "NONE"
                           [] OTHER -> IF Accepted(req) THEN "DONE" ELSE "ERROR"]

-----------------------------------------------------------------------------
(* System calls. *)

Hooked(r, c) == is_hooked_user(uid_array[r], c.uid)

Return(c, result) ==
  /\ event' = [kind |-> "call", call |-> c, result |-> result]
  /\ UNCHANGED <<uid_array, whitelist>>

\* The result of a call of a hooked user: the original system call when the
\* string is on the list, the refusal of the hook when it is not.
Filtered(r, c, refusal) ==
  IF lookup_faults(whitelist[r], c.data, c.uid) THEN "oops"
  ELSE IF resource_data_is_in_whitelist(whitelist[r], c.data, c.uid) THEN "original"
  ELSE refusal

hooked_execve(c) ==
  /\ c.syscall = "execve"
  /\ Return(c, IF Hooked("PROCESS", c) /\ c.data # NoData
                 THEN Filtered("PROCESS", c, "-1")
                 ELSE "original")

\* Faulty variant: searches the table of another resource.
hooked_connect_wrong_table(c) ==
  /\ c.syscall = "connect"
  /\ Return(c, IF Hooked("PROCESS", c) /\ c.data \in Ipv4
                 THEN Filtered("NETWORK", c, "-1")
                 ELSE "original")

\* NoData: no memory for the address, or it could not be read.
hooked_connect(c) ==
  /\ c.syscall = "connect"
  /\ Return(c, IF Hooked("NETWORK", c) /\ c.data \in Ipv4
                 THEN Filtered("NETWORK", c, "-1")
                 ELSE "original")

\* Looks the path name up even if get_path_name gave none.
hooked_write(c) ==
  /\ c.syscall = "write"
  /\ Return(c, IF Hooked("FILE", c) THEN Filtered("FILE", c, "0") ELSE "original")

hooked_openat(c) ==
  /\ c.syscall = "openat"
  /\ Return(c,
       IF c.data = NoData THEN "original"
       ELSE IF Hooked("SESSIONS", c) /\ <<c.data, PasswdFile>> \in PrefixOf THEN "EACCES"
       ELSE IF Hooked("FILE", c) THEN Filtered("FILE", c, "EACCES")
       ELSE "original")

-----------------------------------------------------------------------------

Next ==
  \/ \E req \in Requests : \E refused \in SUBSET Allocation(req) :
       freezer_recv_msg(req, refused)
  \/ \E c \in Calls :
       hooked_execve(c) \/ hooked_connect(c) \/ hooked_write(c) \/ hooked_openat(c)

Spec == Init /\ [][Next]_vars

-----------------------------------------------------------------------------
(* Properties. *)

\* The searches stop at the first slot with the uid, so the functions of
\* freezer_hook_utils.c are right only as long as no uid has two slots of a
\* uid table or two entries of a whitelist, and a lookup assumes that an
\* entry has at least one string.
OnePlacePerUid ==
  /\ \A r \in Resource : NoDuplicate(uid_array[r])
  /\ \A r \in Listed : OneEntryPerUid(whitelist[r])

\* array_push stores at array[size] after it compared size and capacity for
\* equality only: no sequence of pushes and failed reallocations may leave an
\* Array with more strings than its capacity.
PushInBounds ==
  \A r \in Listed : \A i \in DOMAIN whitelist[r] : WithinCapacity(whitelist[r][i])

\* The reply is computed without the result of add_uid_to_array and
\* remove_uid_from_array: NLMSG_DONE means that the uid is (or is not) in the
\* table unless the table is full.
DoneMeansDone ==
  event.kind = "command" =>
    LET req == event.request
    IN  event.reply = "DONE" /\ req.action \in {"LOCK", "UNLOCK"} =>
          \/ is_hooked_user(uid_array[req.resource], req.uid) = (req.action = "LOCK")
          \/ Full(uid_array[req.resource])

\* What README.md says of the command unlock: "disable locking of files".  Not
\* what the code does: a full table gives no uid back, and never will.
DoneUnlockIsUnlocked ==
  event.kind = "command" =>
    LET req == event.request
    IN  event.reply = "DONE" /\ req.action = "UNLOCK" =>
          ~is_hooked_user(uid_array[req.resource], req.uid)

\* What freezer_hook_utils.h says of resource_data_is_in_whitelist: "Check if
\* a resource data is in a whitelist".  Not what the code does: every prefix
\* of a string on the list passes as well.
OnlyListedProgramsRun ==
  event.kind = "call" =>
    LET c == event.call
    IN  /\ c.syscall = "execve" /\ c.data # NoData
        /\ event.result = "original" /\ Hooked("PROCESS", c)
        => c.data \in Stored(whitelist["PROCESS"], c.uid)

\* The tables implement the policy: a command changes the pair it names and
\* no other, whatever the tables went through before, and the hooks refuse
\* the calls the policy refuses.
frozen == {p \in Resource \X Uid : is_hooked_user(uid_array[p[1]], p[2])}
allowed == {t \in Listed \X Uid \X Data : t[3] \in Stored(whitelist[t[1]], t[2])}
broken == {p \in Listed \X Uid : Lost(whitelist[p[1]], p[2])}
judged ==
  CASE event.kind = "none" -> Nothing
    [] event.kind = "command" -> [kind |-> "command", request |-> event.request]
    [] event.kind = "call" ->
         [kind |-> "call", call |-> event.call,
          verdict |-> CASE event.result = "original" -> "passed"
                        [] event.result = "oops" -> "died"
                        [] OTHER -> "refused"]

Policy == INSTANCE FreezePolicy
ImplementsPolicy == Policy!Spec

=============================================================================
