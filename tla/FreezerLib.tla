----------------------------- MODULE FreezerLib -----------------------------
(***************************************************************************)
(* The freezer library, by which the processes of administrators command   *)
(* the kernel module: freezer.c and user_netlink.c, composed with          *)
(* FreezerModule.                                                          *)
(*                                                                         *)
(* A call opens a netlink socket, sends a message, waits for the reply and *)
(* closes the socket; a call for everyone except a user does so for each   *)
(* user that is logged in.  The module handles a message inside sendmsg,   *)
(* in the context of the sender, and puts its reply into the queue of the  *)
(* socket bound to the sender's pid.  Handlers are taken one at a time     *)
(* here; UidTableSmp is about their races.                                 *)
(*                                                                         *)
(* Each process has one thread and its own copy of the global nlh.  System *)
(* and library calls may fail, and a process may be killed at any time and *)
(* started again.                                                          *)
(***************************************************************************)
EXTENDS FreezerModule

CONSTANTS
  Process,      \* processes that use the library
  ApiCalls,     \* calls of the functions of freezer.h they may make
  Empty,        \* the string ""
  Utmp,         \* the logged in users, in the order of the utmp file
  NoUser,       \* an entry of utmp that names no user of the system
  MaxSockets    \* descriptors a process may have open

\* data is NoData where freezer.c passes NULL.
ApiCall == [except : BOOLEAN, resource : Resource, uid : Uid,
            action : {"LOCK", "UNLOCK", "WHITELIST"}, data : Data \cup {NoData}]

\* struct netlink_cmd of the message, with what follows it: nothing but the
\* zeros of the buffer when there is no string.
Message(call, uid) ==
  [resource |-> call.resource, uid |-> uid, action |-> call.action,
   data |-> IF call.data = NoData THEN Empty ELSE call.data]

ASSUME FreezerLibAssumption ==
  /\ Empty \in Data
  /\ \A d \in Data : <<Empty, d>> \in PrefixOf
  /\ ApiCalls \subseteq ApiCall
  /\ \A call \in ApiCalls, uid \in Uid : Message(call, uid) \in Requests
  /\ NoUser \notin Uid
  /\ Utmp \in Seq(Uid \cup {NoUser})
  /\ MaxSockets \in Nat \ {0}

VARIABLE proc    \* the local state of each process

libvars == <<proc, vars>>

NoCall == [kind |-> "none"]

\* call is the call in progress, with its result once it has returned; entry
\* the position in utmp; uid whom the current message is about; queue the
\* receive queue of the bound socket; done what receive_message said.
\* History: leaked, the sockets that bind failed for; failed, something the
\* call needed was refused; reached, the users the module acted on.
Started ==
  [pc |-> "idle", call |-> NoCall, entry |-> 0, uid |-> Root, nlh |-> "null",
   sockets |-> 0, queue |-> "empty", done |-> FALSE, result |-> FALSE,
   leaked |-> 0, failed |-> FALSE, reached |-> {}]

ProcessState ==
  [pc : {"idle", "next_user", "init_socket", "send", "receive", "exit_socket",
         "returned"},
   call : ApiCalls \cup {NoCall}, entry : 0 .. Len(Utmp) + 1, uid : Uid,
   nlh : {"null", "live", "freed"}, sockets : 0 .. MaxSockets,
   queue : {"empty", "DONE", "ERROR"}, done : BOOLEAN, result : BOOLEAN,
   leaked : Nat, failed : BOOLEAN, reached : SUBSET Uid]

LibTypeOK == TypeOK /\ proc \in [Process -> ProcessState]

LibInit ==
  /\ Init
  /\ proc = [p \in Process |-> Started]

Busy(p) == proc[p].pc # "idle"

-----------------------------------------------------------------------------

\* freeze_xxx_uid, unfreeze_xxx_uid, add_xxx_whitelist, and the same with
\* except_uid: each is one call of send_socket_msg[_except_uid].
Call_api(p, call) ==
  /\ ~Busy(p)
  /\ proc' = [proc EXCEPT ![p] =
       [@ EXCEPT !.pc = IF call.except THEN "next_user" ELSE "init_socket",
                 !.call = call, !.entry = 1, !.uid = call.uid]]
  /\ UNCHANGED vars

\* send_socket_msg returned: the loop over the users goes on as long as the
\* result is true.
After_send(q, result) ==
  IF q.call.except /\ result
    THEN [q EXCEPT !.pc = "next_user", !.entry = @ + 1]
    ELSE [q EXCEPT !.pc = "returned", !.result = result]

Return_from_loop(p, result, failed) ==
  proc' = [proc EXCEPT ![p].pc = "returned", ![p].result = result,
                       ![p].failed = failed]

\* Faulty variants: no user is spared; the loop does not move on.
next_user_all(p) ==
  /\ proc[p].pc = "next_user"
  /\ \/ proc[p].entry > Len(Utmp) /\ Return_from_loop(p, TRUE, FALSE)
     \/ /\ proc[p].entry <= Len(Utmp)
        /\ LET u == Utmp[proc[p].entry]
           IN  proc' = [proc EXCEPT ![p] =
                 IF u = NoUser
                   THEN [@ EXCEPT !.entry = @ + 1]
                   ELSE [@ EXCEPT !.pc = "init_socket", !.uid = u]]
  /\ UNCHANGED vars

next_user_in_place(p) ==
  /\ proc[p].pc = "next_user"
  /\ \/ proc[p].entry > Len(Utmp) /\ Return_from_loop(p, TRUE, FALSE)
     \/ /\ proc[p].entry <= Len(Utmp)
        /\ LET u == Utmp[proc[p].entry]
           IN  proc' = [proc EXCEPT ![p] =
                 IF u \in {NoUser, proc[p].call.uid}
                   THEN @
                   ELSE [@ EXCEPT !.pc = "init_socket", !.uid = u]]
  /\ UNCHANGED vars

\* One round of the loop of send_socket_msg_except_uid.  The end of utmp, also
\* when the file cannot be read, returns true; no memory, or a failure of
\* getpwnam_r, returns false.
next_user(p) ==
  /\ proc[p].pc = "next_user"
  /\ \/ proc[p].entry > Len(Utmp) /\ Return_from_loop(p, TRUE, FALSE)
     \/ proc[p].entry <= Len(Utmp) /\ Return_from_loop(p, TRUE, TRUE)
     \/ proc[p].entry <= Len(Utmp) /\ Return_from_loop(p, FALSE, TRUE)
     \/ /\ proc[p].entry <= Len(Utmp)
        /\ proc' = [proc EXCEPT ![p] =
             IF Utmp[proc[p].entry] \in {NoUser, proc[p].call.uid}
               THEN [proc[p] EXCEPT !.entry = @ + 1]
               ELSE [proc[p] EXCEPT !.pc = "init_socket", !.uid = Utmp[proc[p].entry]]]
  /\ UNCHANGED vars

\* Faulty variant: cleans up after a socket that could not be had.
init_socket_exits(p) ==
  /\ proc[p].pc = "init_socket"
  /\ \/ /\ proc[p].sockets < MaxSockets
        /\ proc' = [proc EXCEPT ![p].pc = "send", ![p].sockets = @ + 1,
                                ![p].queue = "empty"]
     \/ proc' = [proc EXCEPT ![p].pc = "exit_socket", ![p].failed = TRUE,
                             ![p].done = FALSE]
  /\ UNCHANGED vars

\* socket() fails at the latest when no descriptor is left; a socket that
\* cannot be bound is not closed.
init_socket(p) ==
  /\ proc[p].pc = "init_socket"
  /\ \/ /\ proc[p].sockets < MaxSockets
        /\ proc' = [proc EXCEPT ![p].pc = "send", ![p].sockets = @ + 1,
                                ![p].queue = "empty"]
     \/ /\ proc[p].sockets < MaxSockets
        /\ proc' = [proc EXCEPT ![p] =
             After_send([proc[p] EXCEPT !.sockets = @ + 1, !.leaked = @ + 1,
                                        !.failed = TRUE], FALSE)]
     \/ proc' = [proc EXCEPT ![p] = After_send([proc[p] EXCEPT !.failed = TRUE], FALSE)]
  /\ UNCHANGED vars

\* No memory for nlh, or for the concatenation; sendmsg failed.
send_message_fails(p) ==
  /\ proc[p].pc = "send"
  /\ \E nlh \in {"null", "live"} :
       proc' = [proc EXCEPT ![p].pc = "exit_socket", ![p].nlh = nlh,
                            ![p].done = FALSE, ![p].failed = TRUE]
  /\ UNCHANGED vars

\* freezer_recv_msg runs inside sendmsg; if it follows a NULL pointer, the
\* sender is killed.
send_message(p) ==
  /\ proc[p].pc = "send"
  /\ LET req == Message(proc[p].call, proc[p].uid)
     IN  \E refused \in SUBSET Allocation(req) :
           /\ freezer_recv_msg(req, refused)
           /\ proc' = [proc EXCEPT ![p] =
                IF "copy" \notin refused /\ HandlerFaults(req, refused)
                  THEN Started
                  ELSE [proc[p] EXCEPT
                          !.pc = "receive", !.nlh = "live",
                          !.queue = IF event'.reply = "NONE" THEN @ ELSE event'.reply,
                          !.failed = @ \/ event'.reply # "DONE",
                          !.reached = IF "copy" \in refused THEN @ ELSE @ \cup {req.uid}]]

\* Blocks as long as the queue is empty.
receive_message(p) ==
  /\ proc[p].pc = "receive"
  /\ proc[p].queue # "empty"
  /\ proc' = [proc EXCEPT ![p].pc = "exit_socket",
                          ![p].done = (proc[p].queue = "DONE"),
                          ![p].queue = "empty"]
  /\ UNCHANGED vars

\* recvmsg fails, because of a signal for instance.
receive_message_fails(p) ==
  /\ proc[p].pc = "receive"
  /\ proc' = [proc EXCEPT ![p].pc = "exit_socket", ![p].done = FALSE,
                          ![p].failed = TRUE]
  /\ UNCHANGED vars

\* What close() returns for a socket that is open.
Closed == 0

\* send_socket_msg turns the 0 of a socket that was closed into false.
exit_socket(p) ==
  /\ proc[p].pc = "exit_socket"
  /\ proc' = [proc EXCEPT ![p] =
       After_send([proc[p] EXCEPT !.nlh = IF @ = "null" THEN @ ELSE "freed",
                                  !.sockets = @ - 1, !.done = FALSE],
                  proc[p].done /\ Closed # 0)]
  /\ UNCHANGED vars

\* The caller goes on: of the call, only the globals and the descriptors stay.
Return_api(p) ==
  /\ proc[p].pc = "returned"
  /\ proc' = [proc EXCEPT ![p] =
       [Started EXCEPT !.nlh = proc[p].nlh, !.sockets = proc[p].sockets,
                       !.leaked = proc[p].leaked]]
  /\ UNCHANGED vars

\* The kernel closes the sockets of a process that is killed.
Killed(p) ==
  /\ Busy(p)
  /\ proc' = [proc EXCEPT ![p] = Started]
  /\ UNCHANGED vars

-----------------------------------------------------------------------------

LibStep(p) ==
  \/ next_user(p) \/ init_socket(p) \/ send_message(p) \/ send_message_fails(p)
  \/ receive_message(p) \/ exit_socket(p) \/ Return_api(p)

LibNext ==
  \E p \in Process :
    \/ LibStep(p) \/ receive_message_fails(p) \/ Killed(p)
    \/ \E call \in ApiCalls : Call_api(p, call)

\* A process that can run is run again and again.  Nobody has to make a call,
\* and no signal has to come.
LibSpec == LibInit /\ [][LibNext]_libvars /\ \A p \in Process : WF_libvars(LibStep(p))

-----------------------------------------------------------------------------
(* Properties. *)

\* nlh stays in the global after it is freed: whichever of the steps of
\* send_socket_msg fails, in whichever of many calls, no message is freed
\* twice or used after it was freed, none is lost, and every socket is closed
\* but those that could not be bound.
CallsGiveBack ==
  \A p \in Process :
    /\ proc[p].pc = "receive" => proc[p].nlh = "live"
    /\ proc[p].pc = "exit_socket" => proc[p].nlh # "freed"
    /\ proc[p].pc \in {"idle", "returned"} => proc[p].nlh # "live"
    /\ proc[p].sockets =
         proc[p].leaked
           + (IF proc[p].pc \in {"send", "receive", "exit_socket"} THEN 1 ELSE 0)

\* Whatever a call for everyone except a user does to the tables of the
\* module, that user stays as he was: as frozen, and with the same list.
ExceptSpares ==
  [][\A p \in Process :
       proc[p].pc = "send" /\ proc'[p] # proc[p] /\ proc[p].call.except =>
         LET u == proc[p].call.uid
         IN  /\ \A r \in Resource :
                  is_hooked_user(uid_array'[r], u) = is_hooked_user(uid_array[r], u)
             /\ \A r \in Listed : Stored(whitelist'[r], u) = Stored(whitelist[r], u)
    ]_libvars

\* Every call comes back, but for those the module never answered: nothing
\* limits the time recvmsg waits.
EveryApiCallReturns ==
  \A p \in Process :
    Busy(p) ~> \/ ~Busy(p)
               \/ proc[p].pc = "receive" /\ proc[p].queue = "empty"

\* What freezer.h says of freeze_xxx_except_uid: "Freeze the ... resources for
\* all uid except the specific uid".  Not what the code does: send_socket_msg
\* returns false when it succeeds, and the loop stops after one user.
AllOthersReached ==
  \A p \in Process :
    LET q == proc[p]
    IN  q.pc = "returned" /\ q.call.except /\ ~q.failed =>
          {Utmp[i] : i \in DOMAIN Utmp} \ {NoUser, q.call.uid} \subseteq q.reached

=============================================================================
