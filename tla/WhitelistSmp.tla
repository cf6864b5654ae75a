---------------------------- MODULE WhitelistSmp ----------------------------
(***************************************************************************)
(* One whitelist, access by access: a handler that adds strings beside     *)
(* hooks that search, on other processors and without a lock.              *)
(*                                                                         *)
(* Each step makes at most one write that another processor can see.  The  *)
(* search writes nothing, and strncmp and strlen have no effect a compiler *)
(* need respect, so an index, a size or a pointer that was loaded once may *)
(* be kept or loaded again.  The stores of one processor become visible in *)
(* program order (x86).  Of the handlers, one runs at a time.              *)
(*                                                                         *)
(* The storage of an Array has a number: base is the one a->array points   *)
(* to (0 is NULL), live the one that is allocated.  They differ between    *)
(* krealloc and the store of its result, and after a krealloc that failed. *)
(* Whatever reads storage that was given back gets anything, or dies.      *)
(***************************************************************************)
EXTENDS Whitelist

CONSTANTS
  Hooks,       \* processes that search
  Unfit,       \* a string that did not fit the hook's copy of it
  ListBound    \* strings ever pushed on one Array (bounds the model only)

ASSUME UnfitAssumption == Unfit \notin Data

VARIABLES
  list, index,   \* the pointers whitelist_xxx[] that were stored, current_xxx_index
  handler,       \* the registers of the handler, and its history
  hook           \* the registers of each search, and what it may answer

listvars == <<list, index, handler, hook>>

NotLoaded == -1

StoredEntry == [uid : Uid, cells : Seq(Data), size : Nat, capacity : Nat,
                base : Nat, live : Nat, freed : BOOLEAN]

\* Of the entry in the making, before and refused: the list when the command
\* began, and the allocations that failed since (history).
IdleHandler ==
  [pc |-> "idle", uid |-> Root, data |-> NoData, cur |-> 0, reg |-> 0,
   before |-> << >>, refused |-> {}]

\* listed: what is searched for was on the list when the search began;
\* disturbed: memory it may read is given back (history).
IdleHook ==
  [pc |-> "idle", uid |-> Root, data |-> NoData, cur |-> 0, i |-> 0, limit |-> 0,
   base |-> NotLoaded, hit |-> FALSE, listed |-> FALSE, disturbed |-> FALSE]

Searching(k) == hook[k].pc \in {"entry", "size", "base", "cell"}

\* The list as a value of module Whitelist, and what is allowed by it.
Value ==
  [i \in 1 .. index |->
     [uid |-> list[i].uid, array |-> SubSeq(list[i].cells, 1, list[i].size),
      capacity |-> list[i].capacity, lost |-> list[i].base = 0]]
Held == {i \in DOMAIN list : i <= index /\ ~list[i].freed}
allowed ==
  UNION {{<<list[i].uid, list[i].cells[j]>> :
            j \in DOMAIN list[i].cells \cap 1 .. list[i].size} : i \in Held}
broken == {list[i].uid : i \in {n \in Held : list[n].base = 0}}
moving == {list[i].uid : i \in {n \in 1 .. index \cap DOMAIN list :
             list[n].freed \/ list[n].base \notin {0, list[n].live}}}

ListTypeOK ==
  /\ list \in Seq(StoredEntry)
  /\ index \in 0 .. MAX_SIZE_ARRAY
  /\ handler \in
       [pc : {"idle", "check", "scan", "push", "realloc", "storage", "cell", "size",
              "new", "publish", "raise", "done", "oops"},
        uid : Uid, data : Data \cup {NoData}, cur : Nat, reg : Nat,
        before : Seq(Entry), refused : SUBSET WhitelistAllocation]
  /\ hook \in [Hooks ->
       [pc : {"idle", "entry", "size", "base", "cell", "answered"}, uid : Uid,
        data : Data \cup {NoData, Unfit}, cur : Nat, i : Nat, limit : Nat, base : Int,
        hit : BOOLEAN, listed : BOOLEAN, disturbed : BOOLEAN]]

ListInit ==
  /\ list = << >>
  /\ index = 0
  /\ handler = IdleHandler
  /\ hook = [k \in Hooks |-> IdleHook]

-----------------------------------------------------------------------------
(* add_to_whitelist. *)

\* Gives back the memory of the list of uid.
Disturb(uid) ==
  hook' = [k \in Hooks |-> IF Searching(k) /\ hook[k].uid = uid
                             THEN [hook[k] EXCEPT !.disturbed = TRUE] ELSE hook[k]]

add_call(uid, data) ==
  /\ handler.pc = "idle"
  /\ \A i \in DOMAIN list : list[i].size < ListBound
  /\ handler' = [IdleHandler EXCEPT !.pc = "check", !.uid = uid, !.data = data,
                                    !.before = Value]
  /\ UNCHANGED <<list, index, hook>>

\* Faulty variant: goes on when the list is full.
add_check_no_limit ==
  /\ handler.pc = "check"
  /\ handler' = [handler EXCEPT !.pc = "scan"]
  /\ UNCHANGED <<list, index, hook>>

add_check ==
  /\ handler.pc = "check"
  /\ handler' = [handler EXCEPT !.pc = IF index >= MAX_SIZE_ARRAY THEN "done" ELSE "scan"]
  /\ UNCHANGED <<list, index, hook>>

add_scan ==
  /\ handler.pc = "scan"
  /\ IF handler.cur < index
       THEN handler' = IF list[handler.cur + 1].uid = handler.uid
                         THEN [handler EXCEPT !.pc = "push"]
                         ELSE [handler EXCEPT !.cur = @ + 1]
       ELSE handler' = [handler EXCEPT !.pc = "new"]
  /\ UNCHANGED <<list, index, hook>>

Mine == list[handler.cur + 1]

push_check ==
  /\ handler.pc = "push"
  /\ IF Mine.size = Mine.capacity
       THEN /\ list' = [list EXCEPT ![handler.cur + 1].capacity = 2 * @]
            /\ handler' = [handler EXCEPT !.pc = "realloc"]
       ELSE /\ handler' = [handler EXCEPT !.pc = "cell"]
            /\ UNCHANGED list
  /\ UNCHANGED <<index, hook>>

\* The storage grows in place or elsewhere, or there is no memory.
push_realloc ==
  /\ handler.pc = "realloc"
  /\ \/ /\ handler' = [handler EXCEPT !.pc = "storage", !.reg = Mine.live]
        /\ UNCHANGED <<list, hook>>
     \/ /\ list' = [list EXCEPT ![handler.cur + 1].live = @ + 1]
        /\ handler' = [handler EXCEPT !.pc = "storage", !.reg = Mine.live + 1]
        /\ Disturb(handler.uid)
     \/ /\ handler' = [handler EXCEPT !.pc = "storage", !.reg = 0, !.refused = {"array"}]
        /\ UNCHANGED <<list, hook>>
  /\ UNCHANGED index

\* Faulty variant: does not look at what krealloc returned.
push_storage_unchecked ==
  /\ handler.pc = "storage"
  /\ list' = [list EXCEPT ![handler.cur + 1].base = handler.reg]
  /\ handler' = [handler EXCEPT !.pc = "cell"]
  /\ UNCHANGED <<index, hook>>

push_storage ==
  /\ handler.pc = "storage"
  /\ list' = [list EXCEPT ![handler.cur + 1].base = handler.reg]
  /\ handler' = [handler EXCEPT !.pc = IF handler.reg = 0 THEN "done" ELSE "cell"]
  /\ UNCHANGED <<index, hook>>

\* Faulty variant: the size says that the element is there before it is.
push_cell_late ==
  /\ handler.pc = "cell"
  /\ Mine.base # 0
  /\ list' = [list EXCEPT ![handler.cur + 1].size = @ + 1]
  /\ handler' = [handler EXCEPT !.pc = "size"]
  /\ UNCHANGED <<index, hook>>

push_cell ==
  /\ handler.pc = "cell"
  /\ IF Mine.base = 0
       THEN handler' = [handler EXCEPT !.pc = "oops"] /\ UNCHANGED list
       ELSE /\ list' = [list EXCEPT ![handler.cur + 1].cells = Append(@, handler.data)]
            /\ handler' = [handler EXCEPT !.pc = "size"]
  /\ UNCHANGED <<index, hook>>

push_size ==
  /\ handler.pc = "size"
  /\ list' = [list EXCEPT ![handler.cur + 1].size = @ + 1]
  /\ handler' = [handler EXCEPT !.pc = "done"]
  /\ UNCHANGED <<index, hook>>

\* Nobody else sees the new entry before it is published.
add_new ==
  /\ handler.pc = "new"
  /\ handler' \in {[handler EXCEPT !.pc = "publish"],
                   [handler EXCEPT !.pc = "done", !.refused = {"entry"}],
                   [handler EXCEPT !.pc = "oops", !.refused = {"array"}]}
  /\ UNCHANGED <<list, index, hook>>

add_publish ==
  /\ handler.pc = "publish"
  /\ list' = Append(SubSeq(list, 1, index),
       [uid |-> handler.uid, cells |-> <<handler.data>>, size |-> 1,
        capacity |-> ARRAY_DEFAULT_CAPACITY, base |-> 1, live |-> 1, freed |-> FALSE])
  /\ handler' = [handler EXCEPT !.pc = "raise"]
  /\ UNCHANGED <<index, hook>>

add_raise ==
  /\ handler.pc = "raise"
  /\ index' = index + 1
  /\ handler' = [handler EXCEPT !.pc = "done"]
  /\ UNCHANGED <<list, hook>>

\* Of a handler that follows NULL only its dying sender is left.
add_return ==
  /\ handler.pc \in {"done", "oops"}
  /\ handler' = IdleHandler
  /\ UNCHANGED <<list, index, hook>>

HandlerStep ==
  \/ add_check \/ add_scan \/ push_check \/ push_realloc \/ push_storage
  \/ push_cell \/ push_size \/ add_new \/ add_publish \/ add_raise \/ add_return

-----------------------------------------------------------------------------
(* resource_data_is_in_whitelist. *)

Seen(k) == list[hook[k].cur + 1]

lookup_call(k, uid, data) ==
  /\ hook[k].pc = "idle"
  /\ hook' = [hook EXCEPT ![k] =
       [IdleHook EXCEPT
          !.pc = "entry", !.uid = uid, !.data = data, !.limit = index,
          !.listed = \E d \in Data : <<uid, d>> \in allowed /\ <<data, d>> \in PrefixOf,
          !.disturbed = data = Unfit \/ uid \in moving]]
  /\ UNCHANGED <<list, index, handler>>

Answer(k, hit) == hook' = [hook EXCEPT ![k] = [IdleHook EXCEPT !.pc = "answered", !.hit = hit]]
Die(k) == hook' = [hook EXCEPT ![k] = IdleHook]
Undefined(k) == Die(k) \/ \E hit \in BOOLEAN : Answer(k, hit)

lookup_entry(k) ==
  /\ hook[k].pc = "entry"
  /\ \E limit \in {hook[k].limit, index} :
       IF hook[k].cur >= limit THEN Answer(k, FALSE)
       ELSE IF hook[k].cur + 1 \notin DOMAIN list THEN Die(k)
       ELSE hook' = [hook EXCEPT ![k] =
              IF Seen(k).uid = @.uid
                THEN [@ EXCEPT !.pc = "size", !.limit = Seen(k).size]
                ELSE [@ EXCEPT !.cur = hook[k].cur + 1, !.limit = limit]]
  /\ UNCHANGED <<list, index, handler>>

lookup_size(k) ==
  /\ hook[k].pc = "size"
  /\ \/ Seen(k).freed /\ Undefined(k)
     \/ /\ ~Seen(k).freed
        /\ \E limit \in {hook[k].limit, Seen(k).size} :
             IF hook[k].i < limit
               THEN hook' = [hook EXCEPT ![k].pc = "base", ![k].limit = limit]
               ELSE Answer(k, FALSE)
  /\ UNCHANGED <<list, index, handler>>

lookup_base(k) ==
  /\ hook[k].pc = "base"
  /\ \/ Seen(k).freed /\ Undefined(k)
     \/ /\ ~Seen(k).freed
        /\ \E base \in {hook[k].base, Seen(k).base} \ {NotLoaded} :
             hook' = [hook EXCEPT ![k].pc = "cell", ![k].base = base]
  /\ UNCHANGED <<list, index, handler>>

\* A cell that was never stored holds NULL, or what krealloc found there.
lookup_cell(k) ==
  /\ hook[k].pc = "cell"
  /\ LET h == hook[k]
     IN  IF h.base = 0 THEN Die(k)
         ELSE IF \/ Seen(k).freed \/ h.base # Seen(k).live \/ h.data = Unfit
                 \/ h.i + 1 \notin DOMAIN Seen(k).cells
                THEN Undefined(k)
         ELSE IF <<h.data, Seen(k).cells[h.i + 1]>> \in PrefixOf THEN Answer(k, TRUE)
         ELSE hook' = [hook EXCEPT ![k].pc = "size", ![k].i = @ + 1]
  /\ UNCHANGED <<list, index, handler>>

LookupStep(k) == lookup_entry(k) \/ lookup_size(k) \/ lookup_base(k) \/ lookup_cell(k)

lookup_return(k) ==
  /\ hook[k].pc = "answered"
  /\ hook' = [hook EXCEPT ![k] = IdleHook]
  /\ UNCHANGED <<list, index, handler>>

-----------------------------------------------------------------------------
(* whitelist_dispose, one entry: its strings, its storage and its Array are *)
(* given back; the struct array_uid, the pointer to it and the index stay.  *)

whitelist_dispose_entry(i) ==
  /\ list' = [list EXCEPT ![i].freed = TRUE]
  /\ Disturb(list[i].uid)
  /\ UNCHANGED <<index, handler>>

-----------------------------------------------------------------------------
(* Properties. *)

\* Step by step, whichever allocations fail on the way, the function computes
\* what the operator of Whitelist says, so one atomic action may stand for
\* it; and it dies exactly when the operator says so.
HandlerMatchesOperator ==
  LET w == handler.before
  IN  /\ handler.pc = "done" =>
           /\ Value = add_to_whitelist(w, handler.data, handler.uid, handler.refused)
           /\ ~add_to_whitelist_faults(w, handler.uid, handler.refused)
      /\ handler.pc = "oops" =>
           add_to_whitelist_faults(w, handler.uid, handler.refused)

\* What the list promises to the searches, whatever runs beside them.
search ==
  [k \in Hooks |->
     CASE hook[k].pc = "idle" -> [state |-> "idle"]
       [] hook[k].pc = "answered" -> [state |-> "answered", hit |-> hook[k].hit]
       [] OTHER -> [state |-> "running", uid |-> hook[k].uid, data |-> hook[k].data,
                    listed |-> hook[k].listed, disturbed |-> hook[k].disturbed]]

Promise == INSTANCE WhitelistPromise
             WITH allowed <- allowed, broken <- broken, moving <- moving, search <- search
KeepsPromise == Promise!Spec

=============================================================================
