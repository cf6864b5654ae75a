----------------------- MODULE WhitelistPromiseProofs -----------------------
(***************************************************************************)
(* The whitelist keeps the safety part of WhitelistPromise, access by      *)
(* access: each step of a handler, a hook or the loader is a step of the   *)
(* promise, or none.  For every number of hooks, users and strings, every  *)
(* capacity and size of the list, and through every load and unload.       *)
(*                                                                         *)
(* SearchInv says of each search that nobody disturbed that it is on its   *)
(* course: it has not passed what it looks for, in a list that only grows, *)
(* and of the memory that is given back, who may be the cause.             *)
(***************************************************************************)
EXTENDS WhitelistSmpProofs

\* What a search finds at an entry, and that its Array has lost its storage or
\* points to memory that was given back.
Shown(e) == IF e.freed THEN {} ELSE {<<e.uid, e.cells[j]>> : j \in 1 .. e.size}
Broken(e) == ~e.freed /\ e.base = 0
Stale(e) == e.freed \/ e.base \notin {0, e.live}

\* One entry for each user; memory is given back by a krealloc whose result is
\* not stored yet, or while the module is unloaded.
Entries ==
  /\ \A i, j \in 1 .. index : list[i].uid = list[j].uid => i = j
  /\ \A i \in DOMAIN list :
       /\ list[i].freed => (step = "dispose" /\ i < at) \/ step = "release"
       /\ list[i].base \in {0, list[i].live} \/ (handler.pc = "storage" /\ i = handler.cur + 1)
  /\ step = "dispose" => at # 0
  /\ handler.pc = "storage" =>
       /\ Mine.base # 0 /\ handler.reg \in {0, Mine.live}
       /\ handler.reg = 0 => Mine.base = Mine.live

\* Of the first n entries of l, for the search h: it has not passed the entry of
\* its user, nor has it loaded an index that excludes it.
Passing(l, n, h) ==
  /\ h.cur <= h.limit /\ h.limit <= n
  /\ h.i = 0 /\ h.base = NotLoaded
  /\ \A i \in 1 .. h.cur : l[i].uid # h.uid
  /\ h.listed => \E i \in 1 .. h.limit :
       l[i].uid = h.uid /\ \E j \in 1 .. l[i].size : <<h.data, l[i].cells[j]>> \in PrefixOf

\* It reads that entry, and has not passed what it looks for.
Reading(l, n, h) ==
  LET e == l[h.cur + 1]
      Match(j) == <<h.data, e.cells[j]>> \in PrefixOf
  IN  /\ h.cur + 1 <= n /\ e.uid = h.uid
      /\ h.i <= h.limit /\ h.limit <= e.size
      /\ h.pc # "size" => h.i < h.limit
      /\ \A j \in 1 .. h.i : ~Match(j)
      /\ h.listed => \E j \in 1 .. h.limit : Match(j)
      /\ h.base \in {NotLoaded, 0, e.live} /\ (h.base = 0 => e.base = 0)
      /\ h.pc = "cell" => h.base # NotLoaded

OnCourse(l, n, h) ==
  /\ h.data \in Data
  /\ \A i \in 1 .. n : l[i].uid = h.uid => ~Stale(l[i])
  /\ h.pc = "entry" => Passing(l, n, h)
  /\ h.pc \in {"size", "base", "cell"} => Reading(l, n, h)

\* A search that was not disturbed is on its course, in a module that is there.
Searches ==
  \A k \in Hooks : Searching(k) =>
    /\ call[k].pc = "lookup"
    /\ hook[k].disturbed \/ (Text(call[k].load) /\ OnCourse(list, index, hook[k]))

\* Nobody is in a hook of a load that has just begun.
Fresh == step = "create" => \A k \in Hooks : Inside(k) => call[k].load # loads

SearchInv == Entries /\ Searches /\ Fresh

-----------------------------------------------------------------------------
(* What the list allows, who has lost the storage, and whose is moving.    *)

HeldOf(l, n) == {i \in DOMAIN l : i <= n /\ ~l[i].freed}
AllowedOf(l, n) ==
  UNION {{<<l[i].uid, l[i].cells[j]>> :
            j \in DOMAIN l[i].cells \cap 1 .. l[i].size} : i \in HeldOf(l, n)}
BrokenOf(l, n) == {l[i].uid : i \in {m \in HeldOf(l, n) : l[m].base = 0}}
MovingOf(l, n) ==
  {l[i].uid : i \in {m \in 1 .. n \cap DOMAIN l : l[m].freed \/ l[m].base \notin {0, l[m].live}}}

\* A list of n entries or more, with the cells that their sizes count.
Backed(l, n) ==
  /\ l \in Seq(StoredEntry) /\ n \in Nat /\ n <= Len(l)
  /\ \A i \in 1 .. n : l[i].size <= Len(l[i].cells)

LEMMA PromiseOf ==
  /\ allowed = AllowedOf(list, index) /\ allowed' = AllowedOf(list', index')
  /\ broken = BrokenOf(list, index) /\ broken' = BrokenOf(list', index')
  /\ moving = MovingOf(list, index) /\ moving' = MovingOf(list', index')
BY DEF allowed, broken, moving, Held, HeldOf, AllowedOf, BrokenOf, MovingOf

LEMMA PromiseMembers ==
  ASSUME NEW l, NEW n, Backed(l, n)
  PROVE  /\ \A p : p \in AllowedOf(l, n) <=> \E i \in 1 .. n : p \in Shown(l[i])
         /\ \A u : u \in BrokenOf(l, n) <=> \E i \in 1 .. n : Broken(l[i]) /\ l[i].uid = u
         /\ \A u : u \in MovingOf(l, n) <=> \E i \in 1 .. n : Stale(l[i]) /\ l[i].uid = u
<1>1. 1 .. n \subseteq DOMAIN l /\ \A i \in DOMAIN l : i <= n <=> i \in 1 .. n
  BY DEF Backed
<1>2. \A i \in 1 .. n : DOMAIN l[i].cells \cap 1 .. l[i].size = 1 .. l[i].size
  <2> TAKE i \in 1 .. n
  <2> DEFINE cells == l[i].cells
             size == l[i].size
  <2>1. size \in Nat /\ size <= Len(cells) /\ cells \in Seq(Data)
    <3>1. i \in DOMAIN l /\ l \in Seq(StoredEntry) /\ size <= Len(cells)
      BY <1>1 DEF Backed
    <3>2. l[i] \in StoredEntry
      BY <3>1
    <3> QED
      BY <3>1, <3>2 DEF StoredEntry
  <2> HIDE DEF cells, size
  <2>2. Len(cells) \in Nat /\ DOMAIN cells = 1 .. Len(cells)
    BY <2>1
  <2>3. DOMAIN cells \cap 1 .. size = 1 .. size
    BY <2>1, <2>2
  <2> QED
    BY <2>3 DEF cells, size
<1>3. \A i : i \in HeldOf(l, n) <=> i \in 1 .. n /\ ~l[i].freed
  BY <1>1 DEF HeldOf
<1>4. ASSUME NEW p
      PROVE  p \in AllowedOf(l, n) <=> \E i \in 1 .. n : p \in Shown(l[i])
  <2> DEFINE Counted(i) == DOMAIN l[i].cells \cap 1 .. l[i].size
             Found(i) == {<<l[i].uid, l[i].cells[j]>> : j \in Counted(i)}
  <2>4. \A i : p \in Found(i) <=> \E j \in Counted(i) : p = <<l[i].uid, l[i].cells[j]>>
    BY Zenon
  <2>5. AllowedOf(l, n) = UNION {Found(i) : i \in HeldOf(l, n)}
    BY DEF AllowedOf
  <2> HIDE DEF Found
  <2>6. p \in AllowedOf(l, n) <=> \E i \in HeldOf(l, n) : p \in Found(i)
    BY <2>5
  <2>1. p \in AllowedOf(l, n) <=>
          \E i \in HeldOf(l, n) : \E j \in Counted(i) : p = <<l[i].uid, l[i].cells[j]>>
    BY <2>4, <2>6, Zenon
  <2>2. \A i \in 1 .. n : p \in Shown(l[i]) <=>
          ~l[i].freed /\ \E j \in 1 .. l[i].size : p = <<l[i].uid, l[i].cells[j]>>
    BY DEF Shown
  <2>3. p \in AllowedOf(l, n) <=>
          \E i \in HeldOf(l, n) : \E j \in 1 .. l[i].size : p = <<l[i].uid, l[i].cells[j]>>
    BY <1>2, <1>3, <2>1, Zenon
  <2> QED
    BY <1>3, <2>2, <2>3, Zenon
<1>5. ASSUME NEW u
      PROVE  /\ u \in BrokenOf(l, n) <=> \E i \in 1 .. n : Broken(l[i]) /\ l[i].uid = u
             /\ u \in MovingOf(l, n) <=> \E i \in 1 .. n : Stale(l[i]) /\ l[i].uid = u
  BY <1>1, <1>3 DEF BrokenOf, MovingOf, Broken, Stale
<1> QED
  BY <1>4, <1>5

\* The same entries.
LEMMA PromiseKept ==
  ASSUME NEW l, NEW l2, NEW n, Backed(l, n), Backed(l2, n), \A i \in 1 .. n : l2[i] = l[i]
  PROVE  /\ AllowedOf(l2, n) = AllowedOf(l, n)
         /\ BrokenOf(l2, n) = BrokenOf(l, n)
         /\ MovingOf(l2, n) = MovingOf(l, n)
<1>1. ASSUME NEW x
      PROVE  /\ x \in AllowedOf(l2, n) <=> x \in AllowedOf(l, n)
             /\ x \in BrokenOf(l2, n) <=> x \in BrokenOf(l, n)
             /\ x \in MovingOf(l2, n) <=> x \in MovingOf(l, n)
  BY PromiseMembers
<1> QED
  BY <1>1, Zenon

\* One entry is another.
LEMMA PromiseWritten ==
  ASSUME NEW l, NEW l2, NEW n, Backed(l, n), Backed(l2, n), NEW m \in 1 .. n,
         \A i \in 1 .. n : i # m => l2[i] = l[i], l2[m].uid = l[m].uid,
         \A i \in 1 .. n : l[i].uid = l[m].uid => i = m
  PROVE  /\ \A p : p \in AllowedOf(l2, n) <=>
                   p \in Shown(l2[m]) \/ (p \in AllowedOf(l, n) /\ p \notin Shown(l[m]))
         /\ \A p \in AllowedOf(l, n) : p[1] = l[m].uid <=> p \in Shown(l[m])
         /\ \A p \in Shown(l[m]) : p \in AllowedOf(l, n)
         /\ BrokenOf(l2, n) = IF Broken(l2[m]) THEN BrokenOf(l, n) \cup {l[m].uid}
                                               ELSE BrokenOf(l, n) \ {l[m].uid}
         /\ MovingOf(l2, n) = IF Stale(l2[m]) THEN MovingOf(l, n) \cup {l[m].uid}
                                              ELSE MovingOf(l, n) \ {l[m].uid}
<1>1. \A i \in 1 .. n : \A p \in Shown(l[i]) : p[1] = l[i].uid
  BY DEF Shown
<1>2. ASSUME NEW p
      PROVE  /\ p \in AllowedOf(l2, n) <=>
                   p \in Shown(l2[m]) \/ (p \in AllowedOf(l, n) /\ p \notin Shown(l[m]))
             /\ p \in AllowedOf(l, n) => (p[1] = l[m].uid <=> p \in Shown(l[m]))
             /\ p \in Shown(l[m]) => p \in AllowedOf(l, n)
  <2>1. /\ p \in AllowedOf(l, n) <=> \E i \in 1 .. n : p \in Shown(l[i])
        /\ p \in AllowedOf(l2, n) <=> \E i \in 1 .. n : p \in Shown(l2[i])
    BY PromiseMembers
  <2> QED
    BY <1>1, <2>1
<1>3. BrokenOf(l2, n) = IF Broken(l2[m]) THEN BrokenOf(l, n) \cup {l[m].uid}
                                         ELSE BrokenOf(l, n) \ {l[m].uid}
  BY PromiseMembers
<1>4. MovingOf(l2, n) = IF Stale(l2[m]) THEN MovingOf(l, n) \cup {l[m].uid}
                                        ELSE MovingOf(l, n) \ {l[m].uid}
  BY PromiseMembers
<1> QED
  BY <1>1, <1>2, <1>3, <1>4

\* One entry more.
LEMMA PromiseLonger ==
  ASSUME NEW l, NEW n, Backed(l, n + 1), n \in Nat
  PROVE  /\ AllowedOf(l, n + 1) = AllowedOf(l, n) \cup Shown(l[n + 1])
         /\ ~Broken(l[n + 1]) => BrokenOf(l, n + 1) = BrokenOf(l, n)
         /\ ~Stale(l[n + 1]) => MovingOf(l, n + 1) = MovingOf(l, n)
<1> DEFINE m == n + 1
<1>1. Backed(l, n) /\ \A i : i \in 1 .. m <=> i \in 1 .. n \/ i = m
  BY DEF Backed
<1>2. /\ \A x : x \in AllowedOf(l, n) <=> \E i \in 1 .. n : x \in Shown(l[i])
      /\ \A x : x \in BrokenOf(l, n) <=> \E i \in 1 .. n : Broken(l[i]) /\ l[i].uid = x
      /\ \A x : x \in MovingOf(l, n) <=> \E i \in 1 .. n : Stale(l[i]) /\ l[i].uid = x
  BY <1>1, PromiseMembers
<1>3. /\ \A x : x \in AllowedOf(l, m) <=> \E i \in 1 .. m : x \in Shown(l[i])
      /\ \A x : x \in BrokenOf(l, m) <=> \E i \in 1 .. m : Broken(l[i]) /\ l[i].uid = x
      /\ \A x : x \in MovingOf(l, m) <=> \E i \in 1 .. m : Stale(l[i]) /\ l[i].uid = x
  BY PromiseMembers
<1> HIDE DEF m
<1>4. ASSUME NEW x
      PROVE  /\ x \in AllowedOf(l, m) <=> x \in AllowedOf(l, n) \/ x \in Shown(l[m])
             /\ ~Broken(l[m]) => (x \in BrokenOf(l, m) <=> x \in BrokenOf(l, n))
             /\ ~Stale(l[m]) => (x \in MovingOf(l, m) <=> x \in MovingOf(l, n))
  BY <1>1, <1>2, <1>3, Zenon
<1>5. /\ AllowedOf(l, m) = AllowedOf(l, n) \cup Shown(l[m])
      /\ ~Broken(l[m]) => BrokenOf(l, m) = BrokenOf(l, n)
      /\ ~Stale(l[m]) => MovingOf(l, m) = MovingOf(l, n)
  BY <1>4, Zenon
<1> QED
  BY <1>5 DEF m

-----------------------------------------------------------------------------
(* A search as the promise sees it. *)

Active(h) == h.pc \in {"entry", "size", "base", "cell"}

SearchOf(h) ==
  CASE h.pc = "idle" -> [state |-> "idle"]
    [] h.pc = "answered" -> [state |-> "answered", hit |-> h.hit]
    [] OTHER -> [state |-> "running", uid |-> h.uid, data |-> h.data,
                 listed |-> h.listed, disturbed |-> h.disturbed]

LEMMA SearchIs ==
  /\ search = [k \in Hooks |-> SearchOf(hook[k])]
  /\ search' = [k \in Hooks |-> SearchOf(hook'[k])]
BY DEF search, SearchOf

LEMMA SearchOfFacts ==
  ASSUME NEW h \in HookRecord
  PROVE  /\ h.pc = "idle" => SearchOf(h) = [state |-> "idle"]
         /\ h.pc = "answered" => SearchOf(h) = [state |-> "answered", hit |-> h.hit]
         /\ Active(h) => SearchOf(h) = [state |-> "running", uid |-> h.uid, data |-> h.data,
                                        listed |-> h.listed, disturbed |-> h.disturbed]
         /\ h.pc = "idle" \/ h.pc = "answered" \/ Active(h)
         /\ SearchOf(h).state = "running" <=> Active(h)
BY DEF SearchOf, Active, HookRecord

\* One search goes on.
LEMMA SearchMoved ==
  ASSUME hook \in [Hooks -> HookRecord], NEW k \in Hooks, NEW h,
         hook' = [hook EXCEPT ![k] = h]
  PROVE  /\ search' = [search EXCEPT ![k] = SearchOf(h)]
         /\ search[k] = SearchOf(hook[k])
         /\ SearchOf(h) = SearchOf(hook[k]) => search' = search
<1>1. search = [i \in Hooks |-> SearchOf(hook[i])] /\ search' = [i \in Hooks |-> SearchOf(hook'[i])]
  BY SearchIs
<1>2. \A i \in Hooks : hook'[i] = IF i = k THEN h ELSE hook[i]
  OBVIOUS
<1>3. search' = [search EXCEPT ![k] = SearchOf(h)]
  BY <1>1, <1>2
<1>4. search[k] = SearchOf(hook[k])
  BY <1>1
<1>5. ASSUME SearchOf(h) = SearchOf(hook[k]) PROVE search' = search
  BY <1>1, <1>2, <1>5
<1> QED
  BY <1>3, <1>4, <1>5

LEMMA RunDisturbed ==
  ASSUME NEW uid, NEW data, NEW listed \in BOOLEAN, NEW disturbed \in BOOLEAN, NEW r, NEW f,
         r = [state |-> "running", uid |-> uid, data |-> data, listed |-> listed,
              disturbed |-> disturbed],
         f = [r EXCEPT !.disturbed = TRUE]
  PROVE  f = [state |-> "running", uid |-> uid, data |-> data, listed |-> listed,
              disturbed |-> TRUE]
OBVIOUS

\* The searches for some users are disturbed.
LEMMA SearchDisturbed ==
  ASSUME hook \in [Hooks -> HookRecord], NEW users,
         hook' = [k \in Hooks |-> IF Searching(k) /\ hook[k].uid \in users
                                    THEN [hook[k] EXCEPT !.disturbed = TRUE] ELSE hook[k]]
  PROVE  Promise!Disturb(users)
<1>1. search = [k \in Hooks |-> SearchOf(hook[k])] /\ search' = [k \in Hooks |-> SearchOf(hook'[k])]
  BY SearchIs
<1>2. ASSUME NEW k \in Hooks
      PROVE  search'[k] = IF Promise!Running(k) /\ search[k].uid \in users
                            THEN [search[k] EXCEPT !.disturbed = TRUE] ELSE search[k]
  <2> DEFINE h == hook[k]
             g == [h EXCEPT !.disturbed = TRUE]
  <2>1. h \in HookRecord /\ g \in HookRecord /\ search[k] = SearchOf(h)
        /\ (Searching(k) <=> Active(h))
        /\ g.pc = h.pc /\ g.uid = h.uid /\ g.data = h.data /\ g.listed = h.listed /\ g.disturbed
        /\ g.disturbed = TRUE
    BY <1>1 DEF HookRecord, Searching, Active
  <2>2. Promise!Running(k) <=> Searching(k)
    BY <2>1, SearchOfFacts DEF Promise!Running
  <2>3. hook'[k] = IF Searching(k) /\ h.uid \in users THEN g ELSE h
    OBVIOUS
  <2> HIDE DEF h, g
  <2>4. search'[k] = SearchOf(hook'[k])
    BY <1>1
  <2>5. CASE Searching(k)
    <3>1. /\ SearchOf(h) = [state |-> "running", uid |-> h.uid, data |-> h.data,
                            listed |-> h.listed, disturbed |-> h.disturbed]
          /\ SearchOf(g) = [state |-> "running", uid |-> h.uid, data |-> h.data,
                            listed |-> h.listed, disturbed |-> TRUE]
      BY <2>1, <2>5, SearchOfFacts DEF Active
    <3>2. h.listed \in BOOLEAN /\ h.disturbed \in BOOLEAN
      BY <2>1 DEF HookRecord
    <3>3. SearchOf(g) = [SearchOf(h) EXCEPT !.disturbed = TRUE]
      <4> DEFINE r == SearchOf(h)
                 f == [r EXCEPT !.disturbed = TRUE]
      <4>1. f = [r EXCEPT !.disturbed = TRUE]
        OBVIOUS
      <4>2. r = [state |-> "running", uid |-> h.uid, data |-> h.data,
                 listed |-> h.listed, disturbed |-> h.disturbed]
        BY <3>1
      <4> HIDE DEF r, f
      <4>3. f = [state |-> "running", uid |-> h.uid, data |-> h.data,
                 listed |-> h.listed, disturbed |-> TRUE]
        BY <3>2, <4>1, <4>2, RunDisturbed
      <4> QED
        BY <3>1, <4>3 DEF f, r
    <3>4. SearchOf(h).uid = h.uid
      BY <3>1
    <3> QED
      BY <2>1, <2>2, <2>3, <2>4, <2>5, <3>3, <3>4
  <2>6. CASE ~Searching(k)
    BY <2>1, <2>2, <2>3, <2>4, <2>6
  <2> QED
    BY <2>5, <2>6
<1>3. search' = [k \in Hooks |-> search'[k]]
  BY <1>1
<1> QED
  BY <1>2, <1>3 DEF Promise!Disturb

-----------------------------------------------------------------------------
(* A search stays on its course while the list grows. *)

LEMMA CourseKept ==
  ASSUME NEW l, NEW n, Backed(l, n), NEW l2, NEW n2, Backed(l2, n2), n <= n2,
         NEW h \in HookRecord, OnCourse(l, n, h),
         \A i \in 1 .. n : /\ l2[i].uid = l[i].uid /\ l[i].size <= l2[i].size
                           /\ \A j \in 1 .. l[i].size : l2[i].cells[j] = l[i].cells[j],
         \A i \in 1 .. n : l[i].uid = h.uid =>
           l2[i].live = l[i].live /\ (l[i].base = 0 => l2[i].base = 0),
         \A i \in 1 .. n2 : l2[i].uid = h.uid => ~Stale(l2[i])
  PROVE  OnCourse(l2, n2, h)
<1>1. n \in Nat /\ n2 \in Nat /\ h.cur \in Nat /\ h.limit \in Nat /\ h.i \in Nat
  BY DEF Backed, HookRecord
<1>2. \A i \in 1 .. n : l[i].size \in Nat /\ l2[i].size \in Nat
  <2> TAKE i \in 1 .. n
  <2>1. i \in DOMAIN l /\ i \in DOMAIN l2 /\ l \in Seq(StoredEntry) /\ l2 \in Seq(StoredEntry)
    BY <1>1 DEF Backed
  <2>2. l[i] \in StoredEntry /\ l2[i] \in StoredEntry
    BY <2>1
  <2> QED
    BY <2>2 DEF StoredEntry
<1>3. ASSUME h.pc = "entry" PROVE Passing(l2, n2, h)
  <2>1. Passing(l, n, h)
    BY <1>3 DEF OnCourse
  <2>2. /\ h.cur <= h.limit /\ h.limit <= n2 /\ h.i = 0 /\ h.base = NotLoaded
        /\ \A i \in 1 .. h.cur : l2[i].uid # h.uid
    BY <1>1, <2>1 DEF Passing
  <2>3. ASSUME h.listed
        PROVE  \E i \in 1 .. h.limit :
                 /\ l2[i].uid = h.uid
                 /\ \E j \in 1 .. l2[i].size : <<h.data, l2[i].cells[j]>> \in PrefixOf
    <3>1. PICK i \in 1 .. h.limit :
            l[i].uid = h.uid /\ \E j \in 1 .. l[i].size : <<h.data, l[i].cells[j]>> \in PrefixOf
      BY <2>1, <2>3 DEF Passing
    <3>2. i \in 1 .. n
      BY <1>1, <2>1 DEF Passing
    <3>3. PICK j \in 1 .. l[i].size : <<h.data, l[i].cells[j]>> \in PrefixOf
      BY <3>1
    <3>4. j \in 1 .. l2[i].size /\ l2[i].cells[j] = l[i].cells[j] /\ l2[i].uid = h.uid
      BY <1>2, <3>1, <3>2
    <3> QED
      BY <3>3, <3>4
  <2> QED
    BY <2>2, <2>3 DEF Passing
<1>4. ASSUME h.pc \in {"size", "base", "cell"} PROVE Reading(l2, n2, h)
  <2> DEFINE c == h.cur + 1
             e == l[c]
             f == l2[c]
  <2>1. /\ c <= n /\ e.uid = h.uid
        /\ h.i <= h.limit /\ h.limit <= e.size
        /\ h.pc # "size" => h.i < h.limit
        /\ \A j \in 1 .. h.i : <<h.data, e.cells[j]>> \notin PrefixOf
        /\ h.listed => \E j \in 1 .. h.limit : <<h.data, e.cells[j]>> \in PrefixOf
        /\ h.base \in {NotLoaded, 0, e.live} /\ (h.base = 0 => e.base = 0)
        /\ h.pc = "cell" => h.base # NotLoaded
    BY <1>4 DEF OnCourse, Reading
  <2>2. c \in 1 .. n
    BY <1>1, <2>1
  <2>3. /\ f.uid = e.uid /\ e.size <= f.size /\ e.size \in Nat /\ f.size \in Nat
        /\ \A j \in 1 .. e.size : f.cells[j] = e.cells[j]
        /\ f.live = e.live /\ (e.base = 0 => f.base = 0)
    BY <1>2, <2>1, <2>2
  <2>4. c <= n2
    BY <1>1, <2>1
  <2> HIDE DEF c, e, f
  <2>5. \A j \in 1 .. h.limit : f.cells[j] = e.cells[j]
    BY <1>1, <2>1, <2>3
  <2>6. \A j \in 1 .. h.i : j \in 1 .. h.limit
    BY <1>1, <2>1
  <2>7. h.limit <= f.size
    BY <1>1, <2>1, <2>3
  <2>9. /\ \A j \in 1 .. h.i : <<h.data, f.cells[j]>> \notin PrefixOf
        /\ h.listed => \E j \in 1 .. h.limit : <<h.data, f.cells[j]>> \in PrefixOf
    BY <2>1, <2>5, <2>6, Zenon
  <2>8. /\ f.uid = h.uid /\ h.base \in {NotLoaded, 0, f.live} /\ (h.base = 0 => f.base = 0)
    BY <2>1, <2>3
  <2> QED
    BY <2>1, <2>4, <2>7, <2>8, <2>9 DEF Reading, c, f
<1> QED
  BY <1>3, <1>4 DEF OnCourse

-----------------------------------------------------------------------------
(* The steps of a search. *)

LEMMA ListBacked == (Lists => Backed(list, index)) /\ (Lists' => Backed(list', index'))
<1>1. ASSUME Lists PROVE Backed(list, index)
  <2>1. list \in Seq(StoredEntry) /\ index \in Nat /\ index <= Len(list)
    BY <1>1, UidTableAssumption DEF Lists
  <2>2. ASSUME NEW i \in 1 .. index PROVE list[i].size <= Len(list[i].cells)
    <3>1. i \in DOMAIN list
      BY <2>1
    <3>2. list[i] \in StoredEntry
      BY <2>1, <3>1
    <3>3. list[i].size \in Nat
      BY <3>2 DEF StoredEntry
    <3> QED
      BY <1>1, <3>1, <3>3 DEF Lists
  <2> QED
    BY <2>1, <2>2 DEF Backed
<1>2. ASSUME Lists' PROVE Backed(list', index')
  <2>1. list' \in Seq(StoredEntry) /\ index' \in Nat /\ index' <= Len(list')
    <3>1. /\ list' \in Seq(StoredEntry) /\ index' \in 0 .. MAX_SIZE_ARRAY
          /\ Len(list') = IF handler'.pc = "raise" THEN index' + 1 ELSE index'
      BY <1>2 DEF Lists
    <3>2. index' \in Nat
      BY <3>1, UidTableAssumption
    <3>3. Len(list') = index' + 1 \/ Len(list') = index'
      BY <3>1
    <3>4. \A n \in Nat : \A m : m = n + 1 \/ m = n => n <= m
      OBVIOUS
    <3>5. index' <= Len(list')
      BY <3>2, <3>3, <3>4, Zenon
    <3> QED
      BY <3>1, <3>2, <3>5
  <2>2. ASSUME NEW i \in 1 .. index' PROVE list'[i].size <= Len(list'[i].cells)
    <3>1. i \in DOMAIN list'
      BY <2>1
    <3>2. list'[i] \in StoredEntry
      BY <2>1, <3>1
    <3>3. list'[i].size \in Nat
      BY <3>2 DEF StoredEntry
    <3> QED
      BY <1>2, <3>1, <3>3 DEF Lists
  <2> QED
    BY <2>1, <2>2 DEF Backed
<1> QED
  BY <1>1, <1>2

Answers(hit) == [IdleHook EXCEPT !.pc = "answered", !.hit = hit]

\* What the promise allows the search h to become.
Follows(h, g) ==
  \/ g = IdleHook /\ (h.disturbed \/ h.uid \in broken)
  \/ \E hit \in BOOLEAN :
       /\ g = Answers(hit)
       /\ h.disturbed \/ (hit /\ Promise!Found(h.uid, h.data)) \/ (~hit /\ ~h.listed)
  \/ /\ Active(g) /\ g.uid = h.uid /\ g.data = h.data /\ g.listed = h.listed
     /\ g.disturbed = h.disturbed
     /\ h.disturbed \/ OnCourse(list, index, g)

\* The entry a search on its course reads.
LEMMA SeenEntry ==
  ASSUME Backed(list, index), NEW h \in HookRecord, h.pc \in {"size", "base", "cell"},
         OnCourse(list, index, h)
  PROVE  LET e == list[h.cur + 1] IN
         /\ h.cur + 1 \in 1 .. index /\ e \in StoredEntry
         /\ ~Stale(e) /\ e.freed = FALSE /\ e.base \in {0, e.live} /\ e.uid = h.uid
         /\ e.size <= Len(e.cells) /\ e.size \in Nat /\ e.live \in Nat
         /\ DOMAIN e.cells = 1 .. Len(e.cells) /\ Len(e.cells) \in Nat
         /\ h.i <= h.limit /\ h.limit <= e.size /\ h.limit \in Nat /\ h.i \in Nat
         /\ h.pc # "size" => h.i < h.limit
         /\ \A j \in 1 .. h.i : <<h.data, e.cells[j]>> \notin PrefixOf
         /\ h.listed => \E j \in 1 .. h.limit : <<h.data, e.cells[j]>> \in PrefixOf
         /\ h.base \in {NotLoaded, 0, e.live} /\ (h.base = 0 => e.base = 0)
         /\ h.pc = "cell" => h.base # NotLoaded
         /\ e.base = 0 => h.uid \in broken
<1> DEFINE c == h.cur + 1
           e == list[c]
<1>1. c \in 1 .. index /\ list \in Seq(StoredEntry) /\ index \in Nat /\ index <= Len(list)
      /\ h.cur \in Nat /\ h.limit \in Nat /\ h.i \in Nat
  BY DEF OnCourse, Reading, Backed, HookRecord
<1>2. c \in DOMAIN list /\ e \in StoredEntry /\ e.size <= Len(e.cells)
  BY <1>1 DEF Backed
<1>3. /\ e.size \in Nat /\ e.live \in Nat /\ e.cells \in Seq(Data) /\ e.freed \in BOOLEAN
  BY <1>2 DEF StoredEntry
<1>4. /\ e.uid = h.uid
      /\ h.i <= h.limit /\ h.limit <= e.size
      /\ h.pc # "size" => h.i < h.limit
      /\ \A j \in 1 .. h.i : <<h.data, e.cells[j]>> \notin PrefixOf
      /\ h.listed => \E j \in 1 .. h.limit : <<h.data, e.cells[j]>> \in PrefixOf
      /\ h.base \in {NotLoaded, 0, e.live} /\ (h.base = 0 => e.base = 0)
      /\ h.pc = "cell" => h.base # NotLoaded
  BY DEF OnCourse, Reading
<1>5. ~Stale(e)
  BY <1>1, <1>4 DEF OnCourse
<1>6. e.freed = FALSE /\ e.base \in {0, e.live}
  BY <1>3, <1>5 DEF Stale
<1>7. e.base = 0 => h.uid \in broken
  BY <1>1, <1>4, <1>6, PromiseOf, PromiseMembers DEF Broken
<1>8. DOMAIN e.cells = 1 .. Len(e.cells) /\ Len(e.cells) \in Nat
  BY <1>3
<1> QED
  BY <1>1, <1>2, <1>3, <1>4, <1>5, <1>6, <1>7, <1>8

\* An undisturbed search goes on in the list: it is at entry c, with what it read.
LEMMA ReadsOn ==
  ASSUME NEW h \in HookRecord, NEW g \in HookRecord, OnCourse(list, index, h), 
         NEW e, e = list[g.cur + 1],
         g.pc \in {"size", "base", "cell"}, g.uid = h.uid, g.data = h.data, g.listed = h.listed,
         g.cur + 1 <= index, e.uid = h.uid,
         g.i <= g.limit, g.limit <= e.size, g.pc # "size" => g.i < g.limit,
         \A j \in 1 .. g.i : <<h.data, e.cells[j]>> \notin PrefixOf,
         h.listed => \E j \in 1 .. g.limit : <<h.data, e.cells[j]>> \in PrefixOf,
         g.base \in {NotLoaded, 0, e.live}, g.base = 0 => e.base = 0,
         g.pc = "cell" => g.base # NotLoaded
  PROVE  OnCourse(list, index, g)
<1>1. Reading(list, index, g)
  BY DEF Reading
<1> QED
  BY <1>1 DEF OnCourse

LEMMA AnswerTyped ==
  ASSUME NEW k \in Hooks, hook \in [Hooks -> HookRecord]
  PROVE  /\ \A hit \in BOOLEAN : Answer(k, hit) => hook'[k] = Answers(hit)
         /\ Die(k) => hook'[k] = IdleHook
BY DEF Answer, Answers, Die

\* At the entries.
LEMMA EntryFollows ==
  ASSUME Backed(list, index), Entries, hook \in [Hooks -> HookRecord],
         NEW k \in Hooks, NEW h, h = hook[k], NEW g \in HookRecord, g = hook'[k],
         h.disturbed \/ OnCourse(list, index, h), lookup_entry(k)
  PROVE  Follows(h, g)
<1>1. h \in HookRecord /\ h.pc = "entry" /\ index \in Nat /\ index <= Len(list)
      /\ list \in Seq(StoredEntry) /\ h.cur \in Nat /\ h.limit \in Nat
  BY DEF lookup_entry, Backed, HookRecord
<1>2. PICK limit \in {h.limit, index} :
        IF h.cur >= limit THEN Answer(k, FALSE)
        ELSE IF h.cur + 1 \notin DOMAIN list THEN Die(k)
        ELSE hook' = [hook EXCEPT ![k] =
               IF Seen(k).uid = h.uid
                 THEN [h EXCEPT !.pc = "size", !.limit = Seen(k).size]
                 ELSE [h EXCEPT !.cur = h.cur + 1, !.limit = limit]]
  BY DEF lookup_entry
<1>3. OnCourse(list, index, h) => Passing(list, index, h)
  BY <1>1 DEF OnCourse
<1>4. CASE h.cur >= limit
  <2>1. g = Answers(FALSE)
    BY <1>2, <1>4, AnswerTyped
  <2>2. ASSUME OnCourse(list, index, h) PROVE ~h.listed
    BY <1>1, <1>2, <1>3, <1>4, <2>2 DEF Passing
  <2> QED
    BY <2>1, <2>2 DEF Follows
<1>5. CASE h.cur < limit /\ h.cur + 1 \notin DOMAIN list
  <2>1. Die(k)
    <3>1. limit \in Nat /\ ~(h.cur >= limit)
      BY <1>1, <1>5
    <3> QED
      BY <1>2, <1>5, <3>1
  <2>3. g = IdleHook
    BY <2>1, AnswerTyped
  <2>2. ~OnCourse(list, index, h)
    BY <1>1, <1>2, <1>3, <1>5 DEF Passing
  <2> QED
    BY <2>2, <2>3 DEF Follows
<1>6. CASE h.cur < limit /\ h.cur + 1 \in DOMAIN list
  <2> DEFINE e == list[h.cur + 1]
  <2>1. limit \in Nat /\ e \in StoredEntry
    BY <1>1, <1>2, <1>6
  <2>2. e.size \in Nat
    BY <2>1 DEF StoredEntry
  <2>3. g = IF e.uid = h.uid
              THEN [h EXCEPT !.pc = "size", !.limit = e.size]
              ELSE [h EXCEPT !.cur = h.cur + 1, !.limit = limit]
    <3>1. ~(h.cur >= limit) /\ Seen(k) = e
      BY <1>1, <1>6, <2>1 DEF Seen
    <3>2. hook' = [hook EXCEPT ![k] = IF e.uid = h.uid
                                        THEN [h EXCEPT !.pc = "size", !.limit = e.size]
                                        ELSE [h EXCEPT !.cur = h.cur + 1, !.limit = limit]]
      BY <1>2, <1>6, <3>1
    <3> QED
      BY <3>2
  <2>4. CASE e.uid = h.uid
    <3>1. /\ g.pc = "size" /\ g.limit = e.size /\ g.cur = h.cur /\ g.i = h.i /\ g.base = h.base
          /\ g.uid = h.uid /\ g.data = h.data /\ g.listed = h.listed
          /\ g.disturbed = h.disturbed
      BY <1>1, <2>3, <2>4 DEF HookRecord
    <3>2. ASSUME OnCourse(list, index, h) PROVE OnCourse(list, index, g)
      <4>1. /\ h.cur <= h.limit /\ h.limit <= index /\ h.i = 0 /\ h.base = NotLoaded
            /\ \A i \in 1 .. h.cur : list[i].uid # h.uid
        BY <1>3, <3>2 DEF Passing
      <4>2. h.cur + 1 \in 1 .. index
        BY <1>1, <1>2, <1>6, <4>1
      <4>3. h.listed => \E j \in 1 .. e.size : <<h.data, e.cells[j]>> \in PrefixOf
        <5>1. SUFFICES ASSUME h.listed
                       PROVE  \E j \in 1 .. e.size : <<h.data, e.cells[j]>> \in PrefixOf
          OBVIOUS
        <5>2. PICK i \in 1 .. h.limit :
                /\ list[i].uid = h.uid
                /\ \E j \in 1 .. list[i].size : <<h.data, list[i].cells[j]>> \in PrefixOf
          BY <1>3, <3>2, <5>1 DEF Passing
        <5>3. i \in 1 .. index
          BY <1>1, <4>1
        <5>4. i = h.cur + 1
          BY <2>4, <4>2, <5>2, <5>3 DEF Entries
        <5> QED
          BY <5>2, <5>4
      <4> HIDE DEF e
      <4>4. e = list[g.cur + 1]
        BY <3>1 DEF e
      <4>5. /\ g.cur + 1 <= index /\ g.i <= g.limit /\ g.limit <= e.size
            /\ \A j \in 1 .. g.i : <<h.data, e.cells[j]>> \notin PrefixOf
            /\ h.listed => \E j \in 1 .. g.limit : <<h.data, e.cells[j]>> \in PrefixOf
            /\ g.base = NotLoaded /\ g.base # 0
        <5>1. g.cur + 1 <= index /\ g.i <= g.limit /\ g.limit <= e.size
          BY <1>1, <2>2, <3>1, <4>1, <4>2
        <5>2. /\ \A j \in 1 .. g.i : <<h.data, e.cells[j]>> \notin PrefixOf
              /\ g.base = NotLoaded /\ g.base # 0
          BY <3>1, <4>1 DEF NotLoaded
        <5>3. h.listed => \E j \in 1 .. g.limit : <<h.data, e.cells[j]>> \in PrefixOf
          BY <3>1, <4>3
        <5> QED
          BY <5>1, <5>2, <5>3
      <4> QED
        BY <1>1, <2>4, <3>1, <3>2, <4>4, <4>5, ReadsOn
    <3> QED
      BY <3>1, <3>2 DEF Follows, Active
  <2>5. CASE e.uid # h.uid
    <3>1. /\ g.pc = "entry" /\ g.limit = limit /\ g.cur = h.cur + 1 /\ g.i = h.i
          /\ g.base = h.base /\ g.uid = h.uid /\ g.data = h.data /\ g.listed = h.listed
          /\ g.disturbed = h.disturbed
      BY <1>1, <2>3, <2>5 DEF HookRecord
    <3>2. ASSUME OnCourse(list, index, h) PROVE Passing(list, index, g)
      <4>1. /\ h.cur <= h.limit /\ h.limit <= index /\ h.i = 0 /\ h.base = NotLoaded
            /\ \A i \in 1 .. h.cur : list[i].uid # h.uid
        BY <1>3, <3>2 DEF Passing
      <4>2. /\ g.cur <= g.limit /\ g.limit <= index /\ h.limit <= g.limit
            /\ g.i = 0 /\ g.base = NotLoaded
        BY <1>1, <1>2, <1>6, <2>1, <3>1, <4>1
      <4>3. \A i \in 1 .. g.cur : list[i].uid # g.uid
        BY <1>1, <2>5, <3>1, <4>1
      <4>4. ASSUME g.listed
            PROVE  \E i \in 1 .. g.limit :
                     /\ list[i].uid = g.uid
                     /\ \E j \in 1 .. list[i].size : <<g.data, list[i].cells[j]>> \in PrefixOf
        <5>1. PICK i \in 1 .. h.limit :
                /\ list[i].uid = h.uid
                /\ \E j \in 1 .. list[i].size : <<h.data, list[i].cells[j]>> \in PrefixOf
          BY <1>3, <3>1, <3>2, <4>4 DEF Passing
        <5>2. i \in 1 .. g.limit
          BY <1>1, <2>1, <3>1, <4>2
        <5> QED
          BY <3>1, <5>1, <5>2
      <4> QED
        BY <4>2, <4>3, <4>4 DEF Passing
    <3>3. OnCourse(list, index, h) => OnCourse(list, index, g)
      BY <3>1, <3>2 DEF OnCourse
    <3> QED
      BY <3>1, <3>3 DEF Follows, Active
  <2> QED
    BY <2>4, <2>5
<1> QED
  BY <1>1, <1>2, <1>4, <1>5, <1>6

\* At the cells of its entry.
LEMMA SizeFollows ==
  ASSUME Backed(list, index), hook \in [Hooks -> HookRecord],
         NEW k \in Hooks, NEW h, h = hook[k], NEW g \in HookRecord, g = hook'[k],
         h.disturbed \/ OnCourse(list, index, h), lookup_size(k)
  PROVE  Follows(h, g)
<1> DEFINE e == list[h.cur + 1]
<1>1. h \in HookRecord /\ h.pc = "size" /\ Seen(k) = e
  BY DEF lookup_size, Seen
<1>2. CASE Undefined(k) /\ e.freed
  <2>1. g = IdleHook \/ \E hit \in BOOLEAN : g = Answers(hit)
    BY <1>2, AnswerTyped DEF Undefined
  <2>2. h.disturbed
    BY <1>1, <1>2, SeenEntry
  <2> QED
    BY <2>1, <2>2 DEF Follows
<1>3. ASSUME NEW limit \in {h.limit, e.size}, h.i < limit,
             hook' = [hook EXCEPT ![k].pc = "base", ![k].limit = limit]
      PROVE  Follows(h, g)
  <2>1. /\ g.pc = "base" /\ g.limit = limit /\ g.cur = h.cur /\ g.i = h.i /\ g.base = h.base
        /\ g.uid = h.uid /\ g.data = h.data /\ g.listed = h.listed
        /\ g.disturbed = h.disturbed
    BY <1>1, <1>3 DEF HookRecord
  <2>2. ASSUME OnCourse(list, index, h) PROVE OnCourse(list, index, g)
    <3>1. /\ h.cur + 1 \in 1 .. index /\ e.uid = h.uid /\ e.size \in Nat
          /\ h.i <= h.limit /\ h.limit <= e.size /\ h.limit \in Nat /\ h.i \in Nat
          /\ \A j \in 1 .. h.i : <<h.data, e.cells[j]>> \notin PrefixOf
          /\ h.listed => \E j \in 1 .. h.limit : <<h.data, e.cells[j]>> \in PrefixOf
          /\ h.base \in {NotLoaded, 0, e.live} /\ (h.base = 0 => e.base = 0)
      BY <1>1, <2>2, SeenEntry
    <3> HIDE DEF e
    <3>2. e = list[g.cur + 1]
      BY <2>1 DEF e
    <3>3. h.limit <= g.limit /\ g.limit <= e.size /\ g.i < g.limit /\ g.i <= g.limit
      BY <1>3, <2>1, <3>1
    <3>4. \A j \in 1 .. h.limit : j \in 1 .. g.limit
      BY <1>3, <3>1, <3>3
    <3>5. h.listed => \E j \in 1 .. g.limit : <<h.data, e.cells[j]>> \in PrefixOf
      BY <3>1, <3>4
    <3>6. g.cur + 1 <= index
      BY <2>1, <3>1 DEF HookRecord
    <3>7. /\ g.base \in {NotLoaded, 0, e.live} /\ (g.base = 0 => e.base = 0)
          /\ \A j \in 1 .. g.i : <<h.data, e.cells[j]>> \notin PrefixOf
      BY <2>1, <3>1
    <3> QED
      BY <1>1, <2>1, <2>2, <3>1, <3>2, <3>3, <3>5, <3>6, <3>7, ReadsOn
  <2> QED
    BY <2>1, <2>2 DEF Follows, Active
<1>4. ASSUME NEW limit \in {h.limit, e.size}, ~(h.i < limit), Answer(k, FALSE)
      PROVE  Follows(h, g)
  <2>1. g = Answers(FALSE)
    BY <1>4, AnswerTyped
  <2>2. ASSUME OnCourse(list, index, h), h.listed PROVE FALSE
    <3>1. /\ h.limit <= e.size /\ h.limit \in Nat /\ h.i \in Nat /\ e.size \in Nat
          /\ \A j \in 1 .. h.i : <<h.data, e.cells[j]>> \notin PrefixOf
          /\ \E j \in 1 .. h.limit : <<h.data, e.cells[j]>> \in PrefixOf
      BY <1>1, <2>2, SeenEntry
    <3> HIDE DEF e
    <3>2. \A j \in 1 .. h.limit : j \in 1 .. h.i
      BY <1>4, <3>1
    <3> QED
      BY <3>1, <3>2
  <2> QED
    BY <2>1, <2>2 DEF Follows
<1> QED
  BY <1>1, <1>2, <1>3, <1>4 DEF lookup_size

LEMMA BaseFollows ==
  ASSUME Backed(list, index), hook \in [Hooks -> HookRecord],
         NEW k \in Hooks, NEW h, h = hook[k], NEW g \in HookRecord, g = hook'[k],
         h.disturbed \/ OnCourse(list, index, h), lookup_base(k)
  PROVE  Follows(h, g)
<1> DEFINE e == list[h.cur + 1]
<1>1. h \in HookRecord /\ h.pc = "base" /\ Seen(k) = e
  BY DEF lookup_base, Seen
<1>2. CASE Undefined(k) /\ e.freed
  <2>1. g = IdleHook \/ \E hit \in BOOLEAN : g = Answers(hit)
    BY <1>2, AnswerTyped DEF Undefined
  <2>2. h.disturbed
    BY <1>1, <1>2, SeenEntry
  <2> QED
    BY <2>1, <2>2 DEF Follows
<1>3. ASSUME NEW base \in {h.base, e.base} \ {NotLoaded},
             hook' = [hook EXCEPT ![k].pc = "cell", ![k].base = base]
      PROVE  Follows(h, g)
  <2>1. /\ g.pc = "cell" /\ g.limit = h.limit /\ g.cur = h.cur /\ g.i = h.i /\ g.base = base
        /\ g.uid = h.uid /\ g.data = h.data /\ g.listed = h.listed
        /\ g.disturbed = h.disturbed
    BY <1>1, <1>3 DEF HookRecord
  <2>2. ASSUME OnCourse(list, index, h) PROVE OnCourse(list, index, g)
    <3>1. /\ h.cur + 1 \in 1 .. index /\ e.uid = h.uid
          /\ h.i <= h.limit /\ h.limit <= e.size /\ h.i < h.limit
          /\ \A j \in 1 .. h.i : <<h.data, e.cells[j]>> \notin PrefixOf
          /\ h.listed => \E j \in 1 .. h.limit : <<h.data, e.cells[j]>> \in PrefixOf
          /\ h.base \in {NotLoaded, 0, e.live} /\ (h.base = 0 => e.base = 0)
          /\ e.base \in {0, e.live}
      BY <1>1, <2>2, SeenEntry
    <3> HIDE DEF e
    <3>2. e = list[g.cur + 1]
      BY <2>1 DEF e
    <3>6. g.cur + 1 <= index
      BY <2>1, <3>1 DEF HookRecord
    <3>7. /\ g.base \in {NotLoaded, 0, e.live} /\ (g.base = 0 => e.base = 0)
          /\ g.base # NotLoaded
      BY <1>3, <2>1, <3>1
    <3> QED
      BY <1>1, <2>1, <2>2, <3>1, <3>2, <3>6, <3>7, ReadsOn
  <2> QED
    BY <2>1, <2>2 DEF Follows, Active
<1> QED
  BY <1>1, <1>2, <1>3 DEF lookup_base

LEMMA CellFollows ==
  ASSUME Backed(list, index), hook \in [Hooks -> HookRecord],
         NEW k \in Hooks, NEW h, h = hook[k], NEW g \in HookRecord, g = hook'[k],
         h.disturbed \/ OnCourse(list, index, h), lookup_cell(k)
  PROVE  Follows(h, g)
<1> DEFINE e == list[h.cur + 1]
           j0 == h.i + 1
<1>1. h \in HookRecord /\ h.pc = "cell" /\ Seen(k) = e
  BY DEF lookup_cell, Seen
<1>2. IF h.base = 0 THEN Die(k)
      ELSE IF e.freed \/ h.base # e.live \/ h.data = Unfit \/ j0 \notin DOMAIN e.cells
             THEN Undefined(k)
      ELSE IF <<h.data, e.cells[j0]>> \in PrefixOf THEN Answer(k, TRUE)
      ELSE hook' = [hook EXCEPT ![k] = [h EXCEPT !.pc = "size", !.i = j0]]
  BY <1>1 DEF lookup_cell
<1>3. OnCourse(list, index, h) =>
        /\ h.cur + 1 \in 1 .. index /\ e \in StoredEntry
        /\ ~Stale(e) /\ e.freed = FALSE /\ e.base \in {0, e.live} /\ e.uid = h.uid
        /\ e.size <= Len(e.cells) /\ e.size \in Nat /\ e.live \in Nat
        /\ DOMAIN e.cells = 1 .. Len(e.cells) /\ Len(e.cells) \in Nat
        /\ h.i < h.limit /\ h.limit <= e.size /\ h.limit \in Nat /\ h.i \in Nat
        /\ \A j \in 1 .. h.i : <<h.data, e.cells[j]>> \notin PrefixOf
        /\ h.listed => \E j \in 1 .. h.limit : <<h.data, e.cells[j]>> \in PrefixOf
        /\ h.base \in {0, e.live} /\ (h.base = 0 => e.base = 0)
        /\ e.base = 0 => h.uid \in broken
        /\ h.data \in Data
  BY <1>1, SeenEntry DEF OnCourse
<1> HIDE DEF e
<1>4. OnCourse(list, index, h) => j0 \in 1 .. e.size /\ j0 \in DOMAIN e.cells
  BY <1>3
<1>5. CASE h.base = 0
  <2>1. g = IdleHook
    BY <1>2, <1>5, AnswerTyped
  <2>2. h.disturbed \/ h.uid \in broken
    BY <1>3, <1>5
  <2> QED
    BY <2>1, <2>2 DEF Follows
<1>6. CASE Undefined(k) /\ (e.freed \/ h.base # e.live \/ h.data = Unfit
                             \/ j0 \notin DOMAIN e.cells) /\ h.base # 0
  <2>1. g = IdleHook \/ \E hit \in BOOLEAN : g = Answers(hit)
    BY <1>6, AnswerTyped DEF Undefined
  <2>2. h.disturbed
    BY <1>3, <1>4, <1>6, UnfitAssumption
  <2> QED
    BY <2>1, <2>2 DEF Follows
<1>7. CASE Answer(k, TRUE) /\ <<h.data, e.cells[j0]>> \in PrefixOf
  <2>1. g = Answers(TRUE)
    BY <1>7, AnswerTyped
  <2>2. ASSUME OnCourse(list, index, h) PROVE Promise!Found(h.uid, h.data)
    <3>1. e.cells[j0] \in Data
      BY <1>7, WhitelistAssumption
    <3>2. <<h.uid, e.cells[j0]>> \in Shown(e)
      BY <1>3, <1>4, <2>2 DEF Shown
    <3>3. <<h.uid, e.cells[j0]>> \in allowed
      BY <1>3, <2>2, <3>2, PromiseOf, PromiseMembers DEF e
    <3> QED
      BY <1>7, <3>1, <3>3 DEF Promise!Found
  <2> QED
    BY <2>1, <2>2 DEF Follows
<1>8. CASE /\ hook' = [hook EXCEPT ![k] = [h EXCEPT !.pc = "size", !.i = j0]]
           /\ <<h.data, e.cells[j0]>> \notin PrefixOf
  <2>1. /\ g.pc = "size" /\ g.limit = h.limit /\ g.cur = h.cur /\ g.i = j0 /\ g.base = h.base
        /\ g.uid = h.uid /\ g.data = h.data /\ g.listed = h.listed
        /\ g.disturbed = h.disturbed
    BY <1>1, <1>8 DEF HookRecord
  <2>2. ASSUME OnCourse(list, index, h) PROVE OnCourse(list, index, g)
    <3>2. e = list[g.cur + 1]
      BY <2>1 DEF e
    <3>6. g.cur + 1 <= index /\ g.i <= g.limit
      BY <1>3, <2>1, <2>2 DEF HookRecord
    <3>7. \A j \in 1 .. g.i : <<h.data, e.cells[j]>> \notin PrefixOf
      <4>1. \A j \in 1 .. g.i : j \in 1 .. h.i \/ j = j0
        BY <1>3, <2>1, <2>2
      <4> QED
        BY <1>3, <1>8, <2>2, <4>1
    <3> QED
      BY <1>1, <1>3, <2>1, <2>2, <3>2, <3>6, <3>7, ReadsOn
  <2> QED
    BY <2>1, <2>2 DEF Follows, Active
<1> QED
  BY <1>2, <1>5, <1>6, <1>7, <1>8

-----------------------------------------------------------------------------
(* The handler beside the searches. *)

PromiseVars == <<allowed, broken, moving, search>>

\* A step of the promise, or none.
Promised == Promise!Next \/ UNCHANGED PromiseVars

LEMMA SearchesGrow ==
  ASSUME Searches, hook \in [Hooks -> HookRecord], UNCHANGED <<call, module, loads>>,
         Backed(list, index), Backed(list', index'), index <= index',
         \A i \in 1 .. index : /\ list'[i].uid = list[i].uid /\ list[i].size <= list'[i].size
                               /\ \A j \in 1 .. list[i].size : list'[i].cells[j] = list[i].cells[j],
         \A i \in 1 .. index' : i \notin 1 .. index => ~Stale(list'[i]),
         \A k \in Hooks :
           \/ /\ hook'[k] = hook[k]
              /\ \A i \in 1 .. index : list[i].uid = hook[k].uid =>
                   /\ list'[i].live = list[i].live /\ (list[i].base = 0 => list'[i].base = 0)
                   /\ Stale(list'[i]) => Stale(list[i])
           \/ hook'[k].pc = hook[k].pc /\ hook'[k].disturbed
           \/ hook'[k] = hook[k] /\ ~Searching(k)
  PROVE  Searches'
<1>1. ASSUME NEW k \in Hooks, Searching(k)'
      PROVE  /\ call'[k].pc = "lookup"
             /\ hook'[k].disturbed \/ (Text(call[k].load)' /\ OnCourse(list', index', hook'[k]))
  <2>1. Searching(k) /\ call'[k] = call[k] /\ (Text(call[k].load)' <=> Text(call[k].load))
    BY <1>1 DEF Searching, Text
  <2>2. /\ call[k].pc = "lookup"
        /\ hook[k].disturbed \/ (Text(call[k].load) /\ OnCourse(list, index, hook[k]))
    BY <2>1 DEF Searches
  <2>3. CASE hook'[k].disturbed
    BY <2>1, <2>2, <2>3
  <2>4. CASE ~hook'[k].disturbed
    <3>1. /\ hook'[k] = hook[k]
          /\ \A i \in 1 .. index : list[i].uid = hook[k].uid =>
               /\ list'[i].live = list[i].live /\ (list[i].base = 0 => list'[i].base = 0)
               /\ Stale(list'[i]) => Stale(list[i])
      BY <2>1, <2>4
    <3>2. OnCourse(list, index, hook[k]) /\ Text(call[k].load) /\ hook[k] \in HookRecord
      BY <2>2, <2>4, <3>1
    <3>3. \A i \in 1 .. index' : list'[i].uid = hook[k].uid => ~Stale(list'[i])
      <4>1. \A i \in 1 .. index : list[i].uid = hook[k].uid => ~Stale(list[i])
        BY <3>2 DEF OnCourse
      <4> QED
        BY <3>1, <4>1
    <3>4. OnCourse(list', index', hook[k])
      BY <3>1, <3>2, <3>3, CourseKept
    <3> QED
      BY <2>1, <2>2, <3>1, <3>2, <3>4
  <2> QED
    BY <2>3, <2>4
<1> QED
  BY <1>1 DEF Searches

\* A step that leaves the list and the searches alone.
LEMMA NothingSeen ==
  ASSUME Lists, Lists', Searches, hook \in [Hooks -> HookRecord],
         UNCHANGED <<list, index, hook, call, module, loads>>
  PROVE  Searches' /\ UNCHANGED PromiseVars
<1>1. Backed(list, index) /\ Backed(list', index')
  BY ListBacked
<1>2. index <= index' /\ index \in Nat
  BY <1>1 DEF Backed
<1>3. \A i \in 1 .. index : list[i].size <= list'[i].size
  <2> TAKE i \in 1 .. index
  <2>1. i \in DOMAIN list /\ list \in Seq(StoredEntry)
    BY <1>1, <1>2 DEF Backed
  <2>2. list[i] \in StoredEntry
    BY <2>1
  <2> QED
    BY <2>2 DEF StoredEntry
<1>4. Searches'
  BY <1>1, <1>2, <1>3, SearchesGrow
<1>5. UNCHANGED PromiseVars
  BY DEF PromiseVars, allowed, broken, moving, search, Held
<1> QED
  BY <1>4, <1>5

\* Entry n is written: a search may be disturbed by it, or it sees a list that
\* only grows.
Written(n, o, e) ==
  /\ n \in 1 .. index /\ o = list[n] /\ list' = [list EXCEPT ![n] = e] /\ index' = index
  /\ e.uid = o.uid /\ o.size <= e.size /\ \A j \in 1 .. o.size : e.cells[j] = o.cells[j]
  /\ \/ /\ hook' = hook /\ e.live = o.live /\ (o.base = 0 => e.base = 0)
        /\ Stale(e) => Stale(o)
     \/ Disturb(o.uid)

LEMMA EntrySeen ==
  ASSUME Lists, Lists', Entries, Searches, hook \in [Hooks -> HookRecord],
         UNCHANGED <<call, module, loads>>, NEW n, NEW o, NEW e, Written(n, o, e)
  PROVE  /\ Searches'
         /\ \A new : Shown(e) = Shown(o) \cup new => allowed' = allowed \cup new
         /\ Shown(e) = {} => allowed' = {p \in allowed : p[1] # o.uid}
         /\ broken' = IF Broken(e) THEN broken \cup {o.uid} ELSE broken \ {o.uid}
         /\ moving' = IF Stale(e) THEN moving \cup {o.uid} ELSE moving \ {o.uid}
         /\ (Broken(e) <=> Broken(o)) => broken' = broken
         /\ (Stale(e) <=> Stale(o)) => moving' = moving
<1> USE DEF Written
<1>1. Backed(list, index) /\ Backed(list', index') /\ index' = index
  BY ListBacked
<1>2. index <= index' /\ index \in Nat /\ list \in Seq(StoredEntry) /\ index <= Len(list)
      /\ n \in DOMAIN list
  BY <1>1 DEF Backed
<1>3. \A i \in 1 .. index : list'[i] = IF i = n THEN e ELSE list[i]
  BY <1>2
<1>4. \A i \in 1 .. index : list[i].size \in Nat
  <2> TAKE i \in 1 .. index
  <2>1. list[i] \in StoredEntry
    BY <1>2
  <2> QED
    BY <2>1 DEF StoredEntry
<1>5. \A i \in 1 .. index : i # n => list[i].uid # o.uid
  BY DEF Entries
<1>6. Searches'
  <2>1. \A i \in 1 .. index : /\ list'[i].uid = list[i].uid /\ list[i].size <= list'[i].size
                              /\ \A j \in 1 .. list[i].size : list'[i].cells[j] = list[i].cells[j]
    BY <1>3, <1>4
  <2>2. CASE Disturb(o.uid)
    <3>1. ASSUME NEW k \in Hooks
          PROVE  \/ /\ hook'[k] = hook[k]
                    /\ \A i \in 1 .. index : list[i].uid = hook[k].uid => list'[i] = list[i]
                 \/ hook'[k].pc = hook[k].pc /\ hook'[k].disturbed
                 \/ hook'[k] = hook[k] /\ ~Searching(k)
      <4>1. hook[k] \in HookRecord
        OBVIOUS
      <4>2. CASE Searching(k) /\ hook[k].uid = o.uid
        BY <2>2, <4>1, <4>2 DEF Disturb, HookRecord
      <4>3. CASE ~(Searching(k) /\ hook[k].uid = o.uid)
        BY <1>3, <2>2, <4>3 DEF Disturb
      <4> QED
        BY <4>2, <4>3
    <3> QED
      BY <1>1, <1>2, <2>1, <3>1, SearchesGrow
  <2>3. CASE /\ hook' = hook /\ e.live = o.live /\ (o.base = 0 => e.base = 0)
             /\ Stale(e) => Stale(o)
    <3>1. \A i \in 1 .. index :
            /\ list'[i].live = list[i].live /\ (list[i].base = 0 => list'[i].base = 0)
            /\ Stale(list'[i]) => Stale(list[i])
      BY <1>3, <2>3
    <3> QED
      BY <1>1, <1>2, <2>1, <2>3, <3>1, SearchesGrow
  <2> QED
    BY <2>2, <2>3
<1>7. /\ \A new : Shown(e) = Shown(o) \cup new => allowed' = allowed \cup new
      /\ Shown(e) = {} => allowed' = {p \in allowed : p[1] # o.uid}
      /\ broken' = IF Broken(e) THEN broken \cup {o.uid} ELSE broken \ {o.uid}
      /\ moving' = IF Stale(e) THEN moving \cup {o.uid} ELSE moving \ {o.uid}
  <2>1. /\ list'[n] = e /\ \A i \in 1 .. index : i # n => list'[i] = list[i]
        /\ Backed(list', index) /\ list'[n].uid = list[n].uid
        /\ \A i \in 1 .. index : list[i].uid = list[n].uid => i = n
    BY <1>1, <1>3, <1>5
  <2>2. /\ \A new : Shown(list'[n]) = Shown(list[n]) \cup new
                     => AllowedOf(list', index) = AllowedOf(list, index) \cup new
        /\ Shown(list'[n]) = {}
             => AllowedOf(list', index) = {p \in AllowedOf(list, index) : p[1] # list[n].uid}
        /\ BrokenOf(list', index) = IF Broken(list'[n])
                                      THEN BrokenOf(list, index) \cup {list[n].uid}
                                      ELSE BrokenOf(list, index) \ {list[n].uid}
        /\ MovingOf(list', index) = IF Stale(list'[n])
                                      THEN MovingOf(list, index) \cup {list[n].uid}
                                      ELSE MovingOf(list, index) \ {list[n].uid}
    <3> DEFINE l2 == list'
    <3>1. /\ Backed(list, index) /\ Backed(l2, index) /\ l2[n].uid = list[n].uid
          /\ \A i \in 1 .. index : i # n => l2[i] = list[i]
          /\ \A i \in 1 .. index : list[i].uid = list[n].uid => i = n
      BY <1>1, <2>1
    <3> HIDE DEF l2
    <3>2. /\ \A p : p \in AllowedOf(l2, index) <=>
                  p \in Shown(l2[n]) \/ (p \in AllowedOf(list, index) /\ p \notin Shown(list[n]))
          /\ \A p \in AllowedOf(list, index) : p[1] = list[n].uid <=> p \in Shown(list[n])
          /\ \A p \in Shown(list[n]) : p \in AllowedOf(list, index)
      BY <3>1, PromiseWritten
    <3>3. /\ BrokenOf(l2, index) = IF Broken(l2[n])
                                      THEN BrokenOf(list, index) \cup {list[n].uid}
                                      ELSE BrokenOf(list, index) \ {list[n].uid}
          /\ MovingOf(l2, index) = IF Stale(l2[n])
                                      THEN MovingOf(list, index) \cup {list[n].uid}
                                      ELSE MovingOf(list, index) \ {list[n].uid}
      BY <3>1, PromiseWritten
    <3>4. ASSUME NEW new, Shown(l2[n]) = Shown(list[n]) \cup new
          PROVE  AllowedOf(l2, index) = AllowedOf(list, index) \cup new
      BY <3>2, <3>4
    <3>5. ASSUME Shown(l2[n]) = {}
          PROVE  AllowedOf(l2, index) = {p \in AllowedOf(list, index) : p[1] # list[n].uid}
      BY <3>2, <3>5
    <3> QED
      BY <3>3, <3>4, <3>5 DEF l2
  <2>3. /\ allowed = AllowedOf(list, index) /\ allowed' = AllowedOf(list', index)
        /\ broken = BrokenOf(list, index) /\ broken' = BrokenOf(list', index)
        /\ moving = MovingOf(list, index) /\ moving' = MovingOf(list', index)
    BY PromiseOf
  <2> QED
    BY <2>1, <2>2, <2>3
<1>8. /\ o.uid \in broken <=> Broken(o)
      /\ o.uid \in moving <=> Stale(o)
  <2>1. /\ o.uid \in broken <=> \E i \in 1 .. index : Broken(list[i]) /\ list[i].uid = o.uid
        /\ o.uid \in moving <=> \E i \in 1 .. index : Stale(list[i]) /\ list[i].uid = o.uid
    BY <1>1, PromiseOf, PromiseMembers
  <2> QED
    BY <1>5, <2>1
<1>9. /\ (Broken(e) <=> Broken(o)) => broken' = broken
      /\ (Stale(e) <=> Stale(o)) => moving' = moving
  BY <1>7, <1>8
<1> QED
  BY <1>6, <1>7, <1>9

LEMMA NoneFreed ==
  ASSUME Inv, Entries, handler.pc # "idle", NEW i \in DOMAIN list
  PROVE  ~list[i].freed
BY DEF Inv, Phases, Sockets, HandlerActive, Entries, Unloading, Loading

\* The handler does not touch the storage of an Array.
LEMMA EntriesKept ==
  ASSUME Entries, UNCHANGED <<list, index, step, at>>,
         handler.pc # "storage", handler'.pc # "storage"
  PROVE  Entries'
BY DEF Entries

LEMMA EntriesWritten ==
  ASSUME Entries, list \in Seq(StoredEntry), UNCHANGED <<index, step, at>>, index \in Nat,
         NEW n \in 1 .. index, n = handler.cur + 1, handler'.cur = handler.cur,
         n \in DOMAIN list, NEW e, list' = [list EXCEPT ![n] = e],
         e.uid = list[n].uid, e.freed = list[n].freed,
         e.base \in {0, e.live} \/ handler'.pc = "storage",
         handler'.pc = "storage" =>
           /\ e.base # 0 /\ handler'.reg \in {0, e.live}
           /\ handler'.reg = 0 => e.base = e.live
  PROVE  Entries'
<1>1. DOMAIN list' = DOMAIN list /\ \A i \in DOMAIN list : list'[i] = IF i = n THEN e ELSE list[i]
  OBVIOUS
<1>2. \A i \in 1 .. index : list'[i].uid = list[i].uid
  BY <1>1
<1>3. ASSUME NEW i \in DOMAIN list'
      PROVE  /\ list'[i].freed => (step' = "dispose" /\ i < at') \/ step' = "release"
             /\ list'[i].base \in {0, list'[i].live}
                  \/ (handler'.pc = "storage" /\ i = handler'.cur + 1)
  <2>1. CASE i = n
    BY <1>1, <2>1 DEF Entries
  <2>2. CASE i # n
    BY <1>1, <2>2 DEF Entries
  <2> QED
    BY <2>1, <2>2
<1>4. Mine' = e
  BY <1>1 DEF Mine
<1> QED
  BY <1>2, <1>3, <1>4 DEF Entries

\* What the handler may do to the promise.
Beside == Entries' /\ Searches' /\ Promised

LEMMA QuietBeside ==
  ASSUME ListInv, ListInv', Entries, Searches, hook \in [Hooks -> HookRecord], UNCHANGED cyclevars,
         UNCHANGED <<list, index, hook>>, handler.pc # "storage", handler'.pc # "storage"
  PROVE  Beside
<1>1. Entries'
  BY EntriesKept DEF cyclevars
<1>2. Searches' /\ UNCHANGED PromiseVars
  BY NothingSeen DEF ListInv, cyclevars
<1> QED
  BY <1>1, <1>2 DEF Beside, Promised

LEMMA CheckBeside ==
  ASSUME ListInv, ListInv', Entries, Searches, hook \in [Hooks -> HookRecord], UNCHANGED cyclevars,
         push_check
  PROVE  Beside
<1> DEFINE n == handler.cur + 1
           e == [Mine EXCEPT !.capacity = 2 * @]
<1>1. handler.pc = "push" /\ index' = index /\ hook' = hook
  BY DEF push_check
<1>2. /\ handler \in HandlerRecord /\ n \in 1 .. index /\ n \in DOMAIN list /\ Mine = list[n]
      /\ Mine \in StoredEntry
  BY <1>1, MyEntry
<1>3. CASE list' = list /\ handler' = [handler EXCEPT !.pc = "cell"]
  BY <1>1, <1>2, <1>3, QuietBeside DEF HandlerRecord
<1>4. CASE list' = [list EXCEPT ![n] = e] /\ handler' = [handler EXCEPT !.pc = "realloc"]
  <2>1. /\ e.uid = Mine.uid /\ e.freed = Mine.freed /\ e.base = Mine.base /\ e.live = Mine.live
        /\ e.size = Mine.size /\ e.cells = Mine.cells /\ Mine.size \in Nat
    BY <1>2 DEF StoredEntry
  <2>2. handler'.cur = handler.cur /\ handler'.pc = "realloc"
    BY <1>2, <1>4 DEF HandlerRecord
  <2> HIDE DEF e
  <2>3. Shown(e) = Shown(Mine) /\ (Broken(e) <=> Broken(Mine)) /\ (Stale(e) <=> Stale(Mine))
    BY <2>1 DEF Shown, Broken, Stale
  <2>4. Mine.base \in {0, Mine.live}
    BY <1>1, <1>2 DEF Entries
  <2>6. /\ UNCHANGED <<call, module, loads, step, at>> /\ Lists /\ Lists' /\ Mine.size <= e.size
        /\ list \in Seq(StoredEntry) /\ index \in Nat
    BY <2>1, UidTableAssumption DEF cyclevars, ListInv, Lists
  <2> HIDE DEF n
  <2>9. list' = [list EXCEPT ![n] = e] /\ handler'.pc # "storage"
    BY <1>4, <2>2
  <2>10. n = handler.cur + 1
    BY DEF n
  <2>5. Entries'
    BY <1>1, <1>2, <2>1, <2>2, <2>4, <2>6, <2>9, <2>10, EntriesWritten
  <2>7. /\ Searches' /\ broken' = broken /\ moving' = moving
        /\ Shown(e) = Shown(Mine) \cup {} => allowed' = allowed \cup {}
    <3>1. Written(n, Mine, e)
      BY <1>1, <1>2, <2>1, <2>3, <2>6, <2>9 DEF Written
    <3> QED
      BY <2>3, <2>6, <3>1, EntrySeen
  <2>8. UNCHANGED PromiseVars
    BY <1>1, <2>3, <2>7 DEF PromiseVars, search
  <2> QED
    BY <2>5, <2>7, <2>8 DEF Beside, Promised
<1> QED
  BY <1>3, <1>4, <1>2 DEF push_check

LEMMA ReallocBeside ==
  ASSUME ListInv, ListInv', Entries, Searches, hook \in [Hooks -> HookRecord], UNCHANGED cyclevars,
         push_realloc
  PROVE  Beside
<1> DEFINE n == handler.cur + 1
           w == handler.before
<1>1. handler.pc = "realloc" /\ index' = index
  BY DEF push_realloc
<1>2. /\ handler \in HandlerRecord /\ n \in 1 .. index /\ n \in DOMAIN list /\ Mine = list[n]
      /\ Mine \in StoredEntry /\ Value[n] = View(Mine) /\ n \in DOMAIN w /\ w \in Seq(Entry)
      /\ w[n].uid = handler.uid /\ SoundEntry(Mine)
  BY <1>1, MyEntry
<1>3. /\ Mine.live \in Nat /\ Mine.size \in Nat /\ Mine.base \in Nat /\ Mine.uid = handler.uid
      /\ Mine.base = Mine.live /\ Mine.base # 0
  <2>1. Value = Doubled(w, n) /\ WasFull(w[n])
    BY <1>1 DEF ListInv, Work
  <2>2. Value[n] = Made(w[n].uid, w[n].array, 2 * w[n].capacity, w[n].lost)
    BY <1>2, <2>1 DEF Doubled
  <2>3. (w[n].lost <=> Mine.base = 0) /\ w[n].uid = Mine.uid
    <3>1. Value[n].uid = w[n].uid /\ Value[n].lost = w[n].lost
      BY <2>2 DEF Made
    <3>2. Value[n].uid = Mine.uid /\ (Value[n].lost <=> Mine.base = 0)
      <4> DEFINE v == Value[n]
      <4>1. v = View(Mine) /\ Mine \in StoredEntry
        BY <1>2
      <4> HIDE DEF v
      <4>2. v.uid = Mine.uid /\ (v.lost <=> Mine.base = 0)
        BY <4>1, ShownAs
      <4> QED
        BY <4>2 DEF v
    <3> QED
      BY <3>1, <3>2
  <2>4. Mine.base # 0 /\ Mine.uid = handler.uid
    BY <1>2, <2>1, <2>3 DEF WasFull
  <2>5. Mine.base \in {0, Mine.live}
    BY <1>1, <1>2 DEF Entries
  <2>6. Mine.live \in Nat /\ Mine.size \in Nat /\ Mine.base \in Nat
    BY <1>2 DEF StoredEntry
  <2> QED
    BY <2>4, <2>5, <2>6
<1>4. UNCHANGED <<call, module, loads, step, at>> /\ Lists /\ Lists' /\ list \in Seq(StoredEntry)
      /\ index \in Nat
  BY UidTableAssumption DEF cyclevars, ListInv, Lists
<1>5. ASSUME NEW reg \in {0, Mine.live}, list' = list, hook' = hook,
             handler'.pc = "storage", handler'.reg = reg, handler'.cur = handler.cur
      PROVE  Beside
  <2>1. list' = [list EXCEPT ![n] = Mine]
    BY <1>2, <1>4, <1>5
  <2>2. Entries'
    BY <1>1, <1>2, <1>3, <1>4, <1>5, <2>1, EntriesWritten
  <2>3. Searches' /\ UNCHANGED PromiseVars
    BY <1>1, <1>4, <1>5, NothingSeen
  <2> QED
    BY <2>2, <2>3 DEF Beside, Promised
<1>6. CASE /\ handler' = [handler EXCEPT !.pc = "storage", !.reg = Mine.live]
           /\ UNCHANGED <<list, hook>>
  <2>1. handler'.pc = "storage" /\ handler'.reg = Mine.live /\ handler'.cur = handler.cur
    BY <1>2, <1>6 DEF HandlerRecord
  <2> QED
    BY <1>5, <1>6, <2>1
<1>7. CASE /\ handler' = [handler EXCEPT !.pc = "storage", !.reg = 0, !.refused = {"array"}]
           /\ UNCHANGED <<list, hook>>
  <2>1. handler'.pc = "storage" /\ handler'.reg = 0 /\ handler'.cur = handler.cur
    BY <1>2, <1>7 DEF HandlerRecord
  <2> QED
    BY <1>5, <1>7, <2>1
<1>8. CASE /\ list' = [list EXCEPT ![n].live = @ + 1]
           /\ handler' = [handler EXCEPT !.pc = "storage", !.reg = Mine.live + 1]
           /\ Disturb(handler.uid)
  <2> DEFINE m == Mine.live + 1
             e == [Mine EXCEPT !.live = m]
  <2>1. list' = [list EXCEPT ![n] = e]
    BY <1>2, <1>8
  <2>2. /\ e.uid = Mine.uid /\ e.freed = Mine.freed /\ e.base = Mine.base /\ e.live = m
        /\ e.size = Mine.size /\ e.cells = Mine.cells
    BY <1>2 DEF StoredEntry
  <2>3. handler'.cur = handler.cur /\ handler'.pc = "storage" /\ handler'.reg = m
    BY <1>2, <1>8 DEF HandlerRecord
  <2>4. m # 0 /\ e.base # m
    BY <1>3, <2>2
  <2> HIDE DEF e, m
  <2>5. Shown(e) = Shown(Mine) /\ (Broken(e) <=> Broken(Mine)) /\ Stale(e)
    BY <1>3, <2>2, <2>4 DEF Shown, Broken, Stale
  <2>6. Entries'
    BY <1>1, <1>2, <1>3, <1>4, <2>1, <2>2, <2>3, <2>4, EntriesWritten
  <2>7. Mine.size <= e.size
    BY <1>3, <2>2
  <2>8. /\ Searches' /\ broken' = broken /\ moving' = moving \cup {Mine.uid}
        /\ Shown(e) = Shown(Mine) \cup {} => allowed' = allowed \cup {}
    <3>1. Written(n, Mine, e)
      BY <1>1, <1>2, <1>3, <1>8, <2>1, <2>2, <2>7 DEF Written
    <3> QED
      BY <1>4, <2>5, <3>1, EntrySeen
  <2>9. Promise!GiveBack(handler.uid)
    <3>1. hook' = [k \in Hooks |-> IF Searching(k) /\ hook[k].uid \in {handler.uid}
                                     THEN [hook[k] EXCEPT !.disturbed = TRUE] ELSE hook[k]]
      BY <1>8 DEF Disturb
    <3>2. Promise!Disturb({handler.uid})
      BY <3>1, SearchDisturbed
    <3> QED
      BY <1>3, <2>5, <2>8, <3>2 DEF Promise!GiveBack
  <2>10. Promise!Next
    BY <1>2, <2>9 DEF Promise!Next, HandlerRecord
  <2> QED
    BY <2>6, <2>8, <2>10 DEF Beside, Promised
<1> QED
  BY <1>6, <1>7, <1>8 DEF push_realloc

\* The handler writes its entry, and gives nothing back.
LEMMA MineBeside ==
  ASSUME ListInv, ListInv', Entries, Searches, hook \in [Hooks -> HookRecord], UNCHANGED cyclevars,
         handler.pc \in {"push", "realloc", "storage", "cell", "size"}, handler'.cur = handler.cur,
         handler'.pc # "storage", hook' = hook,
         NEW e, Written(handler.cur + 1, Mine, e), e.freed = Mine.freed, e.base \in {0, e.live}
  PROVE  /\ Entries' /\ Searches' /\ search' = search
         /\ \A new : Shown(e) = Shown(Mine) \cup new => allowed' = allowed \cup new
         /\ broken' = IF Broken(e) THEN broken \cup {handler.uid} ELSE broken \ {handler.uid}
         /\ moving' = IF Stale(e) THEN moving \cup {handler.uid} ELSE moving \ {handler.uid}
         /\ (Broken(e) <=> Broken(Mine)) => broken' = broken
         /\ (Stale(e) <=> Stale(Mine)) => moving' = moving
<1> DEFINE n == handler.cur + 1
<1>1. /\ n \in 1 .. index /\ n \in DOMAIN list /\ Mine = list[n] /\ Mine.uid = handler.uid
  <2>1. /\ n \in 1 .. index /\ n \in DOMAIN list /\ Mine = list[n] /\ Mine \in StoredEntry
        /\ Value[n] = View(Mine) /\ Value \in Seq(Entry)
    BY MyEntry
  <2>2. handler.before[n].uid = handler.uid
    BY MyEntry
  <2>3. Value[n].uid = handler.before[n].uid
    <3>1. \/ Value = handler.before
          \/ Value = Doubled(handler.before, n) /\ n \in DOMAIN handler.before
      BY MyEntry DEF ListInv, Work
    <3> QED
      BY <3>1 DEF Doubled, Made
  <2>4. Value[n].uid = Mine.uid
    BY <2>1, ShownAs
  <2> QED
    BY <2>1, <2>2, <2>3, <2>4
<1>2. /\ UNCHANGED <<call, module, loads, step, at>> /\ Lists /\ Lists'
      /\ list \in Seq(StoredEntry) /\ index \in Nat
  BY UidTableAssumption DEF cyclevars, ListInv, Lists
<1>3. /\ e.uid = list[n].uid /\ e.freed = list[n].freed /\ list' = [list EXCEPT ![n] = e]
      /\ index' = index /\ n = handler.cur + 1
  BY <1>1 DEF Written
<1>4. Written(n, Mine, e)
  OBVIOUS
<1> HIDE DEF n
<1>5. Entries'
  BY <1>1, <1>2, <1>3, EntriesWritten
<1>6. search' = search
  BY DEF search
<1>7. /\ Searches'
      /\ \A new : Shown(e) = Shown(Mine) \cup new => allowed' = allowed \cup new
  BY <1>2, <1>4, EntrySeen
<1>8. /\ broken' = IF Broken(e) THEN broken \cup {handler.uid} ELSE broken \ {handler.uid}
      /\ moving' = IF Stale(e) THEN moving \cup {handler.uid} ELSE moving \ {handler.uid}
      /\ (Broken(e) <=> Broken(Mine)) => broken' = broken
      /\ (Stale(e) <=> Stale(Mine)) => moving' = moving
  BY <1>1, <1>2, <1>4, EntrySeen
<1> QED
  BY <1>5, <1>6, <1>7, <1>8

LEMMA StorageBeside ==
  ASSUME Inv, ListInv, ListInv', Entries, Searches, hook \in [Hooks -> HookRecord],
         UNCHANGED cyclevars, push_storage
  PROVE  Beside
<1> DEFINE n == handler.cur + 1
           e == [Mine EXCEPT !.base = handler.reg]
<1>1. handler.pc = "storage" /\ index' = index /\ hook' = hook
  BY DEF push_storage
<1>2. /\ handler \in HandlerRecord /\ n \in 1 .. index /\ n \in DOMAIN list /\ Mine = list[n]
      /\ Mine \in StoredEntry /\ SoundEntry(Mine)
  BY <1>1, MyEntry
<1>3. /\ Mine.base # 0 /\ handler.reg \in {0, Mine.live} /\ Mine.live # 0
      /\ handler.reg = 0 => Mine.base = Mine.live
  BY <1>1, <1>2 DEF Entries, SoundEntry
<1>4. ~Mine.freed /\ Mine.size \in Nat
  BY <1>1, <1>2, NoneFreed DEF StoredEntry
<1>5. /\ handler'.cur = handler.cur /\ handler'.pc # "storage" /\ handler.uid \in Uid
  BY <1>1, <1>2 DEF push_storage, HandlerRecord
<1>6. /\ e.uid = Mine.uid /\ e.freed = Mine.freed /\ e.base = handler.reg /\ e.live = Mine.live
      /\ e.size = Mine.size /\ e.cells = Mine.cells
  BY <1>2 DEF StoredEntry
<1>7. list' = [list EXCEPT ![n] = e]
  BY <1>2 DEF push_storage
<1> HIDE DEF e
<1>8. /\ ~Stale(e) /\ e.base \in {0, e.live} /\ e.freed = Mine.freed
      /\ (Broken(e) <=> handler.reg = 0) /\ ~Broken(Mine)
      /\ handler.reg = 0 => ~Stale(Mine)
      /\ Shown(e) = Shown(Mine) \cup {}
  BY <1>3, <1>4, <1>6 DEF Stale, Broken, Shown
<1>9. Mine.size <= e.size
  BY <1>4, <1>6
<1>10. Written(n, Mine, e)
  BY <1>1, <1>2, <1>3, <1>6, <1>7, <1>8, <1>9 DEF Written
<1>11. /\ Entries' /\ Searches' /\ search' = search /\ allowed' = allowed
       /\ broken' = IF Broken(e) THEN broken \cup {handler.uid} ELSE broken \ {handler.uid}
       /\ moving' = IF Stale(e) THEN moving \cup {handler.uid} ELSE moving \ {handler.uid}
       /\ (Broken(e) <=> Broken(Mine)) => broken' = broken
       /\ (Stale(e) <=> Stale(Mine)) => moving' = moving
  <2>1. /\ Entries' /\ Searches' /\ search' = search
        /\ \A new : Shown(e) = Shown(Mine) \cup new => allowed' = allowed \cup new
        /\ broken' = IF Broken(e) THEN broken \cup {handler.uid} ELSE broken \ {handler.uid}
        /\ moving' = IF Stale(e) THEN moving \cup {handler.uid} ELSE moving \ {handler.uid}
        /\ (Broken(e) <=> Broken(Mine)) => broken' = broken
        /\ (Stale(e) <=> Stale(Mine)) => moving' = moving
    BY <1>1, <1>5, <1>8, <1>10, MineBeside
  <2>2. allowed' = allowed \cup {}
    BY <1>8, <2>1
  <2> QED
    BY <2>1, <2>2
<1>12. Promise!Break(handler.uid) \/ Promise!Settle(handler.uid)
  BY <1>8, <1>11 DEF Promise!Break, Promise!Settle
<1>13. Promise!Next
  BY <1>5, <1>12 DEF Promise!Next
<1> QED
  BY <1>11, <1>13 DEF Beside, Promised

LEMMA CellBeside ==
  ASSUME Inv, ListInv, ListInv', Entries, Searches, hook \in [Hooks -> HookRecord],
         UNCHANGED cyclevars, push_cell
  PROVE  Beside
<1> DEFINE n == handler.cur + 1
           cells == Append(Mine.cells, handler.data)
           e == [Mine EXCEPT !.cells = cells]
<1>1. handler.pc = "cell" /\ index' = index /\ hook' = hook
  BY DEF push_cell
<1>2. /\ handler \in HandlerRecord /\ n \in 1 .. index /\ n \in DOMAIN list /\ Mine = list[n]
      /\ Mine \in StoredEntry /\ Len(Mine.cells) = Mine.size /\ handler.data \in Data
  BY <1>1, MyEntry
<1>3. Mine.base \in {0, Mine.live}
  BY <1>1, <1>2 DEF Entries
<1>4. Mine.size \in Nat /\ Mine.cells \in Seq(Data)
  BY <1>2 DEF StoredEntry
<1>5. CASE Mine.base = 0
  <2>1. UNCHANGED <<list, index, hook>> /\ handler'.pc # "storage"
    BY <1>1, <1>2, <1>5 DEF push_cell, HandlerRecord
  <2> QED
    BY <1>1, <2>1, QuietBeside
<1>6. CASE Mine.base # 0
  <2>1. handler'.cur = handler.cur /\ handler'.pc # "storage"
    BY <1>1, <1>2, <1>6 DEF push_cell, HandlerRecord
  <2>2. /\ e.uid = Mine.uid /\ e.freed = Mine.freed /\ e.base = Mine.base /\ e.live = Mine.live
        /\ e.size = Mine.size /\ e.cells = cells
    BY <1>2 DEF StoredEntry
  <2>3. list' = [list EXCEPT ![n] = e]
    BY <1>2, <1>6 DEF push_cell
  <2>4. \A j \in 1 .. Mine.size : cells[j] = Mine.cells[j]
    BY <1>2, <1>4
  <2> HIDE DEF e, cells
  <2>5. /\ (Stale(e) <=> Stale(Mine)) /\ (Broken(e) <=> Broken(Mine))
    BY <2>2 DEF Stale, Broken
  <2>6. Shown(e) = Shown(Mine)
    BY <2>2, <2>4 DEF Shown
  <2>7. Mine.size <= e.size /\ e.base \in {0, e.live}
    BY <1>3, <1>4, <2>2
  <2>8. Written(n, Mine, e)
    BY <1>1, <1>2, <2>2, <2>3, <2>4, <2>5, <2>7 DEF Written
  <2>9. /\ Entries' /\ Searches' /\ search' = search /\ broken' = broken /\ moving' = moving
        /\ \A new : Shown(e) = Shown(Mine) \cup new => allowed' = allowed \cup new
    BY <1>1, <2>1, <2>2, <2>5, <2>7, <2>8, MineBeside
  <2>10. allowed' = allowed \cup {}
    <3>1. Shown(e) = Shown(Mine) \cup {}
      BY <2>6
    <3> QED
      BY <2>9, <3>1
  <2> QED
    BY <2>9, <2>10 DEF Beside, Promised, PromiseVars
<1> QED
  BY <1>5, <1>6

LEMMA SizeBeside ==
  ASSUME Inv, ListInv, ListInv', Entries, Searches, hook \in [Hooks -> HookRecord],
         UNCHANGED cyclevars, push_size
  PROVE  Beside
<1> DEFINE n == handler.cur + 1
           m == Mine.size + 1
           e == [Mine EXCEPT !.size = m]
           new == {<<handler.uid, handler.data>>}
<1>1. handler.pc = "size" /\ index' = index /\ hook' = hook
  BY DEF push_size
<1>2. /\ handler \in HandlerRecord /\ n \in 1 .. index /\ n \in DOMAIN list /\ Mine = list[n]
      /\ Mine \in StoredEntry /\ Len(Mine.cells) = Mine.size + 1 /\ handler.data \in Data
      /\ handler.before[n] \in Entry /\ handler.before[n].uid = handler.uid
      /\ handler.before \in Seq(Entry) /\ n \in DOMAIN handler.before
      /\ Value[n] = View(Mine)
  BY <1>1, MyEntry
<1>3. Mine.base \in {0, Mine.live} /\ ~Mine.freed
  BY <1>1, <1>2, NoneFreed DEF Entries
<1>4. Mine.size \in Nat /\ Mine.cells \in Seq(Data)
  BY <1>2 DEF StoredEntry
<1>5. Mine.cells[m] = handler.data
  <2> DEFINE array == handler.before[n].array
  <2>1. Mine.cells = Append(array, handler.data) /\ array \in Seq(Data)
    BY <1>1, <1>2 DEF ListInv, Work, Mine, Entry
  <2> HIDE DEF array
  <2>2. Len(array) + 1 = m
    BY <1>2, <1>4, <2>1
  <2> QED
    BY <2>1, <2>2
<1>6. Mine.uid = handler.uid
  <2>1. Value = handler.before \/ Value = Doubled(handler.before, n)
    BY <1>1 DEF ListInv, Work
  <2>2. Value[n].uid = handler.before[n].uid
    BY <1>2, <2>1 DEF Doubled, Made
  <2>3. Value[n].uid = Mine.uid
    BY <1>2, ShownAs
  <2> QED
    BY <1>2, <2>2, <2>3
<1>7. handler'.cur = handler.cur /\ handler'.pc # "storage" /\ handler.uid \in Uid
  BY <1>1, <1>2 DEF push_size, HandlerRecord
<1>8. /\ e.uid = Mine.uid /\ e.freed = Mine.freed /\ e.base = Mine.base /\ e.live = Mine.live
      /\ e.size = m /\ e.cells = Mine.cells
  BY <1>2 DEF StoredEntry
<1>9. list' = [list EXCEPT ![n] = e]
  BY <1>2 DEF push_size
<1>10. Mine.size <= m /\ \A j : j \in 1 .. m <=> j \in 1 .. Mine.size \/ j = m
  BY <1>4
<1> HIDE DEF e, m
<1>11. /\ (Stale(e) <=> Stale(Mine)) /\ (Broken(e) <=> Broken(Mine))
  BY <1>8 DEF Stale, Broken
<1>12. Shown(e) = Shown(Mine) \cup new
  <2>1. /\ Shown(e) = {<<e.uid, e.cells[j]>> : j \in 1 .. e.size}
        /\ Shown(Mine) = {<<Mine.uid, Mine.cells[j]>> : j \in 1 .. Mine.size}
    BY <1>3, <1>8 DEF Shown
  <2> QED
    BY <1>5, <1>6, <1>8, <1>10, <2>1
<1> HIDE DEF new
<1>13. Written(n, Mine, e)
  BY <1>1, <1>2, <1>8, <1>9, <1>10, <1>11 DEF Written
<1>14. /\ Entries' /\ Searches' /\ search' = search /\ broken' = broken /\ moving' = moving
       /\ Shown(e) = Shown(Mine) \cup new => allowed' = allowed \cup new
  <2>1. e.base \in {0, e.live}
    BY <1>3, <1>8
  <2> QED
    BY <1>1, <1>7, <1>8, <1>11, <1>13, <2>1, MineBeside
<1>15. Promise!Allow(handler.uid, handler.data)
  BY <1>12, <1>14 DEF Promise!Allow, new
<1>16. Promise!Next
  BY <1>2, <1>7, <1>15 DEF Promise!Next
<1> QED
  BY <1>14, <1>16 DEF Beside, Promised

LEMMA PublishBeside ==
  ASSUME ListInv, ListInv', Entries, Searches, hook \in [Hooks -> HookRecord],
         UNCHANGED cyclevars, add_publish
  PROVE  Beside
<1> DEFINE e == [uid |-> handler.uid, cells |-> <<handler.data>>, size |-> 1,
                 capacity |-> ARRAY_DEFAULT_CAPACITY, base |-> 1, live |-> 1, freed |-> FALSE]
           m == index + 1
<1>1. handler.pc = "publish" /\ index' = index /\ hook' = hook /\ handler' \in HandlerRecord
      /\ handler'.pc # "storage"
  BY DEF add_publish, ListInv, Lists, HandlerRecord
<1>2. /\ list \in Seq(StoredEntry) /\ index \in Nat /\ Len(list) = index
      /\ UNCHANGED <<call, module, loads, step, at>> /\ Lists /\ Lists'
  BY <1>1, UidTableAssumption DEF ListInv, Lists, cyclevars
<1>3. e \in StoredEntry
  <2>1. handler.data \in Data /\ handler.uid \in Uid /\ 1 \in Nat
    BY <1>1 DEF ListInv, Lists, Work, HandlerRecord
  <2> QED
    BY <2>1, WhitelistAssumption DEF StoredEntry
<1>4. e.base = 1 /\ e.live = 1 /\ e.freed = FALSE
  OBVIOUS
<1>5. list' = Append(SubSeq(list, 1, index), e)
  BY DEF add_publish
<1> HIDE DEF e
<1>6. list' = Append(list, e)
  <2>1. SubSeq(list, 1, index) = list
    BY <1>2
  <2> QED
    BY <1>5, <2>1
<1>7. DOMAIN list = 1 .. index /\ DOMAIN list' = 1 .. m
  BY <1>2, <1>3, <1>6
<1>8. /\ list'[m] = e /\ \A i \in 1 .. index : list'[i] = list[i]
      /\ \A i \in 1 .. m : i \in 1 .. index \/ i = m
  BY <1>2, <1>3, <1>6
<1> HIDE DEF m
<1>9. Entries'
  <2>1. \A i, j \in 1 .. index : list'[i].uid = list'[j].uid => i = j
    BY <1>8 DEF Entries
  <2>2. ASSUME NEW i \in DOMAIN list'
        PROVE  /\ list'[i].freed => (step' = "dispose" /\ i < at') \/ step' = "release"
               /\ list'[i].base \in {0, list'[i].live}
    <3>1. CASE i = m
      BY <1>4, <1>8, <3>1
    <3>2. CASE i \in 1 .. index
      BY <1>1, <1>2, <1>7, <1>8, <3>2 DEF Entries
    <3> QED
      BY <1>7, <1>8, <3>1, <3>2
  <2>3. step' = "dispose" => at' # 0
    BY <1>2 DEF Entries
  <2> QED
    BY <1>1, <2>1, <2>2, <2>3 DEF Entries
<1>10. Backed(list, index) /\ Backed(list', index') /\ Backed(list', index)
  BY <1>1, <1>2, ListBacked
<1>11. Searches'
  <2>1. \A i \in 1 .. index : list[i].size <= list'[i].size
    <3> TAKE i \in 1 .. index
    <3>1. list[i] \in StoredEntry
      BY <1>2, <1>7
    <3> QED
      BY <1>8, <3>1 DEF StoredEntry
  <2>2. index <= index'
    BY <1>1, <1>2
  <2> QED
    BY <1>1, <1>2, <1>8, <1>10, <2>1, <2>2, SearchesGrow
<1>12. UNCHANGED PromiseVars
  <2> DEFINE l == list'
  <2>1. Backed(l, index) /\ \A i \in 1 .. index : l[i] = list[i]
    BY <1>8, <1>10
  <2> HIDE DEF l
  <2>2. /\ AllowedOf(l, index) = AllowedOf(list, index)
        /\ BrokenOf(l, index) = BrokenOf(list, index)
        /\ MovingOf(l, index) = MovingOf(list, index)
    BY <1>10, <2>1, PromiseKept
  <2>3. allowed' = allowed /\ broken' = broken /\ moving' = moving
    BY <1>1, <2>2, PromiseOf DEF l
  <2>4. search' = search
    BY <1>1 DEF search
  <2> QED
    BY <2>3, <2>4 DEF PromiseVars
<1> QED
  BY <1>9, <1>11, <1>12 DEF Beside, Promised

LEMMA RaiseBeside ==
  ASSUME Inv, ListInv, ListInv', Entries, Searches, hook \in [Hooks -> HookRecord],
         UNCHANGED cyclevars, add_raise
  PROVE  Beside
<1> DEFINE m == index + 1
           e == list[m]
           new == <<handler.uid, handler.data>>
<1>1. /\ handler.pc = "raise" /\ index' = m /\ hook' = hook /\ list' = list
      /\ handler \in HandlerRecord /\ handler'.pc # "storage"
  BY DEF add_raise, ListInv, Lists, HandlerRecord
<1>2. /\ list \in Seq(StoredEntry) /\ index \in Nat /\ Len(list) = m
      /\ UNCHANGED <<call, module, loads, step, at>> /\ Lists /\ Lists'
  BY <1>1, UidTableAssumption DEF ListInv, Lists, cyclevars
<1>3. /\ m \in DOMAIN list /\ m \notin 1 .. index
      /\ \A i : i \in 1 .. m <=> i \in 1 .. index \/ i = m
  BY <1>2
<1>4. e \in StoredEntry /\ Len(e.cells) = e.size /\ handler.uid \in Uid /\ handler.data \in Data
  BY <1>1, <1>2, <1>3 DEF ListInv, Lists, Uncounted, Work, HandlerRecord
<1>5. e.uid = handler.uid /\ e.base # 0 /\ e.size = 1 /\ e.cells[1] = handler.data
  <2> DEFINE v == View(e)
  <2>1. v = View(e) /\ v = Made(handler.uid, <<handler.data>>, ARRAY_DEFAULT_CAPACITY, FALSE)
    BY <1>1 DEF ListInv, Work
  <2> HIDE DEF v, e
  <2>2. /\ v.uid = e.uid /\ (v.lost <=> e.base = 0) /\ Len(v.array) = e.size /\ v.array = e.cells
    BY <1>4, <2>1, ShownAs
  <2>3. v.uid = handler.uid /\ v.lost = FALSE /\ v.array = <<handler.data>>
    BY <2>1 DEF Made
  <2>4. Len(v.array) = 1 /\ v.array[1] = handler.data
    BY <2>3
  <2> QED
    BY <2>2, <2>3, <2>4
<1>6. ~e.freed /\ e.base \in {0, e.live}
  BY <1>1, <1>3, NoneFreed DEF Entries
<1>7. ~Stale(e) /\ ~Broken(e)
  BY <1>5, <1>6 DEF Stale, Broken
<1>8. Shown(e) = {new}
  BY <1>5, <1>6 DEF Shown
<1>9. \A i \in 1 .. index : list[i].uid # handler.uid
  <2>1. Value = handler.before /\ ~HasEntry(handler.before, handler.uid)
    BY <1>1 DEF ListInv, Work
  <2> TAKE i \in 1 .. index
  <2>2. Value[i] = View(list[i]) /\ list[i] \in StoredEntry /\ i \in DOMAIN Value
    BY <1>2, ValueFacts
  <2>3. Value[i].uid = list[i].uid
    BY <2>2, ShownAs
  <2> QED
    BY <2>1, <2>2, <2>3 DEF HasEntry
<1> HIDE DEF e, m
<1>10. Entries'
  <2>1. \A i, j \in 1 .. m : list[i].uid = list[j].uid => i = j
    <3>1. \A i \in 1 .. m : i \in 1 .. index \/ (i = m /\ list[i].uid = handler.uid)
      BY <1>3, <1>5 DEF e
    <3> QED
      BY <1>9, <3>1 DEF Entries
  <2> QED
    BY <1>1, <1>2, <2>1 DEF Entries
<1>11. Backed(list, index) /\ Backed(list, m) /\ Backed(list', index')
  BY <1>1, <1>2, ListBacked DEF Backed, m
<1>12. Searches'
  <2>1. \A i \in 1 .. index : list[i].size <= list[i].size
    <3> TAKE i \in 1 .. index
    <3>1. list[i] \in StoredEntry
      BY <1>2, ValueFacts
    <3> QED
      BY <3>1 DEF StoredEntry
  <2>2. index <= m /\ \A i \in 1 .. m : i \notin 1 .. index => ~Stale(list[i])
    BY <1>2, <1>3, <1>7 DEF e, m
  <2> QED
    BY <1>1, <1>2, <1>11, <2>1, <2>2, SearchesGrow
<1>13. Promise!Allow(handler.uid, handler.data)
  <2>1. /\ AllowedOf(list, m) = AllowedOf(list, index) \cup Shown(e)
        /\ BrokenOf(list, m) = BrokenOf(list, index)
        /\ MovingOf(list, m) = MovingOf(list, index)
    BY <1>2, <1>7, <1>11, PromiseLonger DEF e, m
  <2>2. allowed' = allowed \cup {new} /\ broken' = broken /\ moving' = moving
    BY <1>1, <1>8, <2>1, PromiseOf
  <2>3. search' = search
    BY <1>1 DEF search
  <2> QED
    BY <2>2, <2>3 DEF Promise!Allow
<1>14. Promise!Next
  BY <1>4, <1>13 DEF Promise!Next
<1> QED
  BY <1>10, <1>12, <1>14 DEF Beside, Promised

LEMMA HandlerBeside ==
  ASSUME Inv, ListInv, Entries, Searches, hook \in [Hooks -> HookRecord], HandlerRuns
  PROVE  Beside
<1>1. UNCHANGED cyclevars /\ HandlerStep /\ ListInv'
  BY HandlerStepInv DEF HandlerRuns
<1>2. CASE add_check \/ add_scan \/ add_new \/ add_return
  <2>1. handler.pc # "storage" /\ handler'.pc # "storage" /\ UNCHANGED <<list, index, hook>>
    BY <1>2, IdleHandlerTyped DEF add_check, add_scan, add_new, add_return, ListInv, Lists,
         HandlerRecord
  <2> QED
    BY <1>1, <2>1, QuietBeside
<1> QED
  BY <1>1, <1>2, CheckBeside, ReallocBeside, StorageBeside, CellBeside, SizeBeside,
     PublishBeside, RaiseBeside DEF HandlerStep

-----------------------------------------------------------------------------
(* The loader and the commands beside the searches. *)

Kept == SearchInv' /\ Promised

\* Nobody sees a step that leaves the list and the text of the hooks alone.
LEMMA TextKept ==
  ASSUME Searches, UNCHANGED <<list, index, hook, call>>,
         \A k \in Hooks : Inside(k) /\ Text(call[k].load) => Text(call[k].load)'
  PROVE  Searches' /\ UNCHANGED PromiseVars
<1>1. ASSUME NEW k \in Hooks, Searching(k)'
      PROVE  /\ call'[k].pc = "lookup"
             /\ hook'[k].disturbed \/ (Text(call[k].load)' /\ OnCourse(list', index', hook'[k]))
  <2>1. Searching(k)
    BY <1>1 DEF Searching
  <2>2. /\ call[k].pc = "lookup"
        /\ hook[k].disturbed \/ (Text(call[k].load) /\ OnCourse(list, index, hook[k]))
    BY <2>1 DEF Searches
  <2> QED
    BY <2>2 DEF Inside
<1>2. Searches'
  BY <1>1 DEF Searches
<1>3. UNCHANGED PromiseVars
  BY DEF PromiseVars, allowed, broken, moving, search, Held
<1> QED
  BY <1>2, <1>3

\* The storage of the Arrays is there when the loader is elsewhere.
LEMMA StepTaken ==
  ASSUME Entries, UNCHANGED <<list, index, handler>>,
         step \notin {"dispose", "release"} \/ step' = "release",
         step' = "dispose" => at' # 0
  PROVE  Entries'
<1>1. \A i \in DOMAIN list : list[i].freed => step' = "release"
  BY DEF Entries
<1>2. Mine' = Mine
  BY DEF Mine
<1> QED
  BY <1>1, <1>2 DEF Entries

LEMMA FreshKept ==
  ASSUME Fresh, UNCHANGED <<call, loads>>, step' # "create" \/ step' = step
  PROVE  Fresh'
BY DEF Fresh, Inside

LEMMA InsmodKept ==
  ASSUME Inv, SearchInv, insmod
  PROVE  Kept
<1>1. /\ module = "absent" /\ step = "none" /\ step' = "create" /\ loads' = loads + 1
      /\ UNCHANGED <<list, index, handler, hook, call, at>>
  BY DEF insmod, LoaderKeeps, Inv, Phases, Loading, Unloading
<1>2. Entries'
  BY <1>1, StepTaken DEF SearchInv
<1>3. Searches' /\ UNCHANGED PromiseVars
  BY <1>1, TextKept DEF SearchInv, Text
<1>4. Fresh'
  <2>1. ASSUME NEW k \in Hooks, Inside(k) PROVE call[k].load # loads + 1
    <3>1. call[k].load <= loads /\ call[k].load \in Nat /\ loads \in Nat
      BY <2>1 DEF Inv, InCalls, LoadKnown, Types, CallRecord
    <3> QED
      BY <3>1
  <2> QED
    BY <1>1, <2>1 DEF Fresh, Inside
<1> QED
  BY <1>2, <1>3, <1>4 DEF Kept, SearchInv, Promised

LEMMA LoaderSteps ==
  ASSUME Inv, SearchInv,
         \/ rmmod \/ create_socket \/ acquire_table \/ replace_slot \/ protect
         \/ unprotect \/ restore_slot \/ reprotect \/ (save_originals /\ ~Free)
         \/ (whitelist_dispose /\ ~(at <= index))
  PROVE  Kept
<1>1. /\ UNCHANGED <<list, index, handler, hook, call, loads>>
      /\ step' # "create"
  BY DEF rmmod, create_socket, acquire_table, replace_slot, protect, unprotect, restore_slot,
     reprotect, save_originals, whitelist_dispose, LoaderKeeps, listvars
<1>2. /\ step \notin {"dispose", "release"} \/ step' = "release"
      /\ step' = "dispose" => at' # 0
  BY DEF rmmod, create_socket, acquire_table, replace_slot, protect, unprotect, restore_slot,
     reprotect, save_originals, whitelist_dispose, Inv, Phases, Loading, Unloading
<1>3. Entries'
  BY <1>1, <1>2, StepTaken DEF SearchInv
<1>4. ASSUME NEW k \in Hooks, Inside(k), Text(call[k].load) PROVE Text(call[k].load)'
  <2>1. step # "create"
    BY <1>4 DEF SearchInv, Fresh, Text
  <2>2. module # "absent" => module' # "absent"
    BY <2>1 DEF rmmod, create_socket, acquire_table, replace_slot, protect, unprotect,
       restore_slot, reprotect, save_originals, whitelist_dispose, Inv, Phases, Loading, Unloading
  <2> QED
    BY <1>1, <1>4, <2>2 DEF Text
<1>5. Searches' /\ UNCHANGED PromiseVars
  BY <1>1, <1>4, TextKept DEF SearchInv
<1>6. Fresh'
  BY <1>1, FreshKept DEF SearchInv
<1> QED
  BY <1>3, <1>5, <1>6 DEF Kept, SearchInv, Promised

LEMMA CommandKept ==
  ASSUME SearchInv,
         \/ open_socket \/ close_socket \/ UNCHANGED vars
         \/ \E c \in Commands : recv_msg(c.uid, c.data)
  PROVE  Kept
<1>1. UNCHANGED <<list, index, hook, call, module, loads, step, at>>
  BY DEF open_socket, close_socket, SocketOnly, vars, listvars, cyclevars, recv_msg, add_call
<1>2. UNCHANGED handler \/ (handler.pc = "idle" /\ handler'.pc = "check")
  BY DEF open_socket, close_socket, SocketOnly, vars, listvars, recv_msg, add_call, IdleHandler
<1>3. Entries'
  <2>1. CASE UNCHANGED handler
    BY <1>1, <2>1 DEF SearchInv, Entries, Mine
  <2>2. CASE handler.pc = "idle" /\ handler'.pc = "check"
    BY <1>1, <2>2, EntriesKept DEF SearchInv
  <2> QED
    BY <1>2, <2>1, <2>2
<1>4. Searches' /\ UNCHANGED PromiseVars
  BY <1>1, TextKept DEF SearchInv, Text
<1>5. Fresh'
  BY <1>1, FreshKept DEF SearchInv
<1> QED
  BY <1>3, <1>4, <1>5 DEF Kept, SearchInv, Promised

LEMMA HandlerKept ==
  ASSUME Inv, ListInv, HookInv, SearchInv, HandlerRuns
  PROVE  Kept
<1>1. Beside
  BY HandlerBeside DEF SearchInv, HookInv
<1>2. Fresh'
  BY FreshKept DEF SearchInv, HandlerRuns, cyclevars
<1> QED
  BY <1>1, <1>2 DEF Kept, SearchInv, Beside

\* One list is given back.
LEMMA DisposeKept ==
  ASSUME Inv, ListInv, HookInv, SearchInv, whitelist_dispose, at <= index
  PROVE  Kept
<1>0. whitelist_dispose_entry(at)
  BY DEF whitelist_dispose
<1> DEFINE n == at
           o == list[n]
           e == [o EXCEPT !.freed = TRUE]
<1>1. /\ step = "dispose" /\ step' = "dispose" /\ at' = at + 1 /\ handler.pc = "idle"
      /\ UNCHANGED <<call, module, loads, handler>> /\ index' = index
  <2>1. /\ step = "dispose" /\ handler' = handler /\ index' = index
        /\ UNCHANGED <<call, module, loads>>
    BY <1>0 DEF whitelist_dispose, whitelist_dispose_entry
  <2>2. step' = "dispose" /\ at' = at + 1
    BY <2>1 DEF whitelist_dispose
  <2>3. handler.pc = "idle"
    BY <2>1 DEF Inv, Phases, Unloading, Sockets, HandlerActive
  <2> QED
    BY <2>1, <2>2, <2>3
<1>2. /\ index \in Nat /\ at \in Nat /\ at # 0 /\ list \in Seq(StoredEntry) /\ Lists
      /\ Len(list) = index
  BY <1>1, UidTableAssumption DEF Inv, Types, SearchInv, Entries, ListInv, Lists
<1>3. n \in 1 .. index /\ n \in DOMAIN list
  BY <1>2
<1>4. o \in StoredEntry /\ list' = [list EXCEPT ![n] = e] /\ Disturb(o.uid)
  BY <1>0, <1>2, <1>3 DEF whitelist_dispose_entry
<1>5. /\ e.uid = o.uid /\ e.freed = TRUE /\ e.size = o.size /\ e.cells = o.cells
      /\ e.base = o.base /\ o.size \in Nat /\ o.uid \in Uid
  BY <1>4 DEF StoredEntry
<1>6. Lists'
  BY DisposeStep DEF ListInv
<1> HIDE DEF e
<1>7. /\ Shown(e) = {} /\ ~Broken(e) /\ Stale(e)
  BY <1>5 DEF Shown, Broken, Stale
<1>8. DOMAIN list' = DOMAIN list /\ \A i \in DOMAIN list : list'[i] = IF i = n THEN e ELSE list[i]
  BY <1>4
<1>9. Entries'
  <2>1. \A i \in 1 .. index : i \in DOMAIN list /\ list'[i].uid = list[i].uid
    BY <1>2, <1>5, <1>8
  <2>2. ASSUME NEW i \in DOMAIN list
        PROVE  /\ list'[i].freed => i < at + 1
               /\ list'[i].base \in {0, list'[i].live}
    <3>0. i \in Nat /\ list[i].base \in {0, list[i].live} /\ (list[i].freed => i < at)
      BY <1>1, <1>2 DEF SearchInv, Entries
    <3>3. e.live = o.live
      BY <1>4 DEF StoredEntry, e
    <3>1. CASE i = n
      BY <1>2, <1>5, <1>8, <3>0, <3>1, <3>3
    <3>2. CASE i # n
      BY <1>2, <1>8, <3>0, <3>2
    <3> QED
      BY <3>1, <3>2
  <2>3. at + 1 # 0
    BY <1>2
  <2> QED
    BY <1>1, <1>8, <2>1, <2>2, <2>3 DEF SearchInv, Entries
<1>10. Written(n, o, e)
  BY <1>1, <1>3, <1>4, <1>5 DEF Written
<1> HIDE DEF n, o
<1>11. /\ Searches'
       /\ Shown(e) = {} => allowed' = {p \in allowed : p[1] # o.uid}
       /\ broken' = IF Broken(e) THEN broken \cup {o.uid} ELSE broken \ {o.uid}
       /\ moving' = IF Stale(e) THEN moving \cup {o.uid} ELSE moving \ {o.uid}
  BY <1>1, <1>2, <1>6, <1>10, EntrySeen DEF SearchInv, HookInv
<1>12. Promise!Disturb({o.uid})
  <2>1. hook' = [k \in Hooks |-> IF Searching(k) /\ hook[k].uid \in {o.uid}
                                   THEN [hook[k] EXCEPT !.disturbed = TRUE] ELSE hook[k]]
    BY <1>4 DEF Disturb
  <2> QED
    BY <2>1, SearchDisturbed DEF HookInv
<1>13. Promise!GiveBack(o.uid)
  BY <1>7, <1>11, <1>12 DEF Promise!GiveBack
<1>14. Promise!Next
  BY <1>5, <1>13 DEF Promise!Next
<1>15. Fresh'
  BY <1>1, FreshKept DEF SearchInv
<1> QED
  BY <1>9, <1>11, <1>14, <1>15 DEF Kept, SearchInv, Promised

\* The module is freed, and its lists with it.
LEMMA FreeKept ==
  ASSUME HookInv, SearchInv, Free, UNCHANGED <<call, loads>>
  PROVE  Kept
<1>1. /\ list' = << >> /\ index' = 0 /\ step' = "none" /\ handler' = IdleHandler
      /\ hook \in [Hooks -> HookRecord]
  BY DEF Free, HookInv
<1>2. Entries'
  BY <1>1 DEF Entries, IdleHandler
<1>3. hook' = [k \in Hooks |-> IF Searching(k) /\ hook[k].uid \in Uid
                                 THEN [hook[k] EXCEPT !.disturbed = TRUE] ELSE hook[k]]
  <2>1. \A k \in Hooks : hook[k].uid \in Uid
    BY <1>1 DEF HookRecord
  <2> QED
    BY <2>1 DEF Free
<1>4. Promise!Disturb(Uid)
  BY <1>1, <1>3, SearchDisturbed
<1>5. Searches'
  <2>1. ASSUME NEW k \in Hooks, Searching(k)'
        PROVE  call'[k].pc = "lookup" /\ hook'[k].disturbed
    <3>1. hook[k] \in HookRecord
      BY <1>1
    <3>2. hook'[k] = IF Searching(k) THEN [hook[k] EXCEPT !.disturbed = TRUE] ELSE hook[k]
      BY DEF Free
    <3>3. Searching(k)
      BY <2>1, <3>2 DEF Searching
    <3>4. hook'[k].disturbed
      BY <3>1, <3>2, <3>3 DEF HookRecord
    <3> QED
      BY <3>3, <3>4 DEF SearchInv, Searches
  <2> QED
    BY <2>1 DEF Searches
<1>6. allowed' = {} /\ broken' = {} /\ moving' = {}
  BY <1>1 DEF allowed, broken, moving, Held
<1>7. Promise!Next
  BY <1>4, <1>6 DEF Promise!Next, Promise!Forget
<1>8. Fresh'
  BY <1>1 DEF Fresh
<1> QED
  BY <1>2, <1>5, <1>7, <1>8 DEF Kept, SearchInv, Promised

-----------------------------------------------------------------------------
(* The system calls. *)

\* A process keeps its load while it is in a hook, and enters no load that has
\* just begun.
LEMMA LoadStays ==
  ASSUME Inv, NEW k \in Hooks,
         (\E c \in Calls : syscall(k, c)) \/ HookRuns(k) \/ wake(k) \/ crash(k)
  PROVE  step # "create" \/ (Inside(k)' => Inside(k) /\ call'[k].load = call[k].load)
<1>1. call[k] \in CallRecord /\ NoCall.pc = "outside" /\ call \in [Hooks -> CallRecord]
  BY DEF Inv, Types, NoCall
<1>2. ASSUME call' = [call EXCEPT ![k] = NoCall] PROVE ~Inside(k)'
  BY <1>1, <1>2 DEF Inside
<1>3. ASSUME ToOriginal(k) PROVE call'[k].load = call[k].load
  <2> DEFINE r == [NoCall EXCEPT !.pc = "original", !.load = call[k].load,
                                 !.syscall = call[k].syscall]
  <2>1. r.load = call[k].load
    BY DEF NoCall
  <2>2. call' = [call EXCEPT ![k] = r]
    BY <1>3 DEF ToOriginal
  <2> HIDE DEF r
  <2> QED
    BY <1>1, <2>1, <2>2
<1>4. ASSUME NEW c \in Calls, syscall(k, c) PROVE step # "create"
  <2>1. c.syscall \in Syscall /\ table[c.syscall] = "module"
    BY <1>4, LifecycleAssumption DEF syscall, Call
  <2> QED
    BY <2>1 DEF Inv, Tables, Untouched
<1>5. CASE not_hooked(k)
  BY <1>3, <1>5 DEF not_hooked, Inside
<1>6. CASE copy_string(k)
  <2>1. Inside(k)
    BY <1>6 DEF copy_string, Inside
  <2>2. ToOriginal(k) \/ \E copy : call' = [call EXCEPT ![k].pc = "lookup", ![k].copy = copy]
    BY <1>6 DEF copy_string
  <2>3. ASSUME NEW copy, call' = [call EXCEPT ![k].pc = "lookup", ![k].copy = copy]
        PROVE  call'[k].load = call[k].load
    BY <1>1, <2>3 DEF CallRecord
  <2> QED
    BY <1>3, <2>1, <2>2, <2>3
<1>7. CASE lookup(k)
  <2>1. Inside(k) /\ (call' = call \/ call' = [call EXCEPT ![k] = NoCall])
    BY <1>7 DEF lookup, Inside
  <2> QED
    BY <1>2, <2>1
<1>8. CASE decide(k)
  <2>1. Inside(k) /\ (ToOriginal(k) \/ call' = [call EXCEPT ![k] = NoCall])
    BY <1>8 DEF decide, Inside
  <2> QED
    BY <1>2, <1>3, <2>1
<1>9. CASE call_original(k)
  <2>1. /\ Inside(k)
        /\ call' = [call EXCEPT ![k] = NoCall] \/ call' = [call EXCEPT ![k].pc = "sleeping"]
    BY <1>9 DEF call_original, Inside
  <2>2. ASSUME call' = [call EXCEPT ![k].pc = "sleeping"] PROVE call'[k].load = call[k].load
    BY <1>1, <2>2 DEF CallRecord
  <2> QED
    BY <1>2, <2>1, <2>2
<1>10. CASE wake(k) \/ crash(k)
  BY <1>2, <1>10 DEF wake, crash
<1> QED
  BY <1>4, <1>5, <1>6, <1>7, <1>8, <1>9, <1>10 DEF HookRuns

\* One search becomes g.
Becomes(k, g) ==
  /\ hook' = [hook EXCEPT ![k] = g]
  /\ Active(g) => /\ call'[k].pc = "lookup"
                  /\ g.disturbed \/ (Text(call'[k].load) /\ OnCourse(list, index, g))

LEMMA OneMoves ==
  ASSUME Inv, HookInv, SearchInv, NEW k \in Hooks,
         (\E c \in Calls : syscall(k, c)) \/ HookRuns(k) \/ wake(k) \/ crash(k),
         NEW g \in HookRecord, Becomes(k, g)
  PROVE  /\ SearchInv' /\ UNCHANGED <<allowed, broken, moving>>
         /\ search' = [search EXCEPT ![k] = SearchOf(g)] /\ search[k] = SearchOf(hook[k])
         /\ SearchOf(g) = SearchOf(hook[k]) => search' = search
<1>1. CallOnly
  BY DEF syscall, HookRuns, not_hooked, copy_string, lookup, decide, call_original, wake,
         crash
<1>2. \A j \in Hooks : j # k => call'[j] = call[j]
  BY CallSteps DEF Inv, HookRuns
<1>3. step # "create" \/ (Inside(k)' => Inside(k) /\ call'[k].load = call[k].load)
  BY LoadStays
<1>4. /\ UNCHANGED <<list, index, handler, module, step, at, loads>>
      /\ hook \in [Hooks -> HookRecord] /\ hook' = [hook EXCEPT ![k] = g]
  BY <1>1 DEF CallOnly, HookInv, Becomes
<1>5. hook'[k] = g /\ \A j \in Hooks : j # k => hook'[j] = hook[j]
  BY <1>4
<1>6. Entries'
  BY <1>4 DEF SearchInv, Entries, Mine
<1>7. Searches'
  <2>1. ASSUME NEW j \in Hooks, Searching(j)'
        PROVE  /\ call'[j].pc = "lookup"
               /\ hook'[j].disturbed
                    \/ (Text(call[j].load)' /\ OnCourse(list', index', hook'[j]))
    <3>1. CASE j = k
      <4>1. Active(g)
        BY <1>5, <2>1, <3>1 DEF Searching, Active
      <4>2. /\ call'[k].pc = "lookup"
            /\ g.disturbed \/ (Text(call'[k].load) /\ OnCourse(list, index, g))
        BY <4>1 DEF Becomes
      <4> QED
        BY <1>4, <1>5, <3>1, <4>2 DEF Text
    <3>2. CASE j # k
      <4>1. Searching(j) /\ hook'[j] = hook[j] /\ call'[j] = call[j]
        BY <1>2, <1>5, <2>1, <3>2 DEF Searching
      <4>2. /\ call[j].pc = "lookup"
            /\ hook[j].disturbed \/ (Text(call[j].load) /\ OnCourse(list, index, hook[j]))
        BY <4>1 DEF SearchInv, Searches
      <4> QED
        BY <1>4, <4>1, <4>2 DEF Text
    <3> QED
      BY <3>1, <3>2
  <2> QED
    BY <2>1 DEF Searches
<1>8. Fresh'
  <2>1. ASSUME NEW j \in Hooks, step = "create", Inside(j)' PROVE call'[j].load # loads
    <3>1. Inside(j) /\ call'[j].load = call[j].load
      BY <1>2, <1>3, <2>1 DEF Inside
    <3> QED
      BY <2>1, <3>1 DEF SearchInv, Fresh
  <2> QED
    BY <1>4, <2>1 DEF Fresh
<1>9. UNCHANGED <<allowed, broken, moving>>
  BY <1>4 DEF allowed, broken, moving, Held
<1>10. /\ search' = [search EXCEPT ![k] = SearchOf(g)] /\ search[k] = SearchOf(hook[k])
       /\ SearchOf(g) = SearchOf(hook[k]) => search' = search
  BY <1>4, SearchMoved
<1> QED
  BY <1>6, <1>7, <1>8, <1>9, <1>10 DEF SearchInv

\* Nothing is looked up.
LEMMA OutsideKept ==
  ASSUME Inv, HookInv, SearchInv, NEW k \in Hooks,
         (\E c \in Calls : syscall(k, c)) \/ HookRuns(k) \/ wake(k) \/ crash(k),
         UNCHANGED hook, call[k].pc # "lookup"
  PROVE  Kept
<1> DEFINE g == hook[k]
<1>1. g \in HookRecord /\ hook' = [hook EXCEPT ![k] = g]
  BY DEF HookInv
<1>2. ~Active(g)
  BY DEF SearchInv, Searches, Searching, Active
<1>3. Becomes(k, g) /\ g = hook[k]
  BY <1>1, <1>2 DEF Becomes
<1> HIDE DEF g
<1>4. SearchInv' /\ UNCHANGED <<allowed, broken, moving>> /\ search' = search
  BY <1>1, <1>3, OneMoves
<1> QED
  BY <1>4 DEF Kept, Promised, PromiseVars

\* The search ends without an answer, or with one that was read.
LEMMA EndKept ==
  ASSUME Inv, HookInv, SearchInv, NEW k \in Hooks,
         HookRuns(k) \/ crash(k), hook' = [hook EXCEPT ![k] = IdleHook],
         Active(hook[k]) => hook[k].disturbed \/ hook[k].uid \in broken
  PROVE  Kept
<1> DEFINE g == hook[k]
<1>1. g \in HookRecord /\ IdleHook \in HookRecord /\ IdleHook.pc = "idle"
  BY IdleHookTyped DEF HookInv
<1>2. Becomes(k, IdleHook)
  BY <1>1 DEF Becomes, Active
<1>3. /\ SearchInv' /\ UNCHANGED <<allowed, broken, moving>>
      /\ search' = [search EXCEPT ![k] = SearchOf(IdleHook)] /\ search[k] = SearchOf(g)
      /\ SearchOf(IdleHook) = SearchOf(g) => search' = search
  BY <1>1, <1>2, OneMoves
<1>4. SearchOf(IdleHook) = Promise!Idle
  BY <1>1, SearchOfFacts DEF Promise!Idle
<1> HIDE DEF g
<1>5. CASE g.pc = "idle"
  <2>1. SearchOf(g) = Promise!Idle
    BY <1>1, <1>5, SearchOfFacts DEF Promise!Idle
  <2>2. search' = search
    BY <1>3, <1>4, <2>1
  <2> QED
    BY <1>3, <2>2 DEF Kept, Promised, PromiseVars
<1>6. CASE g.pc = "answered"
  <2>1. search[k].state = "answered"
    BY <1>1, <1>3, <1>6, SearchOfFacts
  <2>2. Promise!Leave(k)
    BY <1>3, <1>4, <2>1 DEF Promise!Leave
  <2>3. Promise!Next
    BY <2>2 DEF Promise!Next
  <2> QED
    BY <1>3, <2>3 DEF Kept, Promised
<1>7. CASE Active(g)
  <2>1. /\ search[k].state = "running" /\ search[k].uid = g.uid
        /\ search[k].disturbed = g.disturbed
    BY <1>1, <1>3, <1>7, SearchOfFacts
  <2>2. Promise!Die(k)
    BY <1>3, <1>4, <1>7, <2>1 DEF Promise!Die, Promise!Running, g
  <2>3. Promise!Next
    BY <2>2 DEF Promise!Next
  <2> QED
    BY <1>3, <2>3 DEF Kept, Promised
<1> QED
  BY <1>1, <1>5, <1>6, <1>7, SearchOfFacts

LEMMA AnswersTyped ==
  ASSUME NEW hit \in BOOLEAN, NEW g, g = Answers(hit)
  PROVE  g \in HookRecord /\ g.pc = "answered" /\ g.hit = hit
<1>1. g \in HookRecord /\ g.pc = "answered"
  BY IdleHookTyped DEF Answers
<1>2. g.hit = hit
  BY DEF Answers, IdleHook
<1> QED
  BY <1>1, <1>2

LEMMA LookupKept ==
  ASSUME Inv, ListInv, HookInv, SearchInv, NEW k \in Hooks, lookup(k)
  PROVE  Kept
<1> DEFINE h == hook[k]
<1>1. call[k].pc = "lookup" /\ Text(call[k].load) /\ LookupStep(k)
      /\ call' = IF hook'[k].pc = "idle" THEN [call EXCEPT ![k] = NoCall] ELSE call
  BY DEF lookup
<1>2. PICK g \in HookRecord : hook' = [hook EXCEPT ![k] = g]
  BY <1>1, SearchMoves DEF HookInv, AtEntry, ListInv, Moved
<1>3. h \in HookRecord /\ g = hook'[k] /\ h = hook[k] /\ hook \in [Hooks -> HookRecord]
      /\ HookRuns(k)
  BY <1>2 DEF HookInv, HookRuns
<1>4. Active(h)
  BY <1>1 DEF LookupStep, lookup_entry, lookup_size, lookup_base, lookup_cell, Active
<1>5. h.disturbed \/ OnCourse(list, index, h)
  BY <1>4 DEF SearchInv, Searches, Searching, Active
<1>6. Backed(list, index) /\ Entries
  BY ListBacked DEF ListInv, SearchInv
<1> HIDE DEF h
<1>7. Follows(h, g)
  BY <1>1, <1>3, <1>5, <1>6, EntryFollows, SizeFollows, BaseFollows, CellFollows DEF LookupStep
<1>8. CASE g = IdleHook /\ (h.disturbed \/ h.uid \in broken)
  BY <1>2, <1>3, <1>8, EndKept
<1>9. ASSUME NEW hit \in BOOLEAN, g = Answers(hit),
             h.disturbed \/ (hit /\ Promise!Found(h.uid, h.data)) \/ (~hit /\ ~h.listed)
      PROVE  Kept
  <2>1. g.pc = "answered" /\ g.hit = hit
    BY <1>9, AnswersTyped
  <2>2. Becomes(k, g)
    BY <1>2, <2>1 DEF Becomes, Active
  <2>3. /\ SearchInv' /\ UNCHANGED <<allowed, broken, moving>>
        /\ search' = [search EXCEPT ![k] = SearchOf(g)] /\ search[k] = SearchOf(h)
    BY <1>3, <2>2, OneMoves
  <2>4. SearchOf(g) = [state |-> "answered", hit |-> hit]
    BY <2>1, SearchOfFacts
  <2>5. /\ search[k].state = "running" /\ search[k].uid = h.uid /\ search[k].data = h.data
        /\ search[k].listed = h.listed /\ search[k].disturbed = h.disturbed
    BY <1>3, <1>4, <2>3, SearchOfFacts
  <2>6. Promise!Answer(k, hit)
    BY <1>9, <2>3, <2>4, <2>5 DEF Promise!Answer, Promise!Running
  <2>7. Promise!Next
    BY <2>6 DEF Promise!Next
  <2> QED
    BY <2>3, <2>7 DEF Kept, Promised
<1>10. CASE /\ Active(g) /\ g.uid = h.uid /\ g.data = h.data /\ g.listed = h.listed
            /\ g.disturbed = h.disturbed
            /\ h.disturbed \/ OnCourse(list, index, g)
  <2>1. call' = call
    BY <1>1, <1>3, <1>10 DEF Active
  <2>2. Becomes(k, g)
    BY <1>1, <1>2, <1>10, <2>1 DEF Becomes
  <2>3. SearchOf(g) = SearchOf(h)
    BY <1>3, <1>4, <1>10, SearchOfFacts
  <2>4. SearchInv' /\ UNCHANGED <<allowed, broken, moving>> /\ search' = search
    BY <1>3, <2>2, <2>3, OneMoves
  <2> QED
    BY <2>4 DEF Kept, Promised, PromiseVars
<1> QED
  BY <1>7, <1>8, <1>9, <1>10 DEF Follows

\* A search begins on its course.
LEMMA BeginKept ==
  ASSUME Inv, ListInv, HookInv, SearchInv, NEW k \in Hooks, copy_string(k),
         NEW data \in Data \cup {Unfit}, lookup_call(k, call[k].uid, data),
         call'[k].pc = "lookup", call'[k].load = call[k].load
  PROVE  Kept
<1> DEFINE uid == call[k].uid
           listed == \E d \in Data : <<uid, d>> \in allowed /\ <<data, d>> \in PrefixOf
           disturbed == data = Unfit \/ uid \in moving
           g == [IdleHook EXCEPT
                   !.pc = "entry", !.uid = uid, !.data = data, !.limit = index,
                   !.listed = listed, !.disturbed = disturbed]
<1>1. hook' = [hook EXCEPT ![k] = g] /\ hook[k].pc = "idle"
  BY DEF lookup_call
<1>2. listed \in BOOLEAN /\ disturbed \in BOOLEAN
  OBVIOUS
<1>3. /\ uid \in Uid /\ index \in Nat /\ hook[k] \in HookRecord /\ HookRuns(k)
      /\ Text(call[k].load)
  <2>1. uid \in Uid /\ index \in Nat /\ hook[k] \in HookRecord
    BY UidTableAssumption DEF Inv, Types, CallRecord, ListInv, Lists, HookInv
  <2>2. HookRuns(k)
    BY DEF HookRuns
  <2>3. Text(call[k].load)
    BY DEF copy_string
  <2> QED
    BY <2>1, <2>2, <2>3
<1>4. listed <=> data # Unfit /\ Promise!Found(uid, data)
  BY UnfitAssumption, WhitelistAssumption DEF Promise!Found
<1>5. disturbed <=> data = Unfit \/ uid \in moving
  OBVIOUS
<1>6. /\ listed = (data # Unfit /\ Promise!Found(uid, data))
      /\ disturbed = (data = Unfit \/ uid \in moving)
  BY <1>4 DEF Promise!Found
<1>7. listed => \E d \in Data : <<uid, d>> \in allowed /\ <<data, d>> \in PrefixOf
  OBVIOUS
<1> HIDE DEF listed, disturbed
<1>8. /\ g \in HookRecord /\ g.pc = "entry" /\ g.uid = uid /\ g.data = data /\ g.limit = index
      /\ g.listed = listed /\ g.disturbed = disturbed /\ g.cur = 0 /\ g.i = 0
      /\ g.base = NotLoaded
  <2>1. g \in HookRecord
    BY <1>2, <1>3, IdleHookTyped DEF HookRecord
  <2> QED
    BY <2>1 DEF IdleHook
<1> HIDE DEF g
<1>9. ASSUME ~disturbed PROVE OnCourse(list, index, g)
  <2>1. data \in Data /\ uid \notin moving
    BY <1>5, <1>9
  <2>2. Backed(list, index)
    BY ListBacked DEF ListInv
  <2>3. \A i \in 1 .. index : list[i].uid = g.uid => ~Stale(list[i])
    BY <1>8, <2>1, <2>2, PromiseOf, PromiseMembers
  <2>4. ASSUME listed
        PROVE  \E i \in 1 .. index :
                 /\ list[i].uid = uid
                 /\ \E j \in 1 .. list[i].size : <<data, list[i].cells[j]>> \in PrefixOf
    <3>1. PICK d \in Data : <<uid, d>> \in allowed /\ <<data, d>> \in PrefixOf
      BY <1>7, <2>4
    <3>2. PICK i \in 1 .. index : <<uid, d>> \in Shown(list[i])
      BY <2>2, <3>1, PromiseOf, PromiseMembers
    <3>3. PICK j \in 1 .. list[i].size : <<uid, d>> = <<list[i].uid, list[i].cells[j]>>
      BY <3>2 DEF Shown
    <3>4. list[i].uid = uid /\ list[i].cells[j] = d
      BY <3>3
    <3> QED
      BY <3>1, <3>4
  <2>5. Passing(list, index, g)
    <3>1. g.cur <= g.limit /\ g.limit <= index /\ \A i \in 1 .. g.cur : FALSE
      BY <1>3, <1>8
    <3> QED
      BY <1>8, <2>4, <3>1 DEF Passing
  <2> QED
    BY <1>8, <2>1, <2>3, <2>5 DEF OnCourse
<1>10. Becomes(k, g)
  BY <1>1, <1>3, <1>8, <1>9 DEF Becomes
<1>11. /\ SearchInv' /\ UNCHANGED <<allowed, broken, moving>>
       /\ search' = [search EXCEPT ![k] = SearchOf(g)] /\ search[k] = SearchOf(hook[k])
  BY <1>3, <1>8, <1>10, OneMoves
<1>12. search[k].state = "idle"
  BY <1>1, <1>3, <1>11, SearchOfFacts
<1>13. SearchOf(g) = [state |-> "running", uid |-> uid, data |-> data,
                      listed |-> listed, disturbed |-> disturbed]
  BY <1>8, SearchOfFacts DEF Active
<1>14. Promise!Begin(k, uid, data)
  BY <1>6, <1>11, <1>12, <1>13 DEF Promise!Begin
<1>15. Promise!Next
  BY <1>3, <1>14 DEF Promise!Next
<1> QED
  BY <1>11, <1>15 DEF Kept, Promised

LEMMA CallKept ==
  ASSUME Inv, ListInv, HookInv, SearchInv, NEW k \in Hooks,
         (\E c \in Calls : syscall(k, c)) \/ HookRuns(k) \/ wake(k) \/ crash(k)
  PROVE  Kept
<1>1. CASE (\E c \in Calls : syscall(k, c)) \/ not_hooked(k) \/ call_original(k) \/ wake(k)
  <2>1. UNCHANGED hook /\ call[k].pc # "lookup"
    BY <1>1 DEF syscall, not_hooked, call_original, wake, Inside
  <2> QED
    BY <2>1, OutsideKept
<1>2. CASE copy_string(k)
  <2>1. call[k].pc = "hook" /\ call[k].data \in Data /\ call \in [Hooks -> CallRecord]
    BY <1>2 DEF copy_string, Inv, Types
  <2>2. CASE UNCHANGED hook
    BY <2>1, <2>2, OutsideKept
  <2>3. CASE ~UNCHANGED hook
    <3>1. PICK copy \in safe_copy_from_user(Source(k), MaxSize) :
            /\ call' = [call EXCEPT ![k].pc = "lookup", ![k].copy = copy]
            /\ lookup_call(k, call[k].uid,
                           IF Exact(copy, Source(k)) THEN call[k].data ELSE Unfit)
      BY <1>2, <2>3 DEF copy_string
    <3>2. call'[k].pc = "lookup" /\ call'[k].load = call[k].load
      BY <2>1, <3>1 DEF CallRecord
    <3>3. PICK data \in Data \cup {Unfit} : lookup_call(k, call[k].uid, data)
      BY <2>1, <3>1
    <3> QED
      BY <1>2, <3>2, <3>3, BeginKept
  <2> QED
    BY <2>2, <2>3
<1>3. CASE lookup(k)
  BY <1>3, LookupKept
<1>4. CASE decide(k)
  <2>1. hook' = [hook EXCEPT ![k] = IdleHook] /\ ~Active(hook[k]) /\ HookRuns(k)
    BY <1>4 DEF decide, lookup_return, Active, HookRuns
  <2> QED
    BY <2>1, EndKept
<1>5. CASE crash(k)
  <2>1. hook' = [hook EXCEPT ![k] = IdleHook] /\ ~Text(call[k].load)
    BY <1>5 DEF crash
  <2>2. Active(hook[k]) => hook[k].disturbed
    BY <2>1 DEF SearchInv, Searches, Searching, Active
  <2> QED
    BY <1>5, <2>1, <2>2, EndKept
<1> QED
  BY <1>1, <1>2, <1>3, <1>4, <1>5 DEF HookRuns

-----------------------------------------------------------------------------
(* The list keeps its promise. *)

LEMMA SearchNext ==
  ASSUME Inv, ListInv, HookInv, SearchInv, [Next]_vars
  PROVE  Kept
<1>1. CASE Free /\ UNCHANGED <<call, loads>>
  BY <1>1, FreeKept
<1>2. CASE save_originals \/ release
  <2>1. UNCHANGED <<call, loads>>
    BY <1>2 DEF save_originals, release
  <2>2. Free \/ (save_originals /\ ~Free)
    BY <1>2 DEF release
  <2> QED
    BY <1>1, <2>1, <2>2, LoaderSteps
<1>3. CASE whitelist_dispose
  BY <1>3, DisposeKept, LoaderSteps
<1>4. CASE rmmod \/ create_socket \/ acquire_table \/ replace_slot \/ protect
           \/ unprotect \/ restore_slot \/ reprotect
  BY <1>4, LoaderSteps
<1>5. CASE insmod
  BY <1>5, InsmodKept
<1>6. CASE open_socket \/ close_socket \/ UNCHANGED vars
           \/ \E c \in Commands : recv_msg(c.uid, c.data)
  BY <1>6, CommandKept
<1>7. CASE HandlerRuns
  BY <1>7, HandlerKept
<1>8. ASSUME NEW k \in Hooks,
             (\E c \in Calls : syscall(k, c)) \/ HookRuns(k) \/ wake(k) \/ crash(k)
      PROVE  Kept
  BY <1>8, CallKept
<1> QED
  BY <1>2, <1>3, <1>4, <1>5, <1>6, <1>7, <1>8 DEF Next, Loader

LEMMA SearchInit == CycleInit => SearchInv /\ Promise!Init
<1> SUFFICES ASSUME CycleInit PROVE SearchInv /\ Promise!Init
  OBVIOUS
<1>1. /\ list = << >> /\ index = 0 /\ handler = IdleHandler /\ step = "none"
      /\ hook = [k \in Hooks |-> IdleHook]
  BY DEF CycleInit, ListInit
<1>2. Entries
  BY <1>1 DEF Entries, IdleHandler
<1>3. Searches /\ Fresh
  BY <1>1, IdleHookTyped DEF Searches, Searching, Fresh
<1>4. allowed = {} /\ broken = {} /\ moving = {}
  BY <1>1 DEF allowed, broken, moving, Held
<1>5. search = [k \in Hooks |-> Promise!Idle]
  BY <1>1, IdleHookTyped DEF search, Promise!Idle
<1> QED
  BY <1>2, <1>3, <1>4, <1>5 DEF SearchInv, Promise!Init

\* Whatever a handler, the loader and the other hooks do meanwhile, and for lists
\* of every length: a search that nobody disturbs finds what was allowed when it
\* began and nothing that is not allowed when it ends; it dies only when the list
\* has lost its memory; and the strings allowed only become more until the lists
\* are given back.
THEOREM KeepsPromiseSafely == Spec => Promise!Safety
<1>1. Inv /\ ListInv /\ HookInv /\ SearchInv /\ [Next]_vars
        => SearchInv' /\ [Promise!Next]_(Promise!vars)
  <2> SUFFICES ASSUME Inv, ListInv, HookInv, SearchInv, [Next]_vars
               PROVE  SearchInv' /\ [Promise!Next]_(Promise!vars)
    OBVIOUS
  <2>1. SearchInv' /\ (Promise!Next \/ UNCHANGED PromiseVars)
    BY SearchNext DEF Kept, Promised
  <2> QED
    BY <2>1 DEF PromiseVars, Promise!vars
<1>2. Inv /\ ListInv /\ HookInv /\ [Next]_vars => ListInv' /\ HookInv'
  BY ListNext, HookNext
<1>3. CycleInit => ListInv /\ HookInv /\ SearchInv /\ Promise!Init
  BY ListInvInit, BoundsInit, SearchInit
<1>4. Spec => []Inv
  BY InvHolds
<1> QED
  BY <1>1, <1>2, <1>3, <1>4, PTL DEF Spec, Promise!Safety

=============================================================================
