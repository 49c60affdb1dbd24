-------------------------------- MODULE Vfs --------------------------------
(***************************************************************************)
(* The virtual file system (fs/Vfs.ts) and the descriptors each client     *)
(* holds (fs/FsServer.ts): inodes under any number of names, links, what   *)
(* descriptors refer to when names come and go, and the events that tell   *)
(* watchers and the OPFS mirror what changed.                              *)
(*                                                                         *)
(* One thread; an operation is one action.  One that throws changes        *)
(* nothing and is not a step, but for mkdir -p and cp, which may throw     *)
(* half way.  What a file holds is the number of the operation that wrote  *)
(* it, 0 when it is empty.                                                 *)
(***************************************************************************)
EXTENDS Naturals, Sequences, FiniteSets, SequencesExt, FiniteSetsExt

CONSTANTS Names,    \* names of directory entries
          Clients,  \* who makes requests
          MaxDepth, \* bound: names in a path
          MaxLinks, \* MAX_SYMLINK_DEPTH
          MaxIno,   \* bound: inodes made
          MaxFds,   \* bound: descriptors open at once
          MaxOps    \* bound: operations

ASSUME VfsAssumption ==
  /\ MaxDepth \in Nat \ {0} /\ MaxLinks \in Nat \ {0}
  /\ MaxIno \in Nat \ {0} /\ MaxFds \in Nat /\ MaxOps \in Nat

VARIABLES
  nodes,   \* nodes[ino]: the inode
  nextIno, \* nextIno
  fds,     \* fds[fd]: what a descriptor refers to
  held,    \* held[c]: the descriptors client c has opened (openFds)
  clients, \* clients registered
  strayed, \* has a client closed a descriptor it had not opened? (for the properties)
  events,  \* what onChange was told by the last operation
  overflow, \* did the last operation end because the stack was full?
  ops      \* operations so far

tree == <<nodes, nextIno>>
tables == <<fds, held, clients, strayed>>
vars == <<tree, tables, events, overflow, ops>>

Root == 1
Inos == 1..MaxIno
Fds == 3..(2 + MaxFds)
Paths == UNION {[1..n -> Names] : n \in 1..MaxDepth}

Node(kind, data, target) ==
  [kind |-> kind, data |-> data, target |-> target,
   nlink |-> 1, entries |-> [n \in Names |-> 0]]
NoNode == [Node("none", 0, <<>>) EXCEPT !.nlink = 0]
NoFd == [ino |-> 0, path |-> <<>>, writable |-> FALSE]

Init ==
  /\ nodes = [i \in Inos |-> IF i = Root THEN Node("dir", 0, <<>>) ELSE NoNode]
  /\ nextIno = 2
  /\ fds = [fd \in Fds |-> NoFd]
  /\ held = [c \in Clients |-> {}]
  /\ clients = Clients /\ strayed = FALSE
  /\ events = {} /\ overflow = FALSE /\ ops = 0

-----------------------------------------------------------------------------
(* Path resolution.                                                         *)

Found(at, parent, name, node) ==
  [at EXCEPT !.out = "found", !.parent = parent, !.name = name, !.node = node,
             !.real = Append(@, name)]

\* walk's loop, once: the next component of what is left of the path.
Step(ns, at, followLast) ==
  LET part == Head(at.parts)
      rest == Tail(at.parts)
      child == ns[at.dir].entries[part]
  IN CASE at.out # "going" -> at
       [] at.out = "going" /\ at.parts = <<>> ->
            [at EXCEPT !.out = "found", !.node = at.dir,
                       !.name = IF at.real = <<>> THEN "/" ELSE Last(at.real)]
       [] OTHER ->
            IF child = 0
            THEN IF rest # <<>> THEN [at EXCEPT !.out = "ENOENT"]
                 ELSE Found(at, at.dir, part, 0)
            ELSE IF ns[child].kind = "symlink" /\ (rest # <<>> \/ followLast)
            THEN IF at.links = MaxLinks THEN [at EXCEPT !.out = "ELOOP"]
                 ELSE [at EXCEPT !.links = @ + 1, !.dir = Root, !.parent = 0,
                                 !.real = <<>>, !.parts = ns[child].target \o rest]
            ELSE IF ns[child].kind = "dir"
            THEN [at EXCEPT !.parts = rest, !.parent = at.dir, !.dir = child,
                            !.real = Append(@, part)]
            ELSE IF rest # <<>> THEN [at EXCEPT !.out = "ENOTDIR"]
            ELSE Found(at, at.dir, part, child)

AtRoot(path) ==
  [out |-> "going", dir |-> Root, parent |-> 0, name |-> "/", node |-> 0,
   real |-> <<>>, parts |-> path, links |-> 0]

\* walk: a missing last component is found with no node.  Links are absolute.
Walk(ns, path, followLast) ==
  LET last == Len(path) + MaxLinks * MaxDepth + 2
      at[n \in 0..last] == IF n = 0 THEN AtRoot(path) ELSE Step(ns, at[n - 1], followLast)
  IN at[last]

Kind(ns, ino) == IF ino = 0 THEN "none" ELSE ns[ino].kind
Children(ns, dir) == {ns[dir].entries[n] : n \in Names} \ {0}

\* Mutant: what lies beneath is not looked at.
BeneathShallow(ns, dir) == {dir}

\* contains: dir itself and the directories beneath it.
Beneath(ns, dir) ==
  LET down[k \in 0..MaxIno] ==
        IF k = 0 THEN {dir}
        ELSE down[k - 1] \cup {i \in UNION {Children(ns, d) : d \in down[k - 1]} :
                                 ns[i].kind = "dir"}
  IN down[MaxIno]

-----------------------------------------------------------------------------
(* Changes to the tree.                                                     *)

Begin == ops < MaxOps /\ ops' = ops + 1
Op == Begin /\ overflow' = FALSE

\* onChange: the path, whether bytes or names changed, and whether this is
\* all that will be said of what lies beneath.
Event(path, content, subtree) == [path |-> path, content |-> content, subtree |-> subtree]
Report(path) == events' = {Event(path, TRUE, FALSE)}

\* link_ of a new node.
Grown(ns, w, ino, node) == [ns EXCEPT ![w.parent].entries[w.name] = ino, ![ino] = node]

Create(w, node) ==
  /\ nextIno <= MaxIno
  /\ nodes' = Grown(nodes, w, nextIno, node)
  /\ nextIno' = nextIno + 1

\* unlinkEntry.
Unnamed(ns, w) == [ns EXCEPT ![w.parent].entries[w.name] = 0, ![w.node].nlink = @ - 1]

Free(w) == w.out = "found" /\ w.node = 0
There(w) == w.out = "found" /\ w.node # 0

Mkdir(path) ==
  /\ Op
  /\ LET w == Walk(nodes, path, FALSE) IN
       Free(w) /\ Create(w, Node("dir", 0, <<>>))
  /\ Report(path)
  /\ UNCHANGED tables

\* One operation that makes several nodes: what it has made so far.
Begun == [ok |-> TRUE, nodes |-> nodes, next |-> nextIno, events |-> {}]
Failed(s) == [s EXCEPT !.ok = FALSE]
Made(s, w, node, path) ==
  [s EXCEPT !.nodes = Grown(@, w, s.next, node), !.next = @ + 1,
            !.events = @ \cup {Event(path, TRUE, FALSE)}]
Done(s) == nodes' = s.nodes /\ nextIno' = s.next /\ events' = s.events

\* mkdir -p: a directory on the way, made if it is missing.
MadeDir(s, path) ==
  LET w == Walk(s.nodes, path, TRUE) IN
    IF ~s.ok \/ w.out # "found" \/ Kind(s.nodes, w.node) \notin {"none", "dir"} THEN Failed(s)
    ELSE IF w.node # 0 THEN s
    ELSE IF s.next > MaxIno THEN Failed(s)
    ELSE Made(s, w, Node("dir", 0, <<>>), path)

\* Every directory on the way, each with its event.
MkdirAll(path) ==
  /\ Op
  /\ LET after[n \in 0..Len(path)] ==
           IF n = 0 THEN Begun ELSE MadeDir(after[n - 1], SubSeq(path, 1, n))
     IN /\ after[Len(path)].events # {} \* it may fail after the first, which stays
        /\ Done(after[Len(path)])
  /\ UNCHANGED tables

WriteFile(path) ==
  /\ Op
  /\ LET w == Walk(nodes, path, TRUE) IN
       \/ Free(w) /\ Create(w, Node("file", ops', <<>>))
       \/ /\ There(w) /\ nodes[w.node].kind = "file"
          /\ nodes' = [nodes EXCEPT ![w.node].data = ops']
          /\ UNCHANGED nextIno
  /\ Report(path)
  /\ UNCHANGED tables

\* unlink, rmdir of an empty directory, rm, rm -r: what is in a directory
\* that is removed stays in it.
Rm(path, recursive) ==
  /\ Op
  /\ LET w == Walk(nodes, path, FALSE) IN
       /\ There(w)
       /\ recursive \/ nodes[w.node].kind # "dir" \/ Children(nodes, w.node) = {}
       /\ nodes' = Unnamed(nodes, w)
  /\ Report(path)
  /\ UNCHANGED <<nextIno, tables>>

\* Mutant: the old name is not mentioned.
RenameEventTo(from, to) == {Event(to, TRUE, TRUE)}

RenameEvents(from, to) == {Event(from, TRUE, TRUE), Event(to, TRUE, TRUE)}

\* May the target of a rename be replaced?
Replaceable(source, target) ==
  IF nodes[source].kind = "dir"
  THEN Kind(nodes, target) \in {"none", "dir"} /\ (target # 0 => Children(nodes, target) = {})
  ELSE Kind(nodes, target) # "dir"

Rename(from, to) ==
  /\ Op
  /\ LET s == Walk(nodes, from, FALSE)
         t == Walk(nodes, to, FALSE)
     IN /\ There(s) /\ t.out = "found" /\ t.parent # 0
        /\ t.node # s.node
        /\ nodes[s.node].kind = "dir" => t.parent \notin Beneath(nodes, s.node)
        /\ Replaceable(s.node, t.node)
        /\ LET cleared == IF t.node = 0 THEN nodes ELSE Unnamed(nodes, t) IN
             nodes' = [cleared EXCEPT ![s.parent].entries[s.name] = 0,
                                      ![t.parent].entries[t.name] = s.node]
  /\ events' = RenameEvents(from, to)
  /\ UNCHANGED <<nextIno, tables>>

Symlink(target, path) ==
  /\ Op
  /\ LET w == Walk(nodes, path, FALSE) IN Free(w) /\ Create(w, Node("symlink", 0, target))
  /\ Report(path)
  /\ UNCHANGED tables

Link(existing, path) ==
  /\ Op
  /\ LET s == Walk(nodes, existing, FALSE)
         w == Walk(nodes, path, FALSE)
     IN /\ There(s) /\ nodes[s.node].kind # "dir"
        /\ Free(w)
        /\ nodes' = [nodes EXCEPT ![s.node].nlink = @ + 1, ![w.parent].entries[w.name] = s.node]
  /\ Report(path)
  /\ UNCHANGED <<nextIno, tables>>

\* The inode a path without links leads to from dir, 0 if there is none.
Into(ns, ino, name) == IF Kind(ns, ino) = "dir" THEN ns[ino].entries[name] ELSE 0

From(ns, dir, path) ==
  LET at[n \in 0..Len(path)] == IF n = 0 THEN dir ELSE Into(ns, at[n - 1], path[n])
  IN at[Len(path)]

\* The orders in which a copy may come to n nodes, by their names from its
\* source on: each in a directory it has not left yet; which of a directory's
\* comes first is open.
Orders == [n \in 1..(MaxIno - 1) |->
  {order \in [1..n -> UNION {[1..m -> Names] : m \in 0..(n - 1)}] :
     /\ order[1] = <<>> /\ IsInjective(order)
     /\ \A k \in 2..n : order[k] # <<>> /\ IsPrefix(Front(order[k]), order[k - 1])}]

\* copyNode: a new node like ino; a file is written through a link that leads
\* nowhere.
Copied(s, ino, path) ==
  LET node == s.nodes[ino]
      w == Walk(s.nodes, path, Kind(s.nodes, ino) = "file")
  IN IF ~s.ok \/ ino = 0 \/ ~Free(w) \/ s.next > MaxIno THEN Failed(s)
     ELSE Made(s, w, Node(node.kind, node.data, node.target), path)

\* Have all the entries a directory has by now had their turn, as one of the
\* first k of order?
Finished(s, source, dir, order, k) ==
  \A name \in Names : From(s.nodes, source, Append(dir, name)) # 0 =>
                        \E j \in 1..k : order[j] = Append(dir, name)

\* cp: a new inode and an event for each node.  The entries are those of the
\* moment, so a copy into what is copied goes on until the stack is full, which
\* may be after a node is made and before it is told.
Cp(from, to) ==
  /\ Begin
  /\ There(Walk(nodes, from, FALSE)) /\ ~There(Walk(nodes, to, TRUE))
  /\ LET source == Walk(nodes, from, FALSE).node
         inside == /\ Kind(nodes, source) = "dir"
                   /\ Walk(nodes, to, FALSE).parent \in Beneath(nodes, source)
     IN \E n \in 1..(MaxIno + 1 - nextIno) : \E order \in Orders[n] :
          LET after[k \in 0..n] ==
                IF k = 0 THEN Begun
                ELSE Copied(after[k - 1], From(after[k - 1].nodes, source, order[k]),
                            to \o order[k])
          IN /\ after[n].ok
             /\ \A k \in 1..n : \A m \in 0..Len(order[k]) :
                  LET dir == SubSeq(order[k], 1, m) IN
                    (IF k = n THEN ~inside ELSE ~IsPrefix(dir, order[k + 1])) =>
                      Finished(after[k], source, dir, order, k)
             /\ nodes' = after[n].nodes /\ nextIno' = after[n].next
             /\ overflow' = inside
             /\ \/ events' = after[n].events
                \/ inside /\ events' = after[n - 1].events
  /\ UNCHANGED tables

\* chmod, utimes: watchers are told, the mirror is not.
Touch(path) ==
  /\ Op
  /\ There(Walk(nodes, path, TRUE))
  /\ events' = {Event(path, FALSE, FALSE)}
  /\ UNCHANGED <<tree, tables>>

-----------------------------------------------------------------------------
(* Descriptors.                                                             *)

FreeFds == {fd \in Fds : fds[fd] = NoFd}

\* Mutant: the number after the last one in use.
NextFd == 1 + Max({2} \cup {fd \in Fds : fds[fd] # NoFd})

\* The lowest that is free.
FreeFd == Min(FreeFds)

\* A new descriptor of client c.
Attach(c, ino, real, writable) ==
  /\ FreeFds # {}
  /\ fds' = [fds EXCEPT ![FreeFd] = [ino |-> ino, path |-> real, writable |-> writable]]
  /\ held' = [held EXCEPT ![c] = @ \cup {FreeFd}]
  /\ UNCHANGED <<clients, strayed>>

\* open without O_CREAT: r, r+ and, emptying the file without an event, w.
OpenExisting(c, path, writable, truncate) ==
  /\ Op
  /\ c \in clients
  /\ truncate => writable
  /\ LET w == Walk(nodes, path, TRUE) IN
       /\ There(w)
       /\ writable => nodes[w.node].kind # "dir"
       /\ nodes' = IF truncate THEN [nodes EXCEPT ![w.node].data = 0] ELSE nodes
       /\ Attach(c, w.node, w.real, writable)
  /\ events' = {}
  /\ UNCHANGED nextIno

\* open with O_CREAT of what is not there: the one event with a real path.
OpenNew(c, path, writable) ==
  /\ Op
  /\ c \in clients
  /\ LET w == Walk(nodes, path, TRUE) IN
       /\ Free(w)
       /\ Create(w, Node("file", 0, <<>>))
       /\ Attach(c, nextIno, w.real, writable)
       /\ Report(w.real)

\* write and ftruncate, by any client: to the file, wherever its name is now,
\* with the path it was opened by for the report.
WriteFd(fd) ==
  /\ Op
  /\ clients # {}
  /\ fds[fd].writable
  /\ \E data \in {0, ops'} : nodes' = [nodes EXCEPT ![fds[fd].ino].data = data]
  /\ Report(fds[fd].path)
  /\ UNCHANGED <<nextIno, tables>>

\* futimes.
TouchFd(fd) ==
  /\ Op
  /\ clients # {} /\ fds[fd] # NoFd
  /\ events' = {Event(fds[fd].path, FALSE, FALSE)}
  /\ UNCHANGED <<tree, tables>>

\* A client closes a descriptor, which nothing says it has opened: only its own
\* list forgets it.
Close(c, fd) ==
  /\ Op
  /\ c \in clients /\ fds[fd] # NoFd
  /\ fds' = [fds EXCEPT ![fd] = NoFd]
  /\ held' = [held EXCEPT ![c] = @ \ {fd}]
  /\ strayed' = (strayed \/ fd \notin held[c])
  /\ events' = {}
  /\ UNCHANGED <<tree, clients>>

\* Mutant: a descriptor that has been closed already ends it.
UnregisterStops(c) ==
  /\ Op
  /\ c \in clients
  /\ clients' = clients \ {c}
  /\ LET stale == \E fd \in held[c] : fds[fd] = NoFd IN
       \E closed \in SUBSET held[c] :
         /\ ~stale => closed = held[c]
         /\ fds' = [fd \in Fds |-> IF fd \in closed THEN NoFd ELSE fds[fd]]
         /\ held' = [held EXCEPT ![c] = IF stale THEN @ ELSE {}]
  /\ events' = {}
  /\ UNCHANGED <<tree, strayed>>

\* unregisterClient: what is on its list and has been closed already is skipped.
Unregister(c) ==
  /\ Op
  /\ c \in clients
  /\ clients' = clients \ {c}
  /\ fds' = [fd \in Fds |-> IF fd \in held[c] THEN NoFd ELSE fds[fd]]
  /\ held' = [held EXCEPT ![c] = {}]
  /\ events' = {}
  /\ UNCHANGED <<tree, strayed>>

Next ==
  \/ \E path \in Paths :
       \/ Mkdir(path) \/ MkdirAll(path) \/ WriteFile(path) \/ Touch(path)
       \/ \E recursive \in BOOLEAN : Rm(path, recursive)
       \/ \E other \in Paths : Rename(other, path) \/ Symlink(other, path) \/ Link(other, path)
                               \/ Cp(other, path)
       \/ \E c \in Clients, writable \in BOOLEAN :
            \/ OpenNew(c, path, writable)
            \/ \E truncate \in BOOLEAN : OpenExisting(c, path, writable, truncate)
  \/ \E fd \in Fds : WriteFd(fd) \/ TouchFd(fd) \/ \E c \in Clients : Close(c, fd)
  \/ \E c \in Clients : Unregister(c)

Spec == Init /\ [][Next]_vars

-----------------------------------------------------------------------------
(* What should be true.                                                     *)

\* Shapes and bounds; inodes are made in order and numbers are not reused.
TypeOK ==
  /\ nodes \in [Inos ->
       [kind : {"none", "file", "dir", "symlink"}, data : 0..MaxOps, target : Paths \cup {<<>>},
        nlink : 0..(MaxOps + 1), entries : [Names -> 0..MaxIno]]]
  /\ nextIno \in 2..(MaxIno + 1)
  /\ \A i \in Inos : nodes[i].kind = "none" <=> i >= nextIno
  /\ \A fd \in Fds : fds[fd] = NoFd \/ fds[fd].ino \in 1..(nextIno - 1)
  /\ held \in [Clients -> SUBSET Fds] /\ clients \subseteq Clients /\ strayed \in BOOLEAN
  /\ overflow \in BOOLEAN
  /\ ops \in 0..MaxOps

NamesOf(ns, ino) == {dn \in Inos \X Names : ns[dn[1]].entries[dn[2]] = ino}

\* The directories are a tree, in the root and in what was removed, whatever
\* is renamed into whatever: each has one name at most, and no cycle is made;
\* and nlink counts the names of an inode, those in directories that were
\* removed with what they held included (rename, contains, link, unlinkEntry).
TreeIsSound ==
  /\ \A d \in Inos : nodes[d].kind = "dir" =>
       /\ Cardinality(NamesOf(nodes, d)) <= IF d = Root THEN 0 ELSE 1
       /\ \A n \in 1..MaxIno : \A path \in [1..n -> Names] : From(nodes, d, path) # d
  /\ \A i \in Inos \ {Root} : nodes[i].nlink = Cardinality(NamesOf(nodes, i))

\* No descriptor leaks: each is on the list of a client that is registered, so
\* that it is closed at the latest when that client goes, whoever has closed
\* whatever and whatever numbers were used again.  And as long as clients close
\* only what they have opened, a list has nothing of another's and nothing that
\* is closed (OP_OPEN, OP_CLOSE, unregisterClient).
FdsAreHeld ==
  /\ \A fd \in Fds : fds[fd] # NoFd => \E c \in clients : fd \in held[c]
  /\ \A c \in Clients \ clients : held[c] = {}
  /\ ~strayed =>
       /\ \A c, d \in Clients : c # d => held[c] \cap held[d] = {}
       /\ \A c \in Clients : \A fd \in held[c] : fds[fd] # NoFd

At(ns, path) == From(ns, Root, path)

Content(ns, path) ==
  LET i == At(ns, path) IN <<Kind(ns, i), IF i = 0 THEN 0 ELSE ns[i].data,
                             IF i = 0 THEN <<>> ELSE ns[i].target>>

\* An event names a path under this or another of its names: before or after
\* the operation it walks to the same entry or to the same file, or it comes
\* from a descriptor of that file.
IsNamed(e, path) ==
  \/ \E follow \in BOOLEAN :
     \E w \in {Walk(nodes, e.path, follow), Walk(nodes', e.path, follow)} :
       \/ w.parent = At(nodes', Front(path)) /\ w.parent # 0 /\ w.name = Last(path)
       \/ w.node = At(nodes', path) /\ w.node # 0
  \/ \E fd \in Fds : fds[fd] # NoFd /\ fds[fd].path = e.path /\ fds[fd].ino = At(nodes', path)

\* Also what lies beneath it, if it says so or the path is gone.
Covers(e, path) ==
  \E n \in 1..Len(path) : /\ IsNamed(e, SubSeq(path, 1, n))
                          /\ n = Len(path) \/ e.subtree \/ At(nodes', path) = 0

\* What was there before, and has just been opened.
Truncated(path) ==
  \E fd \in Fds : fds[fd] = NoFd /\ fds'[fd] # NoFd /\ fds'[fd].ino = At(nodes, path)

\* The node a copy made last when the stack was full.
Unsaid(path) == overflow' /\ At(nodes', path) = nextIno' - 1

\* Whatever an operation changes in the tree, some event with new content names
\* it, one way or another: by this or another of its names, through links, or by
\* a name a descriptor was opened by, which it may have no more.  But for the
\* truncation that opens a file to be written, and for the last node of a copy
\* into itself (onChange).
ChangesAreReported ==
  [][\A path \in Paths :
       /\ Content(nodes', path) # Content(nodes, path)
       /\ ~Truncated(path) /\ ~Unsaid(path)
       => \E e \in events' : e.content /\ Covers(e, path)]_vars
=============================================================================
