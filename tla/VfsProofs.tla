------------------------------ MODULE VfsProofs ------------------------------
(***************************************************************************)
(* Proofs about the virtual file system, for every set of names and        *)
(* clients and every bound: the tree stays sound whatever is renamed,      *)
(* linked, copied and removed, no descriptor leaks whoever closes it, and  *)
(* every change is told under some name of what it changed.                *)
(***************************************************************************)
EXTENDS Vfs, FiniteSetTheorems, SequenceTheorems, WellFoundedInduction, TLAPS

\* A set of numbers that is not empty has a least one.
LEMMA Least ==
  ASSUME NEW T \in SUBSET Nat, T # {}
  PROVE  \E n \in T : \A m \in T : n <= m
<1> DEFINE below == {pair \in Nat \X Nat : pair[1] < pair[2]}
<1>1. IsWellFoundedOn(below, Nat)
  BY NatLessThanWellFounded DEF OpToRel
<1>2. PICK n \in T : \A m \in T : ~(<<m, n>> \in below)
  BY <1>1, WFMin
<1>3. \A m \in T : ~(m < n)
  BY <1>2
<1>4. \A m \in T : n <= m
  BY <1>3
<1> QED
  BY <1>2, <1>4

-----------------------------------------------------------------------------
(* What is computed step by step.                                           *)

\* What is in a set at first, and after a step when it was before it, is in it
\* at every step.
LEMMA StepByStep ==
  ASSUME NEW N \in Nat, NEW S, NEW f, f[0] \in S,
         \A n \in 1..N : f[n - 1] \in S => f[n] \in S
  PROVE  \A n \in 0..N : f[n] \in S
<1> DEFINE bad == {n \in 0..N : f[n] \notin S}
<1>1. SUFFICES ASSUME bad # {} PROVE FALSE
  OBVIOUS
<1>2. PICK n \in bad : \A m \in bad : n <= m
  <2>1. bad \in SUBSET Nat
    OBVIOUS
  <2> HIDE DEF bad
  <2> QED
    BY <1>1, <2>1, Least
<1>3. n \in 1..N /\ n - 1 \in 0..N /\ n - 1 \notin bad
  BY <1>2
<1> QED
  BY <1>2, <1>3

\* f starts with b, and goes on as the functions F[n] say.
Iterates(f, N, S, b, F) ==
  /\ f \in [0..N -> S]
  /\ f[0] = b
  /\ \A n \in 1..N : f[n] = F[n][f[n - 1]]

\* A function on a set can be applied again and again: what a recursive
\* definition over 0..N asks for exists.
LEMMA Iteration ==
  ASSUME NEW N \in Nat, NEW S, NEW b \in S, NEW F \in [1..N -> [S -> S]]
  PROVE  \E f : Iterates(f, N, S, b, F)
<1> DEFINE Upto(n, f) == f[0] = b /\ \A k \in 1..n : f[k] = F[k][f[k - 1]]
           bad == {n \in 0..N : ~\E f \in [0..n -> S] : Upto(n, f)}
<1>1. 0 \notin bad
  <2> DEFINE f == [k \in 0..0 |-> b]
  <2>1. f \in [0..0 -> S] /\ Upto(0, f)
    OBVIOUS
  <2> QED
    BY <2>1
<1>2. ASSUME NEW n \in 1..N, n - 1 \notin bad
      PROVE  n \notin bad
  <2>1. n - 1 \in 0..N
    OBVIOUS
  <2>2. PICK f \in [0..(n - 1) -> S] : Upto(n - 1, f)
    BY <1>2, <2>1
  <2> DEFINE g == [k \in 0..n |-> IF k = n THEN F[n][f[n - 1]] ELSE f[k]]
  <2>3. f[n - 1] \in S /\ F[n][f[n - 1]] \in S
    BY <2>2
  <2>4. g \in [0..n -> S]
    BY <2>2, <2>3
  <2>5. g[0] = b
    BY <2>2
  <2>6. ASSUME NEW k \in 1..n PROVE g[k] = F[k][g[k - 1]]
    <3>1. CASE k = n
      BY <3>1
    <3>2. CASE k # n
      <4>1. k \in 1..(n - 1) /\ k - 1 \in 0..(n - 1) /\ k - 1 # n /\ k \in 0..n /\ k - 1 \in 0..n
        BY <3>2
      <4> QED
        BY <2>2, <3>2, <4>1
    <3> QED
      BY <3>1, <3>2
  <2>7. Upto(n, g)
    BY <2>5, <2>6
  <2> QED
    BY <2>4, <2>7
<1>3. bad = {}
  <2> SUFFICES ASSUME bad # {} PROVE FALSE
    OBVIOUS
  <2>1. PICK n \in bad : \A m \in bad : n <= m
    <3>1. bad \in SUBSET Nat
      OBVIOUS
    <3> HIDE DEF bad
    <3> QED
      BY <3>1, Least
  <2>2. n \in 1..N /\ n - 1 \notin bad
    <3> HIDE DEF Upto
    <3>1. n \in 0..N /\ n # 0
      BY <1>1
    <3> QED
      BY <2>1, <3>1
  <2> QED
    BY <1>2, <2>1, <2>2
<1>4. N \notin bad
  BY <1>3
<1> QED
  BY <1>4 DEF Iterates

-----------------------------------------------------------------------------
(* The tree.                                                                *)

Nodes(k) ==
  [kind : {"none", "file", "dir", "symlink"}, data : 0..k, target : Paths \cup {<<>>},
   nlink : 0..(k + 1), entries : [Names -> 0..MaxIno]]

Dirs(ns) == {i \in Inos : ns[i].kind = "dir"}

\* Entries are in directories, and what they name has been made and is not the
\* root.
Filled(ns, next) ==
  \A i \in Inos : \A n \in Names :
    ns[i].entries[n] # 0 =>
      ns[i].kind = "dir" /\ ns[i].entries[n] \in Inos \ {Root} /\ ns[i].entries[n] < next

Counted(ns) ==
  \A i \in Inos : /\ IsFiniteSet(NamesOf(ns, i))
                  /\ i # Root => ns[i].nlink = Cardinality(NamesOf(ns, i))

OneName(ns) == \A i \in Dirs(ns) : \A x, y \in NamesOf(ns, i) : x = y

\* Whatever directories one takes, one of them is in none of the others, nor in
\* itself.
Acyclic(ns) ==
  \A D \in SUBSET Dirs(ns) : D # {} => \E d \in D : \A e \in D : d \notin Children(ns, e)

Shaped(ns, next, k) ==
  /\ ns \in [Inos -> Nodes(k)]
  /\ next \in 2..(MaxIno + 1)
  /\ \A i \in Inos : ns[i].kind = "none" <=> i >= next
  /\ ns[Root].kind = "dir"
  /\ \A i \in Inos : ns[i].kind = "symlink" => ns[i].target \in Paths
  /\ Filled(ns, next)

\* The tree after k operations.
IsTree(ns, next, k) == Shaped(ns, next, k) /\ Counted(ns) /\ OneName(ns) /\ Acyclic(ns)

\* Paths are sequences of names.
LEMMA PathsAreSeqs ==
  ASSUME NEW path \in Paths
  PROVE  path \in Seq(Names) /\ path # <<>>
<1>1. PICK n \in 1..MaxDepth : path \in [1..n -> Names]
  BY DEF Paths
<1> QED
  BY <1>1, VfsAssumption

\* The fields of an inode.
LEMMA NodeFields ==
  ASSUME NEW ns, NEW next, NEW k \in Nat, Shaped(ns, next, k), NEW i \in Inos
  PROVE  /\ ns[i].kind \in {"none", "file", "dir", "symlink"}
         /\ ns[i].data \in 0..k /\ ns[i].nlink \in 0..(k + 1)
         /\ ns[i].target \in Paths \cup {<<>>}
         /\ ns[i].entries \in [Names -> 0..MaxIno]
         /\ ns[i] \in Nodes(k)
BY DEF Shaped, Nodes

-----------------------------------------------------------------------------
(* Walking down the tree.                                                   *)

\* What a walk of a sound tree can be in the midst of: it is in a directory
\* that its parent lists under the last name, the parent being one itself; what
\* it has found is what is listed under the name it gives.
Walking(ns) ==
  {at \in [out : {"going", "found", "ENOENT", "ELOOP", "ENOTDIR"},
           dir : Inos, parent : 0..MaxIno, name : Names \cup {"/"}, node : 0..MaxIno,
           real : Seq(Names), parts : Seq(Names), links : Nat] :
     /\ ns[at.dir].kind = "dir"
     /\ at.out = "going" =>
          IF at.parent = 0 THEN at.parts # <<>>
          ELSE /\ at.real # <<>> /\ ns[at.parent].kind = "dir"
               /\ ns[at.parent].entries[Last(at.real)] = at.dir
     /\ at.out = "found" =>
          /\ at.parent # 0 /\ ns[at.parent].kind = "dir" /\ at.name \in Names
          /\ at.node = ns[at.parent].entries[at.name]}

\* How to tell that something is such a place.
LEMMA InWalking ==
  ASSUME NEW ns, NEW out \in {"going", "found", "ENOENT", "ELOOP", "ENOTDIR"},
         NEW dir \in Inos, NEW parent \in 0..MaxIno, NEW name \in Names \cup {"/"},
         NEW node \in 0..MaxIno, NEW real \in Seq(Names), NEW parts \in Seq(Names),
         NEW links \in Nat,
         ns[dir].kind = "dir",
         out = "going" =>
           IF parent = 0 THEN parts # <<>>
           ELSE /\ real # <<>> /\ ns[parent].kind = "dir"
                /\ ns[parent].entries[Last(real)] = dir,
         out = "found" =>
           /\ parent # 0 /\ ns[parent].kind = "dir" /\ name \in Names
           /\ node = ns[parent].entries[name]
  PROVE  [out |-> out, dir |-> dir, parent |-> parent, name |-> name, node |-> node,
          real |-> real, parts |-> parts, links |-> links] \in Walking(ns)
BY Zenon DEF Walking

\* And what it says.
LEMMA WalkingFields ==
  ASSUME NEW ns, NEW at \in Walking(ns)
  PROVE  \E out \in {"going", "found", "ENOENT", "ELOOP", "ENOTDIR"},
            dir \in Inos, parent \in 0..MaxIno, name \in Names \cup {"/"},
            node \in 0..MaxIno, real \in Seq(Names), parts \in Seq(Names), links \in Nat :
         /\ at = [out |-> out, dir |-> dir, parent |-> parent, name |-> name, node |-> node,
                  real |-> real, parts |-> parts, links |-> links]
         /\ ns[dir].kind = "dir"
         /\ out = "going" =>
              IF parent = 0 THEN parts # <<>>
              ELSE /\ real # <<>> /\ ns[parent].kind = "dir"
                   /\ ns[parent].entries[Last(real)] = dir
         /\ out = "found" =>
              /\ parent # 0 /\ ns[parent].kind = "dir" /\ name \in Names
              /\ node = ns[parent].entries[name]
<1>1. at = [out |-> at.out, dir |-> at.dir, parent |-> at.parent, name |-> at.name,
            node |-> at.node, real |-> at.real, parts |-> at.parts, links |-> at.links]
  BY DEF Walking
<1> QED
  BY <1>1 DEF Walking

\* A step of a walk leads to another such place.
LEMMA StepWalks ==
  ASSUME NEW ns, NEW next, NEW k \in Nat, Shaped(ns, next, k),
         NEW at \in Walking(ns), NEW follow \in BOOLEAN
  PROVE  Step(ns, at, follow) \in Walking(ns)
<1>1. PICK out \in {"going", "found", "ENOENT", "ELOOP", "ENOTDIR"},
           dir \in Inos, parent \in 0..MaxIno, name \in Names \cup {"/"},
           node \in 0..MaxIno, real \in Seq(Names), parts \in Seq(Names), links \in Nat :
        /\ at = [out |-> out, dir |-> dir, parent |-> parent, name |-> name, node |-> node,
                 real |-> real, parts |-> parts, links |-> links]
        /\ ns[dir].kind = "dir"
        /\ out = "going" =>
             IF parent = 0 THEN parts # <<>>
             ELSE /\ real # <<>> /\ ns[parent].kind = "dir"
                  /\ ns[parent].entries[Last(real)] = dir
        /\ out = "found" =>
             /\ parent # 0 /\ ns[parent].kind = "dir" /\ name \in Names
             /\ node = ns[parent].entries[name]
  BY WalkingFields
<1> DEFINE Place(o, d, p, m, i, r, q, l) ==
             [out |-> o, dir |-> d, parent |-> p, name |-> m, node |-> i,
              real |-> r, parts |-> q, links |-> l]
<1>2. /\ at.out = out /\ at.dir = dir /\ at.parent = parent /\ at.name = name
      /\ at.node = node /\ at.real = real /\ at.parts = parts /\ at.links = links
  BY <1>1
<1>3. dir \in 0..MaxIno /\ dir # 0 /\ 0 \in 0..MaxIno
  BY VfsAssumption DEF Inos
<1>4. CASE out # "going"
  BY <1>2, <1>4 DEF Step
<1>5. CASE out = "going" /\ parts = <<>>
  <2>1. parent # 0 /\ real # <<>>
    BY <1>1, <1>5
  <2>2. Last(real) \in Names
    BY <2>1 DEF Last
  <2>3. Step(ns, at, follow)
          = [at EXCEPT !.out = "found", !.node = dir, !.name = Last(real)]
    BY <1>2, <1>5, <2>1 DEF Step
  <2>4. Step(ns, at, follow) = Place("found", dir, parent, Last(real), dir, real, parts, links)
    BY <1>1, <2>3
  <2> HIDE DEF Place
  <2>5. Place("found", dir, parent, Last(real), dir, real, parts, links) \in Walking(ns)
    BY <1>1, <1>3, <1>5, <2>1, <2>2, InWalking DEF Place
  <2> QED
    BY <2>4, <2>5
<1>6. CASE out = "going" /\ parts # <<>>
  <2>1. PICK part \in Names, rest \in Seq(Names) : part = Head(parts) /\ rest = Tail(parts)
    <3>1. Head(parts) \in Names /\ Tail(parts) \in Seq(Names)
      BY <1>6
    <3> QED
      BY <3>1
  <2>2. ns[dir].entries \in [Names -> 0..MaxIno]
    BY NodeFields
  <2>3. PICK child \in 0..MaxIno : child = ns[dir].entries[part]
    BY <2>2
  <2>4. child # 0 => child \in Inos /\ child # Root
    BY <2>3 DEF Shaped, Filled, Inos, Root
  <2>5. PICK more \in Seq(Names) : more = Append(real, part) /\ more # <<>> /\ Last(more) = part
    <3>1. Append(real, part) \in Seq(Names) /\ Append(real, part) # <<>>
          /\ Len(Append(real, part)) = Len(real) + 1
          /\ Append(real, part)[Len(real) + 1] = part
      OBVIOUS
    <3> QED
      BY <3>1 DEF Last
  <2> DEFINE onward == ns[child].kind = "symlink" /\ (rest # <<>> \/ follow)
  <2> HIDE DEF Place
  <2>6. CASE child = 0 /\ rest # <<>>
    <3>1. Step(ns, at, follow) = [at EXCEPT !.out = "ENOENT"]
      BY <1>2, <1>6, <2>1, <2>3, <2>6 DEF Step
    <3>2. Step(ns, at, follow) = Place("ENOENT", dir, parent, name, node, real, parts, links)
      BY <1>1, <3>1 DEF Place
    <3>3. Place("ENOENT", dir, parent, name, node, real, parts, links) \in Walking(ns)
      BY <1>1, InWalking DEF Place
    <3> QED
      BY <3>2, <3>3
  <2>7. CASE child = 0 /\ rest = <<>>
    <3>1. Step(ns, at, follow) = Found(at, dir, part, 0)
      BY <1>2, <1>6, <2>1, <2>3, <2>7 DEF Step
    <3>2. Step(ns, at, follow) = Place("found", dir, dir, part, 0, more, parts, links)
      BY <1>1, <2>5, <3>1 DEF Place, Found
    <3>3. Place("found", dir, dir, part, 0, more, parts, links) \in Walking(ns)
      BY <1>1, <1>3, <2>3, <2>5, <2>7, InWalking DEF Place
    <3> QED
      BY <3>2, <3>3
  <2>8. CASE child # 0 /\ onward /\ links = MaxLinks
    <3>1. Step(ns, at, follow) = [at EXCEPT !.out = "ELOOP"]
      BY <1>2, <1>6, <2>1, <2>3, <2>8 DEF Step
    <3>2. Step(ns, at, follow) = Place("ELOOP", dir, parent, name, node, real, parts, links)
      BY <1>1, <3>1 DEF Place
    <3>3. Place("ELOOP", dir, parent, name, node, real, parts, links) \in Walking(ns)
      BY <1>1, InWalking DEF Place
    <3> QED
      BY <3>2, <3>3
  <2>9. CASE child # 0 /\ onward /\ links # MaxLinks
    <3>1. Step(ns, at, follow)
            = [at EXCEPT !.links = @ + 1, !.dir = Root, !.parent = 0,
                         !.real = <<>>, !.parts = ns[child].target \o rest]
      BY <1>2, <1>6, <2>1, <2>3, <2>9 DEF Step
    <3>2. PICK t \in Seq(Names) : t = ns[child].target /\ t # <<>>
      BY <2>4, <2>9, PathsAreSeqs DEF Shaped
    <3>3. PICK ahead \in Seq(Names) : ahead = t \o rest /\ ahead # <<>>
      <4>1. t \o rest \in Seq(Names) /\ Len(t \o rest) = Len(t) + Len(rest) /\ Len(t) # 0
        BY <3>2
      <4>2. t \o rest # <<>>
        BY <4>1
      <4> QED
        BY <4>1, <4>2
    <3>4. Root \in Inos /\ ns[Root].kind = "dir" /\ <<>> \in Seq(Names)
      BY VfsAssumption DEF Root, Inos, Shaped
    <3>5. Step(ns, at, follow) = Place("going", Root, 0, name, node, <<>>, ahead, links + 1)
      BY <1>1, <1>6, <3>1, <3>2, <3>3 DEF Place
    <3>6. links + 1 \in Nat
      OBVIOUS
    <3>7. Place("going", Root, 0, name, node, <<>>, ahead, links + 1) \in Walking(ns)
      BY <1>3, <3>3, <3>4, <3>6, InWalking DEF Place
    <3> QED
      BY <3>5, <3>7
  <2>10. CASE child # 0 /\ ns[child].kind = "dir"
    <3>1. Step(ns, at, follow)
            = [at EXCEPT !.parts = rest, !.parent = dir, !.dir = child, !.real = more]
      BY <1>2, <1>6, <2>1, <2>3, <2>5, <2>10 DEF Step
    <3>2. Step(ns, at, follow) = Place("going", child, dir, name, node, more, rest, links)
      BY <1>1, <1>6, <3>1 DEF Place
    <3>3. Place("going", child, dir, name, node, more, rest, links) \in Walking(ns)
      BY <1>1, <1>3, <2>3, <2>4, <2>5, <2>10, InWalking DEF Place
    <3> QED
      BY <3>2, <3>3
  <2>11. CASE child # 0 /\ ns[child].kind # "dir" /\ ~onward /\ rest # <<>>
    <3>1. Step(ns, at, follow) = [at EXCEPT !.out = "ENOTDIR"]
      BY <1>2, <1>6, <2>1, <2>3, <2>11 DEF Step
    <3>2. Step(ns, at, follow) = Place("ENOTDIR", dir, parent, name, node, real, parts, links)
      BY <1>1, <3>1 DEF Place
    <3>3. Place("ENOTDIR", dir, parent, name, node, real, parts, links) \in Walking(ns)
      BY <1>1, InWalking DEF Place
    <3> QED
      BY <3>2, <3>3
  <2>12. CASE child # 0 /\ ns[child].kind # "dir" /\ ~onward /\ rest = <<>>
    <3>1. Step(ns, at, follow) = Found(at, dir, part, child)
      BY <1>2, <1>6, <2>1, <2>3, <2>12 DEF Step
    <3>2. Step(ns, at, follow) = Place("found", dir, dir, part, child, more, parts, links)
      BY <1>1, <2>5, <3>1 DEF Place, Found
    <3>3. Place("found", dir, dir, part, child, more, parts, links) \in Walking(ns)
      BY <1>1, <1>3, <2>3, <2>5, InWalking DEF Place
    <3> QED
      BY <3>2, <3>3
  <2> QED
    BY <2>6, <2>7, <2>8, <2>9, <2>10, <2>11, <2>12
<1> QED
  BY <1>4, <1>5, <1>6

LastStep(path) == Len(path) + MaxLinks * MaxDepth + 2

\* f is the walk that Walk defines.
Walks(f, ns, path, follow) ==
  f = [n \in 0..LastStep(path) |-> IF n = 0 THEN AtRoot(path) ELSE Step(ns, f[n - 1], follow)]

\* In a sound tree it exists, and all of it is as described.
LEMMA WalkExists ==
  ASSUME NEW ns, NEW next, NEW k \in Nat, Shaped(ns, next, k),
         NEW path \in Seq(Names), path # <<>>, NEW follow \in BOOLEAN
  PROVE  /\ LastStep(path) \in Nat
         /\ \E f : Walks(f, ns, path, follow) /\ Walk(ns, path, follow) = f[LastStep(path)]
         /\ \A f : Walks(f, ns, path, follow) => \A n \in 0..LastStep(path) : f[n] \in Walking(ns)
<1> DEFINE N == LastStep(path)
           S == Walking(ns)
<1>1. N \in Nat
  <2>1. MaxLinks * MaxDepth \in Nat
    BY VfsAssumption
  <2> QED
    BY <2>1 DEF LastStep
<1>2. AtRoot(path) \in S
  BY VfsAssumption DEF Walking, AtRoot, Shaped, Root, Inos
<1>3. \A at \in S : Step(ns, at, follow) \in S
  BY StepWalks
<1> HIDE DEF N, S
<1>4. \E f : f = [n \in 0..N |-> IF n = 0 THEN AtRoot(path) ELSE Step(ns, f[n - 1], follow)]
  <2> DEFINE F == [n \in 1..N |-> [at \in S |-> Step(ns, at, follow)]]
  <2>1. F \in [1..N -> [S -> S]]
    BY <1>3
  <2> HIDE DEF F
  <2>2. PICK f : Iterates(f, N, S, AtRoot(path), F)
    BY <1>1, <1>2, <2>1, Iteration
  <2>3. \A n \in 1..N : f[n] = Step(ns, f[n - 1], follow)
    <3> SUFFICES ASSUME NEW n \in 1..N PROVE f[n] = Step(ns, f[n - 1], follow)
      OBVIOUS
    <3>1. n - 1 \in 0..N
      BY <1>1
    <3>2. f[n - 1] \in S
      BY <2>2, <3>1 DEF Iterates
    <3> QED
      BY <2>2, <3>2 DEF F, Iterates
  <2>4. f = [n \in 0..N |-> IF n = 0 THEN AtRoot(path) ELSE Step(ns, f[n - 1], follow)]
    BY <1>1, <2>2, <2>3 DEF Iterates
  <2> QED
    BY <2>4
<1>5. \E f : Walks(f, ns, path, follow) /\ Walk(ns, path, follow) = f[LastStep(path)]
  <2> DEFINE f == CHOOSE g : Walks(g, ns, path, follow)
  <2>1. Walks(f, ns, path, follow)
    BY <1>4 DEF Walks, N
  <2>2. Walk(ns, path, follow) = f[LastStep(path)]
    BY DEF Walk, Walks, LastStep
  <2> QED
    BY <2>1, <2>2
<1>6. ASSUME NEW f, Walks(f, ns, path, follow)
      PROVE  \A n \in 0..N : f[n] \in S
  <2>1. f = [n \in 0..N |-> IF n = 0 THEN AtRoot(path) ELSE Step(ns, f[n - 1], follow)]
    BY <1>6 DEF Walks, N
  <2>2. f[0] = AtRoot(path)
    BY <1>1, <2>1
  <2>3. \A n \in 1..N : f[n] = Step(ns, f[n - 1], follow)
    BY <1>1, <2>1
  <2> QED
    BY <1>1, <1>2, <1>3, <2>2, <2>3, StepByStep
<1> QED
  BY <1>1, <1>5, <1>6 DEF N, S

\* What a walk of a sound tree ends with.
LEMMA WalkEnds ==
  ASSUME NEW ns, NEW next, NEW k \in Nat, Shaped(ns, next, k),
         NEW path \in Seq(Names), path # <<>>, NEW follow \in BOOLEAN
  PROVE  /\ Walk(ns, path, follow) \in Walking(ns)
         /\ Walk(ns, path, follow).out = "found" =>
              LET w == Walk(ns, path, follow) IN
                /\ w.parent \in Dirs(ns) /\ w.name \in Names
                /\ w.node = ns[w.parent].entries[w.name]
                /\ w.node \in 0..MaxIno
                /\ w.real \in Seq(Names)
                /\ w.node # 0 => w.node \in Inos \ {Root} /\ w.node < next
<1>1. PICK f : Walks(f, ns, path, follow) /\ Walk(ns, path, follow) = f[LastStep(path)]
  BY WalkExists
<1>2. LastStep(path) \in 0..LastStep(path)
  BY WalkExists
<1>3. Walk(ns, path, follow) \in Walking(ns)
  BY <1>1, <1>2, WalkExists
<1>4. PICK w \in Walking(ns) : w = Walk(ns, path, follow)
  BY <1>3
<1>5. ASSUME w.out = "found"
      PROVE  /\ w.parent \in Dirs(ns) /\ w.name \in Names
             /\ w.node = ns[w.parent].entries[w.name]
             /\ w.node \in 0..MaxIno
             /\ w.real \in Seq(Names)
             /\ w.node # 0 => w.node \in Inos \ {Root} /\ w.node < next
  <2>1. /\ w.parent \in Dirs(ns) /\ w.name \in Names
        /\ w.node = ns[w.parent].entries[w.name]
        /\ w.node \in 0..MaxIno
        /\ w.real \in Seq(Names)
    BY <1>5 DEF Walking, Dirs, Inos
  <2>2. w.node # 0 => w.node \in Inos \ {Root} /\ w.node < next
    BY <2>1 DEF Shaped, Filled, Dirs, Inos
  <2> QED
    BY <2>1, <2>2
<1> QED
  BY <1>3, <1>4, <1>5

-----------------------------------------------------------------------------
(* What the operations do to a sound tree.                                  *)

\* No cycle comes of directories that are in no more directories than before.
LEMMA FewerChildren ==
  ASSUME NEW ns, NEW new, Acyclic(ns), Dirs(new) = Dirs(ns),
         \A d, e \in Dirs(ns) : d \in Children(new, e) => d \in Children(ns, e)
  PROVE  Acyclic(new)
<1> SUFFICES ASSUME NEW D \in SUBSET Dirs(new), D # {}
             PROVE  \E d \in D : \A e \in D : d \notin Children(new, e)
  BY DEF Acyclic
<1>1. PICK d \in D : \A e \in D : d \notin Children(ns, e)
  BY DEF Acyclic
<1> QED
  BY <1>1

\* No entry but one has changed.
ButOne(new, ns, d, name) ==
  \A i \in Inos, n \in Names :
    ~(i = d /\ n = name) => new[i].entries[n] = ns[i].entries[n]

\* Nothing else has changed about the names of an inode.
LEMMA NamesBut ==
  ASSUME NEW ns, NEW new, NEW d \in Inos, NEW name \in Names,
         ButOne(new, ns, d, name), NEW i
  PROVE  NamesOf(new, i) \ {<<d, name>>} = NamesOf(ns, i) \ {<<d, name>>}
<1>1. ASSUME NEW x \in Inos \X Names, x # <<d, name>>
      PROVE  new[x[1]].entries[x[2]] = ns[x[1]].entries[x[2]]
  <2>1. x[1] \in Inos /\ x[2] \in Names /\ ~(x[1] = d /\ x[2] = name)
    BY <1>1
  <2> QED
    BY <2>1 DEF ButOne
<1> QED
  BY <1>1 DEF NamesOf

\* Is this a name of it?
LEMMA NamesHave ==
  ASSUME NEW ns, NEW d \in Inos, NEW name \in Names, NEW i
  PROVE  <<d, name>> \in NamesOf(ns, i) <=> ns[d].entries[name] = i
<1>1. <<d, name>> \in Inos \X Names
  OBVIOUS
<1> QED
  BY <1>1 DEF NamesOf

\* One name more.
LEMMA NamesMore ==
  ASSUME NEW ns, NEW new, NEW d \in Inos, NEW name \in Names,
         ButOne(new, ns, d, name), NEW i, new[d].entries[name] = i
  PROVE  NamesOf(new, i) = NamesOf(ns, i) \cup {<<d, name>>}
<1>1. <<d, name>> \in NamesOf(new, i)
  BY NamesHave
<1>2. NamesOf(new, i) \ {<<d, name>>} = NamesOf(ns, i) \ {<<d, name>>}
  BY NamesBut
<1> QED
  BY <1>1, <1>2

\* One name less.
LEMMA NamesLess ==
  ASSUME NEW ns, NEW new, NEW d \in Inos, NEW name \in Names,
         ButOne(new, ns, d, name), NEW i, new[d].entries[name] # i
  PROVE  NamesOf(new, i) = NamesOf(ns, i) \ {<<d, name>>}
<1>1. <<d, name>> \notin NamesOf(new, i)
  BY NamesHave
<1>2. NamesOf(new, i) \ {<<d, name>>} = NamesOf(ns, i) \ {<<d, name>>}
  BY NamesBut
<1> QED
  BY <1>1, <1>2

\* The same names.
LEMMA NamesSame ==
  ASSUME NEW ns, NEW new, NEW d \in Inos, NEW name \in Names,
         ButOne(new, ns, d, name), NEW i, new[d].entries[name] # i, ns[d].entries[name] # i
  PROVE  NamesOf(new, i) = NamesOf(ns, i)
<1>1. <<d, name>> \notin NamesOf(new, i)
  BY NamesHave
<1>2. <<d, name>> \notin NamesOf(ns, i)
  BY NamesHave
<1>3. NamesOf(new, i) \ {<<d, name>>} = NamesOf(ns, i) \ {<<d, name>>}
  BY NamesBut
<1> QED
  BY <1>1, <1>2, <1>3

\* A name for what had none, or one for what has some, keeps the count.
LEMMA CountMore ==
  ASSUME NEW T, IsFiniteSet(T), NEW x, x \notin T
  PROVE  /\ IsFiniteSet(T \cup {x}) /\ Cardinality(T) \in Nat
         /\ Cardinality(T \cup {x}) = Cardinality(T) + 1
BY FS_AddElement, FS_CardinalityType

\* So does a name less.
LEMMA CountLess ==
  ASSUME NEW T, IsFiniteSet(T), NEW x, x \in T
  PROVE  /\ IsFiniteSet(T \ {x}) /\ Cardinality(T) \in Nat /\ Cardinality(T \ {x}) \in Nat
         /\ Cardinality(T \ {x}) = Cardinality(T) - 1
<1>1. IsFiniteSet(T \ {x}) /\ Cardinality(T \ {x}) = Cardinality(T) - 1
  BY FS_RemoveElement
<1> QED
  BY <1>1, FS_CardinalityType

-----------------------------------------------------------------------------
(* A new node.                                                              *)

\* What linking a new node does, field by field.
GrowsTo(new, ns, d, name, next, node, k) ==
  /\ new \in [Inos -> Nodes(k)]
  /\ new[next] = node
  /\ \A i \in Inos \ {next} : /\ new[i].kind = ns[i].kind /\ new[i].nlink = ns[i].nlink
                              /\ new[i].target = ns[i].target /\ new[i].data = ns[i].data
  /\ new[d].entries[name] = next
  /\ ButOne(new, ns, d, name)

\* The model's update is that.
LEMMA GrownIs ==
  ASSUME NEW ns, NEW next, NEW k \in Nat, Shaped(ns, next, k), next <= MaxIno,
         NEW d \in Dirs(ns), NEW name \in Names,
         NEW node \in Nodes(k),
         \A n \in Names : node.entries[n] = 0,
         NEW new, new = [ns EXCEPT ![d].entries[name] = next, ![next] = node]
  PROVE  GrowsTo(new, ns, d, name, next, node, k)
<1>1. /\ next \in Inos /\ d \in Inos /\ d # next
      /\ ns[next].kind = "none" /\ ns[d].kind = "dir" /\ next \in 0..MaxIno
  BY VfsAssumption DEF Shaped, Dirs, Inos
<1>2. \A n \in Names : ns[next].entries[n] = 0
  BY <1>1 DEF Shaped, Filled
<1>3. ns \in [Inos -> Nodes(k)] /\ ns[d].entries \in [Names -> 0..MaxIno]
  BY <1>1, NodeFields DEF Shaped
<1>4. /\ DOMAIN new = Inos
      /\ new[next] = node
      /\ \A i \in Inos : i # next /\ i # d => new[i] = ns[i]
      /\ new[d] = [ns[d] EXCEPT !.entries = [@ EXCEPT ![name] = next]]
      /\ new = [i \in Inos |-> new[i]]
  BY <1>1, <1>3
<1>5. /\ new[d] \in Nodes(k) /\ new[d].kind = "dir" /\ new[d].nlink = ns[d].nlink
      /\ new[d].target = ns[d].target /\ new[d].data = ns[d].data
      /\ new[d].entries[name] = next
      /\ \A n \in Names : n # name => new[d].entries[n] = ns[d].entries[n]
  <2>1. ns[d] \in Nodes(k)
    BY <1>1, <1>3
  <2>2. [ns[d].entries EXCEPT ![name] = next] \in [Names -> 0..MaxIno]
    BY <1>1, <1>3
  <2> QED
    BY <1>1, <1>3, <1>4, <2>1, <2>2 DEF Nodes
<1>6. new \in [Inos -> Nodes(k)]
  BY <1>3, <1>4, <1>5
<1>7. \A i \in Inos \ {next} : /\ new[i].kind = ns[i].kind /\ new[i].nlink = ns[i].nlink
                               /\ new[i].target = ns[i].target /\ new[i].data = ns[i].data
  BY <1>1, <1>4, <1>5
<1>8. \A i \in Inos, n \in Names :
        ~(i = d /\ n = name) => new[i].entries[n] = ns[i].entries[n]
  <2> SUFFICES ASSUME NEW i \in Inos, NEW n \in Names, ~(i = d /\ n = name)
               PROVE  new[i].entries[n] = ns[i].entries[n]
    OBVIOUS
  <2>1. CASE i = next
    BY <1>2, <1>4, <2>1
  <2>2. CASE i = d
    BY <1>5, <2>2
  <2>3. CASE i # next /\ i # d
    BY <1>4, <2>3
  <2> QED
    BY <2>1, <2>2, <2>3
<1> QED
  BY <1>4, <1>5, <1>6, <1>7, <1>8 DEF GrowsTo, ButOne

\* A new node under a name that was free.
LEMMA GrownKeeps ==
  ASSUME NEW ns, NEW next, NEW k \in Nat, IsTree(ns, next, k), next <= MaxIno,
         NEW d \in Dirs(ns), NEW name \in Names, ns[d].entries[name] = 0,
         NEW node \in Nodes(k), node.kind # "none", node.nlink = 1,
         node.kind = "symlink" => node.target \in Paths,
         \A n \in Names : node.entries[n] = 0,
         NEW new, GrowsTo(new, ns, d, name, next, node, k)
  PROVE  IsTree(new, next + 1, k)
<1>1. /\ next \in Inos /\ next # Root /\ d \in Inos /\ d # next /\ Root \in Inos
      /\ ns[next].kind = "none" /\ ns[d].kind = "dir" /\ next \in Nat /\ 2 <= next
      /\ next # 0
  BY VfsAssumption DEF IsTree, Shaped, Dirs, Inos, Root
<1>2. \A i \in Inos, n \in Names : ns[i].entries[n] # next
  <2> SUFFICES ASSUME NEW i \in Inos, NEW n \in Names, ns[i].entries[n] = next PROVE FALSE
    OBVIOUS
  <2>1. ns[i].entries[n] < next
    BY <1>1 DEF IsTree, Shaped, Filled
  <2> QED
    BY <1>1, <2>1
<1>3. \A n \in Names : ns[next].entries[n] = 0
  BY <1>1 DEF IsTree, Shaped, Filled
<1>4. /\ new \in [Inos -> Nodes(k)]
      /\ new[next] = node
      /\ \A i \in Inos \ {next} : /\ new[i].kind = ns[i].kind /\ new[i].nlink = ns[i].nlink
                                  /\ new[i].target = ns[i].target
      /\ new[d].entries[name] = next
      /\ \A i \in Inos, n \in Names :
           ~(i = d /\ n = name) => new[i].entries[n] = ns[i].entries[n]
      /\ ButOne(new, ns, d, name)
  BY DEF GrowsTo, ButOne
<1>9. Shaped(new, next + 1, k)
  <2>1. next + 1 \in 2..(MaxIno + 1)
    BY <1>1, VfsAssumption
  <2>2. ASSUME NEW i \in Inos
        PROVE  /\ new[i].kind = "none" <=> i >= next + 1
               /\ new[i].kind = "symlink" => new[i].target \in Paths
    <3>1. CASE i = next
      BY <1>1, <1>4, <3>1
    <3>2. CASE i # next
      BY <1>1, <1>4, <3>2 DEF IsTree, Shaped, Inos
    <3> QED
      BY <3>1, <3>2
  <2>3. new[Root].kind = "dir"
    BY <1>1, <1>4 DEF IsTree, Shaped
  <2>5. ASSUME NEW i \in Inos, NEW n \in Names, new[i].entries[n] # 0
        PROVE  /\ new[i].kind = "dir"
               /\ new[i].entries[n] \in Inos \ {Root} /\ new[i].entries[n] < next + 1
    <3>1. CASE i = d /\ n = name
      BY <1>1, <1>4, <3>1
    <3>2. CASE ~(i = d /\ n = name)
      <4>1. ns[i].entries[n] # 0 /\ new[i].entries[n] = ns[i].entries[n]
        BY <1>4, <2>5, <3>2
      <4>2. i # next
        BY <4>1, <1>3
      <4>3. /\ ns[i].kind = "dir"
            /\ ns[i].entries[n] \in Inos \ {Root} /\ ns[i].entries[n] < next
        BY <4>1 DEF IsTree, Shaped, Filled
      <4> QED
        BY <1>1, <1>4, <4>1, <4>2, <4>3 DEF Inos
    <3> QED
      BY <3>1, <3>2
  <2> QED
    BY <1>4, <2>1, <2>2, <2>3, <2>5 DEF Shaped, Filled
<1>10. NamesOf(new, next) = {<<d, name>>}
  <2>1. NamesOf(ns, next) = {}
    BY <1>2 DEF NamesOf
  <2>2. NamesOf(new, next) = NamesOf(ns, next) \cup {<<d, name>>}
    <3>1. d \in Inos /\ name \in Names /\ ButOne(new, ns, d, name) /\ new[d].entries[name] = next
      BY <1>1, <1>4
    <3> QED
      BY ONLY <3>1, NamesMore
  <2> QED
    BY <2>1, <2>2
<1>11. \A i \in Inos \ {next} : NamesOf(new, i) = NamesOf(ns, i)
  <2> SUFFICES ASSUME NEW i \in Inos \ {next}
               PROVE  NamesOf(new, i) = NamesOf(ns, i)
    OBVIOUS
  <2>1. i # 0
    BY DEF Inos
  <2>2. new[d].entries[name] # i /\ ns[d].entries[name] # i
    BY <1>4, <2>1
  <2>3. d \in Inos /\ ButOne(new, ns, d, name)
    BY <1>1, <1>4
  <2> QED
    BY <2>2, <2>3, NamesSame
<1>12. Counted(new)
  <2>1. IsFiniteSet(NamesOf(new, next)) /\ Cardinality(NamesOf(new, next)) = 1
    BY <1>10, FS_Singleton
  <2>2. new[next].nlink = 1
    BY <1>4
  <2> SUFFICES ASSUME NEW i \in Inos
               PROVE  /\ IsFiniteSet(NamesOf(new, i))
                      /\ i # Root => new[i].nlink = Cardinality(NamesOf(new, i))
    BY DEF Counted
  <2>3. CASE i = next
    BY <2>1, <2>2, <2>3
  <2>4. CASE i # next
    <3>1. NamesOf(new, i) = NamesOf(ns, i) /\ new[i].nlink = ns[i].nlink
      BY <1>4, <1>11, <2>4
    <3> QED
      BY <3>1 DEF Counted, IsTree
  <2> QED
    BY <2>3, <2>4
<1>13. Dirs(new) \subseteq Dirs(ns) \cup {next}
  BY <1>1, <1>4 DEF Dirs
<1>14. OneName(new)
  <2> SUFFICES ASSUME NEW i \in Dirs(new), NEW x \in NamesOf(new, i), NEW y \in NamesOf(new, i)
               PROVE  x = y
    BY DEF OneName
  <2>1. CASE i = next
    <3>1. x = <<d, name>> /\ y = <<d, name>>
      BY <1>10, <2>1
    <3> QED
      BY <3>1
  <2>2. CASE i # next
    <3>1. i \in Dirs(ns) /\ NamesOf(new, i) = NamesOf(ns, i)
      BY <1>11, <1>13, <2>2 DEF Dirs
    <3> QED
      BY <3>1 DEF OneName, IsTree
  <2> QED
    BY <2>1, <2>2
<1>15. Acyclic(new)
  <2> SUFFICES ASSUME NEW D \in SUBSET Dirs(new), D # {}
               PROVE  \E m \in D : \A e \in D : m \notin Children(new, e)
    BY DEF Acyclic
  <2>1. Children(new, next) = {}
    BY <1>4 DEF Children
  <2>2. next \notin Children(new, next)
    BY <2>1
  <2>3. ASSUME NEW m \in Dirs(ns), NEW e \in Dirs(ns), m \in Children(new, e)
        PROVE  m \in Children(ns, e)
    <3>1. m # 0 /\ m # next /\ e \in Inos
      BY <1>1 DEF Dirs, Inos
    <3>2. PICK n \in Names : new[e].entries[n] = m
      BY <2>3 DEF Children
    <3>3. ns[e].entries[n] = m
      BY <3>1, <3>2, <1>4
    <3> QED
      BY <3>1, <3>3 DEF Children
  <2>4. CASE D \ {next} = {}
    BY <2>2, <2>4
  <2>5. CASE D \ {next} # {}
    <3>1. D \ {next} \in SUBSET Dirs(ns)
      BY <1>13
    <3>2. PICK m \in D \ {next} : \A e \in D \ {next} : m \notin Children(ns, e)
      BY <2>5, <3>1 DEF IsTree, Acyclic
    <3> QED
      BY <2>1, <2>3, <3>1, <3>2
  <2> QED
    BY <2>4, <2>5
<1> QED
  BY <1>9, <1>12, <1>14, <1>15 DEF IsTree

-----------------------------------------------------------------------------
(* Names that come and go.                                                  *)

\* What changes in nlink and in one entry: the name d, name leads to i now, and
\* inode x counts c names.
Relinks(new, ns, d, name, i, x, c, k) ==
  /\ new \in [Inos -> Nodes(k)]
  /\ \A j \in Inos : /\ new[j].kind = ns[j].kind /\ new[j].data = ns[j].data
                     /\ new[j].target = ns[j].target
  /\ \A j \in Inos \ {x} : new[j].nlink = ns[j].nlink
  /\ new[x].nlink = c
  /\ new[d].entries[name] = i
  /\ ButOne(new, ns, d, name)

SetEntry(ns, d, name, i) == [ns EXCEPT ![d].entries[name] = i]
SetCount(ns, x, c) == [ns EXCEPT ![x].nlink = c]

\* An entry that changes.
LEMMA EntryIs ==
  ASSUME NEW ns, NEW k \in Nat, ns \in [Inos -> Nodes(k)],
         NEW d \in Inos, NEW name \in Names, NEW i \in 0..MaxIno,
         NEW new, new = SetEntry(ns, d, name, i)
  PROVE  /\ new \in [Inos -> Nodes(k)]
         /\ \A j \in Inos : /\ new[j].kind = ns[j].kind /\ new[j].data = ns[j].data
                            /\ new[j].target = ns[j].target /\ new[j].nlink = ns[j].nlink
         /\ new[d].entries[name] = i
         /\ ButOne(new, ns, d, name)
<1>1. ns[d] \in Nodes(k) /\ ns[d].entries \in [Names -> 0..MaxIno]
  BY DEF Nodes
<1>2. PICK e \in [Names -> 0..MaxIno] : e = [ns[d].entries EXCEPT ![name] = i]
  <2>1. [ns[d].entries EXCEPT ![name] = i] \in [Names -> 0..MaxIno]
    BY <1>1
  <2> QED
    BY <2>1
<1>3. new = [ns EXCEPT ![d] = [ns[d] EXCEPT !.entries = e]]
  BY <1>2 DEF SetEntry
<1>4. [ns[d] EXCEPT !.entries = e] \in Nodes(k)
  BY <1>1 DEF Nodes
<1>5. /\ new \in [Inos -> Nodes(k)]
      /\ new[d] = [ns[d] EXCEPT !.entries = e]
      /\ \A j \in Inos \ {d} : new[j] = ns[j]
  BY <1>3, <1>4
<1>6. /\ new[d].kind = ns[d].kind /\ new[d].data = ns[d].data
      /\ new[d].target = ns[d].target /\ new[d].nlink = ns[d].nlink
      /\ new[d].entries = e
  BY <1>1, <1>5 DEF Nodes
<1>7. e[name] = i /\ \A n \in Names \ {name} : e[n] = ns[d].entries[n]
  BY <1>1, <1>2
<1>8. ButOne(new, ns, d, name)
  BY <1>5, <1>6, <1>7 DEF ButOne
<1> QED
  BY <1>5, <1>6, <1>7, <1>8

\* A count that changes.
LEMMA CountIs ==
  ASSUME NEW ns, NEW k \in Nat, ns \in [Inos -> Nodes(k)],
         NEW x \in Inos, NEW c \in 0..(k + 1),
         NEW new, new = SetCount(ns, x, c)
  PROVE  /\ new \in [Inos -> Nodes(k)]
         /\ \A j \in Inos : /\ new[j].kind = ns[j].kind /\ new[j].data = ns[j].data
                            /\ new[j].target = ns[j].target /\ new[j].entries = ns[j].entries
         /\ \A j \in Inos \ {x} : new[j].nlink = ns[j].nlink
         /\ new[x].nlink = c
<1>1. ns[x] \in Nodes(k)
  OBVIOUS
<1>2. [ns[x] EXCEPT !.nlink = c] \in Nodes(k)
  BY <1>1 DEF Nodes
<1>3. /\ new \in [Inos -> Nodes(k)]
      /\ new[x] = [ns[x] EXCEPT !.nlink = c]
      /\ \A j \in Inos \ {x} : new[j] = ns[j]
  BY <1>2 DEF SetCount
<1>4. /\ new[x].kind = ns[x].kind /\ new[x].data = ns[x].data
      /\ new[x].target = ns[x].target /\ new[x].entries = ns[x].entries
      /\ new[x].nlink = c
  BY <1>1, <1>3 DEF Nodes
<1> QED
  BY <1>3, <1>4

\* What a file holds changes.
LEMMA DataIs ==
  ASSUME NEW ns, NEW k \in Nat, ns \in [Inos -> Nodes(k)],
         NEW x \in Inos, NEW v \in 0..k,
         NEW new, new = [ns EXCEPT ![x].data = v]
  PROVE  /\ new \in [Inos -> Nodes(k)]
         /\ \A j \in Inos : /\ new[j].kind = ns[j].kind /\ new[j].nlink = ns[j].nlink
                            /\ new[j].target = ns[j].target /\ new[j].entries = ns[j].entries
<1>1. ns[x] \in Nodes(k)
  OBVIOUS
<1>2. [ns[x] EXCEPT !.data = v] \in Nodes(k)
  BY <1>1 DEF Nodes
<1>3. /\ new \in [Inos -> Nodes(k)]
      /\ new[x] = [ns[x] EXCEPT !.data = v]
      /\ \A j \in Inos \ {x} : new[j] = ns[j]
  BY <1>2
<1>4. /\ new[x].kind = ns[x].kind /\ new[x].nlink = ns[x].nlink
      /\ new[x].target = ns[x].target /\ new[x].entries = ns[x].entries
  BY <1>1, <1>3 DEF Nodes
<1> QED
  BY <1>3, <1>4

\* One operation more.
LEMMA NodesGrow ==
  ASSUME NEW k \in Nat, NEW ns \in [Inos -> Nodes(k)]
  PROVE  ns \in [Inos -> Nodes(k + 1)]
<1>1. 0..k \subseteq 0..(k + 1) /\ 0..(k + 1) \subseteq 0..(k + 1 + 1)
  OBVIOUS
<1>2. Nodes(k) \subseteq Nodes(k + 1)
  BY <1>1 DEF Nodes
<1> QED
  BY <1>2

\* Nothing but what files hold has changed.
LEMMA SameTree ==
  ASSUME NEW ns, NEW next, NEW k \in Nat, IsTree(ns, next, k),
         NEW h \in Nat, NEW new \in [Inos -> Nodes(h)],
         \A j \in Inos : /\ new[j].kind = ns[j].kind /\ new[j].nlink = ns[j].nlink
                         /\ new[j].target = ns[j].target /\ new[j].entries = ns[j].entries
  PROVE  IsTree(new, next, h)
<1>1. Root \in Inos
  BY VfsAssumption DEF Root, Inos
<1>2. Filled(new, next)
  BY DEF IsTree, Shaped, Filled
<1>3. Shaped(new, next, h)
  BY <1>1, <1>2 DEF IsTree, Shaped
<1>4. \A i \in Inos : NamesOf(new, i) = NamesOf(ns, i)
  <2>1. ASSUME NEW i, NEW x \in Inos \X Names PROVE new[x[1]].entries[x[2]] = ns[x[1]].entries[x[2]]
    OBVIOUS
  <2> QED
    BY <2>1 DEF NamesOf
<1>5. Counted(new)
  BY <1>4 DEF IsTree, Counted
<1>6. Dirs(new) = Dirs(ns)
  BY DEF Dirs
<1>7. OneName(new)
  BY <1>4, <1>6 DEF IsTree, OneName, Dirs
<1>8. \A d, e \in Dirs(ns) : d \in Children(new, e) => d \in Children(ns, e)
  BY DEF Children, Dirs
<1>9. Acyclic(new)
  BY <1>6, <1>8, FewerChildren DEF IsTree
<1> QED
  BY <1>3, <1>5, <1>7, <1>9 DEF IsTree

\* unlinkEntry, field by field.
LEMMA UnnamedIs ==
  ASSUME NEW ns, NEW next, NEW k \in Nat, IsTree(ns, next, k),
         NEW d \in Dirs(ns), NEW name \in Names, NEW x, x = ns[d].entries[name], x # 0,
         NEW new, new = [ns EXCEPT ![d].entries[name] = 0, ![x].nlink = @ - 1]
  PROVE  /\ Relinks(new, ns, d, name, 0, x, ns[x].nlink - 1, k)
         /\ ns[x].nlink - 1 = Cardinality(NamesOf(ns, x) \ {<<d, name>>})
         /\ IsFiniteSet(NamesOf(ns, x) \ {<<d, name>>})
<1>1. /\ d \in Inos /\ x \in Inos /\ x # Root /\ ns \in [Inos -> Nodes(k)] /\ 0 \in 0..MaxIno
  BY VfsAssumption DEF IsTree, Shaped, Filled, Dirs
<1>2. /\ <<d, name>> \in NamesOf(ns, x) /\ IsFiniteSet(NamesOf(ns, x))
      /\ ns[x].nlink = Cardinality(NamesOf(ns, x))
  BY <1>1, NamesHave DEF IsTree, Counted
<1>3. /\ IsFiniteSet(NamesOf(ns, x) \ {<<d, name>>})
      /\ Cardinality(NamesOf(ns, x) \ {<<d, name>>}) = ns[x].nlink - 1
      /\ ns[x].nlink - 1 \in 0..(k + 1)
  <2>1. ns[x].nlink \in 0..(k + 1)
    BY <1>1, NodeFields DEF IsTree
  <2> QED
    BY <1>2, <2>1, CountLess
<1>4. PICK c \in 0..(k + 1) : c = ns[x].nlink - 1
  BY <1>3
<1>5. PICK mid : mid = SetEntry(ns, d, name, 0)
  OBVIOUS
<1>6. /\ mid \in [Inos -> Nodes(k)]
      /\ \A j \in Inos : /\ mid[j].kind = ns[j].kind /\ mid[j].data = ns[j].data
                         /\ mid[j].target = ns[j].target /\ mid[j].nlink = ns[j].nlink
      /\ mid[d].entries[name] = 0
      /\ ButOne(mid, ns, d, name)
  BY ONLY <1>1, <1>5, EntryIs, k \in Nat, name \in Names
<1>7. new = SetCount(mid, x, c)
  BY <1>1, <1>4, <1>5, <1>6 DEF SetCount, SetEntry
<1>8. /\ new \in [Inos -> Nodes(k)]
      /\ \A j \in Inos : /\ new[j].kind = mid[j].kind /\ new[j].data = mid[j].data
                         /\ new[j].target = mid[j].target /\ new[j].entries = mid[j].entries
      /\ \A j \in Inos \ {x} : new[j].nlink = mid[j].nlink
      /\ new[x].nlink = c
  <2>1. x \in Inos /\ mid \in [Inos -> Nodes(k)]
    BY <1>1, <1>6
  <2> QED
    BY ONLY <1>7, <2>1, CountIs, k \in Nat, c \in 0..(k + 1)
<1>9. Relinks(new, ns, d, name, 0, x, c, k)
  BY ONLY <1>1, <1>6, <1>8, d \in Dirs(ns) DEF Relinks, ButOne
<1> QED
  BY ONLY <1>3, <1>4, <1>9

\* A name that goes takes one off the count of what it named.
LEMMA UnnamedKeeps ==
  ASSUME NEW ns, NEW next, NEW k \in Nat, IsTree(ns, next, k),
         NEW d \in Dirs(ns), NEW name \in Names, NEW x, x = ns[d].entries[name], x # 0,
         NEW c, c = Cardinality(NamesOf(ns, x) \ {<<d, name>>}),
         IsFiniteSet(NamesOf(ns, x) \ {<<d, name>>}),
         NEW new, Relinks(new, ns, d, name, 0, x, c, k)
  PROVE  IsTree(new, next, k)
<1>1. /\ d \in Inos /\ ns[d].kind = "dir" /\ x \in Inos /\ x # Root
      /\ ns \in [Inos -> Nodes(k)] /\ Root \in Inos /\ 0 \in 0..MaxIno
  BY VfsAssumption DEF IsTree, Shaped, Filled, Dirs, Inos, Root
<1>10. /\ \A j \in Inos : new[j].kind = ns[j].kind /\ new[j].target = ns[j].target
       /\ \A j \in Inos \ {x} : new[j].nlink = ns[j].nlink
       /\ new[x].nlink = c
       /\ new[d].entries[name] = 0
       /\ ButOne(new, ns, d, name)
       /\ new \in [Inos -> Nodes(k)]
  BY DEF Relinks
<1>11. \A i \in Inos, n \in Names : new[i].entries[n] # 0 => new[i].entries[n] = ns[i].entries[n]
  BY <1>10 DEF ButOne
<1>12. Shaped(new, next, k)
  <2>1. Filled(new, next)
    BY <1>10, <1>11 DEF IsTree, Shaped, Filled
  <2> QED
    BY <1>1, <1>10, <2>1 DEF IsTree, Shaped
<1>13. NamesOf(new, x) = NamesOf(ns, x) \ {<<d, name>>}
  <2>1. new[d].entries[name] # x
    BY <1>10
  <2> QED
    BY <1>1, <1>10, <2>1, NamesLess
<1>14. \A i \in Inos \ {x} : NamesOf(new, i) = NamesOf(ns, i)
  <2> SUFFICES ASSUME NEW i \in Inos \ {x} PROVE NamesOf(new, i) = NamesOf(ns, i)
    OBVIOUS
  <2>1. new[d].entries[name] # i /\ ns[d].entries[name] # i
    BY <1>10 DEF Inos
  <2>2. d \in Inos /\ ButOne(new, ns, d, name)
    BY <1>1, <1>10
  <2> QED
    BY ONLY <2>1, <2>2, name \in Names, NamesSame
<1>15. Counted(new)
  <2> SUFFICES ASSUME NEW i \in Inos
               PROVE  /\ IsFiniteSet(NamesOf(new, i))
                      /\ i # Root => new[i].nlink = Cardinality(NamesOf(new, i))
    BY DEF Counted
  <2>1. CASE i = x
    BY <1>10, <1>13, <2>1
  <2>2. CASE i # x
    BY <1>10, <1>14, <2>2 DEF IsTree, Counted
  <2> QED
    BY <2>1, <2>2
<1>16. Dirs(new) = Dirs(ns)
  BY <1>10 DEF Dirs
<1>17. \A i \in Inos : NamesOf(new, i) \subseteq NamesOf(ns, i)
  BY <1>13, <1>14
<1>18. OneName(new)
  BY <1>16, <1>17 DEF IsTree, OneName, Dirs
<1>19. \A a, e \in Dirs(ns) : a \in Children(new, e) => a \in Children(ns, e)
  BY <1>11 DEF Children, Dirs
<1>20. Acyclic(new)
  BY <1>16, <1>19, FewerChildren DEF IsTree
<1> QED
  BY <1>12, <1>15, <1>18, <1>20 DEF IsTree

\* A name more is counted.
LEMMA LinkCounts ==
  ASSUME NEW ns, NEW next, NEW k \in Nat, IsTree(ns, next, k),
         NEW d \in Dirs(ns), NEW name \in Names, ns[d].entries[name] = 0,
         NEW x \in Inos \ {Root}
  PROVE  /\ IsFiniteSet(NamesOf(ns, x) \cup {<<d, name>>})
         /\ Cardinality(NamesOf(ns, x) \cup {<<d, name>>}) = ns[x].nlink + 1
         /\ ns[x].nlink + 1 \in 0..(k + 1 + 1)
<1>1. d \in Inos /\ x # 0
  BY DEF Dirs, Inos
<1>2. /\ <<d, name>> \notin NamesOf(ns, x) /\ IsFiniteSet(NamesOf(ns, x))
      /\ ns[x].nlink = Cardinality(NamesOf(ns, x))
  BY <1>1, NamesHave DEF IsTree, Counted
<1>3. ns[x].nlink \in 0..(k + 1)
  BY NodeFields DEF IsTree
<1> QED
  BY <1>2, <1>3, CountMore

\* link_ of what is there already, field by field.
LEMMA LinkIs ==
  ASSUME NEW ns, NEW next, NEW k \in Nat, IsTree(ns, next, k),
         NEW d \in Dirs(ns), NEW name \in Names, ns[d].entries[name] = 0,
         NEW x \in Inos \ {Root},
         NEW new, new = [ns EXCEPT ![x].nlink = @ + 1, ![d].entries[name] = x]
  PROVE  Relinks(new, ns, d, name, x, x, ns[x].nlink + 1, k + 1)
<1>1. /\ d \in Inos /\ x \in 0..MaxIno /\ x # 0 /\ k + 1 \in Nat
      /\ ns \in [Inos -> Nodes(k)]
  BY VfsAssumption DEF IsTree, Shaped, Dirs, Inos
<1>2. ns \in [Inos -> Nodes(k + 1)]
  BY <1>1, NodesGrow
<1>3. ns[x].nlink + 1 \in 0..(k + 1 + 1)
  BY LinkCounts
<1>4. PICK c \in 0..(k + 1 + 1) : c = ns[x].nlink + 1
  BY <1>3
<1>5. PICK mid : mid = SetCount(ns, x, c)
  OBVIOUS
<1>6. /\ mid \in [Inos -> Nodes(k + 1)]
      /\ \A j \in Inos : /\ mid[j].kind = ns[j].kind /\ mid[j].data = ns[j].data
                         /\ mid[j].target = ns[j].target /\ mid[j].entries = ns[j].entries
      /\ \A j \in Inos \ {x} : mid[j].nlink = ns[j].nlink
      /\ mid[x].nlink = c
  BY ONLY <1>1, <1>2, <1>5, CountIs, c \in 0..(k + 1 + 1), x \in Inos \ {Root}
<1>7. new = SetEntry(mid, d, name, x)
  BY <1>1, <1>4, <1>5 DEF SetCount, SetEntry
<1>8. /\ new \in [Inos -> Nodes(k + 1)]
      /\ \A j \in Inos : /\ new[j].kind = mid[j].kind /\ new[j].data = mid[j].data
                         /\ new[j].target = mid[j].target /\ new[j].nlink = mid[j].nlink
      /\ new[d].entries[name] = x
      /\ ButOne(new, mid, d, name)
  BY ONLY <1>1, <1>6, <1>7, EntryIs, name \in Names
<1>9. Relinks(new, ns, d, name, x, x, c, k + 1)
  BY ONLY <1>1, <1>6, <1>8, x \in Inos \ {Root} DEF Relinks, ButOne
<1> QED
  BY ONLY <1>4, <1>9

\* One name more for what is no directory.
LEMMA LinkKeeps ==
  ASSUME NEW ns, NEW next, NEW k \in Nat, IsTree(ns, next, k),
         NEW d \in Dirs(ns), NEW name \in Names, ns[d].entries[name] = 0,
         NEW x \in Inos \ {Root}, x < next, ns[x].kind # "dir",
         NEW c, c = Cardinality(NamesOf(ns, x) \cup {<<d, name>>}),
         IsFiniteSet(NamesOf(ns, x) \cup {<<d, name>>}),
         NEW new, Relinks(new, ns, d, name, x, x, c, k + 1)
  PROVE  IsTree(new, next, k + 1)
<1>1. /\ d \in Inos /\ ns[d].kind = "dir" /\ x \in 0..MaxIno /\ k + 1 \in Nat
      /\ Root \in Inos
  BY VfsAssumption DEF IsTree, Shaped, Dirs, Inos, Root
<1>10. /\ \A j \in Inos : new[j].kind = ns[j].kind /\ new[j].target = ns[j].target
       /\ \A j \in Inos \ {x} : new[j].nlink = ns[j].nlink
       /\ new[x].nlink = c
       /\ new[d].entries[name] = x
       /\ ButOne(new, ns, d, name)
       /\ new \in [Inos -> Nodes(k + 1)]
  BY DEF Relinks
<1>11. \A i \in Inos, n \in Names :
         new[i].entries[n] = ns[i].entries[n] \/ (i = d /\ new[i].entries[n] = x)
  <2> SUFFICES ASSUME NEW i \in Inos, NEW n \in Names
               PROVE  new[i].entries[n] = ns[i].entries[n] \/ (i = d /\ new[i].entries[n] = x)
    OBVIOUS
  <2>1. CASE i = d /\ n = name
    BY <1>10, <2>1
  <2>2. CASE ~(i = d /\ n = name)
    BY <1>10, <2>2 DEF ButOne
  <2> QED
    BY <2>1, <2>2
<1>12. Shaped(new, next, k + 1)
  <2>1. ASSUME NEW i \in Inos, NEW n \in Names, new[i].entries[n] # 0
        PROVE  /\ new[i].kind = "dir"
               /\ new[i].entries[n] \in Inos \ {Root} /\ new[i].entries[n] < next
    <3>1. CASE new[i].entries[n] = ns[i].entries[n]
      BY <1>10, <2>1, <3>1 DEF IsTree, Shaped, Filled
    <3>2. CASE i = d /\ new[i].entries[n] = x
      BY <1>1, <1>10, <3>2
    <3> QED
      BY <1>11, <3>1, <3>2
  <2> QED
    BY <1>1, <1>10, <2>1 DEF IsTree, Shaped, Filled
<1>13. NamesOf(new, x) = NamesOf(ns, x) \cup {<<d, name>>}
  BY <1>1, <1>10, NamesMore
<1>14. \A i \in Inos \ {x} : NamesOf(new, i) = NamesOf(ns, i)
  <2> SUFFICES ASSUME NEW i \in Inos \ {x} PROVE NamesOf(new, i) = NamesOf(ns, i)
    OBVIOUS
  <2>1. new[d].entries[name] # i /\ ns[d].entries[name] # i
    BY <1>10 DEF Inos
  <2>2. d \in Inos /\ ButOne(new, ns, d, name)
    BY <1>1, <1>10
  <2> QED
    BY ONLY <2>1, <2>2, name \in Names, NamesSame
<1>15. Counted(new)
  <2> SUFFICES ASSUME NEW i \in Inos
               PROVE  /\ IsFiniteSet(NamesOf(new, i))
                      /\ i # Root => new[i].nlink = Cardinality(NamesOf(new, i))
    BY DEF Counted
  <2>1. CASE i = x
    BY <1>10, <1>13, <2>1
  <2>2. CASE i # x
    BY <1>10, <1>14, <2>2 DEF IsTree, Counted
  <2> QED
    BY <2>1, <2>2
<1>16. Dirs(new) = Dirs(ns) /\ x \notin Dirs(ns)
  BY <1>10 DEF Dirs
<1>18. OneName(new)
  BY <1>14, <1>16 DEF IsTree, OneName, Dirs
<1>19. \A a, e \in Dirs(ns) : a \in Children(new, e) => a \in Children(ns, e)
  BY <1>11, <1>16 DEF Children, Dirs
<1>20. Acyclic(new)
  BY <1>16, <1>19, FewerChildren DEF IsTree
<1> QED
  BY <1>12, <1>15, <1>18, <1>20 DEF IsTree

-----------------------------------------------------------------------------
(* What lies beneath a directory, and what is moved.                        *)

\* Some directories and the directories in them.
Widened(ns, T) == T \cup {i \in UNION {Children(ns, d) : d \in T} : ns[i].kind = "dir"}

\* What is widened stays among the inodes, and is as it was only when it holds
\* the directories in its directories.
LEMMA WidenedIs ==
  ASSUME NEW ns, NEW next, NEW k \in Nat, Shaped(ns, next, k), NEW T \in SUBSET Inos
  PROVE  /\ Widened(ns, T) \in SUBSET Inos /\ T \subseteq Widened(ns, T)
         /\ Widened(ns, T) = T =>
              \A d \in T, i \in Dirs(ns) : i \in Children(ns, d) => i \in T
<1>1. ASSUME NEW d \in T, NEW i \in Children(ns, d) PROVE i \in Inos
  <2>1. PICK n \in Names : i = ns[d].entries[n] /\ i # 0
    BY DEF Children
  <2> QED
    BY <2>1 DEF Shaped, Filled
<1>2. Widened(ns, T) \in SUBSET Inos
  BY <1>1 DEF Widened
<1>3. ASSUME NEW d \in T, NEW i \in Dirs(ns), i \in Children(ns, d) PROVE i \in Widened(ns, T)
  BY <1>3 DEF Widened, Dirs
<1> QED
  BY <1>2, <1>3 DEF Widened

\* f is what Beneath computes, depth by depth.
Widens(f, ns, dir) ==
  f = [n \in 0..MaxIno |-> IF n = 0 THEN {dir} ELSE Widened(ns, f[n - 1])]

\* Read off level by level.
LEMMA WidensStep ==
  ASSUME NEW f, NEW ns, NEW dir, Widens(f, ns, dir)
  PROVE  f[0] = {dir} /\ \A n \in 1..MaxIno : f[n] = Widened(ns, f[n - 1])
<1>1. MaxIno \in Nat /\ 0 \in 0..MaxIno
  BY VfsAssumption
<1>2. f = [n \in 0..MaxIno |-> IF n = 0 THEN {dir} ELSE Widened(ns, f[n - 1])]
  BY DEF Widens
<1>3. f[0] = {dir}
  BY <1>1, <1>2
<1>4. ASSUME NEW n \in 1..MaxIno PROVE f[n] = Widened(ns, f[n - 1])
  <2>1. n \in 0..MaxIno /\ n # 0
    OBVIOUS
  <2> QED
    BY <1>2, <2>1
<1> QED
  BY <1>3, <1>4

\* It exists, and ends with Beneath.
LEMMA BeneathExists ==
  ASSUME NEW ns, NEW next, NEW k \in Nat, Shaped(ns, next, k), NEW dir \in Inos
  PROVE  \E f : /\ Widens(f, ns, dir) /\ Beneath(ns, dir) = f[MaxIno]
                /\ \A n \in 0..MaxIno : f[n] \in SUBSET Inos
<1> DEFINE S == SUBSET Inos
           F == [n \in 1..MaxIno |-> [T \in S |-> Widened(ns, T)]]
<1>1. F \in [1..MaxIno -> [S -> S]]
  BY WidenedIs
<1>2. {dir} \in S /\ MaxIno \in Nat
  BY VfsAssumption
<1>3. \E f : Widens(f, ns, dir)
  <2> HIDE DEF F, S
  <2>1. PICK f : Iterates(f, MaxIno, S, {dir}, F)
    BY <1>1, <1>2, Iteration
  <2>2. \A n \in 1..MaxIno : f[n] = Widened(ns, f[n - 1])
    <3> SUFFICES ASSUME NEW n \in 1..MaxIno PROVE f[n] = Widened(ns, f[n - 1])
      OBVIOUS
    <3>1. n - 1 \in 0..MaxIno
      BY <1>2
    <3>2. f[n - 1] \in S
      BY <2>1, <3>1 DEF Iterates
    <3> QED
      BY <2>1, <3>2 DEF F, Iterates
  <2>3. Widens(f, ns, dir)
    BY <1>2, <2>1, <2>2 DEF Iterates, Widens
  <2> QED
    BY <2>3
<1>4. PICK f : f = CHOOSE g : Widens(g, ns, dir)
  OBVIOUS
<1>5. Widens(f, ns, dir)
  BY <1>3, <1>4
<1>6. Beneath(ns, dir) = f[MaxIno]
  BY <1>4 DEF Beneath, Widens, Widened
<1>7. \A n \in 0..MaxIno : f[n] \in SUBSET Inos
  <2>1. f[0] \in S /\ \A n \in 1..MaxIno : f[n] = Widened(ns, f[n - 1])
    BY <1>2, <1>5, WidensStep
  <2>2. \A n \in 1..MaxIno : f[n - 1] \in S => f[n] \in S
    BY <2>1, WidenedIs
  <2> HIDE DEF S
  <2>3. \A n \in 0..MaxIno : f[n] \in S
    BY <1>2, <2>1, <2>2, StepByStep
  <2> QED
    BY <2>3 DEF S
<1> QED
  BY <1>5, <1>6, <1>7

\* There are no more depths than inodes: Beneath holds the directory and the
\* directories in each of its own.
LEMMA BeneathClosed ==
  ASSUME NEW ns, NEW next, NEW k \in Nat, Shaped(ns, next, k), NEW dir \in Inos
  PROVE  /\ dir \in Beneath(ns, dir) /\ Beneath(ns, dir) \in SUBSET Inos
         /\ \A d \in Beneath(ns, dir), i \in Dirs(ns) :
              i \in Children(ns, d) => i \in Beneath(ns, dir)
<1>1. PICK f : /\ Widens(f, ns, dir) /\ Beneath(ns, dir) = f[MaxIno]
               /\ \A n \in 0..MaxIno : f[n] \in SUBSET Inos
  BY BeneathExists
<1>2. MaxIno \in Nat /\ MaxIno \in 0..MaxIno
  BY VfsAssumption
<1>3. f[0] = {dir} /\ \A n \in 1..MaxIno : f[n] = Widened(ns, f[n - 1])
  BY <1>1, WidensStep
<1>4. \A n \in 1..MaxIno : f[n - 1] \subseteq f[n]
  <2> SUFFICES ASSUME NEW n \in 1..MaxIno PROVE f[n - 1] \subseteq f[n]
    OBVIOUS
  <2>1. n - 1 \in 0..MaxIno
    BY <1>2
  <2>2. f[n - 1] \in SUBSET Inos
    BY <1>1, <2>1
  <2> QED
    BY <1>3, <2>2, WidenedIs
<1>5. \A n \in 0..MaxIno : dir \in f[n]
  <2> DEFINE bad == {n \in 0..MaxIno : dir \notin f[n]}
  <2>1. SUFFICES ASSUME bad # {} PROVE FALSE
    OBVIOUS
  <2>2. PICK n \in bad : \A m \in bad : n <= m
    <3>1. bad \in SUBSET Nat
      OBVIOUS
    <3> HIDE DEF bad
    <3> QED
      BY <2>1, <3>1, Least
  <2>3. n \in 1..MaxIno /\ n - 1 \in 0..MaxIno /\ n - 1 \notin bad
    <3>1. n \in 0..MaxIno /\ n # 0
      BY <1>3, <2>2
    <3> HIDE DEF bad
    <3> QED
      BY <1>2, <2>2, <3>1
  <2> QED
    BY <1>4, <2>2, <2>3
<1>6. Widened(ns, f[MaxIno]) = f[MaxIno]
  <2> SUFFICES ASSUME Widened(ns, f[MaxIno]) # f[MaxIno] PROVE FALSE
    OBVIOUS
  <2>1. \A n \in 0..MaxIno : Widened(ns, f[n]) # f[n]
    <3> SUFFICES ASSUME NEW n \in 0..MaxIno, Widened(ns, f[n]) = f[n] PROVE FALSE
      OBVIOUS
    <3> DEFINE wide == {m \in n..MaxIno : Widened(ns, f[m]) # f[m]}
    <3>1. wide # {} /\ wide \in SUBSET Nat
      BY <1>2
    <3>2. PICK m \in wide : \A j \in wide : m <= j
      <4> HIDE DEF wide
      <4> QED
        BY <3>1, Least
    <3>3. m # n
      BY <3>2
    <3>4. m - 1 \in n..MaxIno /\ m - 1 \notin wide /\ m \in 1..MaxIno
      BY <1>2, <3>2, <3>3
    <3>5. f[m] = Widened(ns, f[m - 1]) /\ Widened(ns, f[m - 1]) = f[m - 1]
      BY <1>3, <3>4
    <3>6. Widened(ns, f[m]) = f[m]
      BY <3>5
    <3> QED
      BY <3>2, <3>6
  <2>2. \A n \in 0..MaxIno : /\ IsFiniteSet(f[n]) /\ Cardinality(f[n]) \in Nat
                            /\ Cardinality(f[n]) <= MaxIno
    <3>1. IsFiniteSet(Inos) /\ Cardinality(Inos) = MaxIno
      <4>1. Cardinality(1..MaxIno) = IF 1 > MaxIno THEN 0 ELSE MaxIno - 1 + 1
        BY <1>2, FS_Interval
      <4> QED
        BY <1>2, <4>1, FS_Interval DEF Inos
    <3> QED
      BY <1>1, <3>1, FS_Subset, FS_CardinalityType
  <2> DEFINE small == {n \in 0..MaxIno : ~(n < Cardinality(f[n]))}
  <2>3. small # {} /\ small \in SUBSET Nat
    BY <1>2, <2>2
  <2>4. PICK n \in small : \A m \in small : n <= m
    <3> HIDE DEF small
    <3> QED
      BY <2>3, Least
  <2>5. n # 0
    <3>1. Cardinality(f[0]) = 1
      BY <1>3, FS_Singleton
    <3> QED
      BY <2>4, <3>1
  <2>6. n \in 1..MaxIno /\ n - 1 \in 0..MaxIno /\ n - 1 \notin small
    <3>1. n \in 0..MaxIno
      BY <2>4
    <3> HIDE DEF small
    <3> QED
      BY <1>2, <2>4, <2>5, <3>1
  <2>7. f[n - 1] \subseteq f[n] /\ f[n - 1] # f[n]
    BY <1>3, <1>4, <2>1, <2>6
  <2>8. Cardinality(f[n - 1]) < Cardinality(f[n])
    <3>1. IsFiniteSet(f[n]) /\ Cardinality(f[n - 1]) \in Nat /\ Cardinality(f[n]) \in Nat
      BY <2>2, <2>6
    <3>2. Cardinality(f[n - 1]) <= Cardinality(f[n]) /\ Cardinality(f[n]) # Cardinality(f[n - 1])
      BY <2>7, <3>1, FS_Subset
    <3> QED
      BY <3>1, <3>2
  <2>9. n - 1 < Cardinality(f[n - 1])
    BY <2>6
  <2>10. n < Cardinality(f[n])
    BY <2>2, <2>6, <2>8, <2>9
  <2> QED
    BY <2>4, <2>10
<1>7. f[MaxIno] \in SUBSET Inos
  BY <1>1, <1>2
<1>8. \A d \in f[MaxIno], i \in Dirs(ns) : i \in Children(ns, d) => i \in f[MaxIno]
  BY <1>6, <1>7, WidenedIs
<1> QED
  BY <1>1, <1>2, <1>5, <1>7, <1>8

\* B holds what lies beneath x: it has x and the directories in each of its own.
Below(ns, B, x) ==
  /\ x \in B /\ B \in SUBSET Inos
  /\ \A d \in B, i \in Dirs(ns) : i \in Children(ns, d) => i \in B

\* What moves, field by field: the entry old of p is gone, and nm of to leads to x.
MovesTo(new, ns, p, old, to, nm, x, k) ==
  /\ new \in [Inos -> Nodes(k)]
  /\ \A j \in Inos : /\ new[j].kind = ns[j].kind /\ new[j].data = ns[j].data
                     /\ new[j].target = ns[j].target /\ new[j].nlink = ns[j].nlink
  /\ new[p].entries[old] = 0
  /\ new[to].entries[nm] = x
  /\ \A j \in Inos, n \in Names :
       ~(j = p /\ n = old) /\ ~(j = to /\ n = nm) => new[j].entries[n] = ns[j].entries[n]
  /\ NamesOf(new, x) = (NamesOf(ns, x) \ {<<p, old>>}) \cup {<<to, nm>>}
  /\ \A j \in Inos \ {x} : NamesOf(new, j) = NamesOf(ns, j)

\* The two updates of a rename are that.
LEMMA MoveIs ==
  ASSUME NEW ns, NEW next, NEW k \in Nat, IsTree(ns, next, k),
         NEW p \in Dirs(ns), NEW old \in Names, NEW x \in Inos, x = ns[p].entries[old],
         NEW to \in Dirs(ns), NEW nm \in Names, ns[to].entries[nm] = 0,
         NEW new, new = [ns EXCEPT ![p].entries[old] = 0, ![to].entries[nm] = x]
  PROVE  MovesTo(new, ns, p, old, to, nm, x, k)
<1>1. /\ p \in Inos /\ to \in Inos /\ x # 0 /\ ns \in [Inos -> Nodes(k)]
      /\ 0 \in 0..MaxIno /\ x \in 0..MaxIno
  BY VfsAssumption DEF IsTree, Shaped, Dirs, Inos
<1>2. PICK mid : mid = SetEntry(ns, p, old, 0)
  OBVIOUS
<1>3. /\ mid \in [Inos -> Nodes(k)]
      /\ \A j \in Inos : /\ mid[j].kind = ns[j].kind /\ mid[j].data = ns[j].data
                         /\ mid[j].target = ns[j].target /\ mid[j].nlink = ns[j].nlink
      /\ mid[p].entries[old] = 0
      /\ ButOne(mid, ns, p, old)
  <2>1. ns \in [Inos -> Nodes(k)] /\ p \in Inos /\ 0 \in 0..MaxIno
    BY <1>1
  <2> QED
    BY ONLY <1>2, <2>1, EntryIs, k \in Nat, old \in Names
<1>4. new = SetEntry(mid, to, nm, x)
  BY <1>2 DEF SetEntry
<1>5. /\ new \in [Inos -> Nodes(k)]
      /\ \A j \in Inos : /\ new[j].kind = mid[j].kind /\ new[j].data = mid[j].data
                         /\ new[j].target = mid[j].target /\ new[j].nlink = mid[j].nlink
      /\ new[to].entries[nm] = x
      /\ ButOne(new, mid, to, nm)
  <2>1. mid \in [Inos -> Nodes(k)] /\ to \in Inos /\ x \in 0..MaxIno
    BY <1>1, <1>3
  <2> QED
    BY ONLY <1>4, <2>1, EntryIs, k \in Nat, nm \in Names
<1>6. ~(p = to /\ old = nm)
  BY <1>1
<1>7. mid[to].entries[nm] = 0 /\ new[p].entries[old] = 0
  BY ONLY <1>1, <1>3, <1>5, <1>6, ns[to].entries[nm] = 0, old \in Names, nm \in Names DEF ButOne
<1>8. \A j \in Inos, n \in Names :
        ~(j = p /\ n = old) /\ ~(j = to /\ n = nm) => new[j].entries[n] = ns[j].entries[n]
  <2>1. ButOne(mid, ns, p, old) /\ ButOne(new, mid, to, nm)
    BY <1>3, <1>5
  <2> QED
    BY ONLY <2>1 DEF ButOne
<1>9. NamesOf(new, x) = (NamesOf(ns, x) \ {<<p, old>>}) \cup {<<to, nm>>}
  <2>1. mid[p].entries[old] # x
    BY <1>1, <1>3
  <2>2. NamesOf(mid, x) = NamesOf(ns, x) \ {<<p, old>>}
    BY ONLY <1>1, <1>3, <2>1, NamesLess, old \in Names
  <2>3. NamesOf(new, x) = NamesOf(mid, x) \cup {<<to, nm>>}
    <3>1. to \in Inos /\ ButOne(new, mid, to, nm) /\ new[to].entries[nm] = x
      BY <1>1, <1>5
    <3> QED
      BY ONLY <3>1, NamesMore, nm \in Names
  <2> QED
    BY ONLY <2>2, <2>3
<1>10. \A j \in Inos \ {x} : NamesOf(new, j) = NamesOf(ns, j)
  <2> SUFFICES ASSUME NEW j \in Inos \ {x} PROVE NamesOf(new, j) = NamesOf(ns, j)
    OBVIOUS
  <2>1. ns[p].entries[old] # j /\ j # 0 /\ j # x
    BY DEF Inos
  <2>2. mid[p].entries[old] # j /\ mid[to].entries[nm] # j /\ new[to].entries[nm] # j
    BY ONLY <1>3, <1>5, <1>7, <2>1
  <2>3. NamesOf(mid, j) = NamesOf(ns, j)
    BY ONLY <1>1, <1>3, <2>1, <2>2, NamesSame, old \in Names
  <2>4. NamesOf(new, j) = NamesOf(mid, j)
    <3>1. to \in Inos /\ ButOne(new, mid, to, nm)
      BY <1>1, <1>5
    <3> QED
      BY ONLY <2>2, <3>1, NamesSame, nm \in Names
  <2> QED
    BY ONLY <2>3, <2>4
<1> QED
  BY ONLY <1>1, <1>3, <1>5, <1>7, <1>8, <1>9, <1>10 DEF MovesTo

\* What is moved, if it is a directory not into what lies beneath it, leaves
\* the tree sound: the moved name counts once more and once less, and a cycle
\* would need a directory of what was moved to hold the place it was moved to.
LEMMA MoveKeeps ==
  ASSUME NEW ns, NEW next, NEW k \in Nat, IsTree(ns, next, k),
         NEW p \in Dirs(ns), NEW old \in Names, NEW x \in Inos, x = ns[p].entries[old],
         NEW to \in Dirs(ns), NEW nm \in Names, ns[to].entries[nm] = 0,
         NEW B, Below(ns, B, x), x \in Dirs(ns) => to \notin B,
         NEW new, MovesTo(new, ns, p, old, to, nm, x, k)
  PROVE  IsTree(new, next, k)
<1>1. /\ p \in Inos /\ to \in Inos /\ x # 0 /\ x # Root /\ x < next /\ Root \in Inos
      /\ ns[to].kind = "dir"
  BY VfsAssumption DEF IsTree, Shaped, Filled, Dirs, Inos, Root
<1>2. /\ new \in [Inos -> Nodes(k)]
      /\ \A j \in Inos : /\ new[j].kind = ns[j].kind
                         /\ new[j].target = ns[j].target /\ new[j].nlink = ns[j].nlink
      /\ new[p].entries[old] = 0
      /\ new[to].entries[nm] = x
      /\ \A j \in Inos, n \in Names :
           ~(j = p /\ n = old) /\ ~(j = to /\ n = nm) => new[j].entries[n] = ns[j].entries[n]
      /\ NamesOf(new, x) = (NamesOf(ns, x) \ {<<p, old>>}) \cup {<<to, nm>>}
      /\ \A j \in Inos \ {x} : NamesOf(new, j) = NamesOf(ns, j)
  BY DEF MovesTo
<1>3. ASSUME NEW j \in Inos, NEW n \in Names, new[j].entries[n] # 0
      PROVE  new[j].entries[n] = ns[j].entries[n] \/ (j = to /\ new[j].entries[n] = x)
  BY <1>2, <1>3
<1>4. Shaped(new, next, k)
  <2>1. ASSUME NEW j \in Inos, NEW n \in Names, new[j].entries[n] # 0
        PROVE  /\ new[j].kind = "dir"
               /\ new[j].entries[n] \in Inos \ {Root} /\ new[j].entries[n] < next
    <3>1. CASE new[j].entries[n] = ns[j].entries[n]
      BY <1>2, <2>1, <3>1 DEF IsTree, Shaped, Filled
    <3>2. CASE j = to /\ new[j].entries[n] = x
      BY <1>1, <1>2, <3>2
    <3> QED
      BY <1>3, <2>1, <3>1, <3>2
  <2> QED
    BY <1>1, <1>2, <2>1 DEF IsTree, Shaped, Filled
<1>5. /\ <<p, old>> \in NamesOf(ns, x) /\ <<to, nm>> \notin NamesOf(ns, x)
      /\ IsFiniteSet(NamesOf(ns, x)) /\ ns[x].nlink = Cardinality(NamesOf(ns, x))
  <2>1. p \in Inos /\ to \in Inos /\ ns[to].entries[nm] # x
    BY <1>1
  <2>2. <<p, old>> \in NamesOf(ns, x)
    BY <2>1, NamesHave
  <2>3. <<to, nm>> \notin NamesOf(ns, x)
    BY <2>1, NamesHave
  <2> QED
    BY <1>1, <2>2, <2>3 DEF IsTree, Counted
<1>6. /\ IsFiniteSet(NamesOf(new, x)) /\ Cardinality(NamesOf(new, x)) = ns[x].nlink
  <2>1. PICK T : T = NamesOf(ns, x) \ {<<p, old>>}
    OBVIOUS
  <2>2. IsFiniteSet(T) /\ Cardinality(T) = ns[x].nlink - 1 /\ ns[x].nlink \in Nat
    BY <1>5, <2>1, CountLess
  <2>3. <<to, nm>> \notin T /\ NamesOf(new, x) = T \cup {<<to, nm>>}
    BY <1>2, <1>5, <2>1
  <2>4. IsFiniteSet(T \cup {<<to, nm>>}) /\ Cardinality(T \cup {<<to, nm>>}) = Cardinality(T) + 1
    BY <2>2, <2>3, CountMore
  <2> QED
    BY <2>2, <2>3, <2>4
<1>7. Counted(new)
  <2> SUFFICES ASSUME NEW i \in Inos
               PROVE  /\ IsFiniteSet(NamesOf(new, i))
                      /\ i # Root => new[i].nlink = Cardinality(NamesOf(new, i))
    BY DEF Counted
  <2>1. CASE i = x
    BY <1>2, <1>6, <2>1
  <2>2. CASE i # x
    BY <1>2, <2>2 DEF IsTree, Counted
  <2> QED
    BY <2>1, <2>2
<1>8. Dirs(new) = Dirs(ns)
  BY <1>2 DEF Dirs
<1>9. OneName(new)
  <2> SUFFICES ASSUME NEW i \in Dirs(ns), NEW y \in NamesOf(new, i), NEW z \in NamesOf(new, i)
               PROVE  y = z
    BY <1>8 DEF OneName
  <2>1. CASE i = x
    <3>1. \A y1, z1 \in NamesOf(ns, x) : y1 = z1
      BY <2>1 DEF IsTree, OneName
    <3>2. NamesOf(ns, x) \ {<<p, old>>} = {}
      BY <1>5, <3>1
    <3> QED
      BY <1>2, <2>1, <3>2
  <2>2. CASE i # x
    BY <1>2, <2>2 DEF IsTree, OneName, Dirs
  <2> QED
    BY <2>1, <2>2
<1>10. ASSUME NEW m \in Dirs(ns), NEW e \in Dirs(ns), m \in Children(new, e)
       PROVE  m \in Children(ns, e) \/ (e = to /\ m = x)
  <2>1. PICK n \in Names : new[e].entries[n] = m /\ m # 0
    BY <1>10 DEF Children
  <2>2. e \in Inos
    BY DEF Dirs
  <2>3. CASE new[e].entries[n] = ns[e].entries[n]
    BY <2>1, <2>3 DEF Children
  <2> QED
    BY <1>3, <2>1, <2>2, <2>3
<1>11. Acyclic(new)
  <2> SUFFICES ASSUME NEW D \in SUBSET Dirs(ns), D # {}
               PROVE  \E m \in D : \A e \in D : m \notin Children(new, e)
    BY <1>8 DEF Acyclic
  <2>1. CASE x \notin Dirs(ns) \/ D \subseteq B
    <3>1. PICK m \in D : \A e \in D : m \notin Children(ns, e)
      BY DEF IsTree, Acyclic
    <3>2. ASSUME NEW e \in D PROVE ~(e = to /\ m = x)
      BY <2>1
    <3> QED
      BY <1>10, <3>1, <3>2
  <2>2. CASE D \ B # {}
    <3>1. PICK m \in D \ B : \A e \in D \ B : m \notin Children(ns, e)
      BY <2>2 DEF IsTree, Acyclic
    <3>2. m # x
      BY <3>1 DEF Below
    <3>3. \A e \in D : m \notin Children(ns, e)
      BY <3>1 DEF Below
    <3> QED
      BY <1>10, <3>2, <3>3
  <2> QED
    BY <2>1, <2>2
<1> QED
  BY <1>4, <1>7, <1>9, <1>11 DEF IsTree

-----------------------------------------------------------------------------
(* Walks of two trees, one of which has grown from the other.               *)

\* What a step of a walk does when names are left.
Goes(ns, at, s) ==
  \E part \in Names, rest \in Seq(Names), child \in 0..MaxIno :
    /\ part = Head(at.parts) /\ rest = Tail(at.parts)
    /\ child = ns[at.dir].entries[part]
    /\ \/ child = 0 /\ rest # <<>> /\ s.out = "ENOENT"
       \/ /\ child = 0 /\ rest = <<>> /\ s.out = "found" /\ s.node = 0
          /\ s.parent = at.dir /\ s.name = part /\ s.real = Append(at.real, part)
       \/ child # 0 /\ s.out \in {"ELOOP", "ENOTDIR"}
       \/ /\ child # 0 /\ ns[child].kind = "symlink" /\ at.links # MaxLinks
          /\ s.out = "going" /\ s.dir = Root /\ s.real = <<>> /\ s.links = at.links + 1
          /\ s.parts = ns[child].target \o rest
       \/ /\ child # 0 /\ ns[child].kind = "dir"
          /\ s.out = "going" /\ s.dir = child /\ s.real = Append(at.real, part)
          /\ s.links = at.links /\ s.parts = rest
       \/ child # 0 /\ s.out = "found" /\ s.node = child

\* It does so.
LEMMA StepIs ==
  ASSUME NEW ns, NEW next, NEW k \in Nat, Shaped(ns, next, k),
         NEW at \in Walking(ns), NEW follow \in BOOLEAN, at.out = "going", at.parts # <<>>,
         NEW s, s = Step(ns, at, follow)
  PROVE  Goes(ns, at, s)
<1>1. PICK out \in {"going", "found", "ENOENT", "ELOOP", "ENOTDIR"},
           dir \in Inos, parent \in 0..MaxIno, name \in Names \cup {"/"},
           node \in 0..MaxIno, real \in Seq(Names), parts \in Seq(Names), links \in Nat :
        at = [out |-> out, dir |-> dir, parent |-> parent, name |-> name, node |-> node,
              real |-> real, parts |-> parts, links |-> links]
  BY WalkingFields
<1>2. out = "going" /\ parts # <<>> /\ at.parts = parts /\ at.dir = dir /\ at.links = links
      /\ at.real = real /\ at.out = "going"
  BY <1>1
<1>3. PICK part \in Names, rest \in Seq(Names) : part = Head(parts) /\ rest = Tail(parts)
  <2>1. Head(parts) \in Names /\ Tail(parts) \in Seq(Names)
    BY <1>2
  <2> QED
    BY <2>1
<1>4. ns[dir].entries \in [Names -> 0..MaxIno]
  BY NodeFields
<1>5. PICK child \in 0..MaxIno : child = ns[dir].entries[part]
  BY <1>4
<1> DEFINE onward == ns[child].kind = "symlink" /\ (rest # <<>> \/ follow)
<1>6. CASE child = 0 /\ rest # <<>>
  <2>1. s = [at EXCEPT !.out = "ENOENT"]
    BY <1>2, <1>3, <1>5, <1>6 DEF Step
  <2>2. s.out = "ENOENT"
    BY <1>1, <2>1
  <2> QED
    BY <1>2, <1>3, <1>5, <1>6, <2>2 DEF Goes
<1>7. CASE child = 0 /\ rest = <<>>
  <2>1. s = Found(at, dir, part, 0)
    BY <1>2, <1>3, <1>5, <1>7 DEF Step
  <2>2. /\ s.out = "found" /\ s.node = 0 /\ s.parent = dir /\ s.name = part
        /\ s.real = Append(real, part)
    BY <1>1, <2>1 DEF Found
  <2> QED
    BY <1>2, <1>3, <1>5, <1>7, <2>2 DEF Goes
<1>8. CASE child # 0 /\ onward /\ links = MaxLinks
  <2>1. s = [at EXCEPT !.out = "ELOOP"]
    BY <1>2, <1>3, <1>5, <1>8 DEF Step
  <2>2. s.out = "ELOOP"
    BY <1>1, <2>1
  <2> QED
    BY <1>2, <1>3, <1>5, <1>8, <2>2 DEF Goes
<1>9. CASE child # 0 /\ onward /\ links # MaxLinks
  <2>1. s = [at EXCEPT !.links = @ + 1, !.dir = Root, !.parent = 0, !.real = <<>>,
                       !.parts = ns[child].target \o rest]
    BY <1>2, <1>3, <1>5, <1>9 DEF Step
  <2>2. s.out = "going" /\ s.dir = Root /\ s.real = <<>> /\ s.links = links + 1
        /\ s.parts = ns[child].target \o rest
    BY <1>1, <1>2, <2>1
  <2> QED
    BY <1>2, <1>3, <1>5, <1>9, <2>2 DEF Goes
<1>10. CASE child # 0 /\ ns[child].kind = "dir"
  <2>1. s = [at EXCEPT !.parts = rest, !.parent = dir, !.dir = child, !.real = Append(@, part)]
    BY <1>2, <1>3, <1>5, <1>10 DEF Step
  <2>2. s.out = "going" /\ s.dir = child /\ s.real = Append(real, part) /\ s.links = links
        /\ s.parts = rest
    BY <1>1, <1>2, <2>1
  <2> QED
    BY <1>2, <1>3, <1>5, <1>10, <2>2 DEF Goes
<1>11. CASE child # 0 /\ ns[child].kind # "dir" /\ ~onward /\ rest # <<>>
  <2>1. s = [at EXCEPT !.out = "ENOTDIR"]
    BY <1>2, <1>3, <1>5, <1>11 DEF Step
  <2>2. s.out = "ENOTDIR"
    BY <1>1, <2>1
  <2> QED
    BY <1>2, <1>3, <1>5, <1>11, <2>2 DEF Goes
<1>12. CASE child # 0 /\ ns[child].kind # "dir" /\ ~onward /\ rest = <<>>
  <2>1. s = Found(at, dir, part, child)
    BY <1>2, <1>3, <1>5, <1>12 DEF Step
  <2>2. s.out = "found" /\ s.node = child
    BY <1>1, <2>1 DEF Found
  <2> QED
    BY <1>2, <1>3, <1>5, <1>12, <2>2 DEF Goes
<1> QED
  BY <1>6, <1>7, <1>8, <1>9, <1>10, <1>11, <1>12

\* And when none is left.
LEMMA StepEnds ==
  ASSUME NEW ns, NEW at \in Walking(ns), NEW follow \in BOOLEAN, at.out = "going",
         at.parts = <<>>, NEW s, s = Step(ns, at, follow)
  PROVE  s.out = "found" /\ s.node = at.dir
<1>1. at = [out |-> at.out, dir |-> at.dir, parent |-> at.parent, name |-> at.name,
            node |-> at.node, real |-> at.real, parts |-> at.parts, links |-> at.links]
  BY DEF Walking
<1>2. s = [at EXCEPT !.out = "found", !.node = at.dir,
                     !.name = IF at.real = <<>> THEN "/" ELSE Last(at.real)]
  BY DEF Step
<1> QED
  BY <1>1, <1>2

\* A walk that has come to its end stays there.
LEMMA StepRests ==
  ASSUME NEW ns, NEW at, NEW follow, at.out # "going"
  PROVE  Step(ns, at, follow) = at
BY DEF Step

\* The first N steps of a walk.
WalkIs(f, N, ns, follow) ==
  /\ f[0].out = "going"
  /\ \A n \in 1..N : f[n] = Step(ns, f[n - 1], follow)
  /\ \A n \in 0..N : f[n] \in Walking(ns)

\* A walk has them.
LEMMA WalkSteps ==
  ASSUME NEW ns, NEW next, NEW k \in Nat, Shaped(ns, next, k),
         NEW path \in Seq(Names), path # <<>>, NEW follow \in BOOLEAN
  PROVE  \E f : /\ Walk(ns, path, follow) = f[LastStep(path)]
                /\ f[0] = AtRoot(path) /\ WalkIs(f, LastStep(path), ns, follow)
<1>1. PICK f : Walks(f, ns, path, follow) /\ Walk(ns, path, follow) = f[LastStep(path)]
  BY WalkExists
<1>2. LastStep(path) \in Nat /\ \A n \in 0..LastStep(path) : f[n] \in Walking(ns)
  BY <1>1, WalkExists
<1>3. PICK N \in Nat : N = LastStep(path)
  BY <1>2
<1>4. f = [n \in 0..N |-> IF n = 0 THEN AtRoot(path) ELSE Step(ns, f[n - 1], follow)]
  BY <1>1, <1>3 DEF Walks
<1>5. f[0] = AtRoot(path)
  BY <1>3, <1>4
<1>6. \A n \in 1..N : f[n] = Step(ns, f[n - 1], follow)
  BY <1>3, <1>4
<1>7. f[0].out = "going"
  BY <1>5 DEF AtRoot
<1> QED
  BY <1>1, <1>2, <1>3, <1>5, <1>6, <1>7 DEF WalkIs

\* From where a walk has come to its end it does not move.
LEMMA Rests ==
  ASSUME NEW ns, NEW follow, NEW N \in Nat, NEW f,
         WalkIs(f, N, ns, follow), NEW m \in 0..N, f[m].out # "going"
  PROVE  f[N] = f[m]
<1> DEFINE bad == {n \in m..N : f[n] # f[m]}
<1>1. SUFFICES ASSUME bad # {} PROVE FALSE
  OBVIOUS
<1>2. PICK n \in bad : \A j \in bad : n <= j
  <2>1. bad \in SUBSET Nat
    OBVIOUS
  <2> HIDE DEF bad
  <2> QED
    BY <1>1, <2>1, Least
<1>3. n \in 1..N /\ n - 1 \in m..N /\ n - 1 \notin bad
  BY <1>2
<1>4. f[n - 1] = f[m]
  BY <1>3
<1>5. f[n] = f[n - 1]
  BY <1>3, <1>4, StepRests DEF WalkIs
<1> QED
  BY <1>2, <1>4, <1>5

\* A path is no longer than it may be.
LEMMA PathLength ==
  ASSUME NEW path \in Paths
  PROVE  Len(path) \in 1..MaxDepth
<1>1. PICK n \in 1..MaxDepth : path \in [1..n -> Names]
  BY DEF Paths
<1> QED
  BY <1>1, VfsAssumption

\* What a walk has left, in names and in links, is less with every step: one
\* that goes on at its last step but two goes on no longer.
LEMMA Fuel ==
  ASSUME NEW ns, NEW next, NEW k \in Nat, Shaped(ns, next, k),
         NEW path \in Seq(Names), path # <<>>, NEW follow \in BOOLEAN, NEW f,
         f[0] = AtRoot(path), WalkIs(f, LastStep(path), ns, follow),
         NEW n \in 0..LastStep(path), f[n].out = "going"
  PROVE  n + 2 <= LastStep(path)
<1>1. PICK D \in Nat, L \in Nat, N \in Nat, P \in Nat :
        D = MaxDepth /\ L = MaxLinks /\ P = Len(path) /\ N = LastStep(path)
  <2>1. MaxDepth \in Nat /\ MaxLinks \in Nat /\ Len(path) \in Nat
    BY VfsAssumption
  <2>2. LastStep(path) \in Nat
    BY WalkExists
  <2> QED
    BY <2>1, <2>2
<1>2. N = P + L * D + 2
  BY <1>1 DEF LastStep
<1> DEFINE Left(m) == /\ f[m].links \in 0..L
                      /\ m + Len(f[m].parts) + (L - f[m].links) * D <= P + L * D
           bad == {m \in 0..N : f[m].out = "going" /\ ~Left(m)}
<1>3. 0 \notin bad
  BY <1>1 DEF AtRoot
<1>4. ASSUME NEW m \in 1..N, m - 1 \notin bad PROVE m \notin bad
  <2> SUFFICES ASSUME f[m].out = "going" PROVE Left(m)
    OBVIOUS
  <2>1. m - 1 \in 0..N /\ m \in 0..N /\ f[m] = Step(ns, f[m - 1], follow)
    BY <1>1 DEF WalkIs
  <2>2. PICK at \in Walking(ns), s \in Walking(ns) :
          at = f[m - 1] /\ s = f[m] /\ s = Step(ns, at, follow)
    BY <1>1, <2>1 DEF WalkIs
  <2>3. at.out = "going"
    BY <2>2, StepRests
  <2>4. at.parts # <<>>
    BY <2>2, <2>3, StepEnds
  <2>5. at.parts \in Seq(Names) /\ at.links \in Nat /\ Len(at.parts) \in Nat
        /\ at.links \in 0..L /\ (m - 1) + Len(at.parts) + (L - at.links) * D <= P + L * D
    BY <1>4, <2>1, <2>2, <2>3 DEF Walking
  <2>6. PICK l \in 0..L, p \in Nat : l = at.links /\ p = Len(at.parts)
    BY <2>5
  <2>7. PICK rest \in Seq(Names), child \in 0..MaxIno :
          /\ rest = Tail(at.parts)
          /\ \/ /\ child # 0 /\ ns[child].kind = "symlink" /\ at.links # MaxLinks
                /\ s.links = at.links + 1 /\ s.parts = ns[child].target \o rest
             \/ s.links = at.links /\ s.parts = rest
    <3>1. s.out = "going"
      BY <2>2
    <3>2. Goes(ns, at, s)
      BY ONLY k \in Nat, Shaped(ns, next, k), follow \in BOOLEAN, <2>2, <2>3, <2>4, StepIs
    <3> QED
      BY ONLY <3>1, <3>2 DEF Goes
  <2>8. Len(rest) = p - 1
    BY <2>4, <2>5, <2>6, <2>7
  <2>9. CASE s.links = at.links /\ s.parts = rest
    <3>1. m + (p - 1) + (L - l) * D <= P + L * D
      BY <2>5, <2>6
    <3> QED
      BY <2>2, <2>6, <2>8, <2>9, <3>1
  <2>10. CASE /\ child # 0 /\ ns[child].kind = "symlink" /\ at.links # MaxLinks
              /\ s.links = at.links + 1 /\ s.parts = ns[child].target \o rest
    <3>1. PICK t \in Seq(Names) : t = ns[child].target /\ Len(t) \in 1..D
      <4>1. child \in Inos
        BY <2>10 DEF Inos
      <4>2. ns[child].target \in Paths
        BY <2>10, <4>1 DEF Shaped
      <4> QED
        BY <1>1, <4>2, PathsAreSeqs, PathLength
    <3>2. Len(t \o rest) = Len(t) + (p - 1)
      <4>1. Len(t \o rest) = Len(t) + Len(rest)
        BY ONLY t \in Seq(Names), rest \in Seq(Names), ConcatProperties
      <4> QED
        BY <2>8, <4>1
    <3>3. l + 1 \in 0..L
      BY <1>1, <2>6, <2>10
    <3>4. (L - l) * D = (L - (l + 1)) * D + D
      OBVIOUS
    <3>5. (L - (l + 1)) * D \in Int
      OBVIOUS
    <3>6. m + (Len(t) + (p - 1)) + (L - (l + 1)) * D <= P + L * D
      <4> DEFINE a == (L - l) * D
                 b == (L - (l + 1)) * D
                 c == L * D
      <4>1. a = b + D /\ b \in Int /\ c \in Int
        BY <3>4, <3>5
      <4>2. (m - 1) + p + a <= P + c
        BY <2>5, <2>6
      <4> HIDE DEF a, b, c
      <4>3. m + (Len(t) + (p - 1)) + b <= P + c
        BY <3>1, <4>1, <4>2
      <4> QED
        BY <4>3 DEF b, c
    <3>7. f[m].links = l + 1 /\ Len(f[m].parts) = Len(t) + (p - 1)
      BY <2>2, <2>6, <2>10, <3>1, <3>2
    <3> QED
      BY <3>3, <3>6, <3>7
  <2> QED
    BY <2>7, <2>9, <2>10
<1>5. bad = {}
  <2> SUFFICES ASSUME bad # {} PROVE FALSE
    OBVIOUS
  <2> HIDE DEF Left
  <2>1. PICK m \in bad : \A j \in bad : m <= j
    <3>1. bad \in SUBSET Nat
      OBVIOUS
    <3> HIDE DEF bad
    <3> QED
      BY <3>1, Least
  <2>2. m \in 0..N /\ m # 0
    BY <1>3, <2>1
  <2>3. m \in 1..N /\ m - 1 \notin bad
    BY <2>1, <2>2
  <2> HIDE DEF bad
  <2> QED
    BY <1>4, <2>1, <2>3
<1>6. n \in 0..N /\ Left(n)
  BY <1>1, <1>5
<1>7. Len(f[n].parts) \in Nat
  BY DEF Walking, WalkIs
<1>8. (L - f[n].links) * D >= 0
  <2>1. PICK x \in Nat : x = L - f[n].links
    BY <1>6
  <2>2. x * D \in Nat
    OBVIOUS
  <2> QED
    BY <2>1, <2>2
<1>9. n + 2 <= N
  <2> DEFINE a == (L - f[n].links) * D
             c == L * D
  <2>1. n + Len(f[n].parts) + a <= P + c /\ a \in Int /\ a >= 0 /\ c \in Int /\ N = P + c + 2
    BY <1>2, <1>6, <1>8
  <2> HIDE DEF a, c
  <2> QED
    BY <1>6, <1>7, <2>1
<1> QED
  BY <1>1, <1>9

\* Two trees in which what was made is what it was.
Alike(new, ns, next) ==
  \A i \in Inos : i < next =>
    new[i].kind = ns[i].kind /\ new[i].data = ns[i].data /\ new[i].target = ns[i].target

\* What was made is what it was, and what was named is named so still.
Extends(new, ns, next) ==
  /\ Alike(new, ns, next)
  /\ \A i \in Inos : i < next => \A n \in Names :
       ns[i].entries[n] # 0 => new[i].entries[n] = ns[i].entries[n]

\* Where there was something a walk goes on as before.
LEMMA StepKept ==
  ASSUME NEW ns, NEW next, NEW k \in Nat, Shaped(ns, next, k), NEW new, Extends(new, ns, next),
         NEW at \in Walking(ns), NEW follow \in BOOLEAN, at.out = "going",
         NEW s, s = Step(ns, at, follow), s.out = "going" \/ There(s)
  PROVE  Step(new, at, follow) = s
<1>1. CASE at.parts = <<>>
  BY <1>1 DEF Step
<1>2. CASE at.parts # <<>>
  <2>1. Goes(ns, at, s)
    BY <1>2, StepIs
  <2>2. PICK part \in Names, child \in 0..MaxIno :
          /\ part = Head(at.parts) /\ child = ns[at.dir].entries[part] /\ child # 0
    BY <2>1 DEF Goes, There
  <2>3. at.dir \in Inos /\ ns[at.dir].kind = "dir"
    BY DEF Walking
  <2>4. at.dir < next
    <3>1. ns[at.dir].kind # "none"
      BY <2>3
    <3>2. next \in Nat /\ at.dir \in Nat /\ ~(at.dir >= next)
      BY <2>3, <3>1, VfsAssumption DEF Shaped, Inos
    <3> QED
      BY <3>2
  <2>5. child \in Inos /\ child < next
    BY <2>2, <2>3 DEF Shaped, Filled
  <2>6. new[at.dir].entries[part] = child
    BY <2>2, <2>3, <2>4 DEF Extends
  <2>7. new[child].kind = ns[child].kind /\ new[child].target = ns[child].target
    BY <2>5 DEF Extends, Alike
  <2> DEFINE rest == Tail(at.parts)
  <2>8. Step(ns, at, follow)
          = IF ns[child].kind = "symlink" /\ (rest # <<>> \/ follow)
            THEN IF at.links = MaxLinks THEN [at EXCEPT !.out = "ELOOP"]
                 ELSE [at EXCEPT !.links = @ + 1, !.dir = Root, !.parent = 0,
                                 !.real = <<>>, !.parts = ns[child].target \o rest]
            ELSE IF ns[child].kind = "dir"
            THEN [at EXCEPT !.parts = rest, !.parent = at.dir, !.dir = child,
                            !.real = Append(@, part)]
            ELSE IF rest # <<>> THEN [at EXCEPT !.out = "ENOTDIR"]
            ELSE Found(at, at.dir, part, child)
    BY ONLY <1>2, <2>2, at.out = "going" DEF Step
  <2>9. Step(new, at, follow)
          = IF new[child].kind = "symlink" /\ (rest # <<>> \/ follow)
            THEN IF at.links = MaxLinks THEN [at EXCEPT !.out = "ELOOP"]
                 ELSE [at EXCEPT !.links = @ + 1, !.dir = Root, !.parent = 0,
                                 !.real = <<>>, !.parts = new[child].target \o rest]
            ELSE IF new[child].kind = "dir"
            THEN [at EXCEPT !.parts = rest, !.parent = at.dir, !.dir = child,
                            !.real = Append(@, part)]
            ELSE IF rest # <<>> THEN [at EXCEPT !.out = "ENOTDIR"]
            ELSE Found(at, at.dir, part, child)
    BY ONLY <1>2, <2>2, <2>6, at.out = "going" DEF Step
  <2> QED
    BY ONLY <2>7, <2>8, <2>9, s = Step(ns, at, follow)
<1> QED
  BY <1>1, <1>2

\* As long as it goes on, and when it finds something, a walk is the same in
\* the tree that has grown.
LEMMA StepsKept ==
  ASSUME NEW ns, NEW next, NEW k \in Nat, Shaped(ns, next, k), NEW new, Extends(new, ns, next),
         NEW follow \in BOOLEAN, NEW N \in Nat, NEW f, NEW g, f[0] = g[0],
         WalkIs(f, N, ns, follow), WalkIs(g, N, new, follow),
         NEW m \in 0..N, f[m].out = "going" \/ There(f[m])
  PROVE  g[m] = f[m]
<1> DEFINE Kept(n) == f[n].out = "going" \/ There(f[n])
           bad == {n \in 0..N : Kept(n) /\ g[n] # f[n]}
<1>1. SUFFICES ASSUME bad # {} PROVE FALSE
  OBVIOUS
<1>2. PICK n \in bad : \A j \in bad : n <= j
  <2> HIDE DEF Kept
  <2>1. bad \in SUBSET Nat
    OBVIOUS
  <2> HIDE DEF bad
  <2> QED
    BY <1>1, <2>1, Least
<1>3. n \in 1..N /\ n - 1 \in 0..N /\ n - 1 \notin bad /\ g[n] # f[n] /\ Kept(n)
  <2> HIDE DEF Kept
  <2> QED
    BY <1>2
<1>4. f[n] = Step(ns, f[n - 1], follow) /\ g[n] = Step(new, g[n - 1], follow)
      /\ f[n - 1] \in Walking(ns)
  BY <1>3 DEF WalkIs
<1>5. CASE f[n - 1].out # "going"
  <2>1. f[n] = f[n - 1]
    BY <1>4, <1>5, StepRests
  <2>2. g[n - 1] = f[n - 1]
    BY <1>3, <2>1
  <2>3. g[n] = f[n]
    BY <1>4, <1>5, <2>1, <2>2, StepRests
  <2> QED
    BY <1>3, <2>3
<1>6. CASE f[n - 1].out = "going"
  <2>1. g[n - 1] = f[n - 1]
    BY <1>3, <1>6
  <2>0. PICK s : s = f[n]
    OBVIOUS
  <2>2. PICK at \in Walking(ns) : at = f[n - 1] /\ s = f[n]
    BY <1>4, <2>0
  <2>3. s = Step(ns, at, follow) /\ at.out = "going" /\ (s.out = "going" \/ There(s))
    BY <1>3, <1>4, <1>6, <2>2
  <2>4. Step(new, at, follow) = s
    BY ONLY k \in Nat, Shaped(ns, next, k), Extends(new, ns, next), at \in Walking(ns),
            follow \in BOOLEAN, <2>3, StepKept
  <2> QED
    BY <1>3, <1>4, <2>1, <2>2, <2>4
<1> QED
  BY <1>5, <1>6

\* A path that leads to something still leads to it.
LEMMA WalkKept ==
  ASSUME NEW ns, NEW next, NEW k \in Nat, Shaped(ns, next, k),
         NEW new, NEW later, NEW h \in Nat, Shaped(new, later, h), Extends(new, ns, next),
         NEW path \in Seq(Names), path # <<>>, NEW follow \in BOOLEAN,
         There(Walk(ns, path, follow))
  PROVE  Walk(new, path, follow) = Walk(ns, path, follow)
<1>1. PICK f : /\ Walk(ns, path, follow) = f[LastStep(path)] /\ f[0] = AtRoot(path)
               /\ WalkIs(f, LastStep(path), ns, follow)
  BY WalkSteps
<1>2. PICK g : /\ Walk(new, path, follow) = g[LastStep(path)] /\ g[0] = AtRoot(path)
               /\ WalkIs(g, LastStep(path), new, follow)
  BY WalkSteps
<1>3. PICK N \in Nat : N = LastStep(path)
  BY WalkExists
<1>4. PICK m \in 0..N : m = N /\ f[0] = g[0] /\ (f[m].out = "going" \/ There(f[m]))
  BY <1>1, <1>2, <1>3
<1>5. WalkIs(f, N, ns, follow) /\ WalkIs(g, N, new, follow)
  BY <1>1, <1>2, <1>3
<1>6. g[m] = f[m]
  BY ONLY k \in Nat, Shaped(ns, next, k), Extends(new, ns, next), follow \in BOOLEAN, N \in Nat,
          <1>4, <1>5, StepsKept
<1> QED
  BY <1>1, <1>2, <1>3, <1>4, <1>6

\* A path that led to nothing leads to what is put there.
LEMMA WalkMade ==
  ASSUME NEW ns, NEW next, NEW k \in Nat, Shaped(ns, next, k),
         NEW new, NEW later, NEW h \in Nat, Shaped(new, later, h), Extends(new, ns, next),
         NEW path \in Seq(Names), path # <<>>, NEW follow \in BOOLEAN,
         NEW w, w = Walk(ns, path, follow), Free(w),
         NEW i \in Inos, new[w.parent].entries[w.name] = i,
         new[i].kind \in {"dir", "file"} \/ ~follow
  PROVE  There(Walk(new, path, follow)) /\ Walk(new, path, follow).node = i
<1>1. PICK f : /\ Walk(ns, path, follow) = f[LastStep(path)] /\ f[0] = AtRoot(path)
               /\ WalkIs(f, LastStep(path), ns, follow)
  BY WalkSteps
<1>2. PICK g : /\ Walk(new, path, follow) = g[LastStep(path)] /\ g[0] = AtRoot(path)
               /\ WalkIs(g, LastStep(path), new, follow)
  BY WalkSteps
<1>3. PICK N \in Nat : N = LastStep(path)
  BY WalkExists
<1>4. f[0] = g[0] /\ f[0].out = "going" /\ f[N] = w
  BY <1>1, <1>2, <1>3 DEF WalkIs
<1>5. WalkIs(f, N, ns, follow) /\ WalkIs(g, N, new, follow)
  BY <1>1, <1>2, <1>3
<1>ends. ASSUME NEW m \in 0..N, g[m].out # "going" PROVE g[N] = g[m]
  BY ONLY N \in Nat, m \in 0..N, <1>5, <1>ends, Rests
<1> DEFINE bad == {n \in 0..N : f[n].out # "going"}
<1>6. PICK n \in bad : \A m \in bad : n <= m
  <2>1. N \in bad /\ bad \in SUBSET Nat
    BY <1>3, <1>4 DEF Free
  <2> HIDE DEF bad
  <2> QED
    BY <2>1, Least
<1>7. n \in 1..N /\ n - 1 \in 0..N /\ n - 1 \notin bad /\ f[n].out # "going" /\ n \in 0..N
  BY <1>4, <1>6
<1>8. f[n] = w
  <2>1. f[N] = f[n]
    BY ONLY N \in Nat, <1>5, <1>7, Rests
  <2> QED
    BY <1>4, <2>1
<1>9. PICK at \in Walking(ns) : at = f[n - 1] /\ at.out = "going"
  BY <1>5, <1>7 DEF WalkIs
<1>10. g[n - 1] = at
  <2>1. f[n - 1].out = "going" \/ There(f[n - 1])
    BY <1>9
  <2>2. g[n - 1] = f[n - 1]
    BY ONLY k \in Nat, Shaped(ns, next, k), Extends(new, ns, next), follow \in BOOLEAN, N \in Nat,
            <1>4, <1>5, <1>7, <2>1, StepsKept
  <2> QED
    BY <1>9, <2>2
<1>11. w = Step(ns, at, follow) /\ g[n] = Step(new, at, follow)
  BY <1>5, <1>7, <1>8, <1>9, <1>10 DEF WalkIs
<1>12. at.parts # <<>>
  <2> SUFFICES ASSUME at.parts = <<>> PROVE FALSE
    OBVIOUS
  <2>1. w.node = at.dir
    BY <1>9, <1>11, StepEnds
  <2> QED
    BY <2>1 DEF Walking, Inos, Free
<1>13. Goes(ns, at, w)
  BY ONLY k \in Nat, Shaped(ns, next, k), follow \in BOOLEAN, <1>9, <1>11, <1>12, StepIs
<1>14. PICK part \in Names, rest \in Seq(Names) :
         /\ part = Head(at.parts) /\ rest = Tail(at.parts) /\ rest = <<>>
         /\ w.parent = at.dir /\ w.name = part
  BY <1>13 DEF Goes, Free
<1>15. new[at.dir].entries[part] = i /\ i # 0
  BY <1>14 DEF Inos
<1>16. at = [out |-> at.out, dir |-> at.dir, parent |-> at.parent, name |-> at.name,
             node |-> at.node, real |-> at.real, parts |-> at.parts, links |-> at.links]
  BY DEF Walking
<1>17. CASE new[i].kind = "dir"
  <2>1. g[n] = [at EXCEPT !.parts = <<>>, !.parent = at.dir, !.dir = i,
                          !.real = Append(@, part)]
    BY <1>9, <1>11, <1>12, <1>14, <1>15, <1>17 DEF Step
  <2>2. g[n].out = "going" /\ g[n].parts = <<>> /\ g[n].dir = i
    BY <1>9, <1>16, <2>1
  <2>3. n + 2 <= N
    <3>1. n \in 0..LastStep(path)
      BY <1>3, <1>7
    <3> QED
      BY ONLY <1>2, <1>3, <2>2, <3>1, h \in Nat, Shaped(new, later, h), path \in Seq(Names),
              path # <<>>, follow \in BOOLEAN, Fuel
  <2>4. n + 1 \in 1..N /\ (n + 1) - 1 = n /\ n + 1 \in 0..N
    BY <1>7, <2>3
  <2>5. g[n + 1] = Step(new, g[n], follow) /\ g[n] \in Walking(new)
    BY <1>5, <1>7, <2>4 DEF WalkIs
  <2>6. g[n + 1].out = "found" /\ g[n + 1].node = i
    BY <2>2, <2>5, StepEnds
  <2>7. g[N] = g[n + 1]
    <3>1. g[n + 1].out # "going"
      BY <2>6
    <3> QED
      BY <2>4, <3>1, <1>ends
  <2> QED
    BY <1>2, <1>3, <1>15, <2>6, <2>7 DEF There
<1>18. CASE new[i].kind # "dir"
  <2>1. ~(new[i].kind = "symlink" /\ (rest # <<>> \/ follow))
    BY <1>14, <1>18
  <2>2. g[n] = Found(at, at.dir, part, i)
    BY ONLY <1>9, <1>11, <1>12, <1>14, <1>15, <1>18, <2>1 DEF Step
  <2>3. g[n].out = "found" /\ g[n].node = i
    BY <1>16, <2>2 DEF Found
  <2>4. g[N] = g[n]
    <3>1. g[n].out # "going"
      BY <2>3
    <3> QED
      BY <1>7, <3>1, <1>ends
  <2> QED
    BY <1>2, <1>3, <1>15, <2>3, <2>4 DEF There
<1> QED
  BY <1>17, <1>18

-----------------------------------------------------------------------------
(* What makes new nodes.                                                    *)

\* A tree stays one when an operation more is counted.
LEMMA TreeLater ==
  ASSUME NEW ns, NEW next, NEW k \in Nat, IsTree(ns, next, k)
  PROVE  IsTree(ns, next, k + 1)
<1>1. ns \in [Inos -> Nodes(k)] /\ k + 1 \in Nat
  BY DEF IsTree, Shaped
<1>2. ns \in [Inos -> Nodes(k + 1)]
  BY <1>1, NodesGrow
<1> QED
  BY <1>1, <1>2, SameTree

\* A new file, directory or link where a walk has found the place free.
LEMMA NodeMade ==
  ASSUME NEW ns, NEW next, NEW k \in Nat, IsTree(ns, next, k), next <= MaxIno,
         NEW path \in Seq(Names), path # <<>>, NEW follow \in BOOLEAN,
         Free(Walk(ns, path, follow)),
         NEW kind \in {"file", "dir", "symlink"}, NEW data \in 0..k,
         NEW target \in Paths \cup {<<>>}, kind = "symlink" => target \in Paths
  PROVE  /\ IsTree(Grown(ns, Walk(ns, path, follow), next, Node(kind, data, target)), next + 1, k)
         /\ GrowsTo(Grown(ns, Walk(ns, path, follow), next, Node(kind, data, target)), ns,
                    Walk(ns, path, follow).parent, Walk(ns, path, follow).name, next,
                    Node(kind, data, target), k)
         /\ next + 1 \in 2..(MaxIno + 1)
<1>1. Shaped(ns, next, k)
  BY DEF IsTree
<1>2. PICK d \in Dirs(ns), name \in Names :
        /\ d = Walk(ns, path, follow).parent /\ name = Walk(ns, path, follow).name
        /\ ns[d].entries[name] = 0
  BY <1>1, WalkEnds DEF Free
<1>3. PICK node : node = Node(kind, data, target)
  OBVIOUS
<1>4. /\ node \in Nodes(k) /\ node.kind = kind /\ node.nlink = 1 /\ node.target = target
      /\ \A n \in Names : node.entries[n] = 0
  <2>1. 0 \in 0..MaxIno /\ 1 \in 0..(k + 1)
    BY VfsAssumption
  <2>2. [n \in Names |-> 0] \in [Names -> 0..MaxIno]
    BY <2>1
  <2> QED
    BY <1>3, <2>1, <2>2 DEF Node, Nodes
<1>5. PICK new : new = [ns EXCEPT ![d].entries[name] = next, ![next] = node]
  OBVIOUS
<1>6. GrowsTo(new, ns, d, name, next, node, k)
  BY ONLY <1>1, <1>4, <1>5, GrownIs, k \in Nat, next <= MaxIno, d \in Dirs(ns), name \in Names
<1>7. node.kind # "none" /\ (node.kind = "symlink" => node.target \in Paths)
  BY <1>4
<1>8. IsTree(new, next + 1, k)
  BY ONLY <1>2, <1>4, <1>6, <1>7, GrownKeeps, k \in Nat, next <= MaxIno, d \in Dirs(ns),
          name \in Names, IsTree(ns, next, k)
<1>9. Grown(ns, Walk(ns, path, follow), next, Node(kind, data, target)) = new
  BY <1>2, <1>3, <1>5 DEF Grown
<1>10. next + 1 \in 2..(MaxIno + 1)
  BY <1>8 DEF IsTree, Shaped
<1> QED
  BY <1>2, <1>3, <1>6, <1>8, <1>9, <1>10

\* What was there is as it was, names that have changed lead to what is new, and
\* an event's path leads to each new inode before upto.
HeardTo(ns, next, upto, told) ==
  /\ Extends(ns, nodes, nextIno)
  /\ \A i \in Inos, n \in Names :
       ns[i].entries[n] = nodes[i].entries[n] \/ ns[i].entries[n] \in nextIno..(next - 1)
  /\ \A i \in nextIno..(upto - 1) : \E e \in told, follow \in BOOLEAN :
       /\ e.content /\ e.path \in Seq(Names) /\ e.path # <<>>
       /\ There(Walk(ns, e.path, follow)) /\ Walk(ns, e.path, follow).node = i

\* And to each of them.
Heard(ns, next, told) == HeardTo(ns, next, next, told)

\* One node more, before and after its event.
LEMMA HeardMore ==
  ASSUME NEW k \in Nat, NEW ns, NEW next, IsTree(ns, next, k), Shaped(nodes, nextIno, k),
         NEW told, Heard(ns, next, told), nextIno \in 2..next, next <= MaxIno,
         NEW path \in Seq(Names), path # <<>>, NEW follow \in BOOLEAN,
         NEW w, w = Walk(ns, path, follow), Free(w),
         NEW node, node.kind \in {"dir", "file"} \/ ~follow,
         NEW new, GrowsTo(new, ns, w.parent, w.name, next, node, k), IsTree(new, next + 1, k)
  PROVE  /\ HeardTo(new, next + 1, next, told)
         /\ Heard(new, next + 1, told \cup {Event(path, TRUE, FALSE)})
<1>1. Shaped(ns, next, k) /\ Shaped(new, next + 1, k) /\ next \in Nat /\ nextIno \in Nat
  BY VfsAssumption DEF IsTree, Shaped
<1>2. PICK d \in Inos, name \in Names :
        d = w.parent /\ name = w.name /\ ns[d].entries[name] = 0
  BY <1>1, WalkEnds DEF Free, Dirs
<1>3. next \in Inos
  BY <1>1, VfsAssumption DEF Inos
<1>4. /\ new[next] = node /\ new[d].entries[name] = next /\ ButOne(new, ns, d, name)
      /\ \A i \in Inos \ {next} : /\ new[i].kind = ns[i].kind /\ new[i].data = ns[i].data
                                  /\ new[i].target = ns[i].target
  BY ONLY <1>2, GrowsTo(new, ns, w.parent, w.name, next, node, k) DEF GrowsTo
<1>5. Extends(new, ns, next)
  <2>1. Alike(new, ns, next)
    BY <1>1, <1>4 DEF Alike, Inos
  <2>2. \A i \in Inos, n \in Names :
          ns[i].entries[n] # 0 => new[i].entries[n] = ns[i].entries[n]
    BY <1>2, <1>4 DEF ButOne
  <2> QED
    BY <2>1, <2>2 DEF Extends
<1>6. Extends(new, nodes, nextIno)
  <2>1. \A i \in Inos : i < nextIno => i < next
    BY <1>1 DEF Inos
  <2>2. Extends(ns, nodes, nextIno)
    BY DEF Heard, HeardTo
  <2>3. Alike(new, nodes, nextIno)
    BY ONLY <1>5, <2>1, <2>2 DEF Extends, Alike
  <2>4. ASSUME NEW i \in Inos, i < nextIno, NEW n \in Names, nodes[i].entries[n] # 0
        PROVE  new[i].entries[n] = nodes[i].entries[n]
    BY <1>5, <2>1, <2>2, <2>4 DEF Extends
  <2> QED
    BY <2>3, <2>4 DEF Extends
<1>7. ASSUME NEW i \in Inos, NEW n \in Names
      PROVE  \/ new[i].entries[n] = nodes[i].entries[n]
             \/ new[i].entries[n] \in nextIno..((next + 1) - 1)
  <2>1. CASE i = d /\ n = name
    BY <1>1, <1>4, <2>1
  <2>2. CASE ~(i = d /\ n = name)
    <3>1. new[i].entries[n] = ns[i].entries[n]
      BY <1>4, <2>2 DEF ButOne
    <3>2. ns[i].entries[n] = nodes[i].entries[n] \/ ns[i].entries[n] \in nextIno..(next - 1)
      BY DEF Heard, HeardTo
    <3> QED
      BY <1>1, <3>1, <3>2
  <2> QED
    BY <2>1, <2>2
<1>8. ASSUME NEW i \in nextIno..(next - 1)
      PROVE  \E e \in told, also \in BOOLEAN :
               /\ e.content /\ e.path \in Seq(Names) /\ e.path # <<>>
               /\ There(Walk(new, e.path, also)) /\ Walk(new, e.path, also).node = i
  <2>1. PICK e \in told, also \in BOOLEAN :
          /\ e.content /\ e.path \in Seq(Names) /\ e.path # <<>>
          /\ There(Walk(ns, e.path, also)) /\ Walk(ns, e.path, also).node = i
    BY DEF Heard, HeardTo
  <2>2. Walk(new, e.path, also) = Walk(ns, e.path, also)
    <3>1. PICK p \in Seq(Names) : p = e.path /\ p # <<>> /\ There(Walk(ns, p, also))
      BY <2>1
    <3>2. Walk(new, p, also) = Walk(ns, p, also)
      BY ONLY k \in Nat, <1>1, <1>5, <3>1, also \in BOOLEAN, WalkKept
    <3> QED
      BY <3>1, <3>2
  <2> QED
    BY <2>1, <2>2
<1>9. ASSUME NEW i \in nextIno..((next + 1) - 1)
      PROVE  \E e \in told \cup {Event(path, TRUE, FALSE)}, also \in BOOLEAN :
               /\ e.content /\ e.path \in Seq(Names) /\ e.path # <<>>
               /\ There(Walk(new, e.path, also)) /\ Walk(new, e.path, also).node = i
  <2>1. CASE i = next
    <3>1. new[w.parent].entries[w.name] = next /\ (new[next].kind \in {"dir", "file"} \/ ~follow)
      BY <1>2, <1>4
    <3>2. There(Walk(new, path, follow)) /\ Walk(new, path, follow).node = next
      BY <1>1, <1>3, <1>5, <3>1, WalkMade
    <3>3. Event(path, TRUE, FALSE).content /\ Event(path, TRUE, FALSE).path = path
      BY DEF Event
    <3> QED
      BY <2>1, <3>2, <3>3
  <2>2. CASE i # next
    <3>1. i \in nextIno..(next - 1)
      BY <1>1, <2>2
    <3> QED
      BY <1>8, <3>1
  <2> QED
    BY <2>1, <2>2
<1> QED
  BY <1>6, <1>7, <1>8, <1>9 DEF Heard, HeardTo

\* What an operation that makes several nodes has made so far, when it is
\* sound and has been reported.
Makings(k) ==
  {s \in [ok : BOOLEAN, nodes : [Inos -> Nodes(k)], next : 2..(MaxIno + 1),
          events : SUBSET [path : Seq(Names), content : BOOLEAN, subtree : BOOLEAN]] :
     /\ nextIno \in 2..s.next /\ IsTree(s.nodes, s.next, k)
     /\ Heard(s.nodes, s.next, s.events)}

\* It begins with the tree as it is.
LEMMA BegunIs ==
  ASSUME NEW k \in Nat, IsTree(nodes, nextIno, k)
  PROVE  Begun \in Makings(k)
<1>1. /\ nextIno \in 2..(MaxIno + 1) /\ nextIno \in 2..nextIno /\ nodes \in [Inos -> Nodes(k)]
      /\ nextIno..(nextIno - 1) = {}
  BY VfsAssumption DEF IsTree, Shaped
<1>2. Heard(nodes, nextIno, {})
  BY <1>1 DEF Heard, HeardTo, Extends, Alike
<1> QED
  BY <1>1, <1>2 DEF Begun, Makings

\* It may stop.
LEMMA FailedIs ==
  ASSUME NEW k \in Nat, NEW s \in Makings(k)
  PROVE  Failed(s) \in Makings(k)
BY DEF Failed, Makings

\* And make one node more.
LEMMA MadeIs ==
  ASSUME NEW k \in Nat, Shaped(nodes, nextIno, k), NEW s \in Makings(k), s.next <= MaxIno,
         NEW path \in Seq(Names), path # <<>>, NEW follow \in BOOLEAN,
         Free(Walk(s.nodes, path, follow)),
         NEW kind \in {"file", "dir", "symlink"}, NEW data \in 0..k,
         NEW target \in Paths \cup {<<>>},
         kind = "symlink" => target \in Paths /\ ~follow
  PROVE  LET made == Made(s, Walk(s.nodes, path, follow), Node(kind, data, target), path) IN
           /\ made \in Makings(k) /\ made.next = s.next + 1
           /\ HeardTo(made.nodes, made.next, s.next, s.events)
<1>1. PICK ns, next, w, node, new :
        /\ ns = s.nodes /\ next = s.next /\ w = Walk(ns, path, follow)
        /\ node = Node(kind, data, target) /\ new = Grown(ns, w, next, node)
  OBVIOUS
<1>2. /\ s = [ok |-> s.ok, nodes |-> ns, next |-> next, events |-> s.events]
      /\ IsTree(ns, next, k) /\ s.ok \in BOOLEAN
      /\ s.events \in SUBSET [path : Seq(Names), content : BOOLEAN, subtree : BOOLEAN]
  BY <1>1 DEF Makings
<1>3. nextIno \in 2..(next + 1) /\ nextIno \in 2..next /\ Heard(ns, next, s.events) /\ Free(w)
  BY VfsAssumption, <1>1 DEF Makings
<1>4. IsTree(new, next + 1, k) /\ next + 1 \in 2..(MaxIno + 1)
      /\ GrowsTo(new, ns, w.parent, w.name, next, node, k)
  BY <1>1, <1>2, NodeMade
<1>5. new \in [Inos -> Nodes(k)]
  BY <1>4 DEF IsTree, Shaped
<1>6. PICK told : told = s.events \cup {Event(path, TRUE, FALSE)}
  OBVIOUS
<1>7. told \in SUBSET [path : Seq(Names), content : BOOLEAN, subtree : BOOLEAN]
  <2>1. Event(path, TRUE, FALSE) \in [path : Seq(Names), content : BOOLEAN, subtree : BOOLEAN]
    BY DEF Event
  <2> QED
    BY ONLY <1>2, <1>6, <2>1
<1>8. Heard(new, next + 1, told) /\ HeardTo(new, next + 1, next, s.events)
  <2>1. next <= MaxIno /\ (node.kind \in {"dir", "file"} \/ ~follow)
    BY <1>1 DEF Node
  <2>2. /\ Heard(new, next + 1, s.events \cup {Event(path, TRUE, FALSE)})
        /\ HeardTo(new, next + 1, next, s.events)
    BY ONLY k \in Nat, <1>1, <1>2, <1>3, <1>4, <2>1, Shaped(nodes, nextIno, k),
            path \in Seq(Names), path # <<>>, follow \in BOOLEAN, HeardMore
  <2> QED
    BY <1>6, <2>2
<1>9. Made(s, Walk(s.nodes, path, follow), Node(kind, data, target), path)
        = [ok |-> s.ok, nodes |-> new, next |-> next + 1, events |-> told]
  <2>1. Made(s, Walk(s.nodes, path, follow), Node(kind, data, target), path)
          = [s EXCEPT !.nodes = new, !.next = next + 1, !.events = told]
    BY <1>1, <1>6 DEF Made
  <2> QED
    BY ONLY <1>2, <2>1
<1> QED
  BY <1>1, <1>2, <1>3, <1>4, <1>5, <1>7, <1>8, <1>9 DEF Makings

\* mkdir -p makes a directory or nothing.
LEMMA MadeDirIs ==
  ASSUME NEW k \in Nat, Shaped(nodes, nextIno, k), NEW s \in Makings(k),
         NEW path \in Seq(Names), path # <<>>
  PROVE  MadeDir(s, path) \in Makings(k)
<1> DEFINE w == Walk(s.nodes, path, TRUE)
<1>1. CASE ~s.ok \/ w.out # "found" \/ Kind(s.nodes, w.node) \notin {"none", "dir"}
  <2>1. MadeDir(s, path) = Failed(s)
    BY <1>1 DEF MadeDir
  <2> QED
    BY <2>1, FailedIs
<1>2. CASE /\ s.ok /\ w.out = "found" /\ Kind(s.nodes, w.node) \in {"none", "dir"}
           /\ w.node # 0
  BY <1>2 DEF MadeDir
<1>3. CASE /\ s.ok /\ w.out = "found" /\ Kind(s.nodes, w.node) \in {"none", "dir"}
           /\ w.node = 0 /\ s.next > MaxIno
  <2>1. MadeDir(s, path) = Failed(s)
    BY <1>3 DEF MadeDir
  <2> QED
    BY <2>1, FailedIs
<1>4. CASE /\ s.ok /\ w.out = "found" /\ Kind(s.nodes, w.node) \in {"none", "dir"}
           /\ w.node = 0 /\ ~(s.next > MaxIno)
  <2>1. MadeDir(s, path) = Made(s, w, Node("dir", 0, <<>>), path)
    BY <1>4 DEF MadeDir
  <2>2. s.next <= MaxIno /\ 0 \in 0..k
    <3>1. s.next \in 2..(MaxIno + 1) /\ MaxIno \in Nat
      BY VfsAssumption DEF Makings
    <3> QED
      BY <1>4, <3>1
  <2>3. Free(w)
    BY <1>4 DEF Free
  <2> HIDE DEF w
  <2>4. Made(s, w, Node("dir", 0, <<>>), path) \in Makings(k)
    BY <2>2, <2>3, MadeIs DEF w
  <2> QED
    BY <2>1, <2>4
<1> QED
  BY <1>1, <1>2, <1>3, <1>4

\* A copy makes a node like one there is or nothing.
LEMMA CopiedIs ==
  ASSUME NEW k \in Nat, Shaped(nodes, nextIno, k), NEW s \in Makings(k),
         NEW path \in Seq(Names), path # <<>>, NEW ino \in 0..(s.next - 1)
  PROVE  LET copied == Copied(s, ino, path) IN
           /\ copied \in Makings(k)
           /\ copied.ok => /\ copied.next = s.next + 1
                           /\ HeardTo(copied.nodes, copied.next, s.next, s.events)
<1> DEFINE node == s.nodes[ino]
           w == Walk(s.nodes, path, Kind(s.nodes, ino) = "file")
<1>0. Shaped(s.nodes, s.next, k) /\ s.next \in 2..(MaxIno + 1)
  BY DEF Makings, IsTree
<1>1. CASE ~s.ok \/ ino = 0 \/ ~Free(w) \/ s.next > MaxIno
  <2>1. Copied(s, ino, path) = Failed(s)
    BY <1>1 DEF Copied
  <2>2. ~Failed(s).ok
    BY DEF Failed, Makings
  <2> QED
    BY <2>1, <2>2, FailedIs
<1>2. CASE s.ok /\ ino # 0 /\ Free(w) /\ ~(s.next > MaxIno)
  <2>1. Copied(s, ino, path) = Made(s, w, Node(node.kind, node.data, node.target), path)
    BY <1>2 DEF Copied
  <2>2. s.next <= MaxIno /\ ino \in Inos /\ ~(ino >= s.next)
    BY <1>0, <1>2, VfsAssumption DEF Inos
  <2>3. /\ node \in Nodes(k) /\ node.kind # "none"
        /\ node.kind = "symlink" => node.target \in Paths
        /\ (Kind(s.nodes, ino) = "file") = (node.kind = "file")
    BY <1>0, <1>2, <2>2 DEF Shaped, Kind
  <2>4. /\ node.kind \in {"file", "dir", "symlink"} /\ node.data \in 0..k
        /\ node.target \in Paths \cup {<<>>}
    BY <2>3 DEF Nodes
  <2>5. PICK follow \in BOOLEAN : /\ w = Walk(s.nodes, path, follow)
                                  /\ node.kind = "symlink" => ~follow
    BY <2>3
  <2> HIDE DEF w
  <2>6. Free(Walk(s.nodes, path, follow))
    BY <1>2, <2>5
  <2>7. PICK kind, data, target : kind = node.kind /\ data = node.data /\ target = node.target
    OBVIOUS
  <2> HIDE DEF node
  <2>8. PICK made : made = Made(s, Walk(s.nodes, path, follow), Node(kind, data, target), path)
    OBVIOUS
  <2>9. /\ made \in Makings(k) /\ made.next = s.next + 1
        /\ HeardTo(made.nodes, made.next, s.next, s.events)
    BY <2>2, <2>3, <2>4, <2>5, <2>6, <2>7, <2>8, MadeIs
  <2> QED
    BY <2>1, <2>5, <2>7, <2>8, <2>9
<1> QED
  BY <1>1, <1>2

-----------------------------------------------------------------------------
(* Names followed without links.                                            *)

\* f is what From computes, name by name.
Follows(f, ns, dir, path) ==
  f = [n \in 0..Len(path) |-> IF n = 0 THEN dir ELSE Into(ns, f[n - 1], path[n])]

\* Read off name by name.
LEMMA FollowsStep ==
  ASSUME NEW f, NEW ns, NEW dir, NEW path \in Seq(Names), Follows(f, ns, dir, path)
  PROVE  /\ f[0] = dir
         /\ \A n \in 1..Len(path) : f[n] = Into(ns, f[n - 1], path[n])
<1>1. Len(path) \in Nat /\ 0 \in 0..Len(path)
  OBVIOUS
<1>2. f = [n \in 0..Len(path) |-> IF n = 0 THEN dir ELSE Into(ns, f[n - 1], path[n])]
  BY DEF Follows
<1>3. f[0] = dir
  BY <1>1, <1>2
<1>4. ASSUME NEW n \in 1..Len(path) PROVE f[n] = Into(ns, f[n - 1], path[n])
  <2>1. n \in 0..Len(path) /\ n # 0
    BY <1>1
  <2> QED
    BY <1>2, <2>1
<1> QED
  BY <1>3, <1>4

\* A name leads from what has been made to what has been made.
LEMMA IntoIs ==
  ASSUME NEW ns, NEW next, NEW k \in Nat, Shaped(ns, next, k),
         NEW i \in 0..(next - 1), NEW name \in Names
  PROVE  /\ Into(ns, i, name) \in 0..(next - 1)
         /\ Into(ns, i, name) # 0 =>
              i \in Dirs(ns) /\ Into(ns, i, name) \in Children(ns, i)
<1>1. i = 0 \/ i \in Inos
  BY VfsAssumption DEF Shaped, Inos
<1>2. CASE i = 0
  BY <1>2 DEF Into, Kind, Shaped
<1>3. CASE i \in Inos /\ ns[i].kind = "dir"
  <2>1. i # 0 /\ Into(ns, i, name) = ns[i].entries[name]
    BY <1>3 DEF Into, Kind, Inos
  <2>2. ns[i].entries[name] \in 0..MaxIno
    BY <1>3, NodeFields
  <2>3. ns[i].entries[name] # 0 => ns[i].entries[name] < next /\ ns[i].entries[name] \in Inos
    BY <1>3 DEF Shaped, Filled
  <2> QED
    BY <1>3, <2>1, <2>2, <2>3, VfsAssumption DEF Dirs, Children, Shaped
<1>4. CASE i \in Inos /\ ns[i].kind # "dir"
  BY <1>4 DEF Into, Kind, Shaped
<1> QED
  BY <1>1, <1>2, <1>3, <1>4

\* From is computed so, and all of it has been made or is nothing.
LEMMA FromExists ==
  ASSUME NEW ns, NEW next, NEW k \in Nat, Shaped(ns, next, k),
         NEW dir \in 0..(next - 1), NEW path \in Seq(Names)
  PROVE  \E f : /\ Follows(f, ns, dir, path) /\ From(ns, dir, path) = f[Len(path)]
                /\ \A n \in 0..Len(path) : f[n] \in 0..(next - 1)
<1> DEFINE S == 0..(next - 1)
           N == Len(path)
           F == [n \in 1..N |-> [i \in S |-> Into(ns, i, path[n])]]
<1>1. N \in Nat /\ \A n \in 1..N : path[n] \in Names
  OBVIOUS
<1>2. F \in [1..N -> [S -> S]]
  BY <1>1, IntoIs
<1> HIDE DEF S, N, F
<1>3. \E f : Follows(f, ns, dir, path)
  <2>1. PICK f : Iterates(f, N, S, dir, F)
    BY <1>1, <1>2, Iteration DEF S
  <2>2. \A n \in 1..N : f[n] = Into(ns, f[n - 1], path[n])
    <3> SUFFICES ASSUME NEW n \in 1..N PROVE f[n] = Into(ns, f[n - 1], path[n])
      OBVIOUS
    <3>1. n - 1 \in 0..N
      BY <1>1
    <3>2. f[n - 1] \in S
      BY <2>1, <3>1 DEF Iterates
    <3> QED
      BY <2>1, <3>2 DEF F, Iterates
  <2>3. Follows(f, ns, dir, path)
    BY <1>1, <2>1, <2>2 DEF Iterates, Follows, N
  <2> QED
    BY <2>3
<1>4. PICK f : f = CHOOSE g : Follows(g, ns, dir, path)
  OBVIOUS
<1>5. Follows(f, ns, dir, path)
  BY <1>3, <1>4
<1>6. From(ns, dir, path) = f[Len(path)]
  BY <1>4 DEF From, Follows
<1>7. \A n \in 0..N : f[n] \in S
  <2>1. f[0] \in S /\ \A n \in 1..N : f[n] = Into(ns, f[n - 1], path[n])
    BY <1>5, FollowsStep DEF S, N
  <2>2. \A n \in 1..N : f[n - 1] \in S => f[n] \in S
    BY <1>1, <2>1, IntoIs DEF S
  <2> QED
    BY <1>1, <2>1, <2>2, StepByStep
<1> QED
  BY <1>5, <1>6, <1>7 DEF S, N

\* What names lead to has been made, or is nothing.
LEMMA FromIs ==
  ASSUME NEW ns, NEW next, NEW k \in Nat, Shaped(ns, next, k),
         NEW dir \in 0..(next - 1), NEW path \in Seq(Names)
  PROVE  From(ns, dir, path) \in 0..(next - 1)
<1>1. Len(path) \in 0..Len(path)
  OBVIOUS
<1> QED
  BY <1>1, FromExists

\* In a sound tree no names lead from a directory back to it: the directories on
\* the way would each be in one of them.
LEMMA NoWayBack ==
  ASSUME NEW ns, NEW next, NEW k \in Nat, IsTree(ns, next, k),
         NEW dir \in Dirs(ns), NEW path \in Seq(Names), path # <<>>
  PROVE  From(ns, dir, path) # dir
<1> SUFFICES ASSUME From(ns, dir, path) = dir PROVE FALSE
  OBVIOUS
<1>1. Shaped(ns, next, k) /\ dir \in 0..(next - 1) /\ dir # 0 /\ next \in Nat
  BY VfsAssumption DEF IsTree, Shaped, Dirs, Inos
<1>2. PICK N \in Nat : N = Len(path) /\ N # 0
  <2>1. Len(path) \in Nat /\ Len(path) # 0
    OBVIOUS
  <2> QED
    BY <2>1
<1>3. PICK f : /\ Follows(f, ns, dir, path) /\ f[N] = dir
               /\ \A n \in 0..N : f[n] \in 0..(next - 1)
  BY <1>1, <1>2, FromExists
<1>4. f[0] = dir /\ \A n \in 1..N : f[n] = Into(ns, f[n - 1], path[n])
  BY <1>2, <1>3, FollowsStep
<1>5. \A n \in 1..N : f[n] # 0 => f[n - 1] \in Dirs(ns) /\ f[n] \in Children(ns, f[n - 1])
  <2> SUFFICES ASSUME NEW n \in 1..N, f[n] # 0
               PROVE  f[n - 1] \in Dirs(ns) /\ f[n] \in Children(ns, f[n - 1])
    OBVIOUS
  <2>1. n - 1 \in 0..N /\ path[n] \in Names
    BY <1>2
  <2>2. f[n - 1] \in 0..(next - 1)
    BY <1>3, <2>1
  <2> QED
    BY <1>1, <1>4, <2>1, <2>2, IntoIs
<1>6. \A n \in 0..N : f[n] # 0
  <2> SUFFICES ASSUME NEW n \in 0..N, f[n] = 0 PROVE FALSE
    OBVIOUS
  <2> DEFINE there == {m \in n..N : f[m] # 0}
  <2>1. there # {} /\ there \in SUBSET Nat
    BY <1>1, <1>2, <1>3
  <2>2. PICK m \in there : \A j \in there : m <= j
    <3> HIDE DEF there
    <3> QED
      BY <2>1, Least
  <2>3. m # n /\ m \in n..N /\ f[m] # 0
    BY <2>2
  <2>4. m \in 1..N /\ m - 1 \in n..N
    BY <2>3
  <2>5. f[m - 1] # 0
    <3>1. f[m - 1] \in Dirs(ns)
      BY <1>5, <2>3, <2>4
    <3> QED
      BY <3>1 DEF Dirs, Inos
  <2>6. m - 1 \in there
    BY <2>4, <2>5
  <2> HIDE DEF there
  <2> QED
    BY <2>2, <2>4, <2>6
<1> DEFINE D == {f[n] : n \in 0..(N - 1)}
<1>7. \A n \in 0..(N - 1) : f[n] \in Dirs(ns)
  <2> SUFFICES ASSUME NEW n \in 0..(N - 1) PROVE f[n] \in Dirs(ns)
    OBVIOUS
  <2>1. n + 1 \in 1..N /\ n + 1 \in 0..N /\ (n + 1) - 1 = n
    BY <1>2
  <2>2. f[n + 1] # 0
    BY <1>6, <2>1
  <2> QED
    BY <1>5, <2>1, <2>2
<1>8. D \in SUBSET Dirs(ns) /\ D # {}
  <2>1. 0 \in 0..(N - 1)
    BY <1>2
  <2> QED
    BY <1>7, <2>1
<1>9. PICK n \in 0..(N - 1) : \A m \in 0..(N - 1) : f[n] \notin Children(ns, f[m])
  <2>1. PICK d \in D : \A e \in D : d \notin Children(ns, e)
    BY <1>8 DEF IsTree, Acyclic
  <2> QED
    BY <2>1
<1>10. CASE n = 0
  <2>1. N \in 1..N /\ N - 1 \in 0..(N - 1) /\ f[N] # 0
    BY <1>1, <1>2, <1>3
  <2>2. f[N] \in Children(ns, f[N - 1])
    BY <1>5, <2>1
  <2> QED
    BY <1>3, <1>4, <1>9, <1>10, <2>1, <2>2
<1>11. CASE n # 0
  <2>1. n \in 1..N /\ n - 1 \in 0..(N - 1) /\ n \in 0..N
    BY <1>2, <1>11
  <2>2. f[n] \in Children(ns, f[n - 1])
    BY <1>5, <1>6, <2>1
  <2> QED
    BY <1>9, <2>1, <2>2
<1> QED
  BY <1>10, <1>11

-----------------------------------------------------------------------------
(* Operations that make several nodes.                                      *)

\* f is what MkdirAll computes, directory by directory.
MakesDirs(f, path) ==
  f = [n \in 0..Len(path) |-> IF n = 0 THEN Begun ELSE MadeDir(f[n - 1], SubSeq(path, 1, n))]

\* The first names of a path are one.
LEMMA Beginnings ==
  ASSUME NEW path \in Seq(Names), NEW n \in 1..Len(path)
  PROVE  SubSeq(path, 1, n) \in Seq(Names) /\ SubSeq(path, 1, n) # <<>>
<1>1. n \in Nat /\ n # 0 /\ n <= Len(path) /\ Len(path) \in Nat
  OBVIOUS
<1>2. SubSeq(path, 1, n) \in Seq(Names) /\ Len(SubSeq(path, 1, n)) = n
  BY <1>1, SubSeqProperties
<1> QED
  BY <1>1, <1>2

\* mkdir -p leaves a sound tree.
LEMMA MkdirAllKeeps ==
  ASSUME NEW k \in Nat, IsTree(nodes, nextIno, k), NEW path \in Paths, MkdirAll(path)
  PROVE  /\ IsTree(nodes', nextIno', k) /\ nextIno <= nextIno'
         /\ Heard(nodes', nextIno', events')
<1> DEFINE S == Makings(k)
           N == Len(path)
           F == [n \in 1..N |-> [s \in S |-> MadeDir(s, SubSeq(path, 1, n))]]
<1>1. path \in Seq(Names) /\ N \in Nat /\ Shaped(nodes, nextIno, k)
  BY PathsAreSeqs DEF IsTree
<1>2. Begun \in S
  BY BegunIs
<1>3. \A n \in 1..N : \A s \in S : MadeDir(s, SubSeq(path, 1, n)) \in S
  BY <1>1, Beginnings, MadeDirIs
<1>4. F \in [1..N -> [S -> S]]
  BY <1>3
<1> HIDE DEF S, N, F
<1>5. \E f : MakesDirs(f, path)
  <2>1. PICK f : Iterates(f, N, S, Begun, F)
    BY <1>1, <1>2, <1>4, Iteration
  <2>2. \A n \in 1..N : f[n] = MadeDir(f[n - 1], SubSeq(path, 1, n))
    <3> SUFFICES ASSUME NEW n \in 1..N PROVE f[n] = MadeDir(f[n - 1], SubSeq(path, 1, n))
      OBVIOUS
    <3>1. n - 1 \in 0..N
      BY <1>1
    <3>2. f[n - 1] \in S
      BY <2>1, <3>1 DEF Iterates
    <3> QED
      BY <2>1, <3>2 DEF F, Iterates
  <2>3. MakesDirs(f, path)
    BY <1>1, <2>1, <2>2 DEF Iterates, MakesDirs, N
  <2> QED
    BY <2>3
<1>6. PICK f : f = CHOOSE g : MakesDirs(g, path)
  OBVIOUS
<1>7. f = [n \in 0..N |-> IF n = 0 THEN Begun ELSE MadeDir(f[n - 1], SubSeq(path, 1, n))]
  BY <1>5, <1>6 DEF MakesDirs, N
<1>8. Done(f[N])
  BY <1>6 DEF MkdirAll, MakesDirs, N
<1>9. f[N] \in S
  <2>1. f[0] = Begun /\ \A n \in 1..N : f[n] = MadeDir(f[n - 1], SubSeq(path, 1, n))
    BY <1>1, <1>7
  <2>2. f[0] \in S /\ \A n \in 1..N : f[n - 1] \in S => f[n] \in S
    BY <1>2, <1>3, <2>1
  <2>3. \A n \in 0..N : f[n] \in S
    BY <1>1, <2>2, StepByStep
  <2>4. N \in 0..N
    BY <1>1
  <2> QED
    BY <2>3, <2>4
<1>10. nextIno <= f[N].next /\ IsTree(f[N].nodes, f[N].next, k)
       /\ Heard(f[N].nodes, f[N].next, f[N].events)
  BY <1>9 DEF S, Makings
<1> QED
  BY <1>8, <1>10 DEF Done

\* One entry copied, and the copies so far, entry by entry.
CopiedAs(s, source, to, name) == Copied(s, From(s.nodes, source, name), to \o name)
Copies(f, n, source, to, order) ==
  f = [k \in 0..n |-> IF k = 0 THEN Begun ELSE CopiedAs(f[k - 1], source, to, order[k])]

\* What Cp leaves: so many copies in some order, the last perhaps not told.
LEMMA CpIs ==
  ASSUME NEW from \in Paths, NEW to \in Paths, Cp(from, to)
  PROVE  \E n \in 1..(MaxIno + 1 - nextIno) : \E order \in Orders[n] :
           LET f == CHOOSE g : Copies(g, n, Walk(nodes, from, FALSE).node, to, order) IN
             /\ f[n].ok /\ nodes' = f[n].nodes /\ nextIno' = f[n].next
             /\ \/ events' = f[n].events
                \/ overflow' = TRUE /\ events' = f[n - 1].events
<1> DEFINE source == Walk(nodes, from, FALSE).node
           inside == /\ Kind(nodes, source) = "dir"
                     /\ Walk(nodes, to, FALSE).parent \in Beneath(nodes, source)
<1>1. PICK n \in 1..(MaxIno + 1 - nextIno) : \E order \in Orders[n] :
        LET after[k \in 0..n] ==
              IF k = 0 THEN Begun
              ELSE Copied(after[k - 1], From(after[k - 1].nodes, source, order[k]),
                          to \o order[k])
        IN /\ after[n].ok /\ nodes' = after[n].nodes /\ nextIno' = after[n].next
           /\ overflow' = inside
           /\ \/ events' = after[n].events
              \/ inside /\ events' = after[n - 1].events
  BY DEF Cp
<1> HIDE DEF inside
<1>2. inside \in BOOLEAN
  BY DEF inside
<1>3. PICK order \in Orders[n] :
        LET after[k \in 0..n] ==
              IF k = 0 THEN Begun
              ELSE Copied(after[k - 1], From(after[k - 1].nodes, source, order[k]),
                          to \o order[k])
        IN /\ after[n].ok /\ nodes' = after[n].nodes /\ nextIno' = after[n].next
           /\ overflow' = inside
           /\ \/ events' = after[n].events
              \/ inside /\ events' = after[n - 1].events
  BY <1>1
<1>4. PICK f : f = CHOOSE g : Copies(g, n, source, to, order)
  OBVIOUS
<1>5. /\ f[n].ok /\ nodes' = f[n].nodes /\ nextIno' = f[n].next
      /\ overflow' = inside
      /\ \/ events' = f[n].events
         \/ inside /\ events' = f[n - 1].events
  BY <1>3, <1>4 DEF Copies, CopiedAs
<1> QED
  BY <1>2, <1>4, <1>5

\* What cp says of what it made: all of it, or all but the last.
HeardAll ==
  \/ Heard(nodes', nextIno', events')
  \/ overflow' = TRUE /\ HeardTo(nodes', nextIno', nextIno' - 1, events')

\* cp leaves a sound tree.
LEMMA CpKeeps ==
  ASSUME NEW k \in Nat, IsTree(nodes, nextIno, k),
         NEW from \in Paths, NEW to \in Paths, Cp(from, to)
  PROVE  IsTree(nodes', nextIno', k) /\ nextIno <= nextIno' /\ HeardAll
<1> DEFINE source == Walk(nodes, from, FALSE).node
           S == Makings(k)
<1>1. /\ from \in Seq(Names) /\ to \in Seq(Names) /\ from # <<>> /\ to # <<>>
      /\ Shaped(nodes, nextIno, k)
  BY PathsAreSeqs DEF IsTree
<1>2. PICK N \in 1..(MaxIno + 1 - nextIno) : \E order \in Orders[N] :
           LET f == CHOOSE g : Copies(g, N, source, to, order) IN
             /\ f[N].ok /\ nodes' = f[N].nodes /\ nextIno' = f[N].next
             /\ \/ events' = f[N].events
                \/ overflow' = TRUE /\ events' = f[N - 1].events
  BY CpIs
<1>0. PICK order \in Orders[N] :
           LET f == CHOOSE g : Copies(g, N, source, to, order) IN
             /\ f[N].ok /\ nodes' = f[N].nodes /\ nextIno' = f[N].next
             /\ \/ events' = f[N].events
                \/ overflow' = TRUE /\ events' = f[N - 1].events
  BY <1>2
<1>3. PICK f :
             /\ f = CHOOSE g : Copies(g, N, source, to, order)
             /\ f[N].ok /\ nodes' = f[N].nodes /\ nextIno' = f[N].next
             /\ \/ events' = f[N].events
                \/ overflow' = TRUE /\ events' = f[N - 1].events
  BY <1>0
<1>4. N \in Nat /\ N \in 1..(MaxIno - 1) /\ nextIno \in 2..(MaxIno + 1)
  BY VfsAssumption, <1>1 DEF Shaped
<1>5. source \in 0..(nextIno - 1)
  <2>1. There(Walk(nodes, from, FALSE)) /\ FALSE \in BOOLEAN
    BY DEF Cp
  <2>2. source \in Inos /\ source < nextIno
    BY <1>1, <2>1, WalkEnds DEF There
  <2> HIDE DEF source
  <2> QED
    BY <1>4, <2>2, VfsAssumption DEF Inos
<1>6. \A j \in 1..N : order[j] \in Seq(Names)
  <2>1. order \in [1..N -> UNION {[1..m -> Names] : m \in 0..(N - 1)}]
    BY <1>4 DEF Orders
  <2> SUFFICES ASSUME NEW j \in 1..N PROVE order[j] \in Seq(Names)
    OBVIOUS
  <2>0. order[j] \in UNION {[1..m -> Names] : m \in 0..(N - 1)}
    BY <2>1
  <2>2. PICK m \in 0..(N - 1) : order[j] \in [1..m -> Names]
    BY <2>0
  <2>3. m \in Nat
    BY <1>4
  <2> QED
    BY <2>2, <2>3
<1> HIDE DEF source, S
<1>7. Begun \in S
  BY BegunIs DEF S
<1>8. ASSUME NEW j \in 1..N, NEW s \in S
      PROVE  LET copied == CopiedAs(s, source, to, order[j]) IN
               /\ copied \in S
               /\ copied.ok => /\ copied.next = s.next + 1
                               /\ HeardTo(copied.nodes, copied.next, s.next, s.events)
  <2>0. PICK p : p = to \o order[j]
    OBVIOUS
  <2>1. p \in Seq(Names) /\ p # <<>>
    <3>1. to \o order[j] \in Seq(Names) /\ Len(to \o order[j]) = Len(to) + Len(order[j])
      BY <1>1, <1>6, ConcatProperties
    <3>2. Len(to) \in Nat /\ Len(to) # 0 /\ Len(order[j]) \in Nat
      BY <1>1, <1>6
    <3>3. Len(to \o order[j]) # 0
      BY <3>1, <3>2
    <3> QED
      BY <2>0, <3>1, <3>3
  <2>2. /\ Shaped(s.nodes, s.next, k) /\ nextIno \in 2..s.next /\ s.next \in 2..(MaxIno + 1)
        /\ s \in Makings(k)
    BY DEF S, Makings, IsTree
  <2>3. source \in 0..(s.next - 1)
    BY <1>4, <1>5, <2>2, VfsAssumption
  <2>4. PICK i \in 0..(s.next - 1) : i = From(s.nodes, source, order[j])
    BY <1>6, <2>2, <2>3, FromIs
  <2> QED
    BY <1>1, <2>0, <2>1, <2>2, <2>4, CopiedIs DEF S, CopiedAs
<1>9. f = [j \in 0..N |-> IF j = 0 THEN Begun ELSE CopiedAs(f[j - 1], source, to, order[j])]
  <2> DEFINE F == [j \in 1..N |-> [s \in S |-> CopiedAs(s, source, to, order[j])]]
  <2>1. F \in [1..N -> [S -> S]]
    BY <1>8
  <2> HIDE DEF F
  <2>2. PICK g : Iterates(g, N, S, Begun, F)
    BY <1>4, <1>7, <2>1, Iteration
  <2>3. \A j \in 1..N : g[j] = CopiedAs(g[j - 1], source, to, order[j])
    <3> SUFFICES ASSUME NEW j \in 1..N PROVE g[j] = CopiedAs(g[j - 1], source, to, order[j])
      OBVIOUS
    <3>1. j - 1 \in 0..N
      BY <1>4
    <3>2. g[j - 1] \in S
      BY <2>2, <3>1 DEF Iterates
    <3> QED
      BY <2>2, <3>2 DEF F, Iterates
  <2>4. Copies(g, N, source, to, order)
    BY <1>4, <2>2, <2>3 DEF Iterates, Copies
  <2>5. Copies(f, N, source, to, order)
    BY <1>3, <2>4
  <2> QED
    BY <2>5 DEF Copies
<1>10. \A j \in 0..N : f[j] \in S
  <2>1. f[0] = Begun
    BY <1>4, <1>9
  <2>2. \A j \in 1..N : f[j] = CopiedAs(f[j - 1], source, to, order[j])
    BY <1>4, <1>9
  <2>3. f[0] \in S /\ \A j \in 1..N : f[j - 1] \in S => f[j] \in S
    BY <1>7, <1>8, <2>1, <2>2
  <2> QED
    BY <1>4, <2>3, StepByStep
<1>11. N \in 0..N /\ N \in 1..N /\ N - 1 \in 0..N
  BY <1>4
<1>12. /\ f[N] \in S /\ f[N - 1] \in S
       /\ f[N] = CopiedAs(f[N - 1], source, to, order[N])
  BY <1>4, <1>9, <1>10, <1>11
<1>13. /\ nextIno <= f[N].next /\ IsTree(f[N].nodes, f[N].next, k)
       /\ Heard(f[N].nodes, f[N].next, f[N].events)
       /\ f[N - 1].next \in Nat
  BY <1>12, VfsAssumption DEF S, Makings
<1>14. /\ f[N].next = f[N - 1].next + 1
       /\ HeardTo(f[N].nodes, f[N].next, f[N - 1].next, f[N - 1].events)
  BY <1>3, <1>8, <1>11, <1>12
<1>15. f[N].next - 1 = f[N - 1].next
  BY <1>13, <1>14
<1> QED
  BY <1>3, <1>13, <1>14, <1>15 DEF HeardAll

-----------------------------------------------------------------------------
(* The operations, one by one.                                              *)

\* One new node where a walk has found the place free.
LEMMA CreateKeeps ==
  ASSUME NEW k \in Nat, IsTree(nodes, nextIno, k),
         NEW path \in Paths, NEW follow \in BOOLEAN, Free(Walk(nodes, path, follow)),
         NEW kind \in {"file", "dir", "symlink"}, NEW data \in 0..k,
         NEW target \in Paths \cup {<<>>}, kind = "symlink" => target \in Paths,
         Create(Walk(nodes, path, follow), Node(kind, data, target))
  PROVE  IsTree(nodes', nextIno', k) /\ nextIno' = nextIno + 1
<1>1. path \in Seq(Names) /\ path # <<>>
  BY PathsAreSeqs
<1>2. /\ nextIno <= MaxIno /\ nextIno' = nextIno + 1
      /\ nodes' = Grown(nodes, Walk(nodes, path, follow), nextIno, Node(kind, data, target))
  BY DEF Create
<1>3. IsTree(Grown(nodes, Walk(nodes, path, follow), nextIno, Node(kind, data, target)),
             nextIno + 1, k)
  BY <1>1, <1>2, NodeMade
<1> QED
  BY <1>2, <1>3

\* What a file holds changes, and nothing else.
LEMMA WriteKeeps ==
  ASSUME NEW k \in Nat, IsTree(nodes, nextIno, k), NEW x \in Inos, NEW v \in 0..k,
         nodes' = [nodes EXCEPT ![x].data = v], nextIno' = nextIno
  PROVE  IsTree(nodes', nextIno', k)
<1>1. nodes \in [Inos -> Nodes(k)]
  BY DEF IsTree, Shaped
<1>2. PICK new : new = nodes'
  OBVIOUS
<1>3. new = [nodes EXCEPT ![x].data = v]
  BY <1>2
<1>4. /\ new \in [Inos -> Nodes(k)]
      /\ \A j \in Inos : /\ new[j].kind = nodes[j].kind /\ new[j].nlink = nodes[j].nlink
                         /\ new[j].target = nodes[j].target /\ new[j].entries = nodes[j].entries
  BY <1>1, <1>3, DataIs
<1>5. IsTree(new, nextIno, k)
  BY ONLY <1>4, IsTree(nodes, nextIno, k), k \in Nat, SameTree
<1> QED
  BY <1>2, <1>5

\* unlinkEntry, where a walk has found something.
LEMMA UnnamedDoes ==
  ASSUME NEW k \in Nat, NEW ns, NEW next, IsTree(ns, next, k),
         NEW path \in Paths, NEW follow \in BOOLEAN, There(Walk(ns, path, follow)),
         NEW new, new = Unnamed(ns, Walk(ns, path, follow))
  PROVE  \E d \in Dirs(ns), name \in Names, x \in Inos :
           /\ d = Walk(ns, path, follow).parent /\ name = Walk(ns, path, follow).name
           /\ x = Walk(ns, path, follow).node /\ x # 0 /\ x = ns[d].entries[name]
           /\ Relinks(new, ns, d, name, 0, x, ns[x].nlink - 1, k)
           /\ IsTree(new, next, k)
<1>1. path \in Seq(Names) /\ path # <<>> /\ Shaped(ns, next, k)
  BY PathsAreSeqs DEF IsTree
<1>2. PICK w : w = Walk(ns, path, follow)
  OBVIOUS
<1>3. /\ w.parent \in Dirs(ns) /\ w.name \in Names
      /\ w.node = ns[w.parent].entries[w.name] /\ w.node # 0 /\ w.node \in Inos
  BY <1>1, <1>2, WalkEnds DEF There
<1>4. PICK d \in Dirs(ns), name \in Names, x \in Inos :
        d = w.parent /\ name = w.name /\ x = w.node /\ x = ns[d].entries[name] /\ x # 0
  BY <1>3
<1>5. new = [ns EXCEPT ![d].entries[name] = 0, ![x].nlink = @ - 1]
  BY <1>2, <1>4 DEF Unnamed
<1>6. Relinks(new, ns, d, name, 0, x, ns[x].nlink - 1, k)
  BY ONLY k \in Nat, IsTree(ns, next, k), <1>4, <1>5, UnnamedIs
<1>7. ns[x].nlink - 1 = Cardinality(NamesOf(ns, x) \ {<<d, name>>})
  BY ONLY k \in Nat, IsTree(ns, next, k), <1>4, <1>5, UnnamedIs
<1>8. IsFiniteSet(NamesOf(ns, x) \ {<<d, name>>})
  BY ONLY k \in Nat, IsTree(ns, next, k), <1>4, <1>5, UnnamedIs
<1>9. IsTree(new, next, k)
  BY ONLY <1>4, <1>6, <1>7, <1>8, k \in Nat, IsTree(ns, next, k), UnnamedKeeps
<1> QED
  BY <1>2, <1>4, <1>6, <1>9

\* unlink, rmdir and rm leave a sound tree.
LEMMA RmKeeps ==
  ASSUME NEW k \in Nat, IsTree(nodes, nextIno, k),
         NEW path \in Paths, NEW recursive, Rm(path, recursive)
  PROVE  IsTree(nodes', nextIno', k) /\ nextIno' = nextIno
<1>1. /\ There(Walk(nodes, path, FALSE)) /\ nextIno' = nextIno
      /\ nodes' = Unnamed(nodes, Walk(nodes, path, FALSE))
  BY DEF Rm
<1>2. PICK new : new = Unnamed(nodes, Walk(nodes, path, FALSE))
  OBVIOUS
<1>3. IsTree(new, nextIno, k)
  BY <1>1, <1>2, UnnamedDoes
<1> QED
  BY <1>1, <1>2, <1>3

\* A second name for what is no directory.
LEMMA LinkSound ==
  ASSUME NEW k \in Nat, IsTree(nodes, nextIno, k),
         NEW existing \in Paths, NEW path \in Paths, Link(existing, path)
  PROVE  IsTree(nodes', nextIno', k + 1) /\ nextIno' = nextIno
<1>1. /\ path \in Seq(Names) /\ path # <<>> /\ existing \in Seq(Names) /\ existing # <<>>
      /\ Shaped(nodes, nextIno, k)
  BY PathsAreSeqs DEF IsTree
<1>2. PICK s, w : s = Walk(nodes, existing, FALSE) /\ w = Walk(nodes, path, FALSE)
  OBVIOUS
<1>3. /\ There(s) /\ nodes[s.node].kind # "dir" /\ Free(w) /\ nextIno' = nextIno
      /\ nodes' = [nodes EXCEPT ![s.node].nlink = @ + 1, ![w.parent].entries[w.name] = s.node]
  BY <1>2 DEF Link
<1>4. s.node \in Inos \ {Root} /\ s.node < nextIno
  BY <1>1, <1>2, <1>3, WalkEnds DEF There
<1>5. /\ w.parent \in Dirs(nodes) /\ w.name \in Names
      /\ nodes[w.parent].entries[w.name] = 0
  BY <1>1, <1>2, <1>3, WalkEnds DEF Free
<1>6. PICK x \in Inos \ {Root}, d \in Dirs(nodes), name \in Names :
        /\ x = s.node /\ d = w.parent /\ name = w.name /\ x < nextIno
        /\ nodes[d].entries[name] = 0 /\ nodes[x].kind # "dir"
  BY <1>3, <1>4, <1>5
<1>7. PICK new : new = nodes' /\ new = [nodes EXCEPT ![x].nlink = @ + 1, ![d].entries[name] = x]
  BY <1>3, <1>6
<1>8. /\ Relinks(new, nodes, d, name, x, x, nodes[x].nlink + 1, k + 1)
      /\ nodes[x].nlink + 1 = Cardinality(NamesOf(nodes, x) \cup {<<d, name>>})
      /\ IsFiniteSet(NamesOf(nodes, x) \cup {<<d, name>>})
  <2>1. Relinks(new, nodes, d, name, x, x, nodes[x].nlink + 1, k + 1)
    BY ONLY k \in Nat, IsTree(nodes, nextIno, k), <1>6, <1>7, LinkIs
  <2>2. /\ Cardinality(NamesOf(nodes, x) \cup {<<d, name>>}) = nodes[x].nlink + 1
        /\ IsFiniteSet(NamesOf(nodes, x) \cup {<<d, name>>})
    <3>1. /\ d \in Dirs(nodes) /\ name \in Names /\ x \in Inos \ {Root}
          /\ nodes[d].entries[name] = 0
      BY <1>6
    <3>2. IsFiniteSet(NamesOf(nodes, x) \cup {<<d, name>>})
      BY ONLY k \in Nat, IsTree(nodes, nextIno, k), <3>1, LinkCounts
    <3>3. Cardinality(NamesOf(nodes, x) \cup {<<d, name>>}) = nodes[x].nlink + 1
      BY ONLY k \in Nat, IsTree(nodes, nextIno, k), <3>1, LinkCounts
    <3> QED
      BY <3>2, <3>3
  <2> QED
    BY <2>1, <2>2
<1>9. IsTree(new, nextIno, k + 1)
  BY ONLY <1>6, <1>8, k \in Nat, IsTree(nodes, nextIno, k), LinkKeeps
<1> QED
  BY <1>3, <1>7, <1>9

\* What a rename changes: two entries at most, where the walks of its paths end.
Renames(new, from, to) ==
  /\ \A i \in Inos : /\ new[i].kind = nodes[i].kind /\ new[i].data = nodes[i].data
                     /\ new[i].target = nodes[i].target
  /\ \A i \in Inos, n \in Names :
       \/ new[i].entries[n] = nodes[i].entries[n]
       \/ i = Walk(nodes, from, FALSE).parent /\ n = Walk(nodes, from, FALSE).name
       \/ i = Walk(nodes, to, FALSE).parent /\ n = Walk(nodes, to, FALSE).name

\* A directory is not moved beneath itself: what lies beneath it in the tree
\* lies beneath it once the target is gone too.
LEMMA RenameKeeps ==
  ASSUME NEW k \in Nat, IsTree(nodes, nextIno, k),
         NEW from \in Paths, NEW to \in Paths, Rename(from, to)
  PROVE  IsTree(nodes', nextIno', k) /\ nextIno' = nextIno /\ Renames(nodes', from, to)
<1>1. /\ from \in Seq(Names) /\ from # <<>> /\ to \in Seq(Names) /\ to # <<>>
      /\ Shaped(nodes, nextIno, k)
  BY PathsAreSeqs DEF IsTree
<1>2. PICK s, t, ns :
        /\ s = Walk(nodes, from, FALSE) /\ t = Walk(nodes, to, FALSE)
        /\ ns = IF t.node = 0 THEN nodes ELSE Unnamed(nodes, t)
  OBVIOUS
<1>3. /\ There(s) /\ t.out = "found" /\ t.node # s.node /\ nextIno' = nextIno
      /\ nodes[s.node].kind = "dir" => t.parent \notin Beneath(nodes, s.node)
      /\ nodes' = [ns EXCEPT ![s.parent].entries[s.name] = 0,
                             ![t.parent].entries[t.name] = s.node]
  BY <1>2 DEF Rename
<1>4. /\ s.parent \in Dirs(nodes) /\ s.name \in Names
      /\ s.node = nodes[s.parent].entries[s.name] /\ s.node \in Inos
  BY <1>1, <1>2, <1>3, WalkEnds DEF There
<1>5. /\ t.parent \in Dirs(nodes) /\ t.name \in Names
      /\ t.node = nodes[t.parent].entries[t.name]
      /\ t.node # 0 => t.node \in Inos \ {Root}
  BY <1>1, <1>2, <1>3, WalkEnds
<1>6. /\ IsTree(ns, nextIno, k)
      /\ t.node # 0 => Relinks(ns, nodes, t.parent, t.name, 0, t.node, nodes[t.node].nlink - 1, k)
  <2>1. CASE t.node = 0
    BY <1>2, <2>1
  <2>2. CASE t.node # 0
    BY <1>2, <1>3, <2>2, UnnamedDoes DEF There
  <2> QED
    BY <2>1, <2>2
<1>7. \A i \in Inos : /\ ns[i].kind = nodes[i].kind /\ ns[i].data = nodes[i].data
                       /\ ns[i].target = nodes[i].target
  <2>1. CASE t.node = 0
    BY <1>2, <2>1
  <2>2. CASE t.node # 0
    BY ONLY <1>6, <2>2 DEF Relinks
  <2> QED
    BY <2>1, <2>2
<1>8. /\ Dirs(ns) = Dirs(nodes) /\ ns[t.parent].entries[t.name] = 0
      /\ \A i \in Inos, n \in Names :
           \/ ns[i].entries[n] = nodes[i].entries[n]
           \/ i = t.parent /\ n = t.name /\ ns[i].entries[n] = 0
  <2>1. CASE t.node = 0
    BY <1>2, <1>5, <2>1
  <2>2. CASE t.node # 0
    <3>1. Relinks(ns, nodes, t.parent, t.name, 0, t.node, nodes[t.node].nlink - 1, k)
      BY <1>6, <2>2
    <3> QED
      BY ONLY <3>1 DEF Relinks, Dirs, ButOne
  <2> QED
    BY <2>1, <2>2
<1>9. s.node = ns[s.parent].entries[s.name]
  <2>1. ~(s.parent = t.parent /\ s.name = t.name)
    BY <1>3, <1>4, <1>5
  <2>2. s.parent \in Inos
    BY <1>4 DEF Dirs
  <2> QED
    BY <1>4, <1>8, <2>1, <2>2
<1>10. PICK p \in Dirs(ns), old \in Names, x \in Inos, q \in Dirs(ns), nm \in Names :
        /\ p = s.parent /\ old = s.name /\ x = s.node /\ q = t.parent /\ nm = t.name
        /\ x = ns[p].entries[old] /\ ns[q].entries[nm] = 0
  BY <1>4, <1>5, <1>8, <1>9
<1>11. PICK B : B = Beneath(nodes, x) /\ (x \in Dirs(ns) => q \notin B)
  BY <1>3, <1>8, <1>10 DEF Dirs
<1>12. Below(ns, B, x)
  <2>1. /\ x \in B /\ B \in SUBSET Inos
        /\ \A d \in B, i \in Dirs(nodes) : i \in Children(nodes, d) => i \in B
    BY <1>1, <1>10, <1>11, BeneathClosed
  <2>2. \A d \in B : Children(ns, d) \subseteq Children(nodes, d)
    BY <1>8, <2>1 DEF Children
  <2> QED
    BY ONLY <1>8, <2>1, <2>2 DEF Below
<1>13. PICK new : new = nodes' /\ new = [ns EXCEPT ![p].entries[old] = 0, ![q].entries[nm] = x]
  BY <1>3, <1>10
<1>14. MovesTo(new, ns, p, old, q, nm, x, k)
  BY <1>6, <1>10, <1>13, MoveIs
<1>15. IsTree(new, nextIno, k)
  BY ONLY k \in Nat, <1>6, <1>10, <1>11, <1>12, <1>14, MoveKeeps
<1>16. Renames(new, from, to)
  <2>1. \A i \in Inos : /\ new[i].kind = ns[i].kind /\ new[i].data = ns[i].data
                       /\ new[i].target = ns[i].target
    BY ONLY <1>14 DEF MovesTo
  <2>2. \A i \in Inos, n \in Names :
          ~(i = p /\ n = old) /\ ~(i = q /\ n = nm) => new[i].entries[n] = ns[i].entries[n]
    BY ONLY <1>14 DEF MovesTo
  <2>3. ASSUME NEW i \in Inos, NEW n \in Names,
               ~(i = s.parent /\ n = s.name), ~(i = t.parent /\ n = t.name)
        PROVE  new[i].entries[n] = nodes[i].entries[n]
    <3>1. new[i].entries[n] = ns[i].entries[n]
      BY ONLY <1>10, <2>2, <2>3, i \in Inos, n \in Names
    <3>2. ns[i].entries[n] = nodes[i].entries[n]
      BY ONLY <1>8, <2>3, i \in Inos, n \in Names
    <3> QED
      BY <3>1, <3>2
  <2>4. \A i \in Inos : /\ new[i].kind = nodes[i].kind /\ new[i].data = nodes[i].data
                       /\ new[i].target = nodes[i].target
    BY ONLY <1>7, <2>1
  <2> QED
    BY ONLY <1>2, <2>3, <2>4 DEF Renames
<1> QED
  BY <1>3, <1>13, <1>15, <1>16

-----------------------------------------------------------------------------
(* Which descriptor is given out.                                           *)

\* The lowest free descriptor is one, and it is free.
LEMMA FreeFdIsFree ==
  ASSUME FreeFds # {}
  PROVE  FreeFd \in Fds /\ fds[FreeFd] = NoFd
<1>1. FreeFds \in SUBSET Nat
  BY DEF FreeFds, Fds
<1>2. \E n \in FreeFds : \A m \in FreeFds : n <= m
  BY <1>1, Least
<1>3. FreeFd \in FreeFds
  BY <1>2 DEF FreeFd, Min
<1> QED
  BY <1>3 DEF FreeFds

-----------------------------------------------------------------------------
(* Who holds it.                                                            *)

\* A descriptor in use is on the list of a registered client; and as long as none
\* has closed what it had not opened, no two lists share one and what is on a list
\* is in use.
HeldBySome ==
  /\ fds = [fd \in Fds |-> fds[fd]]
  /\ held \in [Clients -> SUBSET Fds] /\ clients \subseteq Clients
  /\ \A fd \in Fds : fds[fd] # NoFd => \E c \in clients : fd \in held[c]
  /\ \A c \in Clients : \A fd \in held[c] : c \in clients
OwnOnly ==
  /\ \A c \in Clients : \A fd \in held[c] : fds[fd] # NoFd
  /\ \A c, d \in Clients : c # d => held[c] \cap held[d] = {}
HeldByOne == HeldBySome /\ strayed \in BOOLEAN /\ (~strayed => OwnOnly)

\* A free number goes to one client's list.
LEMMA AttachKeeps ==
  ASSUME HeldByOne, NEW c \in clients, NEW ino, NEW real, NEW writable,
         [ino |-> ino, path |-> real, writable |-> writable] # NoFd,
         Attach(c, ino, real, writable)
  PROVE  HeldByOne'
<1>1. PICK new \in Fds : new = FreeFd /\ fds[new] = NoFd
  BY FreeFdIsFree DEF Attach
<1>2. /\ fds' = [fds EXCEPT ![new] = [ino |-> ino, path |-> real, writable |-> writable]]
      /\ held' = [held EXCEPT ![c] = @ \cup {new}]
      /\ clients' = clients /\ strayed' = strayed
  BY <1>1 DEF Attach
<1>3. fds' = [fd \in Fds |-> fds'[fd]] /\ fds'[new] # NoFd
      /\ \A fd \in Fds \ {new} : fds'[fd] = fds[fd]
  BY <1>2 DEF HeldByOne, HeldBySome
<1>4. held' \in [Clients -> SUBSET Fds] /\ held'[c] = held[c] \cup {new}
      /\ \A d \in Clients \ {c} : held'[d] = held[d]
  BY <1>2 DEF HeldByOne, HeldBySome
<1>5. HeldBySome'
  BY <1>2, <1>3, <1>4 DEF HeldByOne, HeldBySome
<1>6. ASSUME ~strayed PROVE OwnOnly'
  <2>1. \A d \in Clients : new \notin held[d]
    BY <1>1, <1>6 DEF HeldByOne, OwnOnly
  <2>2. held \in [Clients -> SUBSET Fds] /\ OwnOnly
    BY <1>6 DEF HeldByOne, HeldBySome
  <2> QED
    BY <1>3, <1>4, <2>1, <2>2 DEF OwnOnly
<1> QED
  BY <1>2, <1>5, <1>6 DEF HeldByOne

\* What a client closes leaves the table, and its list if it was there.
LEMMA CloseKeeps ==
  ASSUME HeldByOne, NEW c \in Clients, NEW fd \in Fds, Close(c, fd)
  PROVE  HeldByOne'
<1>1. /\ fds' = [fds EXCEPT ![fd] = NoFd]
      /\ held' = [held EXCEPT ![c] = @ \ {fd}]
      /\ clients' = clients /\ strayed' = (strayed \/ fd \notin held[c])
  BY DEF Close
<1>2. fds' = [e \in Fds |-> fds'[e]] /\ fds'[fd] = NoFd
      /\ \A e \in Fds \ {fd} : fds'[e] = fds[e]
  BY <1>1 DEF HeldByOne, HeldBySome
<1>3. held' \in [Clients -> SUBSET Fds] /\ held'[c] = held[c] \ {fd}
      /\ \A d \in Clients \ {c} : held'[d] = held[d]
  BY <1>1 DEF HeldByOne, HeldBySome
<1>4. HeldBySome'
  BY <1>1, <1>2, <1>3 DEF HeldByOne, HeldBySome
<1>5. ASSUME ~strayed' PROVE OwnOnly'
  <2>1. fd \in held[c] /\ OwnOnly /\ held \in [Clients -> SUBSET Fds]
    BY <1>1, <1>5 DEF HeldByOne, HeldBySome
  <2>2. \A d \in Clients \ {c} : fd \notin held[d]
    BY <2>1 DEF OwnOnly
  <2> QED
    BY <1>2, <1>3, <2>1, <2>2 DEF OwnOnly
<1> QED
  BY <1>1, <1>4, <1>5 DEF HeldByOne

\* A client that goes takes what it holds along.
LEMMA UnregisterKeeps ==
  ASSUME HeldByOne, NEW c \in Clients, Unregister(c)
  PROVE  HeldByOne'
<1>1. /\ clients' = clients \ {c} /\ strayed' = strayed
      /\ fds' = [fd \in Fds |-> IF fd \in held[c] THEN NoFd ELSE fds[fd]]
      /\ held' = [held EXCEPT ![c] = {}]
  BY DEF Unregister
<1>2. held' \in [Clients -> SUBSET Fds] /\ held'[c] = {}
      /\ \A d \in Clients \ {c} : held'[d] = held[d]
  BY <1>1 DEF HeldByOne, HeldBySome
<1>3. HeldBySome'
  BY <1>1, <1>2 DEF HeldByOne, HeldBySome
<1>4. ASSUME ~strayed PROVE OwnOnly'
  <2>1. OwnOnly /\ held \in [Clients -> SUBSET Fds]
    BY <1>4 DEF HeldByOne, HeldBySome
  <2> QED
    BY <1>1, <1>2, <2>1 DEF OwnOnly
<1> QED
  BY <1>1, <1>3, <1>4 DEF HeldByOne

\* Only these three touch the tables.
LEMMA NextKeeps ==
  ASSUME HeldByOne, nextIno # 0, [Next]_vars
  PROVE  HeldByOne'
<1>1. CASE UNCHANGED tables
  BY <1>1 DEF tables, HeldByOne, HeldBySome, OwnOnly
<1>2. ASSUME NEW c \in Clients, NEW path \in Paths, NEW writable,
             OpenNew(c, path, writable)
      PROVE  HeldByOne'
  <2>1. PICK w : w = Walk(nodes, path, TRUE)
    OBVIOUS
  <2>2. Attach(c, nextIno, w.real, writable) /\ c \in clients
    BY <1>2, <2>1 DEF OpenNew
  <2>3. [ino |-> nextIno, path |-> w.real, writable |-> writable] # NoFd
    BY DEF NoFd
  <2> QED
    BY <2>2, <2>3, AttachKeeps
<1>3. ASSUME NEW c \in Clients, NEW path \in Paths, NEW writable, NEW truncate,
             OpenExisting(c, path, writable, truncate)
      PROVE  HeldByOne'
  <2> DEFINE w == Walk(nodes, path, TRUE)
  <2>1. w.node # 0 /\ Attach(c, w.node, w.real, writable) /\ c \in clients
    BY <1>3 DEF OpenExisting, There
  <2>2. [ino |-> w.node, path |-> w.real, writable |-> writable] # NoFd
    BY <2>1 DEF NoFd
  <2> QED
    BY <2>1, <2>2, AttachKeeps
<1>4. ASSUME NEW c \in Clients, NEW fd \in Fds, Close(c, fd) PROVE HeldByOne'
  BY <1>4, CloseKeeps
<1>5. ASSUME NEW c \in Clients, Unregister(c) PROVE HeldByOne'
  BY <1>5, UnregisterKeeps
<1>6. ASSUME NEW path \in Paths, MkdirAll(path) PROVE UNCHANGED tables
  BY <1>6 DEF MkdirAll
<1>7. ASSUME NEW path \in Paths, NEW other \in Paths, Cp(other, path) PROVE UNCHANGED tables
  BY <1>7 DEF Cp
<1> QED
  BY <1>1, <1>2, <1>3, <1>4, <1>5, <1>6, <1>7
  DEF Next, Mkdir, WriteFile, Touch, Rm, Rename, Symlink, Link, WriteFd, TouchFd, vars

-----------------------------------------------------------------------------
(* Everything together.                                                     *)

\* A descriptor refers to an inode that has been made.
Refers == \A fd \in Fds : fds[fd] = NoFd \/ fds[fd].ino \in 1..(nextIno - 1)

\* The invariant the steps preserve: the tree is sound after so many
\* operations, and descriptors refer to what is in it.
VfsInv == /\ ops \in 0..MaxOps /\ overflow \in BOOLEAN
          /\ IsTree(nodes, nextIno, ops) /\ Refers /\ HeldByOne

\* A descriptor in use refers to an inode.
LEMMA FdRefers ==
  ASSUME VfsInv, NEW fd \in Fds, fds[fd] # NoFd
  PROVE  fds[fd].ino \in Inos
<1>2. fds[fd].ino \in 1..(nextIno - 1)
  BY DEF VfsInv, Refers
<1>3. nextIno \in 2..(MaxIno + 1)
  BY DEF VfsInv, IsTree, Shaped
<1> QED
  BY <1>2, <1>3, VfsAssumption DEF Inos

\* A step that leaves the tree as it was, or does what one operation does to it,
\* leaves it sound.
LEMMA TreeStep ==
  ASSUME VfsInv, [Next]_vars
  PROVE  ops' \in 0..MaxOps /\ IsTree(nodes', nextIno', ops') /\ nextIno <= nextIno'
<1> DEFINE k == ops + 1
<1>1. /\ ops \in Nat /\ ops \in 0..MaxOps /\ IsTree(nodes, nextIno, ops) /\ k \in Nat
      /\ 0 \in 0..k /\ k \in 0..k /\ nextIno \in Nat
  BY VfsAssumption DEF VfsInv, IsTree, Shaped
<1>2. IsTree(nodes, nextIno, k)
  BY <1>1, TreeLater
<1>3. CASE UNCHANGED vars
  BY <1>1, <1>3 DEF vars, tree
<1>4. ASSUME Begin PROVE ops' = k /\ ops' \in 0..MaxOps
  BY <1>1, <1>4, VfsAssumption DEF Begin
<1> HIDE DEF k
<1>5. ASSUME NEW path \in Paths, Mkdir(path)
      PROVE  ops' = k /\ ops' \in 0..MaxOps /\ IsTree(nodes', nextIno', k) /\ nextIno <= nextIno'
  <2>1. /\ Begin /\ Free(Walk(nodes, path, FALSE))
        /\ Create(Walk(nodes, path, FALSE), Node("dir", 0, <<>>))
    BY <1>5 DEF Mkdir, Op
  <2>2. IsTree(nodes', nextIno', k) /\ nextIno' = nextIno + 1
    BY <1>1, <1>2, <2>1, CreateKeeps
  <2> QED
    BY <1>1, <1>4, <2>1, <2>2
<1>6. ASSUME NEW path \in Paths, MkdirAll(path)
      PROVE  ops' = k /\ ops' \in 0..MaxOps /\ IsTree(nodes', nextIno', k) /\ nextIno <= nextIno'
  <2>1. Begin
    BY <1>6 DEF MkdirAll, Op
  <2> QED
    BY <1>1, <1>2, <1>4, <1>6, <2>1, MkdirAllKeeps
<1>7. ASSUME NEW path \in Paths, WriteFile(path)
      PROVE  ops' = k /\ ops' \in 0..MaxOps /\ IsTree(nodes', nextIno', k) /\ nextIno <= nextIno'
  <2>1. Begin /\ ops' = k
    BY <1>4, <1>7 DEF WriteFile, Op
  <2>2. PICK w : w = Walk(nodes, path, TRUE)
    OBVIOUS
  <2>3. \/ Free(w) /\ Create(w, Node("file", k, <<>>))
        \/ There(w) /\ nodes' = [nodes EXCEPT ![w.node].data = k] /\ nextIno' = nextIno
    BY <1>7, <2>1, <2>2 DEF WriteFile
  <2>4. CASE Free(w) /\ Create(w, Node("file", k, <<>>))
    <3>1. IsTree(nodes', nextIno', k) /\ nextIno' = nextIno + 1
      BY <1>1, <1>2, <2>2, <2>4, CreateKeeps
    <3> QED
      BY <1>1, <1>4, <2>1, <3>1
  <2>5. CASE There(w) /\ nodes' = [nodes EXCEPT ![w.node].data = k] /\ nextIno' = nextIno
    <3>1. path \in Seq(Names) /\ path # <<>> /\ Shaped(nodes, nextIno, k)
      BY <1>2, PathsAreSeqs DEF IsTree
    <3>2. w.node \in Inos
      BY <1>1, <2>2, <2>5, <3>1, WalkEnds DEF There
    <3>3. IsTree(nodes', nextIno', k)
      BY <1>1, <1>2, <2>5, <3>2, WriteKeeps
    <3> QED
      BY <1>1, <1>4, <2>1, <2>5, <3>3
  <2> QED
    BY <2>3, <2>4, <2>5
<1>8. ASSUME NEW path \in Paths, Touch(path)
      PROVE  ops' = k /\ ops' \in 0..MaxOps /\ IsTree(nodes', nextIno', k) /\ nextIno <= nextIno'
  BY <1>1, <1>2, <1>4, <1>8 DEF Touch, tree, Op
<1>9. ASSUME NEW path \in Paths, NEW recursive, Rm(path, recursive)
      PROVE  ops' = k /\ ops' \in 0..MaxOps /\ IsTree(nodes', nextIno', k) /\ nextIno <= nextIno'
  <2>1. Begin
    BY <1>9 DEF Rm, Op
  <2>2. IsTree(nodes', nextIno', k) /\ nextIno' = nextIno
    BY <1>1, <1>2, <1>9, RmKeeps
  <2> QED
    BY <1>1, <1>4, <2>1, <2>2
<1>10. ASSUME NEW path \in Paths, NEW other \in Paths, Rename(other, path)
       PROVE  ops' = k /\ ops' \in 0..MaxOps /\ IsTree(nodes', nextIno', k) /\ nextIno <= nextIno'
  <2>1. Begin
    BY <1>10 DEF Rename, Op
  <2>2. IsTree(nodes', nextIno', k) /\ nextIno' = nextIno
    BY <1>1, <1>2, <1>10, RenameKeeps
  <2> QED
    BY <1>1, <1>4, <2>1, <2>2
<1>11. ASSUME NEW path \in Paths, NEW other \in Paths, Symlink(other, path)
       PROVE  ops' = k /\ ops' \in 0..MaxOps /\ IsTree(nodes', nextIno', k) /\ nextIno <= nextIno'
  <2>1. /\ Begin /\ Free(Walk(nodes, path, FALSE))
        /\ Create(Walk(nodes, path, FALSE), Node("symlink", 0, other))
    BY <1>11 DEF Symlink, Op
  <2>2. IsTree(nodes', nextIno', k) /\ nextIno' = nextIno + 1
    BY <1>1, <1>2, <2>1, CreateKeeps
  <2> QED
    BY <1>1, <1>4, <2>1, <2>2
<1>12. ASSUME NEW path \in Paths, NEW other \in Paths, Link(other, path)
       PROVE  ops' = k /\ ops' \in 0..MaxOps /\ IsTree(nodes', nextIno', k) /\ nextIno <= nextIno'
  <2>1. Begin
    BY <1>12 DEF Link, Op
  <2>2. IsTree(nodes', nextIno', ops + 1) /\ nextIno' = nextIno
    BY <1>1, <1>12, LinkSound
  <2> QED
    BY <1>1, <1>4, <2>1, <2>2 DEF k
<1>13. ASSUME NEW path \in Paths, NEW other \in Paths, Cp(other, path)
       PROVE  ops' = k /\ ops' \in 0..MaxOps /\ IsTree(nodes', nextIno', k) /\ nextIno <= nextIno'
  <2>1. Begin
    BY <1>13 DEF Cp
  <2> QED
    BY <1>1, <1>2, <1>4, <1>13, <2>1, CpKeeps
<1>14. ASSUME NEW c \in Clients, NEW path \in Paths, NEW writable, OpenNew(c, path, writable)
       PROVE  ops' = k /\ ops' \in 0..MaxOps /\ IsTree(nodes', nextIno', k) /\ nextIno <= nextIno'
  <2>1. /\ Begin /\ Free(Walk(nodes, path, TRUE))
        /\ Create(Walk(nodes, path, TRUE), Node("file", 0, <<>>))
    BY <1>14 DEF OpenNew, Op
  <2>2. IsTree(nodes', nextIno', k) /\ nextIno' = nextIno + 1
    BY <1>1, <1>2, <2>1, CreateKeeps
  <2> QED
    BY <1>1, <1>4, <2>1, <2>2
<1>15. ASSUME NEW c \in Clients, NEW path \in Paths, NEW writable, NEW truncate,
              OpenExisting(c, path, writable, truncate)
       PROVE  ops' = k /\ ops' \in 0..MaxOps /\ IsTree(nodes', nextIno', k) /\ nextIno <= nextIno'
  <2>1. PICK w : w = Walk(nodes, path, TRUE)
    OBVIOUS
  <2>2. /\ Begin /\ There(w) /\ nextIno' = nextIno
        /\ nodes' = IF truncate THEN [nodes EXCEPT ![w.node].data = 0] ELSE nodes
    BY <1>15, <2>1 DEF OpenExisting, Op
  <2>3. path \in Seq(Names) /\ path # <<>> /\ Shaped(nodes, nextIno, k)
    BY <1>2, PathsAreSeqs DEF IsTree
  <2>4. w.node \in Inos
    BY <1>1, <2>1, <2>2, <2>3, WalkEnds DEF There
  <2>5. IsTree(nodes', nextIno', k)
    <3>1. CASE truncate
      BY <1>1, <1>2, <2>2, <2>4, <3>1, WriteKeeps
    <3>2. CASE ~truncate
      BY <1>2, <2>2, <3>2
    <3> QED
      BY <3>1, <3>2
  <2> QED
    BY <1>1, <1>4, <2>2, <2>5
<1>16. ASSUME NEW fd \in Fds, WriteFd(fd)
       PROVE  ops' = k /\ ops' \in 0..MaxOps /\ IsTree(nodes', nextIno', k) /\ nextIno <= nextIno'
  <2>1. Begin /\ fds[fd].writable /\ nextIno' = nextIno /\ ops' = k
    BY <1>4, <1>16 DEF WriteFd, Op
  <2>2. PICK v \in 0..k : nodes' = [nodes EXCEPT ![fds[fd].ino].data = v]
    BY <1>1, <1>16, <2>1 DEF WriteFd
  <2>3. fds[fd].ino \in Inos
    BY <2>1, FdRefers DEF NoFd
  <2>4. IsTree(nodes', nextIno', k)
    BY <1>1, <1>2, <2>1, <2>2, <2>3, WriteKeeps
  <2> QED
    BY <1>1, <1>4, <2>1, <2>4
<1>17. ASSUME NEW fd \in Fds, TouchFd(fd) \/ \E c \in Clients : Close(c, fd)
       PROVE  ops' = k /\ ops' \in 0..MaxOps /\ IsTree(nodes', nextIno', k) /\ nextIno <= nextIno'
  <2>1. Begin /\ nodes' = nodes /\ nextIno' = nextIno
    BY <1>17 DEF TouchFd, Close, Op, tree
  <2> QED
    BY <1>1, <1>2, <1>4, <2>1
<1>18. ASSUME NEW c \in Clients, Unregister(c)
       PROVE  ops' = k /\ ops' \in 0..MaxOps /\ IsTree(nodes', nextIno', k) /\ nextIno <= nextIno'
  BY <1>1, <1>2, <1>4, <1>18 DEF Unregister, tree, Op
<1> QED
  BY <1>3, <1>5, <1>6, <1>7, <1>8, <1>9, <1>10, <1>11, <1>12, <1>13, <1>14, <1>15,
     <1>16, <1>17, <1>18
  DEF Next

\* Descriptors keep what they refer to; a new one refers to what was found or
\* made.
LEMMA RefersStep ==
  ASSUME VfsInv, [Next]_vars, nextIno <= nextIno', nextIno' \in Nat
  PROVE  Refers'
<1>1. /\ nextIno \in Nat /\ \A fd \in Fds : fds[fd] = NoFd \/ fds[fd].ino \in 1..(nextIno' - 1)
      /\ fds = [fd \in Fds |-> fds[fd]] /\ Shaped(nodes, nextIno, ops) /\ ops \in Nat
  BY VfsAssumption DEF VfsInv, Refers, IsTree, Shaped, HeldByOne, HeldBySome
<1>2. CASE fds' = fds
  BY <1>1, <1>2 DEF Refers
<1>3. ASSUME NEW c \in Clients, NEW ino \in 1..(nextIno' - 1), NEW real, NEW writable,
             Attach(c, ino, real, writable)
      PROVE  Refers'
  <2>1. FreeFd \in Fds
    BY <1>3, FreeFdIsFree DEF Attach
  <2>2. PICK new \in Fds : new = FreeFd
    BY <2>1
  <2>3. /\ fds'[new].ino = ino /\ \A fd \in Fds \ {new} : fds'[fd] = fds[fd]
    BY <1>1, <1>3, <2>2 DEF Attach
  <2> QED
    BY <1>1, <2>3 DEF Refers
<1>4. ASSUME NEW c \in Clients, NEW path \in Paths, NEW writable, OpenNew(c, path, writable)
      PROVE  Refers'
  <2>1. nextIno' = nextIno + 1 /\ Attach(c, nextIno, Walk(nodes, path, TRUE).real, writable)
    BY <1>4 DEF OpenNew, Create
  <2>2. nextIno \in 1..(nextIno' - 1)
    BY <1>1, <2>1 DEF Shaped
  <2> QED
    BY <1>3, <2>1, <2>2
<1>5. ASSUME NEW c \in Clients, NEW path \in Paths, NEW writable, NEW truncate,
             OpenExisting(c, path, writable, truncate)
      PROVE  Refers'
  <2>1. PICK w : w = Walk(nodes, path, TRUE)
    OBVIOUS
  <2>2. There(w) /\ Attach(c, w.node, w.real, writable)
    BY <1>5, <2>1 DEF OpenExisting
  <2>3. path \in Seq(Names) /\ path # <<>>
    BY PathsAreSeqs
  <2>4. w.node \in Inos /\ w.node < nextIno
    BY <1>1, <2>1, <2>2, <2>3, WalkEnds DEF There
  <2>5. w.node \in 1..(nextIno' - 1)
    BY <1>1, <2>4, VfsAssumption DEF Inos
  <2> QED
    BY <1>3, <2>2, <2>5
<1>6. ASSUME NEW c \in Clients, NEW fd \in Fds, Close(c, fd) PROVE Refers'
  <2>1. fds'[fd] = NoFd /\ \A e \in Fds \ {fd} : fds'[e] = fds[e]
    BY <1>1, <1>6 DEF Close
  <2> QED
    BY <1>1, <2>1 DEF Refers
<1>7. ASSUME NEW c \in Clients, Unregister(c) PROVE Refers'
  <2>1. \A e \in Fds : fds'[e] = NoFd \/ fds'[e] = fds[e]
    BY <1>7 DEF Unregister
  <2> QED
    BY <1>1, <2>1 DEF Refers
<1>8. ASSUME NEW path \in Paths, MkdirAll(path) PROVE fds' = fds
  BY <1>8 DEF MkdirAll, tables
<1>9. ASSUME NEW path \in Paths, NEW other \in Paths, Cp(other, path) PROVE fds' = fds
  BY <1>9 DEF Cp, tables
<1> QED
  BY <1>2, <1>4, <1>5, <1>6, <1>7, <1>8, <1>9
  DEF Next, Mkdir, WriteFile, Touch, Rm, Rename, Symlink, Link, WriteFd, TouchFd, vars, tables

\* Only cp says anything else of the stack than that it was not full.
LEMMA OverflowStep ==
  ASSUME overflow \in BOOLEAN, [Next]_vars
  PROVE  overflow' \in BOOLEAN
<1>1. ASSUME NEW path \in Paths, NEW other \in Paths, Cp(other, path)
      PROVE  overflow' \in BOOLEAN
  BY <1>1 DEF Cp
<1>2. ASSUME Op PROVE overflow' \in BOOLEAN
  BY <1>2 DEF Op
<1>3. CASE UNCHANGED vars
  BY <1>3 DEF vars
<1>4. ASSUME NEW path \in Paths, Mkdir(path) \/ MkdirAll(path) PROVE Op
  BY <1>4 DEF Mkdir, MkdirAll
<1>5. ASSUME NEW path \in Paths, WriteFile(path) \/ Touch(path) PROVE Op
  BY <1>5 DEF WriteFile, Touch
<1>6. ASSUME NEW path \in Paths, NEW recursive, Rm(path, recursive) PROVE Op
  BY <1>6 DEF Rm
<1>7. ASSUME NEW path \in Paths, NEW other \in Paths, Rename(other, path) PROVE Op
  BY <1>7 DEF Rename
<1>8. ASSUME NEW path \in Paths, NEW other \in Paths, Symlink(other, path) \/ Link(other, path)
      PROVE  Op
  BY <1>8 DEF Symlink, Link
<1>9. ASSUME NEW c \in Clients, NEW path \in Paths, NEW writable, OpenNew(c, path, writable)
      PROVE  Op
  BY <1>9 DEF OpenNew
<1>10. ASSUME NEW c \in Clients, NEW path \in Paths, NEW writable, NEW truncate,
              OpenExisting(c, path, writable, truncate)
       PROVE  Op
  BY <1>10 DEF OpenExisting
<1>11. ASSUME NEW fd \in Fds, WriteFd(fd) \/ TouchFd(fd) \/ \E c \in Clients : Close(c, fd)
       PROVE  Op
  BY <1>11 DEF WriteFd, TouchFd, Close
<1>12. ASSUME NEW c \in Clients, Unregister(c) PROVE Op
  BY <1>12 DEF Unregister
<1> QED
  BY <1>1, <1>2, <1>3, <1>4, <1>5, <1>6, <1>7, <1>8, <1>9, <1>10, <1>11, <1>12 DEF Next

\* It is inductive.
LEMMA VfsInvHolds == Spec => []VfsInv
<1>1. Init => VfsInv
  <2> SUFFICES ASSUME Init PROVE VfsInv
    OBVIOUS
  <2>1. ops = 0 /\ 0 \in 0..MaxOps /\ Refers
    BY VfsAssumption DEF Init, Refers
  <2>11. overflow = FALSE
    BY DEF Init
  <2>0. HeldByOne
    BY DEF Init, HeldByOne, HeldBySome, OwnOnly
  <2>2. /\ Root \in Inos /\ nextIno = 2 /\ nextIno \in 2..(MaxIno + 1) /\ 0 \in 0..0
        /\ 0 \in 0..MaxIno /\ 1 \in 0..(0 + 1) /\ 0 \in 0..(0 + 1)
        /\ \A i \in Inos : i # Root <=> i >= nextIno
    BY VfsAssumption DEF Init, Inos, Root
  <2>3. nodes = [i \in Inos |-> IF i = Root THEN Node("dir", 0, <<>>) ELSE NoNode]
    BY DEF Init
  <2>4. Node("dir", 0, <<>>) \in Nodes(0) /\ NoNode \in Nodes(0)
    BY <2>2 DEF Nodes, Node, NoNode
  <2>5. /\ nodes \in [Inos -> Nodes(0)]
        /\ nodes[Root].kind = "dir"
        /\ \A i \in Inos \ {Root} : nodes[i].kind = "none" /\ nodes[i].nlink = 0
        /\ \A i \in Inos, n \in Names : nodes[i].entries[n] = 0
    BY <2>2, <2>3, <2>4 DEF Node, NoNode
  <2>6. Shaped(nodes, nextIno, 0)
    BY <2>2, <2>5 DEF Shaped, Filled
  <2>7. \A i \in Inos : NamesOf(nodes, i) = {}
    BY <2>5 DEF NamesOf, Inos
  <2>8. Counted(nodes)
    BY <2>5, <2>7, FS_EmptySet DEF Counted
  <2>9. OneName(nodes)
    BY <2>7 DEF OneName, Dirs
  <2>10. Acyclic(nodes)
    BY <2>5 DEF Acyclic, Dirs, Children
  <2> QED
    BY <2>0, <2>1, <2>11, <2>6, <2>8, <2>9, <2>10 DEF VfsInv, IsTree
<1>2. VfsInv /\ [Next]_vars => VfsInv'
  <2> SUFFICES ASSUME VfsInv, [Next]_vars PROVE VfsInv'
    OBVIOUS
  <2>1. ops' \in 0..MaxOps /\ IsTree(nodes', nextIno', ops') /\ nextIno <= nextIno'
    BY TreeStep
  <2>2. nextIno' \in Nat
    BY <2>1, VfsAssumption DEF IsTree, Shaped
  <2>3. Refers'
    BY <2>1, <2>2, RefersStep
  <2>4. HeldByOne'
    <3>1. nextIno # 0
      BY VfsAssumption DEF VfsInv, IsTree, Shaped
    <3> QED
      BY <3>1, NextKeeps DEF VfsInv
  <2>5. overflow' \in BOOLEAN
    BY OverflowStep DEF VfsInv
  <2> QED
    BY <2>1, <2>3, <2>4, <2>5 DEF VfsInv
<1> QED
  BY <1>1, <1>2, PTL DEF Spec

\* No descriptor leaks: each in use is on the list of a client that is there, which
\* closes it when it goes, whatever descriptors clients close that they have not
\* opened.  As long as they close their own only, each has one holder, and a list
\* holds nothing that was closed and is another's now (OP_OPEN, OP_CLOSE,
\* unregisterClient).
THEOREM DescriptorsAreHeld == Spec => []FdsAreHeld
<1>1. VfsInv => FdsAreHeld
  BY DEF VfsInv, HeldByOne, HeldBySome, OwnOnly, FdsAreHeld
<1> QED
  BY <1>1, VfsInvHolds, PTL

\* Inodes are made in order and are what they were made as, entries name inodes
\* there are, counts stay within the number of operations, and descriptors refer
\* to inodes that have been made, whatever was unlinked or closed since.
THEOREM TypesHold == Spec => []TypeOK
<1>1. VfsInv => TypeOK
  <2> SUFFICES ASSUME VfsInv PROVE TypeOK
    OBVIOUS
  <2>1. Shaped(nodes, nextIno, ops) /\ ops \in 0..MaxOps /\ ops \in Nat
    BY VfsAssumption DEF VfsInv, IsTree
  <2>2. Nodes(ops) \subseteq Nodes(MaxOps)
    <3>1. 0..ops \subseteq 0..MaxOps /\ 0..(ops + 1) \subseteq 0..(MaxOps + 1)
      BY <2>1, VfsAssumption
    <3> QED
      BY <3>1 DEF Nodes
  <2>3. nodes \in [Inos -> Nodes(MaxOps)]
    BY <2>1, <2>2 DEF Shaped
  <2>4. /\ held \in [Clients -> SUBSET Fds] /\ clients \subseteq Clients
        /\ strayed \in BOOLEAN /\ overflow \in BOOLEAN
    BY DEF VfsInv, HeldByOne, HeldBySome
  <2>5. \A fd \in Fds : fds[fd] = NoFd \/ fds[fd].ino \in 1..(nextIno - 1)
    BY DEF VfsInv, Refers
  <2> QED
    BY <2>1, <2>3, <2>4, <2>5 DEF TypeOK, Nodes, Shaped
<1> QED
  BY <1>1, VfsInvHolds, PTL

\* Whatever is renamed into whatever, linked, copied or removed with what it
\* holds: no directory is reached from itself, none has two names, the root has
\* none, and nlink is the number of names of every other inode (rename, contains,
\* link_, unlinkEntry, copyNode).
THEOREM TreeStaysSound == Spec => []TreeIsSound
<1>1. VfsInv => TreeIsSound
  <2> SUFFICES ASSUME VfsInv PROVE TreeIsSound
    OBVIOUS
  <2>1. IsTree(nodes, nextIno, ops) /\ ops \in Nat
    BY VfsAssumption DEF VfsInv
  <2>2. ASSUME NEW d \in Inos, nodes[d].kind = "dir"
        PROVE  /\ Cardinality(NamesOf(nodes, d)) <= IF d = Root THEN 0 ELSE 1
               /\ \A n \in 1..MaxIno : \A path \in [1..n -> Names] : From(nodes, d, path) # d
    <3>1. d \in Dirs(nodes)
      BY <2>2 DEF Dirs
    <3>2. \A n \in 1..MaxIno : \A path \in [1..n -> Names] : From(nodes, d, path) # d
      <4> SUFFICES ASSUME NEW n \in 1..MaxIno, NEW path \in [1..n -> Names]
                   PROVE  From(nodes, d, path) # d
        OBVIOUS
      <4>1. path \in Seq(Names) /\ path # <<>>
        BY VfsAssumption
      <4> QED
        BY <2>1, <3>1, <4>1, NoWayBack
    <3>3. CASE d = Root
      <4>1. NamesOf(nodes, d) = {}
        <5> SUFFICES ASSUME NEW dn \in NamesOf(nodes, d) PROVE FALSE
          OBVIOUS
        <5>1. dn[1] \in Inos /\ dn[2] \in Names /\ nodes[dn[1]].entries[dn[2]] = Root
          BY <3>3 DEF NamesOf
        <5> QED
          BY <2>1, <5>1 DEF IsTree, Shaped, Filled, Root
      <4> QED
        BY <3>2, <3>3, <4>1, FS_EmptySet
    <3>4. CASE d # Root
      <4>1. NamesOf(nodes, d) = {} \/ \E x : NamesOf(nodes, d) = {x}
        BY <2>1, <3>1 DEF IsTree, OneName
      <4>2. Cardinality(NamesOf(nodes, d)) <= 1
        <5>1. CASE NamesOf(nodes, d) = {}
          <6>1. Cardinality(NamesOf(nodes, d)) = 0
            BY <5>1, FS_EmptySet
          <6> QED
            BY <6>1
        <5>2. CASE \E x : NamesOf(nodes, d) = {x}
          <6>1. PICK x : NamesOf(nodes, d) = {x}
            BY <5>2
          <6>2. Cardinality({x}) = 1
            BY FS_Singleton
          <6> QED
            BY <6>1, <6>2
        <5> QED
          BY <4>1, <5>1, <5>2
      <4> QED
        BY <3>2, <3>4, <4>2
    <3> QED
      BY <3>3, <3>4
  <2>3. \A i \in Inos \ {Root} : nodes[i].nlink = Cardinality(NamesOf(nodes, i))
    BY <2>1 DEF IsTree, Counted
  <2> QED
    BY <2>2, <2>3 DEF TreeIsSound
<1> QED
  BY <1>1, VfsInvHolds, PTL

-----------------------------------------------------------------------------
(* Where two trees differ.                                                  *)

\* The first n names of a path, and what they are.
LEMMA Prefix ==
  ASSUME NEW path \in Seq(Names), NEW n \in 0..Len(path)
  PROVE  /\ SubSeq(path, 1, n) \in Seq(Names) /\ Len(SubSeq(path, 1, n)) = n
         /\ \A m \in 1..n : SubSeq(path, 1, n)[m] = path[m]
<1>1. Len(path) \in Nat /\ n \in Int /\ 1 \in Int /\ \A m \in 1..n : path[m] \in Names
  OBVIOUS
<1>2. /\ SubSeq(path, 1, n) \in Seq(Names)
      /\ Len(SubSeq(path, 1, n)) = IF 1 <= n THEN n - 1 + 1 ELSE 0
      /\ \A m \in 1..(n - 1 + 1) : SubSeq(path, 1, n)[m] = path[1 + m - 1]
  BY ONLY <1>1, SubSeqProperties
<1>3. Len(SubSeq(path, 1, n)) = n
  BY <1>1, <1>2
<1>4. ASSUME NEW m \in 1..n PROVE SubSeq(path, 1, n)[m] = path[m]
  <2>1. m \in 1..(n - 1 + 1) /\ 1 + m - 1 = m
    BY <1>1
  <2> QED
    BY <1>2, <2>1
<1> QED
  BY <1>2, <1>3, <1>4

\* The first names of the first names.
LEMMA PrefixFront ==
  ASSUME NEW path \in Seq(Names), NEW n \in 1..Len(path)
  PROVE  /\ SubSeq(path, 1, n) # <<>> /\ Last(SubSeq(path, 1, n)) = path[n]
         /\ Front(SubSeq(path, 1, n)) = SubSeq(path, 1, n - 1)
<1> DEFINE p == SubSeq(path, 1, n)
<1>1. n \in 0..Len(path) /\ n - 1 \in 0..Len(path) /\ n \in Nat /\ n # 0
  OBVIOUS
<1>2. p \in Seq(Names) /\ Len(p) = n /\ \A m \in 1..n : p[m] = path[m]
  BY <1>1, Prefix
<1>3. Last(p) = path[n] /\ p # <<>>
  BY <1>1, <1>2 DEF Last
<1>4. n - 1 \in 0..Len(p)
  BY <1>1, <1>2
<1>5. /\ SubSeq(p, 1, n - 1) \in Seq(Names) /\ Len(SubSeq(p, 1, n - 1)) = n - 1
      /\ \A m \in 1..(n - 1) : SubSeq(p, 1, n - 1)[m] = p[m]
  <2> HIDE DEF p
  <2> QED
    BY <1>2, <1>4, Prefix
<1>6. /\ SubSeq(path, 1, n - 1) \in Seq(Names) /\ Len(SubSeq(path, 1, n - 1)) = n - 1
      /\ \A m \in 1..(n - 1) : SubSeq(path, 1, n - 1)[m] = path[m]
  BY <1>1, Prefix
<1>7. SubSeq(p, 1, n - 1) = SubSeq(path, 1, n - 1)
  <2> DEFINE a == SubSeq(p, 1, n - 1)
             b == SubSeq(path, 1, n - 1)
  <2>1. \A m \in 1..(n - 1) : a[m] = b[m]
    BY <1>1, <1>2, <1>5, <1>6
  <2>2. a \in Seq(Names) /\ b \in Seq(Names) /\ Len(a) = Len(b) /\ Len(a) = n - 1
    BY <1>5, <1>6
  <2> HIDE DEF a, b, p
  <2>3. a \in [1..(n - 1) -> Names] /\ b \in [1..(n - 1) -> Names]
    BY ONLY <2>2, LenProperties
  <2>4. a = b
    BY ONLY <2>1, <2>3
  <2> QED
    BY <2>4 DEF a, b
<1> QED
  BY <1>2, <1>3, <1>7 DEF Front

\* Two functions that follow the same names agree.
LEMMA FollowsAgree ==
  ASSUME NEW ns, NEW dir, NEW path \in Seq(Names), NEW n \in 0..Len(path),
         NEW f, Follows(f, ns, dir, path), NEW g, Follows(g, ns, dir, SubSeq(path, 1, n))
  PROVE  g[n] = f[n]
<1>1. f[0] = dir /\ \A m \in 1..Len(path) : f[m] = Into(ns, f[m - 1], path[m])
  BY FollowsStep
<1>2. PICK p \in Seq(Names) :
        /\ p = SubSeq(path, 1, n) /\ Len(p) = n /\ \A m \in 1..n : p[m] = path[m]
  BY Prefix
<1>3. Follows(g, ns, dir, p)
  BY <1>2
<1>4. g[0] = dir /\ \A m \in 1..n : g[m] = Into(ns, g[m - 1], p[m])
  <2>1. g[0] = dir /\ \A m \in 1..Len(p) : g[m] = Into(ns, g[m - 1], p[m])
    BY ONLY p \in Seq(Names), <1>3, FollowsStep
  <2>2. Len(p) = n
    BY <1>2
  <2> QED
    BY <2>1, <2>2
<1>5. n \in Nat /\ Len(path) \in Nat /\ n <= Len(path)
  OBVIOUS
<1> DEFINE bad == {m \in 0..n : g[m] # f[m]}
<1> SUFFICES ASSUME n \in bad PROVE FALSE
  BY <1>5
<1>6. PICK m \in bad : \A j \in bad : m <= j
  <2>1. bad \in SUBSET Nat /\ bad # {}
    BY <1>5
  <2> HIDE DEF bad
  <2> QED
    BY <2>1, Least
<1>7. m \in 1..n /\ m \in 1..Len(path) /\ m - 1 \in 0..n /\ m - 1 \notin bad
  BY <1>1, <1>4, <1>5, <1>6
<1>8. g[m - 1] = f[m - 1]
  BY <1>7
<1>9. g[m] = Into(ns, g[m - 1], path[m]) /\ f[m] = Into(ns, f[m - 1], path[m])
  BY <1>1, <1>2, <1>4, <1>7
<1> QED
  BY <1>6, <1>8, <1>9

\* What the first names of a path lead to, one after the other.
LEMMA FromPrefix ==
  ASSUME NEW ns, NEW next, NEW k \in Nat, Shaped(ns, next, k), NEW path \in Seq(Names)
  PROVE  /\ From(ns, Root, SubSeq(path, 1, 0)) = Root
         /\ \A n \in 0..Len(path) : From(ns, Root, SubSeq(path, 1, n)) \in 0..(next - 1)
         /\ \A n \in 1..Len(path) :
              From(ns, Root, SubSeq(path, 1, n))
                = Into(ns, From(ns, Root, SubSeq(path, 1, n - 1)), path[n])
         /\ From(ns, Root, path) = From(ns, Root, SubSeq(path, 1, Len(path)))
<1>1. Root \in 0..(next - 1) /\ Len(path) \in Nat
  BY VfsAssumption DEF Shaped, Root
<1>2. PICK f : /\ Follows(f, ns, Root, path) /\ From(ns, Root, path) = f[Len(path)]
               /\ \A n \in 0..Len(path) : f[n] \in 0..(next - 1)
  BY <1>1, FromExists
<1>3. ASSUME NEW n \in 0..Len(path)
      PROVE  From(ns, Root, SubSeq(path, 1, n)) = f[n]
  <2>1. PICK p \in Seq(Names) : p = SubSeq(path, 1, n) /\ Len(p) = n
    BY Prefix
  <2>2. PICK g : /\ Follows(g, ns, Root, p) /\ From(ns, Root, p) = g[Len(p)]
                 /\ \A m \in 0..Len(p) : g[m] \in 0..(next - 1)
    BY ONLY k \in Nat, Shaped(ns, next, k), <1>1, p \in Seq(Names), FromExists
  <2>3. g[n] = f[n]
    BY <1>2, <2>1, <2>2, FollowsAgree
  <2> QED
    BY <2>1, <2>2, <2>3
<1>4. f[0] = Root /\ \A n \in 1..Len(path) : f[n] = Into(ns, f[n - 1], path[n])
  BY <1>2, FollowsStep
<1>5. \A n \in 1..Len(path) :
        From(ns, Root, SubSeq(path, 1, n))
          = Into(ns, From(ns, Root, SubSeq(path, 1, n - 1)), path[n])
  <2> SUFFICES ASSUME NEW n \in 1..Len(path)
               PROVE  From(ns, Root, SubSeq(path, 1, n))
                        = Into(ns, From(ns, Root, SubSeq(path, 1, n - 1)), path[n])
    OBVIOUS
  <2>1. n \in 0..Len(path) /\ n - 1 \in 0..Len(path)
    BY <1>1
  <2> QED
    BY <1>3, <1>4, <2>1
<1>6. 0 \in 0..Len(path) /\ Len(path) \in 0..Len(path)
  BY <1>1
<1> QED
  BY <1>2, <1>3, <1>4, <1>5, <1>6

\* At its n-th name a path leads elsewhere in the new tree than in the old one,
\* having led to the same directory until then.
Diverges(new, ns, path, n) ==
  /\ n \in 1..Len(path)
  /\ From(new, Root, SubSeq(path, 1, n - 1)) = From(ns, Root, SubSeq(path, 1, n - 1))
  /\ From(ns, Root, SubSeq(path, 1, n - 1)) \in Inos
  /\ Into(new, From(ns, Root, SubSeq(path, 1, n - 1)), path[n])
       # Into(ns, From(ns, Root, SubSeq(path, 1, n - 1)), path[n])
  /\ From(new, Root, SubSeq(path, 1, n))
       = Into(new, From(ns, Root, SubSeq(path, 1, n - 1)), path[n])

\* A path that leads elsewhere does so at some name first.
LEMMA FirstChange ==
  ASSUME NEW ns, NEW next, NEW k \in Nat, Shaped(ns, next, k),
         NEW new, NEW later, NEW h \in Nat, Shaped(new, later, h),
         NEW path \in Seq(Names), From(new, Root, path) # From(ns, Root, path)
  PROVE  \E n \in 1..Len(path) : Diverges(new, ns, path, n)
<1> DEFINE F(n) == From(ns, Root, SubSeq(path, 1, n))
           G(n) == From(new, Root, SubSeq(path, 1, n))
           bad == {n \in 0..Len(path) : G(n) # F(n)}
<1>1. Len(path) \in Nat /\ Len(path) \in 0..Len(path) /\ 0 \in 0..Len(path)
  OBVIOUS
<1>2. /\ F(0) = Root /\ \A n \in 1..Len(path) : F(n) = Into(ns, F(n - 1), path[n])
      /\ \A n \in 0..Len(path) : F(n) \in 0..(next - 1)
      /\ From(ns, Root, path) = F(Len(path))
  BY FromPrefix
<1>3. /\ G(0) = Root /\ \A n \in 1..Len(path) : G(n) = Into(new, G(n - 1), path[n])
      /\ From(new, Root, path) = G(Len(path))
  BY FromPrefix
<1>4. Len(path) \in bad /\ 0 \notin bad
  BY <1>1, <1>2, <1>3
<1>5. PICK n \in bad : \A m \in bad : n <= m
  <2>1. bad \in SUBSET Nat /\ bad # {}
    BY <1>4
  <2> HIDE DEF bad
  <2> QED
    BY <2>1, Least
<1>6. n \in 1..Len(path) /\ n - 1 \in 0..Len(path) /\ n - 1 \notin bad
  BY <1>4, <1>5
<1>7. G(n - 1) = F(n - 1) /\ G(n) # F(n)
  BY <1>5, <1>6
<1>8. /\ F(n) = Into(ns, F(n - 1), path[n]) /\ G(n) = Into(new, F(n - 1), path[n])
  BY <1>2, <1>3, <1>6, <1>7
<1>9. F(n - 1) \in Inos
  <2>1. F(n - 1) # 0
    BY <1>7, <1>8 DEF Into, Kind
  <2>2. F(n - 1) \in 0..(next - 1) /\ next \in 2..(MaxIno + 1)
    BY <1>2, <1>6 DEF Shaped
  <2> QED
    BY <2>1, <2>2, VfsAssumption DEF Inos
<1>10. Diverges(new, ns, path, n)
  BY <1>6, <1>7, <1>8, <1>9 DEF Diverges
<1> QED
  BY <1>6, <1>10

\* Beyond nothing there is nothing.
LEMMA NothingBeyond ==
  ASSUME NEW ns, NEW next, NEW k \in Nat, Shaped(ns, next, k), NEW path \in Seq(Names),
         NEW n \in 1..Len(path),
         \/ From(ns, Root, SubSeq(path, 1, n)) = 0
         \/ \A name \in Names : Into(ns, From(ns, Root, SubSeq(path, 1, n)), name) = 0
  PROVE  n = Len(path) \/ From(ns, Root, path) = 0
<1> DEFINE F(m) == From(ns, Root, SubSeq(path, 1, m))
<1>1. Len(path) \in Nat /\ n \in Nat
  OBVIOUS
<1>2. \A m \in 1..Len(path) : F(m) = Into(ns, F(m - 1), path[m]) /\ path[m] \in Names
  BY FromPrefix
<1>3. From(ns, Root, path) = F(Len(path))
  BY FromPrefix
<1> SUFFICES ASSUME n # Len(path) PROVE F(Len(path)) = 0
  BY <1>3
<1>4. F(n + 1) = 0
  <2>1. n + 1 \in 1..Len(path) /\ (n + 1) - 1 = n
    BY <1>1
  <2>2. F(n + 1) = Into(ns, F(n), path[n + 1]) /\ path[n + 1] \in Names
    BY <1>2, <2>1
  <2>3. CASE F(n) = 0
    BY <2>2, <2>3 DEF Into, Kind
  <2>4. CASE \A name \in Names : Into(ns, F(n), name) = 0
    BY <2>2, <2>4
  <2> QED
    BY <2>3, <2>4
<1> DEFINE rest == {m \in (n + 1)..Len(path) : F(m) # 0}
<1>5. rest = {}
  <2> SUFFICES ASSUME rest # {} PROVE FALSE
    OBVIOUS
  <2>1. PICK m \in rest : \A j \in rest : m <= j
    <3>1. rest \in SUBSET Nat
      BY <1>1
    <3> HIDE DEF rest
    <3> QED
      BY <3>1, Least
  <2>2. m # n + 1 /\ m \in (n + 1)..Len(path) /\ F(m) # 0
    BY <1>4, <2>1
  <2>3. m \in 1..Len(path) /\ m - 1 \in (n + 1)..Len(path) /\ m - 1 < m
    BY <1>1, <2>2
  <2>4. m - 1 \notin rest
    BY <2>1, <2>3
  <2>5. F(m - 1) = 0
    BY <2>3, <2>4
  <2>6. F(m) = Into(ns, F(m - 1), path[m])
    BY <1>2, <2>3
  <2> QED
    BY <2>2, <2>5, <2>6 DEF Into, Kind
<1>6. Len(path) \in (n + 1)..Len(path)
  BY <1>1
<1> QED
  BY <1>5, <1>6

-----------------------------------------------------------------------------
(* What names a change.                                                     *)

\* Where nothing but a directory has entries, names lead to entries.
LEMMA IntoEntry ==
  ASSUME NEW ns, NEW next, NEW k \in Nat, Shaped(ns, next, k),
         NEW i \in Inos, NEW name \in Names
  PROVE  Into(ns, i, name) = ns[i].entries[name]
<1>1. i # 0
  BY DEF Inos
<1>2. ns[i].kind # "dir" => ns[i].entries[name] = 0
  BY DEF Shaped, Filled
<1> QED
  BY <1>1, <1>2 DEF Into, Kind

\* A path that leads where it led, to what is as it was, has the same content.
LEMMA ContentIs ==
  ASSUME NEW ns, NEW next, NEW k \in Nat, Shaped(ns, next, k), NEW new, NEW path \in Seq(Names),
         From(new, Root, path) = From(ns, Root, path),
         \A i \in Inos : i < next =>
           new[i].kind = ns[i].kind /\ new[i].data = ns[i].data /\ new[i].target = ns[i].target
  PROVE  Content(new, path) = Content(ns, path)
<1>1. Root \in 0..(next - 1)
  BY VfsAssumption DEF Shaped, Root
<1>2. From(ns, Root, path) \in 0..(next - 1)
  BY <1>1, FromIs
<1>3. PICK i \in 0..(next - 1) : i = From(ns, Root, path)
  BY <1>2
<1>4. i # 0 => i \in Inos /\ i < next
  BY VfsAssumption DEF Shaped, Inos
<1>5. i # 0 => new[i].kind = ns[i].kind /\ new[i].data = ns[i].data /\ new[i].target = ns[i].target
  BY <1>4
<1>6. Content(new, path) = <<Kind(new, i), IF i = 0 THEN 0 ELSE new[i].data,
                             IF i = 0 THEN <<>> ELSE new[i].target>>
  BY <1>3 DEF Content, At
<1>7. Content(ns, path) = <<Kind(ns, i), IF i = 0 THEN 0 ELSE ns[i].data,
                            IF i = 0 THEN <<>> ELSE ns[i].target>>
  BY <1>3 DEF Content, At
<1> QED
  BY <1>5, <1>6, <1>7 DEF Kind

\* An event whose path walks to the entry where a path leads elsewhere covers it.
LEMMA CoversEntry ==
  ASSUME NEW e, NEW path \in Seq(Names), NEW n \in 1..Len(path), NEW follow \in BOOLEAN,
         NEW w, w = Walk(nodes, e.path, follow),
         w.parent = From(nodes', Root, SubSeq(path, 1, n - 1)), w.parent # 0, w.name = path[n],
         n = Len(path) \/ e.subtree \/ From(nodes', Root, path) = 0
  PROVE  Covers(e, path)
<1>1. /\ Last(SubSeq(path, 1, n)) = path[n]
      /\ Front(SubSeq(path, 1, n)) = SubSeq(path, 1, n - 1)
  BY PrefixFront
<1>2. IsNamed(e, SubSeq(path, 1, n))
  BY <1>1 DEF IsNamed, At
<1> QED
  BY <1>2 DEF Covers, At

\* One whose path walks to the file a path leads to covers it.
LEMMA CoversNode ==
  ASSUME NEW e, NEW path \in Seq(Names), path # <<>>, NEW follow \in BOOLEAN,
         NEW w, w = Walk(nodes, e.path, follow) \/ w = Walk(nodes', e.path, follow),
         w.node = From(nodes', Root, path), w.node # 0
  PROVE  Covers(e, path)
<1>1. PICK n \in 1..Len(path) : n = Len(path)
  <2>1. Len(path) \in Nat /\ Len(path) # 0
    OBVIOUS
  <2> QED
    BY <2>1
<1>2. SubSeq(path, 1, n) = path
  BY <1>1
<1>3. IsNamed(e, path)
  BY DEF IsNamed, At
<1> QED
  BY <1>1, <1>2, <1>3 DEF Covers

\* All that may change about a path has been reported.
Told(path) ==
  Content(nodes', path) # Content(nodes, path) /\ ~Truncated(path) /\ ~Unsaid(path) =>
    \E e \in events' : e.content /\ Covers(e, path)

\* One entry changes, what it leads to now has none, and an event's path walks to it.
LEMMA EntryTold ==
  ASSUME NEW k \in Nat, Shaped(nodes, nextIno, k), NEW h \in Nat, Shaped(nodes', nextIno', h),
         Alike(nodes', nodes, nextIno),
         NEW d \in Inos, NEW name \in Names, ButOne(nodes', nodes, d, name),
         \A x \in Names : Into(nodes', nodes'[d].entries[name], x) = 0,
         NEW e \in events', e.content, NEW follow \in BOOLEAN,
         NEW w, w = Walk(nodes, e.path, follow), w.parent = d, w.name = name,
         NEW path \in Paths
  PROVE  Told(path)
<1> SUFFICES ASSUME Content(nodes', path) # Content(nodes, path)
             PROVE  Covers(e, path)
  BY DEF Told
<1>1. path \in Seq(Names)
  BY PathsAreSeqs
<1>2. From(nodes', Root, path) # From(nodes, Root, path)
  BY <1>1, ContentIs DEF Alike
<1>3. PICK n \in 1..Len(path) : Diverges(nodes', nodes, path, n)
  BY <1>1, <1>2, FirstChange
<1>4. PICK at \in Inos : /\ at = From(nodes, Root, SubSeq(path, 1, n - 1))
                         /\ at = From(nodes', Root, SubSeq(path, 1, n - 1))
                         /\ Into(nodes', at, path[n]) # Into(nodes, at, path[n])
                         /\ From(nodes', Root, SubSeq(path, 1, n)) = Into(nodes', at, path[n])
  BY <1>3 DEF Diverges
<1>5. path[n] \in Names
  BY <1>1
<1>6. /\ Into(nodes', at, path[n]) = nodes'[at].entries[path[n]]
      /\ Into(nodes, at, path[n]) = nodes[at].entries[path[n]]
  BY <1>5, IntoEntry
<1>7. at = d /\ path[n] = name
  BY <1>4, <1>5, <1>6 DEF ButOne
<1>8. \A x \in Names : Into(nodes', From(nodes', Root, SubSeq(path, 1, n)), x) = 0
  BY <1>4, <1>6, <1>7
<1>9. n = Len(path) \/ From(nodes', Root, path) = 0
  BY <1>1, <1>8, NothingBeyond
<1>10. d # 0
  BY DEF Inos
<1> QED
  BY <1>1, <1>4, <1>7, <1>9, <1>10, CoversEntry

\* The event of a change that is reported under a path.
LEMMA ReportIs ==
  ASSUME NEW path, Report(path)
  PROVE  \E e \in events' : e.content /\ e.path = path
BY DEF Report, Event

\* One new node, where the walk of an event's path ends too.
LEMMA CreateTold ==
  ASSUME NEW k \in Nat, IsTree(nodes, nextIno, k),
         NEW path \in Paths, NEW follow \in BOOLEAN, Free(Walk(nodes, path, follow)),
         NEW kind \in {"file", "dir", "symlink"}, NEW data \in 0..k,
         NEW target \in Paths \cup {<<>>}, kind = "symlink" => target \in Paths,
         Create(Walk(nodes, path, follow), Node(kind, data, target)),
         NEW e \in events', e.content, NEW also \in BOOLEAN,
         Walk(nodes, e.path, also).parent = Walk(nodes, path, follow).parent,
         Walk(nodes, e.path, also).name = Walk(nodes, path, follow).name,
         NEW other \in Paths
  PROVE  Told(other)
<1>1. path \in Seq(Names) /\ path # <<>> /\ Shaped(nodes, nextIno, k)
  BY PathsAreSeqs DEF IsTree
<1>2. PICK w, node, new :
        /\ w = Walk(nodes, path, follow) /\ node = Node(kind, data, target) /\ new = nodes'
  OBVIOUS
<1>3. /\ nextIno <= MaxIno /\ nextIno' = nextIno + 1
      /\ new = Grown(nodes, w, nextIno, node)
  BY <1>2 DEF Create
<1>4. IsTree(new, nextIno + 1, k) /\ GrowsTo(new, nodes, w.parent, w.name, nextIno, node, k)
  BY <1>1, <1>2, <1>3, NodeMade
<1>5. w.parent \in Dirs(nodes) /\ w.name \in Names
  BY <1>1, <1>2, WalkEnds DEF Free
<1>6. PICK d \in Inos, name \in Names : d = w.parent /\ name = w.name
  BY <1>5 DEF Dirs
<1>7. nextIno \in Inos
  BY <1>1, <1>3, VfsAssumption DEF Shaped, Inos
<1>8. /\ new[nextIno] = node /\ new[d].entries[name] = nextIno /\ ButOne(new, nodes, d, name)
      /\ \A i \in Inos \ {nextIno} : /\ new[i].kind = nodes[i].kind /\ new[i].data = nodes[i].data
                                     /\ new[i].target = nodes[i].target
  BY ONLY <1>4, <1>6 DEF GrowsTo
<1>9. Shaped(new, nextIno + 1, k)
  BY <1>4 DEF IsTree
<1>10. \A x \in Names : Into(new, nextIno, x) = 0
  <2> SUFFICES ASSUME NEW x \in Names PROVE Into(new, nextIno, x) = 0
    OBVIOUS
  <2>1. Into(new, nextIno, x) = new[nextIno].entries[x]
    BY <1>7, <1>9, IntoEntry
  <2> QED
    BY <1>2, <1>8, <2>1 DEF Node
<1>11. Alike(new, nodes, nextIno)
  <2>1. nextIno \in Nat
    BY <1>1, VfsAssumption DEF Shaped
  <2> QED
    BY <1>8, <2>1 DEF Alike, Inos
<1>12. PICK v : v = Walk(nodes, e.path, also) /\ v.parent = d /\ v.name = name
  BY <1>2, <1>6
<1> QED
  BY <1>1, <1>2, <1>3, <1>8, <1>9, <1>10, <1>11, <1>12, EntryTold

\* What a file holds changes, and an event's path walks to it.
LEMMA WriteTold ==
  ASSUME NEW k \in Nat, Shaped(nodes, nextIno, k), NEW h \in Nat, Shaped(nodes', nextIno', h),
         NEW x \in Inos,
         \A i \in Inos : /\ nodes'[i].kind = nodes[i].kind /\ nodes'[i].target = nodes[i].target
                         /\ nodes'[i].entries = nodes[i].entries
                         /\ i # x => nodes'[i].data = nodes[i].data,
         NEW path \in Paths
  PROVE  /\ From(nodes', Root, path) = From(nodes, Root, path)
         /\ From(nodes', Root, path) # x => Content(nodes', path) = Content(nodes, path)
<1>1. path \in Seq(Names)
  BY PathsAreSeqs
<1>2. From(nodes', Root, path) = From(nodes, Root, path)
  <2> SUFFICES ASSUME From(nodes', Root, path) # From(nodes, Root, path) PROVE FALSE
    OBVIOUS
  <2>1. PICK n \in 1..Len(path) : Diverges(nodes', nodes, path, n)
    BY <1>1, FirstChange
  <2>2. PICK at \in Inos : Into(nodes', at, path[n]) # Into(nodes, at, path[n])
    BY <2>1 DEF Diverges
  <2>3. path[n] \in Names
    BY <1>1
  <2>4. /\ Into(nodes', at, path[n]) = nodes'[at].entries[path[n]]
        /\ Into(nodes, at, path[n]) = nodes[at].entries[path[n]]
    BY <2>3, IntoEntry
  <2> QED
    BY <2>2, <2>4
<1>3. ASSUME From(nodes', Root, path) # x PROVE Content(nodes', path) = Content(nodes, path)
  <2>1. PICK i : i = From(nodes', Root, path) /\ i = From(nodes, Root, path) /\ i # x
    BY <1>2, <1>3
  <2>2. i \in 0..(nextIno - 1)
    <3>1. Root \in 0..(nextIno - 1)
      BY VfsAssumption DEF Shaped, Root
    <3> QED
      BY <1>1, <2>1, <3>1, FromIs
  <2>3. i # 0 => i \in Inos
    BY <2>2, VfsAssumption DEF Shaped, Inos
  <2>4. i # 0 => /\ nodes'[i].kind = nodes[i].kind /\ nodes'[i].target = nodes[i].target
                 /\ nodes'[i].data = nodes[i].data
    BY <2>1, <2>3
  <2>5. Content(nodes', path) = <<Kind(nodes', i), IF i = 0 THEN 0 ELSE nodes'[i].data,
                                  IF i = 0 THEN <<>> ELSE nodes'[i].target>>
    BY <2>1 DEF Content, At
  <2>6. Content(nodes, path) = <<Kind(nodes, i), IF i = 0 THEN 0 ELSE nodes[i].data,
                                 IF i = 0 THEN <<>> ELSE nodes[i].target>>
    BY <2>1 DEF Content, At
  <2> QED
    BY <2>4, <2>5, <2>6 DEF Kind
<1> QED
  BY <1>2, <1>3

\* unlink, rmdir, rm.
LEMMA RmTold ==
  ASSUME NEW k \in Nat, IsTree(nodes, nextIno, k),
         NEW path \in Paths, NEW recursive, Rm(path, recursive), NEW other \in Paths
  PROVE  Told(other)
<1>1. /\ There(Walk(nodes, path, FALSE)) /\ Report(path) /\ nextIno' = nextIno
      /\ nodes' = Unnamed(nodes, Walk(nodes, path, FALSE))
  BY DEF Rm
<1>2. PICK w, new : /\ w = Walk(nodes, path, FALSE) /\ new = Unnamed(nodes, w) /\ new = nodes'
  BY <1>1
<1>3. PICK d \in Dirs(nodes), name \in Names, x \in Inos :
        /\ d = w.parent /\ name = w.name
        /\ Relinks(new, nodes, d, name, 0, x, nodes[x].nlink - 1, k)
        /\ IsTree(new, nextIno, k)
  BY <1>1, <1>2, UnnamedDoes
<1>4. PICK e \in events' : e.content /\ e.path = path
  BY <1>1, ReportIs
<1>5. /\ Alike(new, nodes, nextIno) /\ ButOne(new, nodes, d, name) /\ new[d].entries[name] = 0
      /\ d \in Inos
  BY ONLY <1>3 DEF Relinks, Alike, Dirs
<1>6. \A y \in Names : Into(new, new[d].entries[name], y) = 0
  BY <1>5 DEF Into, Kind
<1>7. Shaped(nodes, nextIno, k) /\ Shaped(new, nextIno, k)
  BY <1>3 DEF IsTree
<1>8. /\ Shaped(nodes', nextIno', k) /\ Alike(nodes', nodes, nextIno)
      /\ ButOne(nodes', nodes, d, name)
      /\ \A y \in Names : Into(nodes', nodes'[d].entries[name], y) = 0
      /\ w = Walk(nodes, e.path, FALSE) /\ w.parent = d /\ w.name = name
  BY <1>1, <1>2, <1>3, <1>4, <1>5, <1>6, <1>7
<1> QED
  BY ONLY k \in Nat, <1>3, <1>4, <1>5, <1>7, <1>8, other \in Paths, EntryTold

\* link.
LEMMA LinkTold ==
  ASSUME NEW k \in Nat, IsTree(nodes, nextIno, k), NEW h \in Nat, IsTree(nodes', nextIno', h),
         NEW existing \in Paths, NEW path \in Paths, Link(existing, path), NEW other \in Paths
  PROVE  Told(other)
<1>1. /\ path \in Seq(Names) /\ path # <<>> /\ existing \in Seq(Names) /\ existing # <<>>
      /\ Shaped(nodes, nextIno, k) /\ Shaped(nodes', nextIno', h)
  BY PathsAreSeqs DEF IsTree
<1>2. PICK s, w, new :
        s = Walk(nodes, existing, FALSE) /\ w = Walk(nodes, path, FALSE) /\ new = nodes'
  OBVIOUS
<1>3. /\ There(s) /\ nodes[s.node].kind # "dir" /\ Free(w) /\ nextIno' = nextIno
      /\ new = [nodes EXCEPT ![s.node].nlink = @ + 1, ![w.parent].entries[w.name] = s.node]
      /\ Report(path)
  BY <1>2 DEF Link
<1>4. s.node \in Inos \ {Root}
  BY <1>1, <1>2, <1>3, WalkEnds DEF There
<1>5. /\ w.parent \in Dirs(nodes) /\ w.name \in Names
      /\ nodes[w.parent].entries[w.name] = 0
  BY <1>1, <1>2, <1>3, WalkEnds DEF Free
<1>6. PICK x \in Inos \ {Root}, d \in Dirs(nodes), name \in Names :
        /\ x = s.node /\ d = w.parent /\ name = w.name
        /\ nodes[d].entries[name] = 0 /\ nodes[x].kind # "dir"
  BY <1>3, <1>4, <1>5
<1>7. new = [nodes EXCEPT ![x].nlink = @ + 1, ![d].entries[name] = x]
  BY <1>3, <1>6
<1>8. Relinks(new, nodes, d, name, x, x, nodes[x].nlink + 1, k + 1)
  BY ONLY k \in Nat, IsTree(nodes, nextIno, k), <1>6, <1>7, LinkIs
<1>9. /\ Alike(new, nodes, nextIno) /\ ButOne(new, nodes, d, name) /\ new[d].entries[name] = x
      /\ d \in Inos /\ new[x].kind = nodes[x].kind
  BY ONLY <1>6, <1>8 DEF Relinks, Alike, Dirs
<1>10. \A y \in Names : Into(new, new[d].entries[name], y) = 0
  BY <1>6, <1>9 DEF Into, Kind
<1>11. PICK e \in events' : e.content /\ e.path = path
  BY <1>3, ReportIs
<1> QED
  BY <1>1, <1>2, <1>6, <1>9, <1>10, <1>11, EntryTold

\* rename: each of its names covers what it leads to.
LEMMA RenameTold ==
  ASSUME NEW k \in Nat, IsTree(nodes, nextIno, k), NEW h \in Nat, IsTree(nodes', nextIno', h),
         NEW from \in Paths, NEW to \in Paths, Rename(from, to), Renames(nodes', from, to),
         NEW other \in Paths
  PROVE  Told(other)
<1> SUFFICES ASSUME Content(nodes', other) # Content(nodes, other)
             PROVE  \E e \in events' : e.content /\ Covers(e, other)
  BY DEF Told
<1>1. other \in Seq(Names) /\ Shaped(nodes, nextIno, k) /\ Shaped(nodes', nextIno', h)
  BY PathsAreSeqs DEF IsTree
<1>2. From(nodes', Root, other) # From(nodes, Root, other)
  BY <1>1, ContentIs DEF Renames
<1>3. PICK n \in 1..Len(other) : Diverges(nodes', nodes, other, n)
  BY <1>1, <1>2, FirstChange
<1>4. PICK at \in Inos : /\ at = From(nodes', Root, SubSeq(other, 1, n - 1)) /\ at # 0
                         /\ Into(nodes', at, other[n]) # Into(nodes, at, other[n])
  BY <1>3 DEF Diverges, Inos
<1>5. other[n] \in Names
  BY <1>1
<1>6. /\ Into(nodes', at, other[n]) = nodes'[at].entries[other[n]]
      /\ Into(nodes, at, other[n]) = nodes[at].entries[other[n]]
  BY <1>1, <1>5, IntoEntry
<1>7. PICK path \in {from, to} :
        at = Walk(nodes, path, FALSE).parent /\ other[n] = Walk(nodes, path, FALSE).name
  BY <1>4, <1>5, <1>6 DEF Renames
<1>8. PICK e \in events' : e.content /\ e.subtree /\ e.path = path
  BY <1>7 DEF Rename, RenameEvents, Event
<1> QED
  BY <1>1, <1>4, <1>7, <1>8, CoversEntry

-----------------------------------------------------------------------------
(* The real path of what a walk has not found leads to where it would be.   *)

\* No names lead nowhere, and one more leads on from where the others led.
LEMMA FromAppend ==
  ASSUME NEW ns, NEW next, NEW k \in Nat, Shaped(ns, next, k)
  PROVE  /\ From(ns, Root, <<>>) = Root
         /\ \A path \in Seq(Names), name \in Names :
              From(ns, Root, Append(path, name)) = Into(ns, From(ns, Root, path), name)
<1>1. From(ns, Root, <<>>) = Root
  <2>1. PICK e \in Seq(Names) : e = <<>> /\ Len(e) = 0
    <3>1. <<>> \in Seq(Names) /\ Len(<<>>) = 0
      OBVIOUS
    <3> QED
      BY <3>1
  <2>2. From(ns, Root, SubSeq(e, 1, 0)) = Root /\ From(ns, Root, e) = From(ns, Root, SubSeq(e, 1, Len(e)))
    BY FromPrefix
  <2> QED
    BY <2>1, <2>2
<1>2. ASSUME NEW path \in Seq(Names), NEW name \in Names
      PROVE  From(ns, Root, Append(path, name)) = Into(ns, From(ns, Root, path), name)
  <2>1. PICK p \in Seq(Names) :
          /\ p = Append(path, name) /\ Len(p) = Len(path) + 1 /\ p[Len(path) + 1] = name
          /\ \A n \in 1..Len(path) : p[n] = path[n]
    <3>1. /\ Append(path, name) \in Seq(Names)
          /\ Len(Append(path, name)) = Len(path) + 1
          /\ Append(path, name)[Len(path) + 1] = name
          /\ \A n \in 1..Len(path) : Append(path, name)[n] = path[n]
      OBVIOUS
    <3> QED
      BY <3>1
  <2>2. PICK L \in Nat : L = Len(path)
    OBVIOUS
  <2>3. SubSeq(p, 1, L) = path
    <3>1. L \in 0..Len(p)
      BY <2>1, <2>2
    <3>2. PICK q \in Seq(Names) : q = SubSeq(p, 1, L) /\ Len(q) = L /\ \A n \in 1..L : q[n] = p[n]
      BY <3>1, Prefix
    <3>3. q \in [1..L -> Names] /\ path \in [1..L -> Names]
      BY ONLY <2>2, <3>2, path \in Seq(Names), q \in Seq(Names), LenProperties
    <3>4. \A n \in 1..L : q[n] = path[n]
      BY <2>1, <2>2, <3>2
    <3>5. q = path
      BY ONLY <3>3, <3>4
    <3> QED
      BY <3>2, <3>5
  <2>4. L + 1 \in 1..Len(p) /\ (L + 1) - 1 = L
    BY <2>1, <2>2
  <2>5. From(ns, Root, SubSeq(p, 1, L + 1)) = Into(ns, From(ns, Root, SubSeq(p, 1, (L + 1) - 1)), p[L + 1])
    BY <2>4, FromPrefix
  <2>6. From(ns, Root, p) = From(ns, Root, SubSeq(p, 1, Len(p)))
    BY FromPrefix
  <2> QED
    BY <2>1, <2>2, <2>3, <2>4, <2>5, <2>6
<1> QED
  BY <1>1, <1>2

\* The real path ends with the name under which nothing was found, and what
\* comes before leads to the directory that was looked in.
LEMMA RealLeads ==
  ASSUME NEW ns, NEW next, NEW k \in Nat, Shaped(ns, next, k),
         NEW path \in Seq(Names), path # <<>>, NEW follow \in BOOLEAN,
         NEW w, w = Walk(ns, path, follow), Free(w)
  PROVE  \E real \in Seq(Names) :
           w.real = Append(real, w.name) /\ From(ns, Root, real) = w.parent
<1>1. PICK f : /\ Walk(ns, path, follow) = f[LastStep(path)] /\ f[0] = AtRoot(path)
               /\ WalkIs(f, LastStep(path), ns, follow)
  BY WalkSteps
<1>2. PICK N \in Nat : N = LastStep(path)
  BY WalkExists
<1>3. WalkIs(f, N, ns, follow) /\ f[N] = w
  BY <1>1, <1>2
<1> DEFINE Leads(n) == From(ns, Root, f[n].real) = f[n].dir
           bad == {n \in 0..N : f[n].out = "going" => ~Leads(n)}
<1>4. 0 \notin bad
  <2>1. f[0].real = <<>> /\ f[0].dir = Root /\ f[0].out = "going"
    BY <1>1 DEF AtRoot
  <2> QED
    BY <2>1, FromAppend
<1>5. PICK n \in bad : \A m \in bad : n <= m
  <2>1. bad \in SUBSET Nat
    OBVIOUS
  <2>2. N \in bad
    BY <1>2, <1>3 DEF Free
  <2> HIDE DEF bad
  <2> QED
    BY <2>1, <2>2, Least
<1>6. n \in 1..N /\ n - 1 \in 0..N /\ n - 1 \notin bad /\ n \in 0..N
  <2> HIDE DEF Leads
  <2> QED
    BY <1>4, <1>5
<1>7. f[n - 1].out = "going" /\ Leads(n - 1)
  <2> HIDE DEF Leads
  <2> QED
    BY <1>6
<1>8. PICK at \in Walking(ns), s \in Walking(ns) :
        at = f[n - 1] /\ s = f[n] /\ s = Step(ns, at, follow)
  BY <1>3, <1>6 DEF WalkIs
<1>9. at.out = "going" /\ From(ns, Root, at.real) = at.dir /\ at.dir \in Inos
      /\ at.real \in Seq(Names)
  BY <1>7, <1>8 DEF Walking
<1>10. s.out # "going"
  <2> SUFFICES ASSUME s.out = "going" PROVE Leads(n)
    BY <1>5, <1>8
  <2>1. at.parts # <<>>
    BY <1>8, <1>9, StepEnds
  <2>2. Goes(ns, at, s)
    BY ONLY k \in Nat, Shaped(ns, next, k), follow \in BOOLEAN, <1>8, <1>9, <2>1, StepIs
  <2>3. PICK part \in Names, child \in 0..MaxIno :
          /\ child = ns[at.dir].entries[part]
          /\ \/ s.dir = Root /\ s.real = <<>>
             \/ child # 0 /\ s.dir = child /\ s.real = Append(at.real, part)
    BY <2>2 DEF Goes
  <2>4. CASE s.dir = Root /\ s.real = <<>>
    BY <1>8, <2>4, FromAppend
  <2>5. CASE child # 0 /\ s.dir = child /\ s.real = Append(at.real, part)
    <3>1. From(ns, Root, s.real) = Into(ns, at.dir, part)
      BY <1>9, <2>5, FromAppend
    <3>2. Into(ns, at.dir, part) = child
      BY <1>9, <2>3, IntoEntry
    <3> QED
      BY <1>8, <2>5, <3>1, <3>2
  <2> QED
    BY <2>3, <2>4, <2>5
<1>11. f[N] = f[n]
  <2>1. f[n].out # "going"
    BY <1>8, <1>10
  <2>2. PICK m \in 0..N : m = n
    BY <1>6
  <2>3. f[m].out # "going"
    BY <2>1, <2>2
  <2>4. f[N] = f[m]
    BY ONLY N \in Nat, m \in 0..N, <1>3, <2>3, Rests
  <2> QED
    BY <2>2, <2>4
<1>12. s = w
  BY <1>3, <1>8, <1>11
<1>13. at.parts # <<>>
  <2> SUFFICES ASSUME at.parts = <<>> PROVE FALSE
    OBVIOUS
  <2>1. s.node = at.dir
    BY <1>8, <1>9, StepEnds
  <2> QED
    BY <1>9, <1>12, <2>1 DEF Inos, Free
<1>14. Goes(ns, at, s)
  BY ONLY k \in Nat, Shaped(ns, next, k), follow \in BOOLEAN, <1>8, <1>9, <1>13, StepIs
<1>15. w.parent = at.dir /\ w.real = Append(at.real, w.name)
  BY <1>12, <1>14 DEF Goes, Free
<1> QED
  BY <1>9, <1>15

\* A walk that has come by the first n names of a path to a directory.
Along(at, n, dir, path) ==
  /\ at.out = "going" /\ at.dir = dir /\ Len(at.parts) = Len(path) - n
  /\ \A j \in 1..(Len(path) - n) : at.parts[j] = path[n + j]

\* What it looks for next, and what is left then.
Ahead(at, n, path) ==
  /\ at.parts # <<>> /\ Head(at.parts) = path[n]
  /\ Tail(at.parts) \in Seq(Names) /\ Len(Tail(at.parts)) = Len(path) - n
  /\ \A j \in 1..(Len(path) - n) : Tail(at.parts)[j] = path[n + j]

\* It is the name that comes next in the path.
LEMMA AlongNext ==
  ASSUME NEW ns, NEW at \in Walking(ns), NEW path \in Seq(Names), NEW n \in 1..Len(path),
         NEW dir, Along(at, n - 1, dir, path)
  PROVE  Ahead(at, n, path)
<1>1. PICK L \in Nat, m \in Nat : L = Len(path) /\ m = n - 1 /\ n = m + 1
  OBVIOUS
<1>2. PICK parts \in Seq(Names) :
        parts = at.parts /\ Len(parts) = L - m /\ \A j \in 1..(L - m) : parts[j] = path[m + j]
  BY <1>1 DEF Walking, Along
<1>3. L - m >= 1 /\ 1 \in 1..(L - m) /\ L - n = L - m - 1
  BY <1>1
<1>4. parts # <<>> /\ Head(parts) = parts[1]
  BY <1>2, <1>3
<1>5. /\ Tail(parts) \in Seq(Names) /\ Len(Tail(parts)) = L - n
      /\ \A j \in 1..(L - n) : Tail(parts)[j] = parts[j + 1]
  <2>1. /\ Tail(parts) \in Seq(Names) /\ Len(Tail(parts)) = Len(parts) - 1
        /\ \A j \in 1..Len(Tail(parts)) : Tail(parts)[j] = parts[j + 1]
    BY ONLY parts \in Seq(Names), <1>4, HeadTailProperties
  <2>2. Len(parts) - 1 = L - n
    BY <1>2, <1>3
  <2> QED
    BY <2>1, <2>2
<1>6. ASSUME NEW j \in 1..(L - n) PROVE Tail(parts)[j] = path[n + j]
  <2>1. j + 1 \in 1..(L - m) /\ m + (j + 1) = n + j
    BY <1>1
  <2> QED
    BY <1>2, <1>5, <2>1
<1>7. Head(parts) = path[n]
  BY <1>1, <1>2, <1>3, <1>4
<1> QED
  BY <1>1, <1>2, <1>4, <1>5, <1>6, <1>7 DEF Ahead

\* Where a walk of the path ends.
EndsAt(ns, path, follow, dir, name) ==
  Walk(ns, path, follow).parent = dir /\ Walk(ns, path, follow).name = name

\* A path of names that lead through directories is walked as it is written.
LEMMA PlainWalk ==
  ASSUME NEW ns, NEW next, NEW k \in Nat, Shaped(ns, next, k),
         NEW real \in Seq(Names), NEW name \in Names, NEW d \in Dirs(ns),
         From(ns, Root, real) = d, ns[d].entries[name] = 0,
         NEW path, path = Append(real, name), NEW follow \in BOOLEAN
  PROVE  EndsAt(ns, path, follow, d, name)
<1>1. /\ path \in Seq(Names) /\ path # <<>> /\ Len(path) = Len(real) + 1
      /\ path[Len(real) + 1] = name /\ \A n \in 1..Len(real) : path[n] = real[n]
  OBVIOUS
<1>2. PICK L \in Nat : L = Len(real)
  OBVIOUS
<1>3. PICK f : /\ Walk(ns, path, follow) = f[LastStep(path)] /\ f[0] = AtRoot(path)
               /\ WalkIs(f, LastStep(path), ns, follow)
  BY <1>1, WalkSteps
<1>4. PICK N \in Nat : N = LastStep(path)
  BY <1>1, WalkExists
<1>5. L + 1 <= N
  <2>1. MaxLinks * MaxDepth \in Nat
    BY VfsAssumption
  <2> QED
    BY <1>1, <1>2, <1>4, <2>1 DEF LastStep
<1>6. WalkIs(f, N, ns, follow)
  BY <1>3, <1>4
<1> DEFINE F(n) == From(ns, Root, SubSeq(real, 1, n))
<1>7. /\ F(0) = Root /\ F(L) = d
      /\ \A n \in 1..L : F(n) = Into(ns, F(n - 1), real[n])
      /\ \A n \in 0..L : F(n) \in 0..(next - 1)
  BY <1>2, FromPrefix
<1>8. ASSUME NEW n \in 0..L PROVE F(n) \in Dirs(ns)
  <2>1. CASE n = 0
    BY <1>7, <2>1, VfsAssumption DEF Shaped, Dirs, Root, Inos
  <2>2. CASE n = L
    BY <1>7, <2>2
  <2>3. CASE n # 0 /\ n # L
    <3>1. n \in 1..Len(real) /\ n # Len(real)
      BY <1>2, <2>3
    <3>2. From(ns, Root, real) # 0
      BY DEF Dirs, Inos
    <3>3. ~\A x \in Names : Into(ns, F(n), x) = 0
      BY <3>1, <3>2, NothingBeyond
    <3>4. PICK i : i = F(n) /\ Kind(ns, i) = "dir"
      BY <3>3 DEF Into
    <3>5. i # 0 /\ i \in 0..(next - 1) /\ next \in 2..(MaxIno + 1)
      BY <1>7, <3>4 DEF Kind, Shaped
    <3>6. i \in Inos
      BY <3>5, VfsAssumption DEF Inos
    <3> QED
      BY <3>4, <3>5, <3>6 DEF Dirs, Kind
  <2> QED
    BY <2>1, <2>2, <2>3
<1> HIDE DEF F
<1> DEFINE bad == {n \in 0..L : ~Along(f[n], n, F(n), path)}
<1>9. 0 \notin bad
  <2>1. f[0].out = "going" /\ f[0].dir = Root /\ f[0].parts = path
    BY <1>3 DEF AtRoot
  <2>2. Len(path) \in Nat /\ Len(path) - 0 = Len(path) /\ \A j \in 1..Len(path) : path[0 + j] = path[j]
    BY <1>1
  <2> QED
    BY <1>7, <2>1, <2>2 DEF Along
<1>10. ASSUME NEW n \in 1..(L + 1), Along(f[n - 1], n - 1, F(n - 1), path), NEW at, at = f[n - 1]
       PROVE  /\ at \in Walking(ns) /\ at.out = "going" /\ at.dir = F(n - 1)
              /\ Ahead(at, n, path) /\ f[n] = Step(ns, at, follow)
  <2>1. n \in 1..N /\ n - 1 \in 0..N /\ n \in 1..Len(path) /\ Len(path) = L + 1
    BY <1>1, <1>2, <1>5
  <2>2. at \in Walking(ns) /\ f[n] = Step(ns, at, follow)
    BY <1>6, <1>10, <2>1 DEF WalkIs
  <2>3. at.out = "going" /\ at.dir = F(n - 1)
    BY <1>10 DEF Along
  <2>4. Along(at, n - 1, F(n - 1), path)
    BY <1>10
  <2>5. Ahead(at, n, path)
    BY ONLY <1>1, <2>1, <2>2, <2>4, AlongNext
  <2> QED
    BY <2>2, <2>3, <2>5
<1>11. ASSUME NEW m \in 1..L, m - 1 \notin bad PROVE m \notin bad
  <2>1. m - 1 \in 0..L /\ m \in 1..(L + 1)
    BY <1>2
  <2>2. Along(f[m - 1], m - 1, F(m - 1), path)
    BY <1>11, <2>1
  <2>3. PICK at : at = f[m - 1]
    OBVIOUS
  <2> HIDE DEF bad
  <2>4. /\ at \in Walking(ns) /\ at.out = "going" /\ at.dir = F(m - 1)
        /\ Ahead(at, m, path) /\ f[m] = Step(ns, at, follow)
    BY <1>10, <2>1, <2>2, <2>3
  <2>5. F(m - 1) \in Dirs(ns) /\ F(m) \in Dirs(ns) /\ F(m) = Into(ns, F(m - 1), real[m])
    BY <1>7, <1>8, <2>1
  <2>6. path[m] = real[m] /\ real[m] \in Names
    BY <1>1, <1>2
  <2>7. PICK child \in Inos : child = F(m) /\ ns[child].kind = "dir" /\ child # 0
    BY <2>5 DEF Dirs, Inos
  <2>8. ns[at.dir].entries[Head(at.parts)] = child
    BY <2>4, <2>5, <2>6, <2>7, IntoEntry DEF Dirs, Ahead
  <2>9. f[m] = [at EXCEPT !.parts = Tail(at.parts), !.parent = at.dir, !.dir = child,
                          !.real = Append(@, Head(at.parts))]
    BY ONLY <2>4, <2>7, <2>8 DEF Step, Ahead
  <2>10. f[m].out = "going" /\ f[m].dir = F(m) /\ f[m].parts = Tail(at.parts)
    BY <2>4, <2>7, <2>9 DEF Walking
  <2>11. Len(path) - m = L + 1 - m
    BY <1>1, <1>2
  <2>12. Along(f[m], m, F(m), path)
    BY <2>4, <2>10, <2>11 DEF Along, Ahead
  <2> QED
    BY <2>12 DEF bad
<1>12. bad = {}
  <2> SUFFICES ASSUME bad # {} PROVE FALSE
    OBVIOUS
  <2>1. PICK m \in bad : \A j \in bad : m <= j
    <3>1. bad \in SUBSET Nat
      OBVIOUS
    <3> HIDE DEF bad
    <3> QED
      BY <3>1, Least
  <2>2. m \in 0..L /\ m # 0
    BY <1>9, <2>1
  <2>3. m \in 1..L /\ m - 1 \notin bad
    BY <2>1, <2>2
  <2> HIDE DEF bad
  <2> QED
    BY <1>11, <2>1, <2>3
<1>13. PICK n \in 1..(L + 1) : n = L + 1 /\ n - 1 = L
  OBVIOUS
<1>14. PICK at : at = f[n - 1]
  OBVIOUS
<1>15. Along(f[n - 1], n - 1, F(n - 1), path)
  <2>1. L \in 0..L
    OBVIOUS
  <2> QED
    BY <1>12, <1>13, <2>1
<1>16. /\ at \in Walking(ns) /\ at.out = "going" /\ at.dir = F(n - 1)
       /\ Ahead(at, n, path) /\ f[n] = Step(ns, at, follow)
  <2> HIDE DEF bad
  <2> QED
    BY <1>10, <1>14, <1>15
<1>17. at.dir = d /\ at.parts # <<>> /\ Head(at.parts) = name
  BY <1>1, <1>2, <1>7, <1>13, <1>16 DEF Ahead
<1>18. Tail(at.parts) = <<>>
  <2>1. Tail(at.parts) \in Seq(Names) /\ Len(Tail(at.parts)) = 0
    BY <1>1, <1>2, <1>13, <1>16 DEF Ahead
  <2>2. PICK tail \in Seq(Names) : tail = Tail(at.parts)
    BY <2>1
  <2>3. Len(tail) = 0
    BY <2>1, <2>2
  <2>4. tail = <<>>
    BY ONLY <2>2, <2>3, EmptySeq
  <2> QED
    BY <2>2, <2>4
<1>19. f[n] = Found(at, d, name, 0)
  BY ONLY <1>16, <1>17, <1>18, ns[d].entries[name] = 0 DEF Step
<1>20. f[n].parent = d /\ f[n].name = name /\ f[n].out = "found"
  BY <1>16, <1>19 DEF Found, Walking
<1>21. f[N] = f[n]
  <2>1. PICK m \in 0..N : m = n
    BY <1>5, <1>13
  <2>2. f[m].out # "going"
    BY <1>20, <2>1
  <2>3. f[N] = f[m]
    BY ONLY N \in Nat, m \in 0..N, <1>6, <2>2, Rests
  <2> QED
    BY <2>1, <2>3
<1> QED
  BY <1>3, <1>4, <1>20, <1>21 DEF EndsAt

-----------------------------------------------------------------------------
(* What each operation tells.                                               *)

\* What was made has numbers from the next one on.
LEMMA MadeNumbers ==
  ASSUME NEW lo \in 2..(MaxIno + 1), NEW hi \in 2..(MaxIno + 1)
  PROVE  \A g \in lo..(hi - 1) : g \in 1..MaxIno /\ g >= lo
BY VfsAssumption

\* What is not the last comes before it.
LEMMA AllButLast ==
  ASSUME NEW lo \in Nat, NEW hi \in Nat, NEW j \in lo..(hi - 1), j # hi - 1
  PROVE  j \in lo..((hi - 1) - 1)
OBVIOUS

\* Where all that is new has been heard of, every path has; but for the last node
\* of a copy into itself.
LEMMA HeardTold ==
  ASSUME NEW k \in Nat, Shaped(nodes, nextIno, k), NEW h \in Nat, Shaped(nodes', nextIno', h),
         HeardAll, NEW path \in Paths
  PROVE  Told(path)
<1> SUFFICES ASSUME Content(nodes', path) # Content(nodes, path), ~Unsaid(path)
             PROVE  \E e \in events' : e.content /\ Covers(e, path)
  BY DEF Told
<1> DEFINE F(m) == From(nodes, Root, SubSeq(path, 1, m))
           G(m) == From(nodes', Root, SubSeq(path, 1, m))
<1>1. path \in Seq(Names) /\ path # <<>> /\ Len(path) \in Nat
      /\ nextIno \in Nat /\ nextIno' \in Nat /\ nextIno >= 2
  BY PathsAreSeqs, VfsAssumption DEF Shaped
<1>0. \A g \in nextIno..(nextIno' - 1) : g \in Inos /\ g >= nextIno
  <2>1. nextIno \in 2..(MaxIno + 1) /\ nextIno' \in 2..(MaxIno + 1)
    BY DEF Shaped
  <2> QED
    BY ONLY <2>1, MadeNumbers DEF Inos
<1>2. From(nodes', Root, path) # From(nodes, Root, path)
  <2>1. \A i \in Inos : i < nextIno =>
          /\ nodes'[i].kind = nodes[i].kind /\ nodes'[i].data = nodes[i].data
          /\ nodes'[i].target = nodes[i].target
    BY DEF HeardAll, Heard, HeardTo, Extends, Alike
  <2> QED
    BY <1>1, <2>1, ContentIs
<1>3. PICK n \in 1..Len(path) : Diverges(nodes', nodes, path, n)
  BY <1>1, <1>2, FirstChange
<1>4. PICK at \in Inos : /\ at = F(n - 1) /\ G(n) = Into(nodes', at, path[n])
                         /\ Into(nodes', at, path[n]) # Into(nodes, at, path[n])
  BY <1>3 DEF Diverges
<1>5. path[n] \in Names
  BY <1>1
<1>6. /\ Into(nodes', at, path[n]) = nodes'[at].entries[path[n]]
      /\ Into(nodes, at, path[n]) = nodes[at].entries[path[n]]
  BY <1>5, IntoEntry
<1>7. G(n) \in nextIno..(nextIno' - 1)
  BY <1>4, <1>5, <1>6 DEF HeardAll, Heard, HeardTo
<1>8. F(n) = 0
  <2>1. F(n) = Into(nodes, at, path[n])
    BY <1>1, <1>4, FromPrefix
  <2>2. nodes[at].entries[path[n]] = 0
    <3>1. CASE at < nextIno
      BY <1>4, <1>5, <1>6, <3>1 DEF HeardAll, Heard, HeardTo, Extends
    <3>2. CASE ~(at < nextIno)
      <4>1. nodes[at].kind = "none"
        BY <1>1, <3>2 DEF Shaped, Inos
      <4> QED
        BY <1>5, <4>1 DEF Shaped, Filled
    <3> QED
      BY <3>1, <3>2
  <2> QED
    BY <1>6, <2>1, <2>2
<1>9. From(nodes, Root, path) = 0
  <2>1. n = Len(path) \/ From(nodes, Root, path) = 0
    BY <1>1, <1>8, NothingBeyond
  <2>2. From(nodes, Root, path) = F(Len(path))
    BY <1>1, FromPrefix
  <2> QED
    BY <1>8, <2>1, <2>2
<1>10. \A m \in 1..Len(path) : G(m) = Into(nodes', G(m - 1), path[m]) /\ path[m] \in Names
  BY <1>1, FromPrefix
<1>11. From(nodes', Root, path) = G(Len(path))
  BY <1>1, FromPrefix
<1> DEFINE New == {0} \cup nextIno..(nextIno' - 1)
           bad == {m \in n..Len(path) : G(m) \notin New}
<1> HIDE DEF F, G
<1>12. bad = {}
  <2> SUFFICES ASSUME bad # {} PROVE FALSE
    OBVIOUS
  <2>1. PICK m \in bad : \A j \in bad : m <= j
    <3>1. bad \in SUBSET Nat
      BY <1>1
    <3> HIDE DEF bad
    <3> QED
      BY <3>1, Least
  <2>2. m # n /\ m \in n..Len(path) /\ G(m) \notin New
    BY <1>7, <2>1
  <2>3. m \in 1..Len(path) /\ m - 1 \in n..Len(path) /\ m - 1 < m
    BY <1>1, <2>2
  <2>4. m - 1 \notin bad
    BY <2>1, <2>3
  <2>5. PICK g \in New : g = G(m - 1)
    BY <2>3, <2>4
  <2>6. G(m) = Into(nodes', g, path[m]) /\ path[m] \in Names
    BY <1>10, <2>3, <2>5
  <2>7. CASE g = 0
    BY <2>2, <2>6, <2>7 DEF Into, Kind
  <2>8. CASE g # 0
    <3>1. g \in nextIno..(nextIno' - 1)
      BY <2>8
    <3>3. g \in Inos /\ g >= nextIno
      BY <1>0, <3>1
    <3>4. nodes[g].entries[path[m]] = 0
      <4>1. nodes[g].kind = "none"
        BY <3>3 DEF Shaped
      <4> QED
        BY <2>6, <3>3, <4>1 DEF Shaped, Filled
    <3>5. nodes'[g].entries[path[m]] \in New
      BY <2>6, <3>3, <3>4 DEF HeardAll, Heard, HeardTo
    <3>6. Into(nodes', g, path[m]) = nodes'[g].entries[path[m]]
      BY <2>6, <3>3, IntoEntry
    <3> QED
      BY <2>2, <2>6, <3>5, <3>6
  <2> QED
    BY <2>7, <2>8
<1>13. From(nodes', Root, path) \in New
  <2>1. Len(path) \in n..Len(path)
    BY <1>1
  <2> QED
    BY <1>11, <1>12, <2>1
<1>14. PICK j \in nextIno..(nextIno' - 1) : j = From(nodes', Root, path)
  BY <1>2, <1>9, <1>13
<1>15. PICK e \in events', follow \in BOOLEAN :
         e.content /\ Walk(nodes', e.path, follow).node = j
  <2>1. CASE Heard(nodes', nextIno', events')
    BY <2>1 DEF Heard, HeardTo
  <2>2. CASE overflow' = TRUE /\ HeardTo(nodes', nextIno', nextIno' - 1, events')
    <3>1. j # nextIno' - 1
      BY <1>14, <2>2 DEF Unsaid, At
    <3>2. j \in nextIno..((nextIno' - 1) - 1)
      <4>1. j \in nextIno..(nextIno' - 1)
        OBVIOUS
      <4> QED
        BY <1>1, <3>1, <4>1, AllButLast
    <3> QED
      BY <2>2, <3>2 DEF HeardTo
  <2> QED
    BY <2>1, <2>2 DEF HeardAll
<1>16. PICK w : w = Walk(nodes', e.path, follow) /\ w.node = j
  BY <1>15
<1>17. j # 0
  BY <1>1
<1>18. Covers(e, path)
  BY <1>1, <1>14, <1>16, <1>17, CoversNode
<1> QED
  BY <1>15, <1>18

\* A tree that stays as it was has nothing to tell.
LEMMA SameTold ==
  ASSUME nodes' = nodes, NEW path
  PROVE  Told(path)
<1>1. Content(nodes', path) = Content(nodes, path)
  BY DEF Content, At
<1> QED
  BY <1>1 DEF Told

\* mkdir, symlink, a new file: what is made where the reported path ends.
LEMMA ReportTold ==
  ASSUME NEW k \in Nat, IsTree(nodes, nextIno, k),
         NEW path \in Paths, NEW follow \in BOOLEAN, Free(Walk(nodes, path, follow)),
         NEW kind \in {"file", "dir", "symlink"}, NEW data \in 0..k,
         NEW target \in Paths \cup {<<>>}, kind = "symlink" => target \in Paths,
         Create(Walk(nodes, path, follow), Node(kind, data, target)),
         Report(path), NEW other \in Paths
  PROVE  Told(other)
<1>1. PICK e \in events' : e.content /\ e.path = path
  BY ReportIs
<1>2. /\ Walk(nodes, e.path, follow).parent = Walk(nodes, path, follow).parent
      /\ Walk(nodes, e.path, follow).name = Walk(nodes, path, follow).name
  BY <1>1
<1> QED
  BY <1>1, <1>2, CreateTold

\* open with O_CREAT: the real path of the new file is walked to where it was made.
LEMMA OpenNewTold ==
  ASSUME NEW k \in Nat, IsTree(nodes, nextIno, k),
         NEW c, NEW path \in Paths, NEW writable, OpenNew(c, path, writable), 0 \in 0..k, NEW other \in Paths
  PROVE  Told(other)
<1>1. PICK w : w = Walk(nodes, path, TRUE)
  OBVIOUS
<1>2. Free(w) /\ Create(w, Node("file", 0, <<>>)) /\ Report(w.real)
  BY <1>1 DEF OpenNew
<1>3. path \in Seq(Names) /\ path # <<>> /\ Shaped(nodes, nextIno, k)
  BY PathsAreSeqs DEF IsTree
<1>4. PICK real \in Seq(Names) : w.real = Append(real, w.name) /\ From(nodes, Root, real) = w.parent
  BY <1>1, <1>2, <1>3, RealLeads
<1>5. /\ w.parent \in Dirs(nodes) /\ w.name \in Names
      /\ nodes[w.parent].entries[w.name] = 0
  BY <1>1, <1>2, <1>3, WalkEnds DEF Free
<1>6. PICK d \in Dirs(nodes), name \in Names :
        d = w.parent /\ name = w.name /\ nodes[d].entries[name] = 0
  BY <1>5
<1>7. PICK e \in events' : e.content /\ e.path = w.real
  BY <1>2, ReportIs
<1>0. PICK also \in BOOLEAN : also = TRUE
  OBVIOUS
<1>8. PICK p : p = e.path /\ From(nodes, Root, real) = d /\ p = Append(real, name)
  BY <1>4, <1>6, <1>7
<1>9. Walk(nodes, p, also).parent = d /\ Walk(nodes, p, also).name = name
  <2>1. Shaped(nodes, nextIno, k) /\ From(nodes, Root, real) = d /\ nodes[d].entries[name] = 0
    BY <1>3, <1>6, <1>8
  <2>2. p = Append(real, name)
    BY <1>8
  <2>3. EndsAt(nodes, p, also, d, name)
    BY ONLY k \in Nat, real \in Seq(Names), name \in Names, d \in Dirs(nodes),
            also \in BOOLEAN, <2>1, <2>2, PlainWalk
  <2> QED
    BY <2>3 DEF EndsAt
<1> QED
  BY <1>1, <1>2, <1>6, <1>7, <1>8, <1>9, CreateTold

\* Where what a file holds changes, paths lead where they led.
LEMMA DataLeads ==
  ASSUME NEW k \in Nat, IsTree(nodes, nextIno, k), NEW x \in Inos, NEW v \in 0..k,
         nodes' = [nodes EXCEPT ![x].data = v], nextIno' = nextIno, NEW other \in Paths
  PROVE  /\ From(nodes', Root, other) = From(nodes, Root, other)
         /\ From(nodes', Root, other) # x => Content(nodes', other) = Content(nodes, other)
<1>1. Shaped(nodes, nextIno, k) /\ nodes \in [Inos -> Nodes(k)]
  BY DEF IsTree, Shaped
<1>2. IsTree(nodes', nextIno', k)
  BY WriteKeeps
<1>3. Shaped(nodes', nextIno', k)
  BY <1>2 DEF IsTree
<1>4. \A i \in Inos : /\ nodes'[i].kind = nodes[i].kind /\ nodes'[i].target = nodes[i].target
                      /\ nodes'[i].entries = nodes[i].entries
                      /\ i # x => nodes'[i].data = nodes[i].data
  BY <1>1
<1> QED
  BY <1>1, <1>3, <1>4, WriteTold

\* What is written to a file is reported under a path that leads to it.
LEMMA DataTold ==
  ASSUME NEW k \in Nat, IsTree(nodes, nextIno, k), NEW x \in Inos, NEW v \in 0..k,
         nodes' = [nodes EXCEPT ![x].data = v], nextIno' = nextIno, NEW other \in Paths,
         From(nodes', Root, other) = x /\ From(nodes, Root, other) = x =>
           Truncated(other) \/ \E e \in events' : e.content /\ Covers(e, other)
  PROVE  Told(other)
<1>1. /\ From(nodes', Root, other) = From(nodes, Root, other)
      /\ From(nodes', Root, other) # x => Content(nodes', other) = Content(nodes, other)
  BY DataLeads
<1> QED
  BY <1>1 DEF Told

\* writeFile of a file there is.
LEMMA WriteFileTold ==
  ASSUME NEW k \in Nat, IsTree(nodes, nextIno, k), NEW path \in Paths,
         NEW w, w = Walk(nodes, path, TRUE), There(w), NEW v \in 0..k,
         nodes' = [nodes EXCEPT ![w.node].data = v],
         nextIno' = nextIno, Report(path), NEW other \in Paths
  PROVE  Told(other)
<1>1. path \in Seq(Names) /\ path # <<>> /\ other \in Seq(Names) /\ other # <<>>
      /\ Shaped(nodes, nextIno, k)
  BY PathsAreSeqs DEF IsTree
<1>2. w.node \in Inos
  BY <1>1, WalkEnds DEF There
<1>3. PICK x \in Inos : x = w.node
  BY <1>2
<1>4. PICK e \in events' : e.content /\ e.path = path
  BY ReportIs
<1>5. ASSUME From(nodes', Root, other) = x PROVE Covers(e, other)
  <2>1. w = Walk(nodes, e.path, TRUE) /\ w.node = From(nodes', Root, other) /\ w.node # 0
    <3>1. w = Walk(nodes, e.path, TRUE)
      BY <1>4
    <3>2. w.node # 0
      BY DEF There
    <3> QED
      BY <1>3, <1>5, <3>1, <3>2
  <2> QED
    BY ONLY <1>1, <2>1, CoversNode
<1>6. nodes' = [nodes EXCEPT ![x].data = v]
  BY <1>3
<1> QED
  BY ONLY k \in Nat, IsTree(nodes, nextIno, k), x \in Inos, v \in 0..k, nextIno' = nextIno,
          other \in Paths, <1>4, <1>5, <1>6, DataTold

\* write and ftruncate of a descriptor.
LEMMA WriteFdTold ==
  ASSUME NEW k \in Nat, IsTree(nodes, nextIno, k), NEW fd \in Fds, fds[fd] # NoFd,
         fds[fd].ino \in Inos, NEW v \in 0..k,
         nodes' = [nodes EXCEPT ![fds[fd].ino].data = v],
         nextIno' = nextIno, Report(fds[fd].path), NEW other \in Paths
  PROVE  Told(other)
<1>1. other \in Seq(Names) /\ other # <<>>
  BY PathsAreSeqs
<1>2. PICK x \in Inos : x = fds[fd].ino
  OBVIOUS
<1>3. PICK e \in events' : e.content /\ e.path = fds[fd].path
  BY ReportIs
<1>4. ASSUME From(nodes', Root, other) = x PROVE Covers(e, other)
  <2>1. IsNamed(e, other)
    BY <1>2, <1>3, <1>4 DEF IsNamed, At
  <2>2. PICK n \in 1..Len(other) : n = Len(other)
    <3>1. Len(other) \in Nat /\ Len(other) # 0
      BY <1>1
    <3> QED
      BY <3>1
  <2>3. SubSeq(other, 1, n) = other
    BY <1>1, <2>2
  <2> QED
    BY <2>1, <2>2, <2>3 DEF Covers
<1>5. nodes' = [nodes EXCEPT ![x].data = v]
  BY <1>2
<1> QED
  BY ONLY k \in Nat, IsTree(nodes, nextIno, k), x \in Inos, v \in 0..k, nextIno' = nextIno,
          other \in Paths, <1>3, <1>4, <1>5, DataTold

\* open with O_TRUNC tells nothing, and is what Truncated says.
LEMMA TruncateTold ==
  ASSUME NEW k \in Nat, IsTree(nodes, nextIno, k), NEW path \in Paths,
         NEW w, w = Walk(nodes, path, TRUE), There(w), 0 \in 0..k,
         nodes' = [nodes EXCEPT ![w.node].data = 0], nextIno' = nextIno,
         NEW fd \in Fds, fds[fd] = NoFd, fds'[fd].ino = w.node, NEW other \in Paths
  PROVE  Told(other)
<1>1. path \in Seq(Names) /\ path # <<>> /\ Shaped(nodes, nextIno, k)
  BY PathsAreSeqs DEF IsTree
<1>2. w.node \in Inos
  BY <1>1, WalkEnds DEF There
<1>3. PICK x \in Inos : x = w.node
  BY <1>2
<1>4. fds'[fd] # NoFd
  <2>1. NoFd.ino = 0
    BY DEF NoFd
  <2>2. w.node # 0
    BY DEF There
  <2> QED
    BY <2>1, <2>2
<1>5. ASSUME From(nodes, Root, other) = x PROVE Truncated(other)
  <2>1. fds'[fd].ino = At(nodes, other)
    BY <1>3, <1>5 DEF At
  <2> QED
    BY ONLY fd \in Fds, fds[fd] = NoFd, <1>4, <2>1 DEF Truncated
<1>6. nodes' = [nodes EXCEPT ![x].data = 0]
  BY <1>3
<1> QED
  BY ONLY k \in Nat, IsTree(nodes, nextIno, k), x \in Inos, 0 \in 0..k, nextIno' = nextIno,
          other \in Paths, <1>5, <1>6, DataTold

\* Whatever a step changes about a path, it tells.
LEMMA AllTold ==
  ASSUME VfsInv, VfsInv', [Next]_vars, NEW one \in Paths
  PROVE  Told(one)
<1> DEFINE k == ops + 1
<1>1. /\ ops \in Nat /\ k \in Nat /\ 0 \in 0..k /\ k \in 0..k /\ ops' \in Nat
      /\ IsTree(nodes, nextIno, ops) /\ IsTree(nodes', nextIno', ops')
  BY VfsAssumption DEF VfsInv
<1>2. IsTree(nodes, nextIno, k)
  BY <1>1, TreeLater
<1>3. CASE nodes' = nodes
  BY <1>3, SameTold
<1>4. ASSUME Op PROVE ops' = k
  BY <1>4 DEF Op, Begin
<1> HIDE DEF k
<1>5. ASSUME NEW path \in Paths, Mkdir(path) PROVE Told(one)
  <2>1. /\ Free(Walk(nodes, path, FALSE)) /\ Report(path)
        /\ Create(Walk(nodes, path, FALSE), Node("dir", 0, <<>>))
    BY <1>5 DEF Mkdir
  <2> QED
    BY <1>1, <1>2, <2>1, ReportTold
<1>6. ASSUME NEW path \in Paths, MkdirAll(path) PROVE Told(one)
  <2>1. HeardAll
    BY <1>1, <1>2, <1>6, MkdirAllKeeps DEF HeardAll
  <2> QED
    BY <1>1, <1>2, <2>1, HeardTold DEF IsTree
<1>7. ASSUME NEW path \in Paths, WriteFile(path) PROVE Told(one)
  <2>1. ops' = k /\ Report(path)
    BY <1>4, <1>7 DEF WriteFile
  <2>2. PICK w : w = Walk(nodes, path, TRUE)
    OBVIOUS
  <2>3. \/ Free(w) /\ Create(w, Node("file", k, <<>>))
        \/ There(w) /\ nodes' = [nodes EXCEPT ![w.node].data = k] /\ nextIno' = nextIno
    BY <1>7, <2>1, <2>2 DEF WriteFile
  <2>4. CASE Free(w) /\ Create(w, Node("file", k, <<>>))
    BY <1>1, <1>2, <2>1, <2>2, <2>4, ReportTold
  <2>5. CASE There(w) /\ nodes' = [nodes EXCEPT ![w.node].data = k] /\ nextIno' = nextIno
    BY <1>1, <1>2, <2>1, <2>2, <2>5, WriteFileTold
  <2> QED
    BY <2>3, <2>4, <2>5
<1>8. ASSUME NEW path \in Paths, Touch(path) PROVE nodes' = nodes
  BY <1>8 DEF Touch, tree
<1>9. ASSUME NEW path \in Paths, NEW recursive, Rm(path, recursive) PROVE Told(one)
  BY <1>1, <1>2, <1>9, RmTold
<1>10. ASSUME NEW path \in Paths, NEW other \in Paths, Rename(other, path) PROVE Told(one)
  <2>1. Renames(nodes', other, path)
    BY <1>1, <1>2, <1>10, RenameKeeps
  <2> QED
    BY <1>1, <1>2, <1>10, <2>1, RenameTold
<1>11. ASSUME NEW path \in Paths, NEW other \in Paths, Symlink(other, path) PROVE Told(one)
  <2>1. /\ Free(Walk(nodes, path, FALSE)) /\ Report(path)
        /\ Create(Walk(nodes, path, FALSE), Node("symlink", 0, other))
    BY <1>11 DEF Symlink
  <2> QED
    BY <1>1, <1>2, <2>1, ReportTold
<1>12. ASSUME NEW path \in Paths, NEW other \in Paths, Link(other, path) PROVE Told(one)
  BY <1>1, <1>2, <1>12, LinkTold
<1>13. ASSUME NEW path \in Paths, NEW other \in Paths, Cp(other, path) PROVE Told(one)
  <2>1. HeardAll
    BY <1>1, <1>2, <1>13, CpKeeps
  <2> QED
    BY <1>1, <1>2, <2>1, HeardTold DEF IsTree
<1>14. ASSUME NEW c \in Clients, NEW path \in Paths, NEW writable, OpenNew(c, path, writable)
       PROVE  Told(one)
  BY <1>1, <1>2, <1>14, OpenNewTold
<1>15. ASSUME NEW c \in Clients, NEW path \in Paths, NEW writable, NEW truncate,
              OpenExisting(c, path, writable, truncate)
       PROVE  Told(one)
  <2>1. PICK w : w = Walk(nodes, path, TRUE)
    OBVIOUS
  <2>2. /\ There(w) /\ nextIno' = nextIno /\ Attach(c, w.node, w.real, writable)
        /\ nodes' = IF truncate THEN [nodes EXCEPT ![w.node].data = 0] ELSE nodes
    BY <1>15, <2>1 DEF OpenExisting
  <2>3. CASE truncate
    <3>1. nodes' = [nodes EXCEPT ![w.node].data = 0]
      BY <2>2, <2>3
    <3>2. PICK fd \in Fds : fd = FreeFd /\ fds[fd] = NoFd
      BY <2>2, FreeFdIsFree DEF Attach
    <3>3. fds'[fd].ino = w.node
      <4>1. fds = [e \in Fds |-> fds[e]]
        BY DEF VfsInv, HeldByOne, HeldBySome
      <4>2. fds' = [fds EXCEPT ![fd] = [ino |-> w.node, path |-> w.real, writable |-> writable]]
        BY <2>2, <3>2 DEF Attach
      <4> QED
        BY <4>1, <4>2
    <3> QED
      BY <1>1, <1>2, <2>1, <2>2, <3>1, <3>2, <3>3, TruncateTold
  <2>4. CASE ~truncate
    BY <1>3, <2>2, <2>4
  <2> QED
    BY <2>3, <2>4
<1>16. ASSUME NEW fd \in Fds, WriteFd(fd) PROVE Told(one)
  <2>1. /\ fds[fd].writable /\ nextIno' = nextIno /\ ops' = k /\ Report(fds[fd].path)
    BY <1>4, <1>16 DEF WriteFd
  <2>2. PICK v \in 0..k : nodes' = [nodes EXCEPT ![fds[fd].ino].data = v]
    BY <1>1, <1>16, <2>1 DEF WriteFd
  <2>3. fds[fd] # NoFd
    BY <2>1 DEF NoFd
  <2>4. fds[fd].ino \in Inos
    BY <2>3, FdRefers
  <2> QED
    BY <1>1, <1>2, <2>1, <2>2, <2>3, <2>4, WriteFdTold
<1>17. ASSUME NEW fd \in Fds, TouchFd(fd) \/ \E c \in Clients : Close(c, fd)
       PROVE  nodes' = nodes
  BY <1>17 DEF TouchFd, Close, tree
<1>18. ASSUME NEW c \in Clients, Unregister(c) PROVE nodes' = nodes
  BY <1>18 DEF Unregister, tree
<1>19. CASE UNCHANGED vars
  BY <1>3, <1>19 DEF vars, tree
<1> QED
  BY <1>3, <1>5, <1>6, <1>7, <1>8, <1>9, <1>10, <1>11, <1>12, <1>13, <1>14, <1>15,
     <1>16, <1>17, <1>18, <1>19
  DEF Next

\* Whatever an operation changes under any path, through links, under another
\* name or deep beneath what moves, some event with new content names it one way
\* or another, though perhaps by another path than the one a watcher waits for:
\* but for the truncation that opens a file and the last node of a copy into
\* itself (onChange, and the reports of FsServer's operations).
THEOREM ChangesHeard == Spec => ChangesAreReported
<1>1. VfsInv /\ VfsInv' /\ [Next]_vars => \A path \in Paths : Told(path)
  BY AllTold
<1>2. (\A path \in Paths : Told(path)) =>
        [\A path \in Paths :
           /\ Content(nodes', path) # Content(nodes, path)
           /\ ~Truncated(path) /\ ~Unsaid(path)
           => \E e \in events' : e.content /\ Covers(e, path)]_vars
  BY DEF Told
<1> QED
  BY <1>1, <1>2, VfsInvHolds, PTL DEF Spec, ChangesAreReported
=============================================================================
