---------------------- MODULE ArchitectureRulesProofs ----------------------
(***************************************************************************)
(* find_cycles is right on every graph: proofs about ArchitectureRules.    *)
(* Core says what holds of any moment of the exploration, whatever the     *)
(* order of the children, of five things: the indices ix, the low links    *)
(* lo, the modules S on the stack, those of them on the path, P, and the   *)
(* children lk[x] of x that were looked at.  That entering a module,       *)
(* looking at children, returning to the parent and popping a component    *)
(* keep Core is proved of these alone; the rest of the invariant says how  *)
(* they are laid out in the sequences stack and work.                      *)
(***************************************************************************)
EXTENDS ArchitectureRules, FiniteSetTheorems, WellFoundedInduction, TLAPS

(* Reaches, in the graph E.                                                *)
Path(E, n, m) ==
    \A S \in SUBSET Nodes :
        (n \in S /\ \A e \in E : e[1] \in S => e[2] \in S) => m \in S

SeenIn(ix) == {n \in Nodes : ix[n] # Unseen}

Numbered(ix, lo, S, P) ==
    /\ P \subseteq S /\ S \subseteq SeenIn(ix)
    /\ \A m, n \in S : ix[m] = ix[n] => m = n
    /\ \A n \in S : lo[n] <= ix[n]

Connected(E, ix, S, P) ==
    /\ \A g \in P, m \in S : ix[g] <= ix[m] => Path(E, g, m)
    /\ \A m \in S : \E g \in P : ix[g] <= ix[m] /\ Path(E, m, g)

(* A low link is the index of a module on the stack that can be reached.   *)
LowIsReached(E, ix, lo, S, P) ==
    \A g \in P : \E z \in S : ix[z] = lo[g] /\ Path(E, g, z)

(* The module of the path that x was entered under, or x itself.           *)
Owns(ix, P, g, x) == ix[g] <= ix[x] /\ \A h \in P : ix[h] <= ix[g] \/ ix[x] < ix[h]

(* It knows how far back what was looked at reaches.                       *)
LowIsLeast(ix, lo, S, P, lk) ==
    \A g \in P, x \in S :
        Owns(ix, P, g, x) => \A c \in lk[x] \cap S : lo[g] <= ix[c]

Closed(E, T) == \A e \in E : e[1] \in T => e[2] \in T

Core(E, ix, lo, S, P, lk) ==
    /\ Numbered(ix, lo, S, P)
    /\ Connected(E, ix, S, P)
    /\ LowIsReached(E, ix, lo, S, P)
    /\ LowIsLeast(ix, lo, S, P, lk)
    /\ Closed(E, SeenIn(ix) \ S)

Graphs == SUBSET (Nodes \X Nodes)
Numbers == [Nodes -> Int]
Looks == [Nodes -> SUBSET Nodes]

-----------------------------------------------------------------------------
LEMMA PathFacts ==
    ASSUME NEW E \in Graphs
    PROVE  /\ \A n \in Nodes : Path(E, n, n)
           /\ \A n, m, k \in Nodes : Path(E, n, m) /\ Path(E, m, k) => Path(E, n, k)
           /\ \A n, m \in Nodes : <<n, m>> \in E => Path(E, n, m)
<1>1. ASSUME NEW n \in Nodes, NEW m \in Nodes, <<n, m>> \in E
      PROVE  Path(E, n, m)
  <2>1. <<n, m>>[1] = n /\ <<n, m>>[2] = m
    OBVIOUS
  <2> QED  BY <1>1, <2>1 DEF Path
<1> QED  BY <1>1 DEF Path

LEMMA Stays ==
    ASSUME NEW E \in Graphs, NEW T \in SUBSET Nodes, Closed(E, T),
           NEW n \in T, NEW m \in Nodes, Path(E, n, m)
    PROVE  m \in T
  BY DEF Path, Closed

(* A module is entered.                                                    *)
LEMMA EnterCore ==
    ASSUME NEW E \in Graphs, NEW ix \in Numbers, NEW lo \in Numbers, NEW lk \in Looks,
           NEW S, NEW P, Core(E, ix, lo, S, P, lk),
           NEW v \in Nodes, ix[v] = Unseen, lk[v] = {}, \A g \in P : Path(E, g, v),
           NEW k \in Nat, \A n \in SeenIn(ix) : ix[n] < k,
           NEW iy, iy = [ix EXCEPT ![v] = k], NEW ly, ly = [lo EXCEPT ![v] = k]
    PROVE  Core(E, iy, ly, S \cup {v}, P \cup {v}, lk)
<1>1. /\ iy[v] = k /\ ly[v] = k /\ k # Unseen /\ v \notin S
      /\ \A n \in Nodes \ {v} : iy[n] = ix[n] /\ ly[n] = lo[n]
      /\ S \subseteq Nodes \ {v} /\ P \subseteq S /\ \A n \in S : ix[n] < k
  BY DEF Numbers, Unseen, Core, Numbered, SeenIn
<1>2. \A n \in S : iy[n] = ix[n] /\ ly[n] = lo[n] /\ ix[n] \in Int /\ lo[n] \in Int
  BY <1>1 DEF Numbers
<1>3. SeenIn(iy) = SeenIn(ix) \cup {v}
  BY <1>1 DEF SeenIn
<1>4. Numbered(iy, ly, S \cup {v}, P \cup {v})
  <2>1. P \cup {v} \subseteq S \cup {v} /\ S \cup {v} \subseteq SeenIn(iy)
    BY <1>3 DEF Core, Numbered
  <2>2. ASSUME NEW m \in S \cup {v}, NEW n \in S \cup {v}, iy[m] = iy[n]
        PROVE  m = n
    <3>1. CASE m \in S /\ n \in S
      BY <1>2, <2>2, <3>1 DEF Core, Numbered
    <3>2. CASE m = v \/ n = v
      BY <1>1, <1>2, <2>2, <3>2
    <3> QED  BY <3>1, <3>2
  <2>3. ASSUME NEW n \in S \cup {v}
        PROVE  ly[n] <= iy[n]
    <3>1. CASE n \in S
      BY <1>2, <3>1 DEF Core, Numbered
    <3>2. CASE n = v
      BY <1>1, <3>2
    <3> QED  BY <3>1, <3>2
  <2> QED  BY <2>1, <2>2, <2>3 DEF Numbered
<1>5. Connected(E, iy, S \cup {v}, P \cup {v})
  <2>1. ASSUME NEW g \in P \cup {v}, NEW m \in S \cup {v}, iy[g] <= iy[m]
        PROVE  Path(E, g, m)
    <3>1. CASE g = v
      BY <1>1, <1>2, <2>1, <3>1, PathFacts
    <3>2. CASE g # v
      BY <1>1, <1>2, <2>1, <3>2 DEF Core, Connected
    <3> QED  BY <3>1, <3>2
  <2>2. ASSUME NEW m \in S \cup {v}
        PROVE  \E g \in P \cup {v} : iy[g] <= iy[m] /\ Path(E, m, g)
    <3>1. CASE m = v
      BY <1>1, <3>1, PathFacts
    <3>2. CASE m # v
      BY <1>1, <1>2, <2>2, <3>2 DEF Core, Connected
    <3> QED  BY <3>1, <3>2
  <2> QED  BY <2>1, <2>2 DEF Connected
<1>6. LowIsReached(E, iy, ly, S \cup {v}, P \cup {v})
  <2>1. ASSUME NEW g \in P
        PROVE  \E z \in S : iy[z] = ly[g] /\ Path(E, g, z)
    BY <1>1, <1>2 DEF Core, LowIsReached
  <2>2. iy[v] = ly[v] /\ Path(E, v, v)
    BY <1>1, PathFacts
  <2> QED  BY <2>1, <2>2 DEF LowIsReached
<1>7. LowIsLeast(iy, ly, S \cup {v}, P \cup {v}, lk)
  <2> SUFFICES ASSUME NEW g \in P \cup {v}, NEW x \in S \cup {v},
                      Owns(iy, P \cup {v}, g, x), NEW c \in lk[x] \cap (S \cup {v})
               PROVE  ly[g] <= iy[c]
    BY DEF LowIsLeast
  <2>1. x # v /\ x \in S
    OBVIOUS
  <2>2. g # v /\ g \in P
    BY <1>1, <1>2, <2>1 DEF Owns
  <2>3. Owns(ix, P, g, x)
    BY <1>1, <1>2, <2>1, <2>2 DEF Owns
  <2>4. CASE c = v
    BY <1>1, <1>2, <2>2, <2>4 DEF Core, Numbered
  <2>5. CASE c # v
    BY <1>1, <1>2, <2>1, <2>2, <2>3, <2>5 DEF Core, LowIsLeast
  <2> QED  BY <2>4, <2>5
<1>8. Closed(E, SeenIn(iy) \ (S \cup {v}))
  <2>1. SeenIn(iy) \ (S \cup {v}) = SeenIn(ix) \ S
    BY <1>1, <1>3 DEF SeenIn
  <2> QED  BY <2>1 DEF Core
<1> QED  BY <1>4, <1>5, <1>6, <1>7, <1>8 DEF Core

(* The last module v of the path looks at more of its children; b is the   *)
(* least index it then knows of.                                           *)
MayLook(E, ix, lo, S, P, lk, v, more, b, ll) ==
    /\ v \in P /\ \A h \in P : ix[h] <= ix[v]
    /\ more \in SUBSET Nodes /\ \A c \in more : <<v, c>> \in E
    /\ b \in Int /\ b <= lo[v] /\ \A c \in more \cap S : b <= ix[c]
    /\ b = lo[v] \/ \E c \in more \cap S : b = ix[c]
    /\ \A x \in S : ll[x] \cap S \subseteq lk[x] \cup (IF x = v THEN more ELSE {})

LEMMA LookCore ==
    ASSUME NEW E \in Graphs, NEW ix \in Numbers, NEW lo \in Numbers, NEW lk \in Looks,
           NEW S, NEW P, Core(E, ix, lo, S, P, lk), NEW v, NEW more, NEW b,
           NEW ll \in Looks, MayLook(E, ix, lo, S, P, lk, v, more, b, ll)
    PROVE  Core(E, ix, [lo EXCEPT ![v] = b], S, P, ll)
<1> DEFINE ly == [lo EXCEPT ![v] = b]
<1> USE DEF MayLook
<1>1. /\ v \in S /\ v \in Nodes /\ ly[v] = b /\ S \subseteq Nodes /\ P \subseteq S
      /\ \A n \in S : ix[n] \in Int /\ lo[n] \in Int
      /\ \A n \in S \ {v} : ly[n] = lo[n]
  BY DEF Core, Numbered, SeenIn, Numbers
<1>2. Numbered(ix, ly, S, P)
  BY <1>1 DEF Core, Numbered
<1>3. LowIsReached(E, ix, ly, S, P)
  <2>1. ASSUME NEW g \in P, g # v
        PROVE  \E z \in S : ix[z] = ly[g] /\ Path(E, g, z)
    BY <1>1, <2>1 DEF Core, LowIsReached
  <2>2. \E z \in S : ix[z] = ly[v] /\ Path(E, v, z)
    <3>1. CASE b = lo[v]
      BY <1>1, <3>1 DEF Core, LowIsReached
    <3>2. CASE \E c \in more \cap S : b = ix[c]
      BY <1>1, <3>2, PathFacts
    <3> QED  BY <3>1, <3>2
  <2> QED  BY <2>1, <2>2 DEF LowIsReached
<1>4. LowIsLeast(ix, ly, S, P, ll)
  <2> SUFFICES ASSUME NEW g \in P, NEW x \in S, Owns(ix, P, g, x),
                      NEW c \in ll[x] \cap S
               PROVE  ly[g] <= ix[c]
    BY DEF LowIsLeast
  <2>1. CASE c \in lk[x]
    <3>1. lo[g] <= ix[c]
      BY <2>1 DEF Core, LowIsLeast
    <3> QED  BY <1>1, <3>1
  <2>2. CASE c \notin lk[x]
    <3>1. x = v /\ c \in more
      BY <2>2
    <3>2. ix[g] = ix[v]
      BY <1>1, <3>1 DEF Owns
    <3>3. g = v
      BY <1>1, <3>2 DEF Core, Numbered
    <3> QED  BY <1>1, <3>1, <3>3
  <2> QED  BY <2>1, <2>2
<1> QED  BY <1>2, <1>3, <1>4 DEF Core

(* Its parent takes over when it reaches something older.                  *)
MayReturn(ix, lo, P, v, p, b) ==
    /\ v \in P /\ \A h \in P : ix[h] <= ix[v]
    /\ lo[v] < ix[v]
    /\ p \in P \ {v} /\ \A h \in P \ {v} : ix[h] <= ix[p]
    /\ b \in Int /\ b <= lo[p] /\ b <= lo[v] /\ (b = lo[p] \/ b = lo[v])

LEMMA ReturnCore ==
    ASSUME NEW E \in Graphs, NEW ix \in Numbers, NEW lo \in Numbers, NEW lk \in Looks,
           NEW S, NEW P, Core(E, ix, lo, S, P, lk),
           NEW v, NEW p, NEW b, MayReturn(ix, lo, P, v, p, b)
    PROVE  Core(E, ix, [lo EXCEPT ![p] = b], S, P \ {v}, lk)
<1> DEFINE ly == [lo EXCEPT ![p] = b]
<1> USE DEF MayReturn
<1>1. /\ v \in S /\ p \in S /\ p \in Nodes /\ ly[p] = b /\ S \subseteq Nodes /\ P \subseteq S
      /\ \A n \in S : ix[n] \in Int /\ lo[n] \in Int
      /\ \A n \in S \ {p} : ly[n] = lo[n]
  BY DEF Core, Numbered, SeenIn, Numbers
<1>2. Numbered(ix, ly, S, P \ {v})
  BY <1>1 DEF Core, Numbered
<1>3. PICK z \in S : ix[z] = lo[v] /\ Path(E, v, z)
  BY DEF Core, LowIsReached
<1>4. PICK h \in P : ix[h] <= ix[z] /\ Path(E, z, h)
  BY DEF Core, Connected
<1>5. h # v /\ Path(E, v, h) /\ ix[h] < ix[v]
  BY <1>1, <1>3, <1>4, PathFacts
<1>6. Connected(E, ix, S, P \ {v})
  <2>1. ASSUME NEW m \in S
        PROVE  \E g \in P \ {v} : ix[g] <= ix[m] /\ Path(E, m, g)
    <3>1. PICK g \in P : ix[g] <= ix[m] /\ Path(E, m, g)
      BY DEF Core, Connected
    <3>2. CASE g = v
      BY <1>1, <1>5, <3>1, <3>2, PathFacts
    <3> QED  BY <3>1, <3>2
  <2> QED  BY <2>1 DEF Core, Connected
<1>7. LowIsReached(E, ix, ly, S, P \ {v})
  <2>1. ASSUME NEW g \in P \ {v}, g # p
        PROVE  \E y \in S : ix[y] = ly[g] /\ Path(E, g, y)
    BY <1>1, <2>1 DEF Core, LowIsReached
  <2>2. Path(E, p, z)
    <3>1. Path(E, p, v)
      BY <1>1 DEF Core, Connected
    <3> QED  BY <1>1, <1>3, <3>1, PathFacts
  <2>3. \E y \in S : ix[y] = ly[p] /\ Path(E, p, y)
    BY <1>1, <1>3, <2>2 DEF Core, LowIsReached
  <2> QED  BY <2>1, <2>3 DEF LowIsReached
<1>8. LowIsLeast(ix, ly, S, P \ {v}, lk)
  <2> SUFFICES ASSUME NEW g \in P \ {v}, NEW x \in S, Owns(ix, P \ {v}, g, x),
                      NEW c \in lk[x] \cap S
               PROVE  ly[g] <= ix[c]
    BY DEF LowIsLeast
  <2>1. CASE ix[x] < ix[v]
    <3>1. Owns(ix, P, g, x)
      BY <2>1 DEF Owns
    <3>2. lo[g] <= ix[c]
      BY <3>1 DEF Core, LowIsLeast
    <3> QED  BY <1>1, <3>2
  <2>2. CASE ix[v] <= ix[x]
    <3>1. Owns(ix, P, v, x)
      BY <2>2 DEF Owns
    <3>2. lo[v] <= ix[c]
      BY <3>1 DEF Core, LowIsLeast
    <3>3. ix[p] = ix[g]
      BY <1>1, <2>2 DEF Owns
    <3>4. g = p
      BY <1>1, <3>3 DEF Core, Numbered
    <3> QED  BY <1>1, <3>2, <3>4
  <2> QED  BY <1>1, <2>1, <2>2
<1> QED  BY <1>2, <1>6, <1>7, <1>8 DEF Core

(* When it does not, all above it on the stack is its component.           *)
MayPop(E, ix, lo, S, P, lk, v, C) ==
    /\ v \in P /\ \A h \in P : ix[h] <= ix[v]
    /\ lo[v] = ix[v]
    /\ C = {x \in S : ix[v] <= ix[x]}
    /\ \A x \in C : lk[x] = {c \in Nodes : <<x, c>> \in E} /\ lk[x] \subseteq SeenIn(ix)

LEMMA PopCore ==
    ASSUME NEW E \in Graphs, NEW ix \in Numbers, NEW lo \in Numbers, NEW lk \in Looks,
           NEW S, NEW P, Core(E, ix, lo, S, P, lk),
           NEW v, NEW C, MayPop(E, ix, lo, S, P, lk, v, C)
    PROVE  /\ Core(E, ix, lo, S \ C, P \ {v}, lk)
           /\ \A n \in C : C = {m \in Nodes : Path(E, n, m) /\ Path(E, m, n)}
<1> USE DEF MayPop
<1>1. /\ v \in S /\ v \in C /\ S \subseteq Nodes /\ P \subseteq S /\ C \subseteq S
      /\ \A n \in S : ix[n] \in Int /\ lo[n] \in Int
      /\ \A n \in S \ C : ix[n] < ix[v]
      /\ \A h \in P \ {v} : h \in S \ C /\ ix[h] < ix[v]
  BY DEF Core, Numbered, SeenIn, Numbers
<1> DEFINE T == (SeenIn(ix) \ S) \cup C
<1>2. Closed(E, T)
  <2> SUFFICES ASSUME NEW e \in E, e[1] \in T
               PROVE  e[2] \in T
    BY DEF Closed
  <2>1. CASE e[1] \in C
    <3>1. e = <<e[1], e[2]>> /\ e[2] \in Nodes
      BY DEF Graphs
    <3>2. e[2] \in lk[e[1]] /\ e[2] \in SeenIn(ix)
      BY <2>1, <3>1
    <3>3. Owns(ix, P, v, e[1])
      BY <2>1 DEF Owns
    <3>4. e[2] \in S => ix[v] <= ix[e[2]]
      BY <1>1, <2>1, <3>2, <3>3 DEF Core, LowIsLeast
    <3> QED  BY <3>2, <3>4
  <2>2. CASE e[1] \notin C
    BY <2>2 DEF Core, Closed
  <2> QED  BY <2>1, <2>2
<1>3. T \in SUBSET Nodes
  BY <1>1 DEF SeenIn
<1>4. ASSUME NEW n \in C
      PROVE  Path(E, n, v) /\ Path(E, v, n)
  <2>1. PICK g \in P : ix[g] <= ix[n] /\ Path(E, n, g)
    BY <1>1 DEF Core, Connected
  <2>2. g \in T
    BY <1>1, <1>2, <1>3, <2>1, Stays
  <2>3. g = v
    BY <1>1, <2>2
  <2>4. Path(E, v, n)
    BY <1>1 DEF Core, Connected
  <2> QED  BY <2>1, <2>3, <2>4
<1>5. ASSUME NEW n \in C
      PROVE  C = {m \in Nodes : Path(E, n, m) /\ Path(E, m, n)}
  <2>1. ASSUME NEW m \in C
        PROVE  Path(E, n, m) /\ Path(E, m, n)
    <3>1. n \in Nodes /\ m \in Nodes /\ v \in Nodes
      BY <1>1
    <3> QED  BY <1>4, <3>1, PathFacts
  <2>2. ASSUME NEW m \in Nodes, Path(E, n, m), Path(E, m, n)
        PROVE  m \in C
    <3>1. m \in T
      BY <1>2, <1>3, <2>2, Stays
    <3>2. CASE m \in SeenIn(ix) \ S
      <4>1. n \in SeenIn(ix) \ S
        BY <1>1, <1>3, <2>2, <3>2, Stays DEF Core, SeenIn
      <4> QED  BY <1>1, <4>1
    <3> QED  BY <3>1, <3>2
  <2> QED  BY <1>1, <2>1, <2>2
<1>6. Numbered(ix, lo, S \ C, P \ {v})
  BY <1>1 DEF Core, Numbered
<1>7. Connected(E, ix, S \ C, P \ {v})
  <2>1. ASSUME NEW m \in S \ C
        PROVE  \E g \in P \ {v} : ix[g] <= ix[m] /\ Path(E, m, g)
    <3>1. PICK g \in P : ix[g] <= ix[m] /\ Path(E, m, g)
      BY DEF Core, Connected
    <3> QED  BY <1>1, <3>1
  <2> QED  BY <2>1 DEF Core, Connected
<1>8. LowIsReached(E, ix, lo, S \ C, P \ {v})
  <2>1. ASSUME NEW g \in P \ {v}
        PROVE  \E z \in S \ C : ix[z] = lo[g] /\ Path(E, g, z)
    <3>1. PICK z \in S : ix[z] = lo[g] /\ Path(E, g, z)
      BY DEF Core, LowIsReached
    <3>2. lo[g] <= ix[g] /\ ix[g] < ix[v]
      BY <1>1 DEF Core, Numbered
    <3> QED  BY <1>1, <3>1, <3>2
  <2> QED  BY <2>1 DEF LowIsReached
<1>9. LowIsLeast(ix, lo, S \ C, P \ {v}, lk)
  <2> SUFFICES ASSUME NEW g \in P \ {v}, NEW x \in S \ C, Owns(ix, P \ {v}, g, x),
                      NEW c \in lk[x] \cap (S \ C)
               PROVE  lo[g] <= ix[c]
    BY DEF LowIsLeast
  <2>1. Owns(ix, P, g, x)
    BY <1>1 DEF Owns
  <2> QED  BY <2>1 DEF Core, LowIsLeast
<1>10. Closed(E, SeenIn(ix) \ (S \ C))
  <2>1. SeenIn(ix) \ (S \ C) = T
    BY <1>1 DEF Core, Numbered
  <2> QED  BY <1>2, <2>1
<1> QED  BY <1>5, <1>6, <1>7, <1>8, <1>9, <1>10 DEF Core

-----------------------------------------------------------------------------
(* How the sequences lay this out.                                         *)
Greys(w) == {w[i].node : i \in 1..Len(w)}

(* The children of x looked at: all, once x is no longer on the path.      *)
LooksAt(E, w) ==
    [x \in Nodes |-> {c \in Nodes : /\ <<x, c>> \in E
                                    /\ \A i \in 1..Len(w) : w[i].node = x => c <= w[i].last}]

Sorted(ix, st) == \A i, j \in 1..Len(st) : i < j => ix[st[i]] < ix[st[j]]

Counted(ix, lo) ==
    \A n \in SeenIn(ix) : /\ ix[n] \in 0..(Cardinality(SeenIn(ix)) - 1)
                          /\ lo[n] \in 0..ix[n]

(* Only the last module of the path may still be new.                      *)
PathLaid(E, ix, w, S) ==
    \A i \in 1..Len(w) :
        /\ w[i].last = 0 => /\ i = Len(w)
                            /\ ix[w[i].node] = Unseen
                            /\ \A g \in Greys(w) \cap S : Path(E, g, w[i].node)
        /\ w[i].last # 0 => w[i].node \in S
        /\ \A j \in 1..Len(w) : i < j /\ w[j].last # 0 => ix[w[i].node] < ix[w[j].node]

Whole(E, n) == {m \in Nodes : Path(E, n, m) /\ Path(E, m, n)}
LargeOnes(E, T) == {S \in {Whole(E, n) : n \in T} : Cardinality(S) > 1}

IInv ==
    /\ TypeOK
    /\ PathLaid(edges, indices, work, OnStack)
    /\ OnStack \subseteq Seen
    /\ Sorted(indices, stack)
    /\ Counted(indices, low)
    /\ \A x \in OnStack : LooksAt(edges, work)[x] \subseteq Seen \cup Grey
    /\ Core(edges, indices, low, OnStack, Grey \cap OnStack, LooksAt(edges, work))
    /\ cycles = LargeOnes(edges, Seen \ OnStack)

(* What a pass of the loop has established before it moves on.             *)
Marks == [Nodes -> {Unseen} \cup 0..(N - 1)]
Passed(E, ix, lo, st, w, lk) ==
    /\ ix \in Marks /\ lo \in Marks /\ st \in Seq(Nodes)
    /\ ToSet(st) \subseteq SeenIn(ix)
    /\ Sorted(ix, st)
    /\ Counted(ix, lo)
    /\ \A i \in 1..Len(w) : w[i].node \in ToSet(st)
    /\ \A i, j \in 1..Len(w) : i < j => ix[w[i].node] < ix[w[j].node]
    /\ \A x \in ToSet(st) : lk[x] \subseteq SeenIn(ix)
    /\ Core(E, ix, lo, ToSet(st), Greys(w), lk)

LEMMA MinFact ==
    ASSUME NEW A \in SUBSET Nat, A # {}
    PROVE  Min(A) \in A /\ \A x \in A : Min(A) <= x
<1>1. PICK m \in A : \A y \in A : ~(<<y, m>> \in OpToRel(<, Nat))
  BY NatLessThanWellFounded, WFMin
<1>2. \A y \in A : m <= y
  <2> TAKE y \in A
  <2>1. <<y, m>>[1] = y /\ <<y, m>>[2] = m /\ <<y, m>> \in Nat \X Nat
    OBVIOUS
  <2>2. ~(y < m)
    BY <1>1, <2>1 DEF OpToRel
  <2> QED  BY <2>2
<1> QED  BY <1>2 DEF Min

LEMMA NodesFinite == IsFiniteSet(Nodes) /\ Cardinality(Nodes) = N
  BY SizeAssumption, FS_Interval DEF Nodes

LEMMA MarkIsNumber == Marks \subseteq Numbers
  BY SizeAssumption DEF Marks, Numbers, Unseen

LEMMA SeenIsSeenIn == Seen = SeenIn(indices)
  BY DEF Seen, SeenIn

LEMMA LooksType ==
    ASSUME NEW E, NEW w
    PROVE  LooksAt(E, w) \in Looks
  BY DEF LooksAt, Looks

(* Fewer looks are as good.                                                *)
LEMMA FewerLooks ==
    ASSUME NEW E, NEW ix, NEW lo, NEW S, NEW P, NEW lk, Core(E, ix, lo, S, P, lk),
           NEW ll, \A x \in S : ll[x] \cap S \subseteq lk[x]
    PROVE  Core(E, ix, lo, S, P, ll)
  BY DEF Core, LowIsLeast

-----------------------------------------------------------------------------

LEMMA TopFacts ==
    ASSUME TypeOK, work # <<>>
    PROVE  /\ Len(work) \in Nat /\ Len(work) > 0
           /\ Top = work[Len(work)] /\ Top \in Frame /\ Top.node \in Nodes /\ Top.last \in 0..N
           /\ \A i \in 1..Len(work) : work[i] \in Frame /\ work[i].node \in Nodes
                                                        /\ work[i].last \in 0..N
           /\ \A i, j \in 1..Len(work) : work[i].node = work[j].node => i = j
           /\ Grey = Greys(work) /\ Grey \subseteq Nodes /\ Top.node \in Grey
           /\ edges \in Graphs /\ stack \in Seq(Nodes) /\ OnStack \subseteq Nodes
           /\ indices \in Marks /\ low \in Marks
<1>1. work \in Seq(Frame) /\ Len(work) \in Nat /\ Len(work) > 0
  BY DEF TypeOK
<1>2. \A i \in 1..Len(work) : work[i] \in Frame
  BY <1>1
<1>3. \A i \in 1..Len(work) : work[i].node \in Nodes /\ work[i].last \in 0..N
  BY <1>2 DEF Frame
<1>4. Top = work[Len(work)] /\ Len(work) \in 1..Len(work)
  BY <1>1 DEF Top, Last
<1>5. \A i, j \in 1..Len(work) : work[i].node = work[j].node => i = j
  BY <1>1 DEF TypeOK
<1>6. Grey = Greys(work) /\ Grey \subseteq Nodes /\ Top.node \in Grey
  BY <1>3, <1>4 DEF Grey, Greys
<1>7. /\ edges \in Graphs /\ stack \in Seq(Nodes) /\ OnStack \subseteq Nodes
      /\ indices \in Marks /\ low \in Marks
  BY DEF TypeOK, Graphs, OnStack, ToSet, Marks
<1> QED  BY <1>1, <1>2, <1>3, <1>4, <1>5, <1>6, <1>7

(* The first half of a pass: the top of the path is on the stack.          *)
LEMMA EnterPass ==
    ASSUME IInv, work # <<>>
    PROVE  /\ Passed(edges, Indices, Enter(Top.node, low), Stacked, work,
                     LooksAt(edges, work))
           /\ SeenIn(Indices) \ ToSet(Stacked) = Seen \ OnStack
           /\ \A i \in 1..Len(work) : i < Len(work) => work[i].last # 0
<1> DEFINE v == Top.node
           lk == LooksAt(edges, work)
           W == 1..Len(work)
<1>1. TypeOK /\ PathLaid(edges, indices, work, OnStack) /\ OnStack \subseteq SeenIn(indices)
  BY SeenIsSeenIn DEF IInv
<1>2. Sorted(indices, stack) /\ Counted(indices, low)
  BY DEF IInv
<1>3. /\ \A x \in OnStack : lk[x] \subseteq SeenIn(indices) \cup Greys(work)
      /\ Core(edges, indices, low, OnStack, Greys(work) \cap OnStack, lk)
  BY SeenIsSeenIn, TopFacts DEF IInv
<1>4. \A i \in W : i < Len(work) => work[i].last # 0
  BY <1>1, TopFacts DEF PathLaid
<1>5. CASE ~IsNew
  <2>1. Indices = indices /\ Stacked = stack /\ Enter(v, low) = low /\ ToSet(stack) = OnStack
    BY <1>5 DEF Indices, Stacked, Enter, OnStack
  <2>2. \A i \in W : work[i].last # 0
    BY <1>1, <1>4, <1>5, TopFacts DEF IsNew
  <2>3. \A i \in W : work[i].node \in OnStack
    BY <1>1, <2>2 DEF PathLaid
  <2>4. \A i, j \in W : i < j => indices[work[i].node] < indices[work[j].node]
    BY <1>1, <2>2 DEF PathLaid
  <2>5. Greys(work) \cap OnStack = Greys(work) /\ Greys(work) \subseteq SeenIn(indices)
    BY <1>1, <2>3 DEF Greys
  <2>6. \A x \in OnStack : lk[x] \subseteq SeenIn(indices)
    BY <1>3, <2>5
  <2>7. indices \in Marks /\ low \in Marks /\ stack \in Seq(Nodes)
    BY <1>1, TopFacts
  <2>8. Core(edges, indices, low, OnStack, Greys(work), lk)
    BY <1>3, <2>5
  <2> HIDE DEF lk, W
  <2>9. Passed(edges, indices, low, stack, work, lk)
    BY <1>1, <1>2, <2>1, <2>3, <2>4, <2>6, <2>7, <2>8 DEF Passed, W
  <2> QED  BY <1>4, <2>1, <2>9, SeenIsSeenIn DEF W, lk
<1>6. CASE IsNew
  <2> DEFINE k == Index
             iy == [indices EXCEPT ![v] = k]
             ly == [low EXCEPT ![v] = k]
             S == OnStack \cup {v}
             G == Greys(work) \cap OnStack
  <2>1. v \in Nodes /\ v = work[Len(work)].node /\ work[Len(work)].last = 0
    BY <1>1, <1>6, TopFacts DEF IsNew
  <2>2. indices[v] = Unseen /\ \A g \in G : Path(edges, g, v)
    BY <1>1, <2>1, TopFacts DEF PathLaid
  <2>3. Indices = iy /\ Enter(v, low) = ly /\ Stacked = Append(stack, v)
    BY <1>6 DEF Indices, Enter, Stacked
  <2>4. /\ stack \in Seq(Nodes) /\ Len(stack) \in Nat /\ Stacked \in Seq(Nodes)
        /\ Len(Stacked) = Len(stack) + 1 /\ Stacked[Len(stack) + 1] = v
        /\ \A i \in 1..Len(stack) : Stacked[i] = stack[i] /\ stack[i] \in OnStack
        /\ DOMAIN Stacked = 1..(Len(stack) + 1) /\ DOMAIN stack = 1..Len(stack)
    BY <1>1, <2>1, <2>3, TopFacts DEF OnStack, ToSet
  <2>5. ToSet(Stacked) = S
    BY <2>4 DEF ToSet, OnStack
  <2>6. /\ indices \in Marks /\ low \in Marks /\ indices \in Numbers /\ low \in Numbers
        /\ edges \in Graphs /\ OnStack \subseteq Nodes /\ Greys(work) \subseteq Nodes
    BY <1>1, TopFacts, MarkIsNumber
  <2>7. SeenIn(iy) = SeenIn(indices) \cup {v} /\ v \notin SeenIn(indices)
    <3>1. k \in Nat
      BY NodesFinite, FS_Subset, FS_CardinalityType DEF Index, Seen
    <3> QED  BY <2>1, <2>2, <2>6, <3>1 DEF SeenIn, Unseen, Marks
  <2>8. k \in 0..(N - 1) /\ Cardinality(SeenIn(iy)) = k + 1
    <3>1. SeenIn(indices) \in SUBSET Nodes /\ SeenIn(iy) \in SUBSET Nodes
      BY DEF SeenIn
    <3>2. IsFiniteSet(SeenIn(indices)) /\ k = Cardinality(SeenIn(indices)) /\ k \in Nat
      BY <3>1, NodesFinite, FS_Subset, FS_CardinalityType, SeenIsSeenIn DEF Index
    <3>3. Cardinality(SeenIn(iy)) = k + 1
      BY <2>7, <3>2, FS_AddElement
    <3>4. Cardinality(SeenIn(iy)) <= N
      BY <3>1, NodesFinite, FS_Subset
    <3> QED  BY <3>2, <3>3, <3>4, SizeAssumption
  <2>9. \A n \in SeenIn(indices) : indices[n] \in 0..(k - 1) /\ low[n] \in 0..indices[n]
    BY <1>2, SeenIsSeenIn DEF Counted, Index
  <2>10. k \in Nat /\ \A n \in SeenIn(indices) : indices[n] < k
    BY <2>8, <2>9, SizeAssumption
  <2>11. lk[v] = {} /\ lk \in Looks
    <3>1. lk \in Looks
      BY LooksType
    <3>2. lk[v] = {c \in Nodes : /\ <<v, c>> \in edges
                                 /\ \A i \in 1..Len(work) : work[i].node = v => c <= work[i].last}
      BY <2>1 DEF LooksAt
    <3>3. Len(work) \in 1..Len(work)
      BY <1>1, TopFacts
    <3>4. ASSUME NEW c \in lk[v]
          PROVE  c <= 0 /\ c \in Nodes
      <4> HIDE DEF lk
      <4>1. c \in Nodes /\ \A i \in 1..Len(work) : work[i].node = v => c <= work[i].last
        BY <3>2, <3>4
      <4> QED  BY <2>1, <3>3, <4>1
    <3>5. \A c \in Nodes : ~(c <= 0)
      BY SizeAssumption DEF Nodes
    <3> QED  BY <3>1, <3>4, <3>5
  <2>12. Greys(work) = G \cup {v}
    <3>1. v \in Greys(work)
      BY <1>1, TopFacts
    <3>2. ASSUME NEW i \in W, work[i].node # v
          PROVE  work[i].node \in OnStack
      <4>1. i < Len(work)
        BY <1>1, <2>1, <3>2, TopFacts
      <4> QED  BY <1>1, <1>4, <4>1 DEF PathLaid
    <3> QED  BY <3>1, <3>2 DEF Greys
  <2>13. Core(edges, iy, ly, S, Greys(work), lk)
    <3> HIDE DEF lk, k, G
    <3>1. Core(edges, indices, low, OnStack, G, lk)
      BY <1>3 DEF G
    <3>2. Core(edges, iy, ly, OnStack \cup {v}, G \cup {v}, lk)
      BY <2>1, <2>2, <2>6, <2>10, <2>11, <3>1, EnterCore
    <3> QED  BY <2>12, <3>2
  <2>14. \A n \in OnStack : iy[n] = indices[n] /\ indices[n] < k
    BY <1>1, <2>6, <2>7, <2>10
  <2>15. iy[v] = k /\ ly[v] = k
    BY <2>1, <2>6 DEF Marks
  <2>16. Sorted(iy, Stacked)
    <3> SUFFICES ASSUME NEW i \in 1..Len(Stacked), NEW j \in 1..Len(Stacked), i < j
                 PROVE  iy[Stacked[i]] < iy[Stacked[j]]
      BY DEF Sorted
    <3>1. i \in 1..Len(stack) /\ Stacked[i] = stack[i] /\ stack[i] \in OnStack
      BY <2>4
    <3>2. CASE j \in 1..Len(stack)
      BY <1>2, <2>4, <2>14, <3>1, <3>2 DEF Sorted
    <3>3. CASE j = Len(stack) + 1
      BY <2>4, <2>14, <2>15, <3>1, <3>3
    <3> QED  BY <2>4, <3>2, <3>3
  <2>17. Counted(iy, ly)
    <3> SUFFICES ASSUME NEW n \in SeenIn(indices) \cup {v}
                 PROVE  iy[n] \in 0..k /\ ly[n] \in 0..iy[n]
      <4>1. Cardinality(SeenIn(iy)) - 1 = k
        BY <2>8, <2>10
      <4> HIDE DEF iy, ly, k
      <4> QED  BY <2>7, <4>1 DEF Counted
    <3>1. CASE n = v
      BY <2>10, <2>15, <3>1
    <3>2. CASE n # v
      BY <2>6, <2>9, <2>10, <3>2 DEF Marks, SeenIn
    <3> QED  BY <3>1, <3>2
  <2>18. \A i \in W : work[i].node \in S
    BY <2>12 DEF Greys
  <2>19. ASSUME NEW i \in W, NEW j \in W, i < j
         PROVE  iy[work[i].node] < iy[work[j].node]
    <3>1. work[i].node \in OnStack
      BY <1>1, <1>4, <2>19, TopFacts DEF PathLaid
    <3>2. CASE j = Len(work)
      BY <2>1, <2>14, <2>15, <3>1, <3>2
    <3>3. CASE j # Len(work)
      <4>1. work[j].last # 0
        BY <1>1, <1>4, <3>3, TopFacts
      <4>2. work[j].node \in OnStack /\ indices[work[i].node] < indices[work[j].node]
        BY <1>1, <2>19, <4>1 DEF PathLaid
      <4> QED  BY <2>14, <3>1, <4>2
    <3> QED  BY <3>2, <3>3
  <2>20. \A x \in S : lk[x] \subseteq SeenIn(iy)
    <3>1. Greys(work) \subseteq SeenIn(iy)
      BY <1>1, <2>7, <2>12
    <3> QED  BY <1>3, <2>7, <2>11, <3>1
  <2>21. iy \in Marks /\ ly \in Marks
    BY <2>6, <2>8 DEF Marks
  <2>22. S \subseteq SeenIn(iy)
    BY <1>1, <2>7
  <2>23. SeenIn(iy) \ S = Seen \ OnStack
    BY <1>1, <2>7, SeenIsSeenIn
  <2> HIDE DEF lk, W, iy, ly, S, k
  <2>24. Passed(edges, iy, ly, Stacked, work, lk)
    BY <2>4, <2>5, <2>13, <2>16, <2>17, <2>18, <2>19, <2>20, <2>21, <2>22 DEF Passed, W
  <2> QED  BY <1>4, <2>3, <2>5, <2>23, <2>24 DEF W, lk
<1> QED  BY <1>5, <1>6

(* The second half: its children are looked at.                            *)
PassLooks == [LooksAt(edges, work) EXCEPT ![Top.node] = @ \cup Looked]

LEMMA Pass ==
    ASSUME IInv, work # <<>>
    PROVE  /\ Passed(edges, Indices, PassLow, Stacked, work, PassLooks)
           /\ PassLow[Top.node] <= Indices[Top.node]
           /\ SeenIn(Indices) \ ToSet(Stacked) = Seen \ OnStack
           /\ \A i \in 1..Len(work) : i < Len(work) => work[i].last # 0
<1> DEFINE ix == Indices
           lo == Enter(Top.node, low)
           S  == ToSet(Stacked)
           more == Looked
           v  == Top.node
           ly == PassLow
           lk == LooksAt(edges, work)
           ll == PassLooks
           A  == {lo[v]} \cup {ix[c] : c \in more \cap S}
           b  == Min(A)
<1>1. TypeOK /\ edges \in Graphs /\ Len(work) \in Nat /\ Len(work) > 0 /\ v = work[Len(work)].node
  BY TopFacts DEF IInv
<1>2. lk \in Looks
  BY LooksType
<1>3. more \in SUBSET SeenIn(ix) /\ \A c \in more : <<v, c>> \in edges
  <2> SUFFICES ASSUME NEW c \in Looked
               PROVE  c \in SeenIn(Indices) /\ <<Top.node, c>> \in edges
    OBVIOUS
  <2>1. c \in Ahead /\ c \in Nodes /\ <<Top.node, c>> \in edges /\ c \in Int
    BY SizeAssumption DEF Looked, Ahead, Neighbors, Nodes
  <2>2. c \notin UnseenAhead
    BY <2>1 DEF Looked
  <2> QED  BY <2>1, <2>2 DEF UnseenAhead, SeenIn
<1>4. ly = [lo EXCEPT ![v] = b] /\ ll = [lk EXCEPT ![v] = @ \cup more]
  BY DEF PassLow, PassLooks
<1>5. Passed(edges, ix, lo, Stacked, work, lk)
  BY EnterPass
<1> HIDE DEF ix, lo, more, v, ly, lk, ll, b
<1>6. /\ v \in Greys(work) /\ v \in S /\ v \in SeenIn(ix) /\ v \in Nodes
      /\ ix \in Marks /\ lo \in Marks /\ ix \in Numbers /\ lo \in Numbers
      /\ S \subseteq SeenIn(ix) /\ SeenIn(ix) \subseteq Nodes
  BY <1>1, <1>5, MarkIsNumber DEF Passed, Greys, SeenIn
<1>7. Cardinality(SeenIn(ix)) \in 0..N
  BY <1>6, NodesFinite, FS_Subset, FS_CardinalityType, SizeAssumption
<1>8. \A n \in SeenIn(ix) : ix[n] \in Nat /\ ix[n] <= N - 1 /\ lo[n] \in Nat /\ lo[n] <= ix[n]
  BY <1>5, <1>7, SizeAssumption DEF Passed, Counted
<1>9. A \in SUBSET Nat /\ A # {}
  BY <1>3, <1>6, <1>8
<1>10. b \in A /\ \A a \in A : b <= a
  BY <1>9, MinFact DEF b
<1>11. /\ b \in Nat /\ b <= lo[v] /\ \A c \in more \cap S : b <= ix[c]
       /\ b = lo[v] \/ \E c \in more \cap S : b = ix[c]
  BY <1>9, <1>10
<1> HIDE DEF A, S
<1>12. ly[v] = b /\ \A n \in Nodes \ {v} : ly[n] = lo[n]
  BY <1>4, <1>6 DEF Marks
<1>13. \A h \in Greys(work) : ix[h] <= ix[v]
  <2> SUFFICES ASSUME NEW i \in 1..Len(work)
               PROVE  ix[work[i].node] <= ix[v]
    BY DEF Greys
  <2>1. CASE i = Len(work)
    BY <1>1, <1>6, <1>8, <2>1
  <2>2. CASE i # Len(work)
    <3>1. ix[work[i].node] < ix[work[Len(work)].node] /\ work[i].node \in S
      BY <1>1, <1>5, <2>2 DEF Passed, S
    <3> QED  BY <1>1, <1>6, <1>8, <3>1
  <2> QED  BY <2>1, <2>2
<1>14. ll \in Looks
  BY <1>2, <1>3, <1>4, <1>6 DEF Looks
<1>15. /\ \A x \in S : ll[x] \cap S \subseteq lk[x] \cup (IF x = v THEN more ELSE {})
       /\ \A x \in S : ll[x] \subseteq SeenIn(ix)
  <2>1. \A x \in S : lk[x] \subseteq SeenIn(ix)
    BY <1>5 DEF Passed, S
  <2> QED  BY <1>2, <1>3, <1>4, <1>6, <2>1 DEF Looks
<1>16. Core(edges, ix, ly, S, Greys(work), ll)
  <2>1. more \in SUBSET Nodes /\ b \in Int /\ Core(edges, ix, lo, S, Greys(work), lk)
    BY <1>3, <1>5, <1>6, <1>11 DEF Passed, S
  <2>2. MayLook(edges, ix, lo, S, Greys(work), lk, v, more, b, ll)
    BY <1>3, <1>6, <1>11, <1>13, <1>15, <2>1 DEF MayLook
  <2> QED  BY <1>1, <1>2, <1>4, <1>6, <1>14, <2>1, <2>2, LookCore
<1>17. Counted(ix, ly)
  <2> SUFFICES ASSUME NEW n \in SeenIn(ix)
               PROVE  ly[n] \in 0..ix[n]
    BY <1>5 DEF Passed, Counted
  <2>1. CASE n = v
    BY <1>6, <1>8, <1>11, <1>12, <2>1
  <2>2. CASE n # v
    BY <1>5, <1>6, <1>12, <2>2 DEF Passed, Counted
  <2> QED  BY <2>1, <2>2
<1>18. ly \in Marks
  <2>1. b \in 0..(N - 1)
    BY <1>6, <1>8, <1>11, SizeAssumption
  <2> QED  BY <1>4, <1>6, <2>1 DEF Marks
<1>19. ly[v] <= ix[v]
  BY <1>6, <1>8, <1>11, <1>12
<1>20. Passed(edges, ix, ly, Stacked, work, ll)
  BY <1>5, <1>15, <1>16, <1>17, <1>18 DEF Passed, S
<1> QED  BY <1>19, <1>20, EnterPass DEF ix, ly, ll, v

LEMMA SortedIsInjective ==
    ASSUME NEW ix \in Marks, NEW st \in Seq(Nodes), Sorted(ix, st)
    PROVE  IsInjective(st)
<1> SUFFICES ASSUME NEW i \in 1..Len(st), NEW j \in 1..Len(st), st[i] = st[j], i < j
             PROVE  FALSE
  BY DEF IsInjective
<1>1. ix[st[i]] < ix[st[j]]
  BY DEF Sorted
<1>2. ix[st[i]] \in Int
  BY MarkIsNumber DEF Numbers
<1> QED  BY <1>1, <1>2

LEMMA LargeOnesType ==
    ASSUME NEW E, NEW T
    PROVE  LargeOnes(E, T) \subseteq SUBSET Nodes
  BY DEF LargeOnes, Whole

LEMMA DescendKeeps ==
    ASSUME IInv, work # <<>>, Descend
    PROVE  IInv'
<1> DEFINE v == Top.node
           n == Len(work)
           u == Min(UnseenAhead)
           S == ToSet(Stacked)
           new == [node |-> u, last |-> 0]
<1>1. /\ TypeOK /\ n \in Nat /\ n > 0 /\ v = work[n].node /\ v \in Nodes /\ edges \in Graphs
      /\ work \in Seq(Frame) /\ Top.last \in 0..N /\ Top = work[n]
      /\ \A i \in 1..n : work[i] \in Frame /\ work[i].node \in Nodes /\ work[i].last \in 0..N
      /\ \A i, j \in 1..n : work[i].node = work[j].node => i = j
  BY TopFacts DEF IInv, TypeOK
<1>2. /\ Passed(edges, Indices, PassLow, Stacked, work, PassLooks)
      /\ SeenIn(Indices) \ S = Seen \ OnStack
      /\ \A i \in 1..n : i < n => work[i].last # 0
  BY Pass
<1>3. /\ u \in UnseenAhead /\ \A c \in UnseenAhead : u <= c
      /\ u \in Nodes /\ <<v, u>> \in edges /\ Indices[u] = Unseen /\ u > Top.last
  <2>1. UnseenAhead \in SUBSET Nat /\ UnseenAhead # {}
    BY SizeAssumption DEF UnseenAhead, Ahead, Neighbors, Nodes, Descend
  <2>2. u \in UnseenAhead /\ \A c \in UnseenAhead : u <= c
    BY <2>1, MinFact
  <2> QED  BY <2>2 DEF UnseenAhead, Ahead, Neighbors
<1> HIDE DEF u
<1>4. u \in 1..N /\ u # 0
  BY <1>3, SizeAssumption DEF Nodes
<1>5. /\ edges' = edges /\ cycles' = cycles
      /\ indices' = Indices /\ low' = PassLow /\ stack' = Stacked
      /\ work' = Append([work EXCEPT ![n].last = u], new)
  BY DEF Descend, u
<1>6. /\ Len(work') = n + 1 /\ work' \in Seq(Frame)
      /\ \A i \in 1..n : i < n => work'[i] = work[i]
      /\ work'[n].node = v /\ work'[n].last = u
      /\ work'[n + 1].node = u /\ work'[n + 1].last = 0
  <2> DEFINE w == [work EXCEPT ![n].last = u]
  <2>1. w \in Seq(Frame) /\ Len(w) = n /\ w[n].node = v /\ w[n].last = u
    BY <1>1, <1>4 DEF Frame
  <2>2. \A i \in 1..n : i < n => w[i] = work[i]
    BY <1>1
  <2>3. new \in Frame /\ new.node = u /\ new.last = 0
    BY <1>3, SizeAssumption DEF Frame
  <2> HIDE DEF w, new
  <2>4. Append(w, new) \in Seq(Frame) /\ Len(Append(w, new)) = n + 1
    BY <1>1, <2>1, <2>3
  <2>5. Append(w, new)[n + 1] = new /\ \A i \in 1..n : Append(w, new)[i] = w[i]
    BY <1>1, <2>1, <2>3
  <2>6. work' = Append(w, new)
    BY <1>5 DEF w
  <2> QED  BY <1>1, <2>1, <2>2, <2>3, <2>4, <2>5, <2>6
<1>7. /\ \A i \in 1..n : work'[i].node = work[i].node /\ work'[i].last # 0
      /\ \A i \in 1..(n + 1) : i \in 1..n \/ i = n + 1
  BY <1>1, <1>2, <1>4, <1>6
<1>8. Greys(work') = Greys(work) \cup {u} /\ Greys(work) \subseteq S /\ v \in Greys(work)
  <2>1. Greys(work) \subseteq S /\ v \in Greys(work)
    BY <1>1, <1>2 DEF Passed, Greys
  <2>2. Greys(work') \subseteq Greys(work) \cup {u}
    BY <1>6, <1>7 DEF Greys
  <2>3. n + 1 \in 1..Len(work') /\ \A i \in 1..n : i \in 1..Len(work')
    BY <1>1, <1>6
  <2>4. Greys(work) \cup {u} \subseteq Greys(work')
    BY <1>6, <1>7, <2>3 DEF Greys
  <2> QED  BY <2>1, <2>2, <2>4
<1>9. S \subseteq SeenIn(Indices) /\ S \subseteq Nodes /\ u \notin S /\ u \notin Greys(work)
  BY <1>2, <1>3, <1>8 DEF Passed, SeenIn
<1>10. Greys(work') \cap S = Greys(work)
  BY <1>8, <1>9
<1>11. /\ Seen' = SeenIn(Indices) /\ OnStack' = S /\ Grey' = Greys(work')
  BY <1>5 DEF Seen, SeenIn, OnStack, Grey, Greys
<1>12. TypeOK'
  <2>1. \A i, j \in DOMAIN work' : work'[i].node = work'[j].node => i = j
    <3> SUFFICES ASSUME NEW i \in 1..(n + 1), NEW j \in 1..(n + 1),
                        work'[i].node = work'[j].node
                 PROVE  i = j
      BY <1>1, <1>6
    <3>1. \A h \in 1..n : work'[h].node # u
      BY <1>7, <1>9 DEF Greys
    <3> QED  BY <1>1, <1>6, <1>7, <3>1
  <2>2. indices' \in Marks /\ low' \in Marks /\ stack' \in Seq(Nodes) /\ Sorted(indices', stack')
    BY <1>2, <1>5 DEF Passed
  <2>3. IsInjective(stack')
    BY <2>2, SortedIsInjective
  <2> QED  BY <1>1, <1>5, <1>6, <2>1, <2>2, <2>3 DEF TypeOK, Marks
<1>13. PathLaid(edges', indices', work', OnStack')
  <2> SUFFICES ASSUME NEW i \in 1..(n + 1)
               PROVE  /\ work'[i].last = 0 => /\ i = n + 1
                                              /\ Indices[work'[i].node] = Unseen
                                              /\ \A g \in Greys(work) :
                                                    Path(edges, g, work'[i].node)
                      /\ work'[i].last # 0 => work'[i].node \in S
                      /\ \A j \in 1..(n + 1) : i < j /\ work'[j].last # 0 =>
                              Indices[work'[i].node] < Indices[work'[j].node]
    BY <1>5, <1>6, <1>10, <1>11 DEF PathLaid
  <2>1. CASE i \in 1..n
    <3>1. work'[i].node \in S /\ work'[i].last # 0
      BY <1>2, <1>7, <2>1 DEF Passed
    <3>2. \A j \in 1..n : i < j => Indices[work'[i].node] < Indices[work'[j].node]
      BY <1>2, <1>7, <2>1 DEF Passed
    <3> QED  BY <1>6, <1>7, <3>1, <3>2
  <2>2. CASE i = n + 1
    <3>1. ASSUME NEW g \in Greys(work)
          PROVE  Path(edges, g, u)
      <4>1. Indices[g] <= Indices[v] /\ g \in Nodes
        <5>1. PICK h \in 1..n : g = work[h].node
          BY DEF Greys
        <5>2. Indices[v] \in Int
          BY <1>1, <1>2, MarkIsNumber DEF Passed, Numbers
        <5>3. h < n => Indices[g] < Indices[v] /\ Indices[g] \in Int
          BY <1>1, <1>2, <5>1, MarkIsNumber DEF Passed, Numbers
        <5> QED  BY <1>1, <5>1, <5>2, <5>3
      <4>2. Path(edges, g, v)
        BY <1>2, <1>8, <4>1 DEF Passed, Core, Connected
      <4>3. Path(edges, v, u)
        BY <1>1, <1>3, PathFacts
      <4> QED  BY <1>1, <1>3, <4>1, <4>2, <4>3, PathFacts
    <3>2. \A j \in 1..(n + 1) : ~(i < j)
      BY <1>1, <2>2
    <3> QED  BY <1>3, <1>6, <2>2, <3>1, <3>2
  <2> QED  BY <1>7, <2>1, <2>2
<1>14. /\ OnStack' \subseteq Seen' /\ Sorted(indices', stack') /\ Counted(indices', low')
       /\ cycles' = LargeOnes(edges', Seen' \ OnStack')
  BY <1>2, <1>5, <1>11 DEF Passed, IInv
<1>15. ASSUME NEW x \in S, NEW c \in LooksAt(edges', work')[x]
       PROVE  c \in PassLooks[x] \/ c = u
  <2>1. /\ x \in Nodes /\ c \in Nodes /\ <<x, c>> \in edges
        /\ \A i \in 1..(n + 1) : work'[i].node = x => c <= work'[i].last
    BY <1>5, <1>6, <1>9, <1>15 DEF LooksAt
  <2>2. c \in Int /\ u \in Int
    BY <1>3, <2>1, SizeAssumption DEF Nodes
  <2>3. CASE x = v
    <3>1. PassLooks[x] = LooksAt(edges, work)[x] \cup Looked
      BY <1>1, <2>3 DEF PassLooks, LooksAt
    <3>2. c <= u
      BY <1>1, <1>6, <2>1, <2>3
    <3>3. CASE c <= Top.last
      <4>1. \A i \in 1..n : work[i].node = x => c <= work[i].last
        BY <1>1, <2>3, <3>3
      <4> QED  BY <2>1, <3>1, <4>1 DEF LooksAt
    <3>4. CASE ~(c <= Top.last) /\ c # u
      <4>1. c \in Ahead
        BY <1>1, <2>1, <2>2, <2>3, <3>4 DEF Ahead, Neighbors
      <4>2. \A y \in UnseenAhead : c < y
        <5>1. \A y \in UnseenAhead : y \in Int
          BY SizeAssumption DEF UnseenAhead, Ahead, Neighbors, Nodes
        <5> QED  BY <1>3, <2>2, <3>2, <3>4, <5>1
      <4> QED  BY <3>1, <4>1, <4>2 DEF Looked
    <3> QED  BY <3>3, <3>4
  <2>4. CASE x # v
    <3>1. PassLooks[x] = LooksAt(edges, work)[x]
      BY <2>1, <2>4 DEF PassLooks, LooksAt
    <3>2. \A i \in 1..n : work[i].node = x => c <= work[i].last
      BY <1>1, <1>6, <2>1, <2>4
    <3> QED  BY <2>1, <3>1, <3>2 DEF LooksAt
  <2> QED  BY <2>3, <2>4
<1>16. \A x \in OnStack' : LooksAt(edges', work')[x] \subseteq Seen' \cup Grey'
  <2>1. \A x \in S : PassLooks[x] \subseteq SeenIn(Indices)
    BY <1>2 DEF Passed
  <2> QED  BY <1>8, <1>11, <1>15, <2>1
<1>17. Core(edges', indices', low', OnStack', Grey' \cap OnStack', LooksAt(edges', work'))
  <2>1. \A x \in S : LooksAt(edges', work')[x] \cap S \subseteq PassLooks[x]
    BY <1>9, <1>15
  <2>2. Core(edges, Indices, PassLow, S, Greys(work), PassLooks)
    BY <1>2 DEF Passed
  <2>3. Core(edges, Indices, PassLow, S, Greys(work), LooksAt(edges', work'))
    BY <2>1, <2>2, FewerLooks
  <2> QED  BY <1>5, <1>10, <1>11, <2>3
<1> QED  BY <1>12, <1>13, <1>14, <1>16, <1>17 DEF IInv

LEMMA InitKeeps == Init => IInv
<1> SUFFICES ASSUME Init
             PROVE  IInv
  OBVIOUS
<1>1. Seen = {} /\ SeenIn(indices) = {} /\ OnStack = {} /\ Grey = {} /\ Len(work) = 0
  BY DEF Init, Seen, SeenIn, OnStack, ToSet, Grey
<1>2. TypeOK
  <2>1. edges \subseteq Nodes \X Nodes
    BY DEF Init
  <2>2. IsInjective(stack) /\ stack \in Seq(Nodes) /\ work \in Seq(Frame)
    BY DEF Init, IsInjective
  <2>3. cycles \subseteq SUBSET Nodes /\ DOMAIN work = {}
    BY DEF Init
  <2>4. /\ indices \in [Nodes -> {Unseen} \cup 0..(N - 1)]
        /\ low \in [Nodes -> {Unseen} \cup 0..(N - 1)]
    BY DEF Init
  <2> QED  BY <2>1, <2>2, <2>3, <2>4 DEF TypeOK
<1>3. PathLaid(edges, indices, work, OnStack)
  BY <1>1 DEF PathLaid
<1>4. Sorted(indices, stack) /\ Counted(indices, low)
  BY <1>1 DEF Sorted, Counted, Init
<1>5. Core(edges, indices, low, {}, {}, LooksAt(edges, work))
  BY <1>1 DEF Core, Numbered, Connected, LowIsReached, LowIsLeast, Closed
<1>6. cycles = LargeOnes(edges, Seen \ OnStack)
  BY <1>1 DEF LargeOnes, Init
<1> QED  BY <1>1, <1>2, <1>3, <1>4, <1>5, <1>6 DEF IInv

(* With no path there is no stack.                                         *)
LEMMA EmptyStack ==
    ASSUME IInv, work = <<>>
    PROVE  Grey = {} /\ OnStack = {}
<1>1. Grey = {}
  BY DEF Grey
<1> QED  BY <1>1 DEF IInv, Core, Connected

LEMMA RootKeeps ==
    ASSUME IInv, NEW n \in Nodes, Root(n)
    PROVE  IInv'
<1> DEFINE f == [node |-> n, last |-> 0]
<1>1. /\ edges' = edges /\ indices' = indices /\ low' = low /\ stack' = stack
      /\ cycles' = cycles /\ work' = <<f>> /\ work = <<>> /\ n \notin Seen
  BY DEF Root
<1>2. f \in Frame /\ f.node = n /\ f.last = 0
  BY SizeAssumption DEF Frame
<1> HIDE DEF f
<1>3. OnStack = {} /\ OnStack' = {} /\ Seen' = Seen /\ Seen = SeenIn(indices)
  BY <1>1, EmptyStack, SeenIsSeenIn DEF OnStack, Seen
<1>4. work' \in Seq(Frame) /\ Len(work') = 1 /\ work'[1] = f /\ DOMAIN work' = {1}
  BY <1>1, <1>2
<1>5. TypeOK'
  BY <1>1, <1>4 DEF IInv, TypeOK
<1>6. PathLaid(edges', indices', work', OnStack')
  <2>1. indices'[n] = Unseen
    BY <1>1 DEF Seen
  <2> QED  BY <1>2, <1>3, <1>4, <2>1 DEF PathLaid
<1>7. /\ OnStack' \subseteq Seen' /\ Sorted(indices', stack') /\ Counted(indices', low')
      /\ cycles' = LargeOnes(edges', Seen' \ OnStack')
  BY <1>1, <1>3 DEF IInv
<1>8. Core(edges', indices', low', OnStack', Grey' \cap OnStack', LooksAt(edges', work'))
  <2>1. Closed(edges, SeenIn(indices) \ {})
    BY <1>3 DEF IInv, Core
  <2>2. Core(edges, indices, low, {}, {}, LooksAt(edges', work'))
    BY <2>1 DEF Core, Numbered, Connected, LowIsReached, LowIsLeast
  <2> QED  BY <1>1, <1>3, <2>2
<1>9. \A x \in OnStack' : LooksAt(edges', work')[x] \subseteq Seen' \cup Grey'
  BY <1>3
<1> QED  BY <1>5, <1>6, <1>7, <1>8, <1>9 DEF IInv

-----------------------------------------------------------------------------
(* All children of the top are seen: the path without it.                  *)
LEMMA RetreatPath ==
    ASSUME IInv, work # <<>>, UnseenAhead = {}
    PROVE  /\ Len(work) \in Nat /\ Len(work) > 0
           /\ Front(work) \in Seq(Frame) /\ Len(Front(work)) = Len(work) - 1
           /\ \A i \in 1..(Len(work) - 1) : Front(work)[i] = work[i] /\ work[i].last # 0
           /\ Greys(Front(work)) = Greys(work) \ {Top.node}
           /\ Top.node \in Greys(work) /\ Top.node = work[Len(work)].node
           /\ LooksAt(edges, Front(work)) = PassLooks
           /\ \A x \in Nodes \ Greys(Front(work)) :
                 PassLooks[x] = {c \in Nodes : <<x, c>> \in edges}
<1> DEFINE v == Top.node
           n == Len(work)
           w == Front(work)
<1>1. /\ TypeOK /\ n \in Nat /\ n > 0 /\ v = work[n].node /\ v \in Nodes /\ edges \in Graphs
      /\ work \in Seq(Frame) /\ Top.last \in 0..N /\ Top = work[n]
      /\ \A i \in 1..n : work[i] \in Frame /\ work[i].node \in Nodes /\ work[i].last \in 0..N
      /\ \A i, j \in 1..n : work[i].node = work[j].node => i = j
  BY TopFacts DEF IInv, TypeOK
<1>2. w \in Seq(Frame) /\ Len(w) = n - 1 /\ \A i \in 1..(n - 1) : w[i] = work[i]
  <2>1. w = SubSeq(work, 1, n - 1)
    BY DEF Front
  <2> HIDE DEF w, n
  <2> QED  BY <1>1, <2>1
<1>3. \A i \in 1..(n - 1) : work[i].last # 0
  BY <1>1, Pass
<1>4. Greys(w) = Greys(work) \ {v} /\ v \in Greys(work)
  <2>1. \A i \in 1..(n - 1) : i \in 1..n /\ work[i].node # v
    BY <1>1
  <2>2. \A i \in 1..n : work[i].node # v => i \in 1..(n - 1)
    BY <1>1
  <2>3. v \in Greys(work)
    BY <1>1 DEF Greys
  <2>4. Greys(w) \subseteq Greys(work) \ {v}
    BY <1>2, <2>1 DEF Greys
  <2>5. Greys(work) \ {v} \subseteq Greys(w)
    BY <1>2, <2>2 DEF Greys
  <2> QED  BY <2>3, <2>4, <2>5
<1>5. \A x \in Nodes \ Greys(w) : LooksAt(edges, w)[x] = {c \in Nodes : <<x, c>> \in edges}
  <2> TAKE x \in Nodes \ Greys(w)
  <2>1. \A i \in 1..Len(w) : w[i].node # x
    BY DEF Greys
  <2> QED  BY <2>1 DEF LooksAt
<1>6. ASSUME NEW x \in Nodes
      PROVE  LooksAt(edges, w)[x] = PassLooks[x]
  <2>1. CASE x = v
    <3>1. PassLooks[v] = LooksAt(edges, work)[v] \cup Looked
      BY <1>1 DEF PassLooks, LooksAt
    <3>2. LooksAt(edges, w)[v] = {c \in Nodes : <<v, c>> \in edges}
      BY <1>1, <1>4, <1>5
    <3>3. Looked = Ahead
      BY DEF Looked
    <3>4. ASSUME NEW c \in Nodes, <<v, c>> \in edges
          PROVE  c \in LooksAt(edges, work)[v] \cup Looked
      <4>1. CASE c <= Top.last
        <5>1. \A i \in 1..n : work[i].node = v => c <= work[i].last
          BY <1>1, <4>1
        <5> QED  BY <1>1, <3>4, <5>1 DEF LooksAt
      <4>2. CASE ~(c <= Top.last)
        <5>1. c > Top.last
          BY <1>1, <4>2, SizeAssumption DEF Nodes
        <5> QED  BY <3>3, <3>4, <5>1 DEF Ahead, Neighbors
      <4> QED  BY <4>1, <4>2
    <3>5. \A c \in LooksAt(edges, work)[v] \cup Looked : c \in Nodes /\ <<v, c>> \in edges
      BY <1>1, <3>3 DEF LooksAt, Ahead, Neighbors
    <3> HIDE DEF PassLooks
    <3> QED  BY <2>1, <3>1, <3>2, <3>4, <3>5
  <2>2. CASE x # v
    <3>1. PassLooks[x] = LooksAt(edges, work)[x]
      BY <2>2 DEF PassLooks, LooksAt
    <3>2. ASSUME NEW c \in Nodes
          PROVE  (\A i \in 1..n : work[i].node = x => c <= work[i].last) <=>
                 (\A i \in 1..(n - 1) : w[i].node = x => c <= w[i].last)
      <4>1. work[n].node # x /\ \A i \in 1..n : i \in 1..(n - 1) \/ i = n
        BY <1>1, <2>2
      <4>2. \A i \in 1..(n - 1) : i \in 1..n /\ w[i] = work[i]
        BY <1>1, <1>2
      <4> QED  BY ONLY <4>1, <4>2
    <3> QED  BY <1>2, <3>1, <3>2 DEF LooksAt
  <2> QED  BY <2>1, <2>2
<1>7. LooksAt(edges, w) = PassLooks
  <2>1. PassLooks \in [Nodes -> {PassLooks[x] : x \in Nodes}]
    BY DEF PassLooks, LooksAt
  <2>2. LooksAt(edges, w) = [x \in Nodes |-> LooksAt(edges, w)[x]]
    BY DEF LooksAt
  <2>3. PassLooks = [x \in Nodes |-> PassLooks[x]]
    BY DEF PassLooks, LooksAt
  <2> QED  BY <1>6, <2>2, <2>3
<1> QED  BY <1>1, <1>2, <1>3, <1>4, <1>5, <1>7

LEMMA Established ==
    ASSUME Passed(edges', indices', low', stack', work', LooksAt(edges', work')),
           edges' \in Graphs, work' \in Seq(Frame),
           \A i \in 1..Len(work') : work'[i].last # 0,
           cycles' = LargeOnes(edges', Seen' \ OnStack')
    PROVE  IInv'
<1>1. /\ indices' \in Marks /\ low' \in Marks /\ stack' \in Seq(Nodes)
      /\ Seen' = SeenIn(indices') /\ OnStack' = ToSet(stack') /\ Grey' = Greys(work')
  BY DEF Passed, Seen, SeenIn, OnStack, Grey, Greys
<1>2. \A i \in 1..Len(work') : work'[i].node \in OnStack' /\ work'[i].node \in Nodes
  <2>1. \A i \in 1..Len(work') : work'[i] \in Frame
    OBVIOUS
  <2> QED  BY <1>1, <2>1 DEF Passed, Frame
<1>3. \A i, j \in 1..Len(work') : i < j => indices'[work'[i].node] < indices'[work'[j].node]
  BY DEF Passed
<1>4. Greys(work') \cap OnStack' = Greys(work')
  BY <1>2 DEF Greys
<1>5. TypeOK'
  <2>1. IsInjective(stack')
    BY <1>1, SortedIsInjective DEF Passed
  <2>2. \A i, j \in DOMAIN work' : work'[i].node = work'[j].node => i = j
    <3> SUFFICES ASSUME NEW i \in 1..Len(work'), NEW j \in 1..Len(work'),
                        work'[i].node = work'[j].node, i < j
                 PROVE  FALSE
      OBVIOUS
    <3>1. indices'[work'[i].node] < indices'[work'[j].node]
      BY <1>3
    <3>2. indices'[work'[i].node] \in Int
      BY <1>1, <1>2, MarkIsNumber DEF Numbers
    <3> QED  BY <3>1, <3>2
  <2>3. cycles' \subseteq SUBSET Nodes
    BY LargeOnesType
  <2> QED  BY <1>1, <2>1, <2>2, <2>3 DEF TypeOK, Marks, Graphs
<1>6. PathLaid(edges', indices', work', OnStack')
  BY <1>2, <1>3 DEF PathLaid
<1>7. /\ OnStack' \subseteq Seen' /\ Sorted(indices', stack') /\ Counted(indices', low')
      /\ \A x \in OnStack' : LooksAt(edges', work')[x] \subseteq Seen' \cup Grey'
      /\ Core(edges', indices', low', OnStack', Grey' \cap OnStack', LooksAt(edges', work'))
  BY <1>1, <1>4 DEF Passed
<1> QED  BY <1>5, <1>6, <1>7 DEF IInv

(* The top of the path has the greatest index on it.                       *)
LEMMA TopIsLatest ==
    ASSUME IInv, work # <<>>, NEW v, v = Top.node
    PROVE  /\ \A h \in Greys(work) : Indices[h] <= Indices[v]
           /\ \A h \in Greys(work) \ {v} : Indices[h] < Indices[v]
           /\ v \in Greys(work) /\ v \in Nodes /\ Greys(work) \subseteq ToSet(Stacked)
           /\ ToSet(Stacked) \subseteq Nodes
           /\ Indices \in Numbers /\ PassLow \in Numbers /\ PassLooks \in Looks
           /\ edges \in Graphs /\ TypeOK
<1>1. /\ TypeOK /\ Len(work) \in Nat /\ Len(work) > 0 /\ v = work[Len(work)].node
      /\ v \in Nodes /\ edges \in Graphs
  BY TopFacts DEF IInv
<1>2. Passed(edges, Indices, PassLow, Stacked, work, PassLooks)
  BY Pass
<1>3. Indices \in Numbers /\ PassLow \in Numbers
  BY <1>2, MarkIsNumber DEF Passed
<1>4. \A h \in Greys(work) \ {v} : Indices[h] < Indices[v]
  <2> SUFFICES ASSUME NEW i \in 1..Len(work), work[i].node # v
               PROVE  Indices[work[i].node] < Indices[v]
    BY DEF Greys
  <2>1. i < Len(work) /\ Len(work) \in 1..Len(work)
    BY <1>1
  <2> QED  BY <1>1, <1>2, <2>1 DEF Passed
<1>5. v \in Greys(work) /\ Greys(work) \subseteq ToSet(Stacked) /\ ToSet(Stacked) \subseteq Nodes
  BY <1>1, <1>2 DEF Greys, Passed, SeenIn
<1>6. \A h \in Greys(work) : Indices[h] <= Indices[v]
  BY <1>1, <1>3, <1>4, <1>5 DEF Numbers
<1>7. PassLooks \in Looks
  <2>1. Looked \in SUBSET Nodes
    BY DEF Looked, Ahead, Neighbors
  <2>2. LooksAt(edges, work) \in Looks
    BY LooksType
  <2> QED  BY <1>1, <2>1, <2>2 DEF PassLooks, Looks
<1> QED  BY <1>1, <1>3, <1>4, <1>5, <1>6, <1>7

LEMMA ReturnKeeps ==
    ASSUME IInv, work # <<>>, Retreat, ~IsComponent
    PROVE  IInv'
<1> DEFINE v == Top.node
           n == Len(work)
           w == Front(work)
           S == ToSet(Stacked)
           p == Last(w).node
           b == Min({PassLow[p], PassLow[v]})
<1>1. /\ n \in Nat /\ n > 0 /\ w \in Seq(Frame) /\ Len(w) = n - 1
      /\ \A i \in 1..(n - 1) : w[i] = work[i] /\ work[i].last # 0
      /\ Greys(w) = Greys(work) \ {v} /\ v \in Greys(work) /\ v = work[n].node
      /\ LooksAt(edges, w) = PassLooks
  BY RetreatPath DEF Retreat
<1>2. Passed(edges, Indices, PassLow, Stacked, work, PassLooks) /\ PassLow[v] <= Indices[v]
      /\ SeenIn(Indices) \ ToSet(Stacked) = Seen \ OnStack
  BY Pass
<1>3. /\ \A h \in Greys(work) : Indices[h] <= Indices[v]
      /\ \A h \in Greys(w) : Indices[h] < Indices[v]
      /\ v \in Nodes /\ Greys(work) \subseteq S /\ S \subseteq Nodes
      /\ Indices \in Numbers /\ PassLow \in Numbers /\ PassLooks \in Looks
      /\ edges \in Graphs
  BY <1>1, TopIsLatest
<1>4. Core(edges, Indices, PassLow, S, Greys(work), PassLooks)
  BY <1>2 DEF Passed
<1>5. PassLow[v] < Indices[v]
  BY <1>2, <1>3 DEF IsComponent, Numbers
<1>6. PICK h \in Greys(w) : TRUE
  <2>1. PICK z \in S : Indices[z] = PassLow[v]
    BY <1>1, <1>4 DEF Core, LowIsReached
  <2>2. PICK g \in Greys(work) : Indices[g] <= Indices[z]
    BY <1>4 DEF Core, Connected
  <2>3. g # v
    BY <1>3, <1>5, <2>1, <2>2 DEF Numbers
  <2> QED  BY <1>1, <2>2, <2>3
<1>7. n - 1 \in 1..(n - 1) /\ w # <<>> /\ Last(w) = work[n - 1] /\ p = work[n - 1].node
  BY <1>1, <1>6 DEF Greys, Last
<1>8. p \in Greys(w) /\ p \in Nodes /\ p # v
  BY <1>1, <1>3, <1>7 DEF Greys
<1>9. \A g \in Greys(w) : Indices[g] <= Indices[p]
  <2> SUFFICES ASSUME NEW i \in 1..(n - 1)
               PROVE  Indices[work[i].node] <= Indices[p]
    BY <1>1 DEF Greys
  <2>1. CASE i = n - 1
    BY <1>3, <1>7, <1>8, <2>1 DEF Numbers
  <2>2. CASE i # n - 1
    <3>1. i < n - 1 /\ i \in 1..n /\ n - 1 \in 1..n
      BY <1>1, <2>2
    <3>2. Indices[work[i].node] < Indices[work[n - 1].node]
      BY <1>2, <3>1 DEF Passed
    <3>3. Indices[work[i].node] \in Int /\ Indices[p] \in Int
      <4>1. work[i].node \in Greys(work)
        BY <3>1 DEF Greys
      <4> QED  BY <1>3, <1>8, <4>1 DEF Numbers
    <3> QED  BY <1>7, <3>2, <3>3
  <2> QED  BY <2>1, <2>2
<1>10. \A m \in SeenIn(Indices) :
           Indices[m] \in Nat /\ PassLow[m] \in Nat /\ PassLow[m] <= Indices[m]
  <2>1. SeenIn(Indices) \in SUBSET Nodes
    BY DEF SeenIn
  <2>2. Cardinality(SeenIn(Indices)) \in Nat
    BY <2>1, NodesFinite, FS_Subset, FS_CardinalityType
  <2> QED  BY <1>2, <2>2 DEF Passed, Counted
<1>11. v \in SeenIn(Indices) /\ p \in SeenIn(Indices)
  BY <1>1, <1>2, <1>3, <1>8 DEF Passed
<1>12. b \in Nat /\ b <= PassLow[p] /\ b <= PassLow[v] /\ (b = PassLow[p] \/ b = PassLow[v])
  <2>1. {PassLow[p], PassLow[v]} \in SUBSET Nat
    BY <1>10, <1>11
  <2> QED  BY <2>1, MinFact
<1> HIDE DEF b, p, v, w, n, S
<1>13. /\ edges' = edges /\ indices' = Indices /\ stack' = Stacked /\ work' = w
       /\ cycles' = cycles /\ low' = [PassLow EXCEPT ![p] = b]
  BY <1>7 DEF Retreat, b, p, v, w
<1>14. Core(edges, Indices, low', S, Greys(w), PassLooks)
  <2>1. MayReturn(Indices, PassLow, Greys(work), v, p, b)
    BY <1>1, <1>3, <1>5, <1>8, <1>9, <1>12 DEF MayReturn
  <2>2. Core(edges, Indices, [PassLow EXCEPT ![p] = b], S, Greys(work) \ {v}, PassLooks)
    BY <1>3, <1>4, <2>1, ReturnCore
  <2> QED  BY <1>1, <1>13, <2>2
<1>15. low' \in Marks /\ Counted(Indices, low')
  <2>1. low'[p] = b /\ \A m \in Nodes \ {p} : low'[m] = PassLow[m]
    BY <1>3, <1>8, <1>13 DEF Numbers
  <2>2. b \in 0..(N - 1)
    <3>1. PassLow[p] <= N - 1
      BY <1>2, <1>8, <1>10, <1>11, SizeAssumption DEF Passed, Marks, Unseen
    <3> QED  BY <1>10, <1>11, <1>12, <3>1, SizeAssumption
  <2>3. low' \in Marks
    BY <1>2, <1>8, <1>13, <2>2 DEF Passed, Marks
  <2>4. ASSUME NEW m \in SeenIn(Indices)
        PROVE  Indices[m] \in 0..(Cardinality(SeenIn(Indices)) - 1) /\ low'[m] \in 0..Indices[m]
    <3>1. Indices[m] \in 0..(Cardinality(SeenIn(Indices)) - 1) /\ PassLow[m] \in 0..Indices[m]
      BY <1>2 DEF Passed, Counted
    <3>2. CASE m = p
      BY <1>10, <1>12, <2>1, <3>1, <3>2
    <3>3. CASE m # p
      BY <2>1, <3>1, <3>3 DEF SeenIn
    <3> QED  BY <3>2, <3>3
  <2> QED  BY <2>3, <2>4 DEF Counted
<1>16. Passed(edges', indices', low', stack', work', LooksAt(edges', work'))
  <2>1. LooksAt(edges', work') = PassLooks /\ ToSet(stack') = S
    BY <1>1, <1>13 DEF S
  <2>2. \A i \in 1..Len(work') : i \in 1..n /\ work'[i] = work[i]
    BY <1>1, <1>13
  <2>3. \A i \in 1..Len(work') : work'[i].node \in S
    BY <1>2, <2>2 DEF Passed, S, n
  <2>4. \A i, j \in 1..Len(work') : i < j => Indices[work'[i].node] < Indices[work'[j].node]
    BY <1>2, <2>2 DEF Passed, n
  <2>5. /\ Indices \in Marks /\ Stacked \in Seq(Nodes) /\ S \subseteq SeenIn(Indices)
        /\ Sorted(Indices, Stacked) /\ \A x \in S : PassLooks[x] \subseteq SeenIn(Indices)
    BY <1>2 DEF Passed, S
  <2> QED  BY <1>13, <1>14, <1>15, <2>1, <2>3, <2>4, <2>5 DEF Passed
<1>17. cycles' = LargeOnes(edges', Seen' \ OnStack')
  <2>1. Seen' = SeenIn(Indices) /\ OnStack' = ToSet(Stacked)
    BY <1>13 DEF Seen, SeenIn, OnStack
  <2> QED  BY <1>2, <1>13, <2>1 DEF IInv
<1>18. \A i \in 1..Len(work') : work'[i].last # 0
  BY <1>1, <1>13
<1> QED  BY <1>1, <1>3, <1>13, <1>16, <1>17, <1>18, Established

(* What is above a module on a sorted stack.                               *)
LEMMA CutStack ==
    ASSUME NEW ix \in Numbers, NEW st \in Seq(Nodes), Sorted(ix, st),
           NEW p \in 1..Len(st)
    PROVE  /\ ToSet(SubSeq(st, p, Len(st))) = {x \in ToSet(st) : ix[st[p]] <= ix[x]}
           /\ ToSet(SubSeq(st, 1, p - 1)) = {x \in ToSet(st) : ~(ix[st[p]] <= ix[x])}
           /\ SubSeq(st, 1, p - 1) \in Seq(Nodes)
           /\ Sorted(ix, SubSeq(st, 1, p - 1))
<1> DEFINE m == Len(st)
           up == SubSeq(st, p, m)
           down == SubSeq(st, 1, p - 1)
<1>1. /\ m \in Nat /\ p \in Int /\ 1 <= p /\ p <= m
      /\ \A i \in 1..m : st[i] \in Nodes /\ ix[st[i]] \in Int
  BY DEF Numbers
<1>2. ToSet(st) = {st[i] : i \in 1..m}
  BY DEF ToSet
<1>3. /\ up \in Seq(Nodes) /\ Len(up) = m - p + 1
      /\ \A i \in 1..(m - p + 1) : up[i] = st[p + i - 1]
  BY <1>1
<1>4. /\ down \in Seq(Nodes) /\ Len(down) = p - 1
      /\ \A i \in 1..(p - 1) : down[i] = st[i]
  BY <1>1
<1> HIDE DEF up, down
<1>5. ToSet(up) = {st[i] : i \in p..m}
  <2>1. ToSet(up) = {up[i] : i \in 1..(m - p + 1)}
    BY <1>3 DEF ToSet
  <2>2. ASSUME NEW i \in 1..(m - p + 1)
        PROVE  p + i - 1 \in p..m /\ up[i] = st[p + i - 1]
    BY <1>1, <1>3
  <2>3. ASSUME NEW i \in p..m
        PROVE  i - p + 1 \in 1..(m - p + 1) /\ st[i] = up[i - p + 1]
    <3>1. i - p + 1 \in 1..(m - p + 1) /\ p + (i - p + 1) - 1 = i
      BY <1>1
    <3> QED  BY <1>3, <3>1
  <2>4. ToSet(up) \subseteq {st[i] : i \in p..m}
    BY <2>1, <2>2
  <2>5. {st[i] : i \in p..m} \subseteq ToSet(up)
    BY <2>1, <2>3
  <2> QED  BY <2>4, <2>5
<1>6. ToSet(down) = {st[i] : i \in 1..(p - 1)}
  BY <1>4 DEF ToSet
<1>7. \A i \in 1..m : i \in p..m <=> ix[st[p]] <= ix[st[i]]
  <2> TAKE i \in 1..m
  <2>1. CASE i < p
    <3>1. ix[st[i]] < ix[st[p]]
      BY <2>1 DEF Sorted
    <3> QED  BY <1>1, <2>1, <3>1
  <2>2. CASE i = p
    BY <1>1, <2>2
  <2>3. CASE p < i
    <3>1. ix[st[p]] < ix[st[i]]
      BY <2>3 DEF Sorted
    <3> QED  BY <1>1, <2>3, <3>1
  <2> QED  BY <1>1, <2>1, <2>2, <2>3
<1>8. \A i \in p..m : i \in 1..m
  BY <1>1
<1>9. \A i \in 1..m : i \in 1..(p - 1) <=> i \notin p..m
  BY <1>1
<1>10. \A i \in 1..(p - 1) : i \in 1..m
  BY <1>1
<1>11. ToSet(up) = {x \in ToSet(st) : ix[st[p]] <= ix[x]}
  BY <1>2, <1>5, <1>7, <1>8
<1>12. ToSet(down) = {x \in ToSet(st) : ~(ix[st[p]] <= ix[x])}
  BY <1>2, <1>6, <1>7, <1>9, <1>10
<1>13. Sorted(ix, down)
  BY <1>4, <1>10 DEF Sorted
<1> QED  BY <1>4, <1>11, <1>12, <1>13 DEF up, down

LEMMA PopKeeps ==
    ASSUME IInv, work # <<>>, Retreat, IsComponent
    PROVE  IInv'
<1> DEFINE v == Top.node
           n == Len(work)
           w == Front(work)
           S == ToSet(Stacked)
           C == {x \in S : Indices[v] <= Indices[x]}
           down == SubSeq(Stacked, 1, Position - 1)
<1>1. /\ n \in Nat /\ n > 0 /\ w \in Seq(Frame) /\ Len(w) = n - 1
      /\ \A i \in 1..(n - 1) : w[i] = work[i] /\ work[i].last # 0
      /\ Greys(w) = Greys(work) \ {v} /\ v \in Greys(work) /\ v = work[n].node
      /\ LooksAt(edges, w) = PassLooks
      /\ \A x \in Nodes \ Greys(w) : PassLooks[x] = {c \in Nodes : <<x, c>> \in edges}
  BY RetreatPath DEF Retreat
<1>2. Passed(edges, Indices, PassLow, Stacked, work, PassLooks)
      /\ SeenIn(Indices) \ S = Seen \ OnStack
  BY Pass
<1>3. /\ \A h \in Greys(work) : Indices[h] <= Indices[v]
      /\ \A h \in Greys(w) : Indices[h] < Indices[v]
      /\ v \in Nodes /\ Greys(work) \subseteq S /\ S \subseteq Nodes
      /\ Indices \in Numbers /\ PassLow \in Numbers /\ PassLooks \in Looks
      /\ edges \in Graphs
  BY <1>1, TopIsLatest
<1>4. Core(edges, Indices, PassLow, S, Greys(work), PassLooks)
  BY <1>2 DEF Passed
<1>5. Position \in 1..Len(Stacked) /\ Stacked[Position] = v
  <2>1. \E i \in DOMAIN Stacked : Stacked[i] = v
    BY <1>1, <1>3 DEF ToSet
  <2>2. Position \in DOMAIN Stacked /\ Stacked[Position] = v
    BY <2>1 DEF Position
  <2> QED  BY <1>2, <2>2 DEF Passed
<1>6. /\ Component = C /\ ToSet(down) = S \ C /\ C \subseteq S
      /\ down \in Seq(Nodes) /\ Sorted(Indices, down)
  <2>1. Stacked \in Seq(Nodes) /\ Sorted(Indices, Stacked)
    BY <1>2 DEF Passed
  <2>2. ToSet(down) = {x \in S : ~(Indices[v] <= Indices[x])}
    BY <1>3, <1>5, <2>1, CutStack
  <2>3. Component = C /\ down \in Seq(Nodes) /\ Sorted(Indices, down)
    BY <1>3, <1>5, <2>1, CutStack DEF Component
  <2> QED  BY <2>2, <2>3
<1> HIDE DEF C, S, v, n, w, down
<1>7. MayPop(edges, Indices, PassLow, S, Greys(work), PassLooks, v, C)
  <2>1. PassLow[v] = Indices[v]
    BY DEF IsComponent, v
  <2>2. C = {x \in S : Indices[v] <= Indices[x]}
    BY DEF C
  <2>3. \A x \in C : x \in Nodes \ Greys(w)
    BY <1>3, <2>2 DEF Numbers
  <2>4. \A x \in S : PassLooks[x] \subseteq SeenIn(Indices)
    BY <1>2 DEF Passed, S
  <2> QED  BY <1>1, <1>3, <1>6, <2>1, <2>2, <2>3, <2>4 DEF MayPop
<1>8. /\ Core(edges, Indices, PassLow, S \ C, Greys(w), PassLooks)
      /\ \A x \in C : C = Whole(edges, x)
  <2>1. /\ Core(edges, Indices, PassLow, S \ C, Greys(work) \ {v}, PassLooks)
        /\ \A x \in C : C = {m \in Nodes : Path(edges, x, m) /\ Path(edges, m, x)}
    BY <1>3, <1>4, <1>7, PopCore
  <2> QED  BY <1>1, <2>1 DEF Whole
<1>9. v \in C
  BY <1>1, <1>3 DEF C, Numbers
<1>10. /\ edges' = edges /\ indices' = Indices /\ stack' = down /\ work' = w
       /\ cycles' = IF Cardinality(C) > 1 THEN cycles \cup {C} ELSE cycles
  BY <1>6 DEF Retreat, down, w
<1>11. low' = PassLow
  <2>1. CASE w = <<>>
    BY <1>10, <2>1 DEF Retreat
  <2>2. CASE w # <<>>
    <3> DEFINE p == Last(w).node
    <3>1. n - 1 \in 1..(n - 1) /\ p = work[n - 1].node /\ p = w[n - 1].node
      BY <1>1, <2>2 DEF Last
    <3>2. p \in Greys(w) /\ p \in Nodes
      BY <1>1, <1>3, <3>1 DEF Greys
    <3>3. PassLow[p] <= Indices[p] /\ Indices[p] < PassLow[v]
      <4>1. Indices[p] < Indices[v] /\ PassLow[v] = Indices[v]
        BY <1>3, <3>2 DEF IsComponent, v
      <4>2. p \in S
        BY <1>1, <1>3, <3>2
      <4> QED  BY <1>4, <4>1, <4>2 DEF Core, Numbered
    <3>4. PassLow[p] \in Nat /\ PassLow[v] \in Nat
      <4>1. p \in SeenIn(Indices) /\ v \in SeenIn(Indices)
        BY <1>1, <1>2, <1>3, <3>2 DEF Passed, S
      <4>2. PassLow[p] >= 0 /\ PassLow[v] >= 0
        BY <1>2, <4>1 DEF Passed, Counted
      <4> QED  BY <1>3, <3>2, <4>2 DEF Numbers
    <3>5. Min({PassLow[p], PassLow[v]}) = PassLow[p]
      <4>1. {PassLow[p], PassLow[v]} \in SUBSET Nat
        BY <3>4
      <4>2. /\ Min({PassLow[p], PassLow[v]}) \in {PassLow[p], PassLow[v]}
            /\ Min({PassLow[p], PassLow[v]}) <= PassLow[p]
        BY <4>1, MinFact
      <4>3. ~(PassLow[v] <= PassLow[p])
        BY <1>3, <3>2, <3>3, <3>4 DEF Numbers
      <4> QED  BY <4>2, <4>3
    <3>6. low' = [PassLow EXCEPT ![p] = Min({PassLow[p], PassLow[v]})]
      BY <1>10, <2>2 DEF Retreat, v
    <3>7. low' = [PassLow EXCEPT ![p] = PassLow[p]]
      BY <3>5, <3>6
    <3> HIDE DEF p
    <3> QED  BY <1>3, <3>2, <3>7 DEF Numbers
  <2> QED  BY <2>1, <2>2
<1>12. ToSet(stack') = S \ C
  BY <1>6, <1>10
<1>13. Passed(edges', indices', low', stack', work', LooksAt(edges', work'))
  <2>1. LooksAt(edges', work') = PassLooks
    BY <1>1, <1>10
  <2>2. \A i \in 1..Len(work') : i \in 1..n /\ work'[i] = work[i]
    BY <1>1, <1>10
  <2>3. \A i \in 1..Len(work') : work'[i].node \in S \ C
    <3>1. \A h \in Greys(w) : h \in S \ C
      BY <1>1, <1>3 DEF C, Numbers
    <3> QED  BY <1>10, <3>1 DEF Greys
  <2>4. \A i, j \in 1..Len(work') : i < j => Indices[work'[i].node] < Indices[work'[j].node]
    BY <1>2, <2>2 DEF Passed, n
  <2>5. /\ Indices \in Marks /\ PassLow \in Marks /\ S \subseteq SeenIn(Indices)
        /\ Counted(Indices, PassLow) /\ \A x \in S : PassLooks[x] \subseteq SeenIn(Indices)
    BY <1>2 DEF Passed, S
  <2>6. Core(edges, Indices, PassLow, ToSet(stack'), Greys(w), PassLooks)
    BY <1>8, <1>12
  <2> QED  BY <1>6, <1>10, <1>11, <1>12, <2>1, <2>3, <2>4, <2>5, <2>6 DEF Passed
<1>14. cycles' = LargeOnes(edges', Seen' \ OnStack')
  <2>1. Seen' \ OnStack' = (Seen \ OnStack) \cup C
    <3>1. Seen' = SeenIn(Indices) /\ OnStack' = S \ C
      BY <1>10, <1>12 DEF Seen, SeenIn, OnStack
    <3>2. S \subseteq SeenIn(Indices)
      BY <1>2 DEF Passed, S
    <3> QED  BY <1>2, <1>6, <3>1, <3>2
  <2>2. cycles = LargeOnes(edges, Seen \ OnStack)
    BY DEF IInv
  <2>3. {Whole(edges, x) : x \in (Seen \ OnStack) \cup C} =
            {Whole(edges, x) : x \in Seen \ OnStack} \cup {C}
    BY <1>8, <1>9
  <2>4. LargeOnes(edges, (Seen \ OnStack) \cup C) =
            IF Cardinality(C) > 1 THEN LargeOnes(edges, Seen \ OnStack) \cup {C}
            ELSE LargeOnes(edges, Seen \ OnStack)
    BY <2>3 DEF LargeOnes
  <2> QED  BY <1>10, <2>1, <2>2, <2>4
<1>15. \A i \in 1..Len(work') : work'[i].last # 0
  BY <1>1, <1>10
<1> QED  BY <1>1, <1>3, <1>10, <1>13, <1>14, <1>15, Established

-----------------------------------------------------------------------------
LEMMA NextKeeps == IInv /\ [Next]_vars => IInv'
<1> SUFFICES ASSUME IInv, [Next]_vars
             PROVE  IInv'
  OBVIOUS
<1>1. ASSUME NEW n \in Nodes, Root(n)
      PROVE  IInv'
  BY <1>1, RootKeeps
<1>2. CASE work # <<>> /\ Descend
  BY <1>2, DescendKeeps
<1>3. CASE work # <<>> /\ Retreat
  BY <1>3, ReturnKeeps, PopKeeps
<1>4. CASE UNCHANGED vars
  BY <1>4 DEF vars, IInv, TypeOK, PathLaid, OnStack, Seen, Grey, Sorted, Counted
<1> QED  BY <1>1, <1>2, <1>3, <1>4 DEF Next

LEMMA Invariance == Spec => []IInv
  BY InitKeeps, NextKeeps, PTL DEF Spec

(* The indices, the low links, the stack and the path keep their types,    *)
(* and no module is twice on the stack or on the path of find_cycles.      *)
THEOREM TypeCorrect == Spec => []TypeOK
<1>1. IInv => TypeOK
  BY DEF IInv
<1> QED  BY <1>1, Invariance, PTL

(* Whatever find_cycles has popped depends on nothing it has not popped.   *)
THEOREM RetiredStaysClosed == Spec => []RetiredIsClosed
<1>1. IInv => RetiredIsClosed
  BY SeenIsSeenIn DEF IInv, Core, Closed, RetiredIsClosed
<1> QED  BY <1>1, Invariance, PTL

(* The stack of find_cycles is sorted by index, and connected as Tarjan's  *)
(* argument needs it.                                                      *)
THEOREM StackStaysConnected == Spec => []StackIsConnected
<1>1. ASSUME IInv
      PROVE  StackIsConnected
  <2>1. Connected(edges, indices, OnStack, Grey \cap OnStack) /\ Sorted(indices, stack)
    BY <1>1 DEF IInv, Core
  <2> QED  BY <2>1 DEF StackIsConnected, Connected, Sorted, Reaches, Path
<1> QED  BY <1>1, Invariance, PTL

LEMMA StronglyConnectedIsWhole == \A n : StronglyConnected(n) = Whole(edges, n)
  BY DEF StronglyConnected, Whole, Reaches, Path

LEMMA DoneCycles ==
    ASSUME IInv, Done
    PROVE  cycles = LargeOnes(edges, Nodes)
<1>1. Seen \ OnStack = Nodes
  BY EmptyStack DEF Done
<1> QED  BY <1>1 DEF IInv

(* When it returns, find_cycles has found the strongly connected           *)
(* components with more than one module, on every graph.                   *)
THEOREM FindsTheComponents == Spec => []CyclesAreComponents
<1>1. ASSUME IInv
      PROVE  CyclesAreComponents
  <2>1. {StronglyConnected(n) : n \in Nodes} = {Whole(edges, n) : n \in Nodes}
    BY StronglyConnectedIsWhole
  <2>2. Done => cycles = LargeOnes(edges, Nodes)
    BY <1>1, DoneCycles
  <2> QED  BY <2>1, <2>2 DEF CyclesAreComponents, LargeOnes
<1> QED  BY <1>1, Invariance, PTL

(* Inside a component of modules of ranked layers, whoever is reached from *)
(* n without a dependency that points outward has no higher rank.          *)
LEMMA NoClimb ==
    ASSUME NEW E \in Graphs, NEW rank \in [Nodes -> Int], NEW x \in Nodes,
           NEW c, c = Whole(E, x), NEW n \in c, NEW m \in c,
           \A e \in E : e[1] \in c /\ e[2] \in c => rank[e[2]] <= rank[e[1]]
    PROVE  rank[m] <= rank[n]
<1> DEFINE T == {y \in Nodes : Path(E, n, y) /\ (y \in c => rank[y] <= rank[n])}
<1>1. c \subseteq Nodes /\ n \in Nodes /\ m \in Nodes
  BY DEF Whole
<1>2. ASSUME NEW y \in c, NEW z \in c
      PROVE  Path(E, y, z)
  <2>1. Path(E, y, x) /\ Path(E, x, z) /\ y \in Nodes /\ z \in Nodes
    BY <1>2 DEF Whole
  <2> QED  BY <2>1, PathFacts
<1>3. ASSUME NEW y \in Nodes, Path(E, n, y), Path(E, y, n)
      PROVE  y \in c
  <2>1. Path(E, x, n) /\ Path(E, n, x)
    BY DEF Whole
  <2>2. Path(E, x, y) /\ Path(E, y, x)
    BY <1>1, <1>3, <2>1, PathFacts
  <2> QED  BY <2>2 DEF Whole
<1>4. Closed(E, T)
  <2> SUFFICES ASSUME NEW e \in E, e[1] \in T
               PROVE  e[2] \in T
    BY DEF Closed
  <2>1. e = <<e[1], e[2]>> /\ e[1] \in Nodes /\ e[2] \in Nodes
    BY DEF Graphs
  <2>2. Path(E, e[1], e[2])
    BY <2>1, PathFacts
  <2>3. Path(E, n, e[2])
    BY <1>1, <2>1, <2>2, PathFacts
  <2>4. ASSUME e[2] \in c
        PROVE  rank[e[2]] <= rank[n]
    <3>1. Path(E, e[2], n)
      BY <1>2, <2>4
    <3>2. Path(E, e[1], n)
      BY <1>1, <2>1, <2>2, <3>1, PathFacts
    <3>3. e[1] \in c
      BY <1>3, <2>1, <3>2
    <3>4. rank[e[2]] <= rank[e[1]] /\ rank[e[1]] <= rank[n]
      BY <2>4, <3>3
    <3> QED  BY <1>1, <2>1, <3>4
  <2> QED  BY <2>1, <2>3, <2>4
<1>5. n \in T
  BY <1>1, PathFacts
<1>6. m \in T
  BY <1>1, <1>2, <1>4, <1>5, Stays
<1> QED  BY <1>6

(* A cycle through ranked layers of different ranks holds a dependency     *)
(* that check_dependency_rules flags.                                      *)
THEOREM CrossLayerIsFlagged == Spec => []CrossLayerCycleIsFlagged
<1>1. ASSUME IInv
      PROVE  CrossLayerCycleIsFlagged
  <2> SUFFICES ASSUME Done, NEW c \in cycles, NEW layer \in [Nodes -> Layers],
                      \A n \in c : layer[n] \in Ranked,
                      NEW n \in c, NEW m \in c, Rank[layer[n]] # Rank[layer[m]],
                      ~\E e \in Violations(layer) : e[1] \in c /\ e[2] \in c
               PROVE  FALSE
    BY DEF CrossLayerCycleIsFlagged
  <2> DEFINE rank == [y \in Nodes |-> IF y \in c THEN Rank[layer[y]] ELSE 0]
  <2>1. cycles = LargeOnes(edges, Nodes) /\ edges \in Graphs
    BY <1>1, DoneCycles DEF IInv, TypeOK, Graphs
  <2>2. PICK x \in Nodes : c = Whole(edges, x)
    BY <2>1 DEF LargeOnes
  <2>3. c \subseteq Nodes
    BY <2>2 DEF Whole
  <2>4. \A l \in Ranked : Rank[l] \in Int
    BY DEF Ranked, Rank
  <2>5. rank \in [Nodes -> Int]
    BY <2>4
  <2>6. \A e \in edges : e[1] \in c /\ e[2] \in c => rank[e[2]] <= rank[e[1]]
    <3> SUFFICES ASSUME NEW e \in edges, e[1] \in c, e[2] \in c
                 PROVE  rank[e[2]] <= rank[e[1]]
      OBVIOUS
    <3>1. ~(Rank[layer[e[1]]] < Rank[layer[e[2]]])
      BY DEF Violations
    <3>2. Rank[layer[e[1]]] \in Int /\ Rank[layer[e[2]]] \in Int
      BY <2>4
    <3> QED  BY <2>3, <3>1, <3>2
  <2>7. rank[n] = Rank[layer[n]] /\ rank[m] = Rank[layer[m]]
    BY <2>3
  <2> HIDE DEF rank
  <2>8. rank[m] <= rank[n] /\ rank[n] <= rank[m]
    BY <2>1, <2>2, <2>5, <2>6, NoClimb
  <2>9. rank[m] \in Int /\ rank[n] \in Int
    BY <2>3, <2>5
  <2> QED  BY <2>7, <2>8, <2>9
<1> QED  BY <1>1, Invariance, PTL
=============================================================================
