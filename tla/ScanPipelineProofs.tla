------------------------- MODULE ScanPipelineProofs -------------------------
(***************************************************************************)
(* ScanPipeline for every location, every edit of it and every failure:    *)
(* types, that the walk visits what a scan selects, that a copy is one of  *)
(* its source, that the findings are the first, that the pages agree, that *)
(* the flows show what an entrypoint reaches, and that routes have the     *)
(* paths of all classes around them.                                       *)
(***************************************************************************)
EXTENDS ScanPipeline, FiniteSetTheorems, SequenceTheorems, WellFoundedInduction, TLAPS

(* Paths: what is above one of them, and its children.                      *)
AllPaths == Seq(Names) \ {Root}
Child(d, e) == Len(e) = Len(d) + 1 /\ SubSeq(e, 1, Len(d)) = d

LEMMA AboveIs ==
    ASSUME NEW p \in Seq(Names), NEW d
    PROVE  d \in Above(p) <=> /\ d \in Seq(Names) /\ Len(d) \in 1..(Len(p) - 1)
                              /\ \A i \in 1..Len(d) : d[i] = p[i]
  <1>1. ASSUME d \in Above(p)
        PROVE  /\ d \in Seq(Names) /\ Len(d) \in 1..(Len(p) - 1)
               /\ \A i \in 1..Len(d) : d[i] = p[i]
    <2>1. PICK k \in 1..(Len(p) - 1) : d = SubSeq(p, 1, k)
      BY <1>1 DEF Above
    <2>2. k \in Nat /\ k <= Len(p)
      OBVIOUS
    <2> QED  BY <2>1, <2>2
  <1>2. ASSUME d \in Seq(Names), Len(d) \in 1..(Len(p) - 1),
               \A i \in 1..Len(d) : d[i] = p[i]
        PROVE  d \in Above(p)
    <2>1. d = SubSeq(p, 1, Len(d))
      BY <1>2
    <2> QED  BY <1>2, <2>1 DEF Above
  <1> QED  BY <1>1, <1>2

LEMMA ChildIs ==
    ASSUME NEW d \in Seq(Names), NEW e \in Seq(Names)
    PROVE  Child(d, e) <=> Len(e) = Len(d) + 1 /\ \A i \in 1..Len(d) : d[i] = e[i]
  <1>1. ASSUME Len(e) = Len(d) + 1
        PROVE  SubSeq(e, 1, Len(d)) = d <=> \A i \in 1..Len(d) : d[i] = e[i]
    <2> DEFINE s == SubSeq(e, 1, Len(d))
    <2>1. s \in Seq(Names) /\ Len(s) = Len(d) /\ \A i \in 1..Len(d) : s[i] = e[i]
      BY <1>1
    <2> HIDE DEF s
    <2>2. s = d <=> \A i \in 1..Len(d) : d[i] = s[i]
      BY <2>1
    <2> QED  BY <2>1, <2>2 DEF s
  <1> QED  BY <1>1 DEF Child

LEMMA AboveFacts ==
    ASSUME NEW p \in Seq(Names)
    PROVE  /\ Above(p) \subseteq AllPaths /\ p \notin Above(p)
           /\ \A d \in Above(p) : Above(d) \subseteq Above(p) /\ p \notin Above(d)
           /\ \A d, e \in Above(p) : d = e \/ d \in Above(e) \/ e \in Above(d)
  <1>1. \A d \in Above(p) : d \in Seq(Names) /\ Len(d) \in Nat /\ Len(d) >= 1 /\ Len(d) < Len(p)
    BY AboveIs
  <1>2. \A d \in Seq(Names) : Len(d) >= 1 => d # Root
    BY DEF Root
  <1>3. Above(p) \subseteq AllPaths /\ p \notin Above(p)
    BY <1>1, <1>2 DEF AllPaths
  <1>4. ASSUME NEW d \in Above(p)
        PROVE  Above(d) \subseteq Above(p) /\ p \notin Above(d)
    <2>1. d \in Seq(Names) /\ Len(d) \in 1..(Len(p) - 1) /\ \A i \in 1..Len(d) : d[i] = p[i]
      BY AboveIs
    <2>2. ASSUME NEW c \in Above(d)  PROVE  c \in Above(p) /\ c # p
      <3>1. c \in Seq(Names) /\ Len(c) \in 1..(Len(d) - 1) /\ \A i \in 1..Len(c) : c[i] = d[i]
        BY <2>1, AboveIs
      <3>2. Len(c) \in 1..(Len(p) - 1) /\ \A i \in 1..Len(c) : c[i] = p[i]
        BY <2>1, <3>1
      <3> QED  BY <3>1, <3>2, AboveIs
    <2> QED  BY <2>2
  <1>5. ASSUME NEW d \in Above(p), NEW e \in Above(p)
        PROVE  d = e \/ d \in Above(e) \/ e \in Above(d)
    <2>1. /\ d \in Seq(Names) /\ Len(d) \in 1..(Len(p) - 1) /\ \A i \in 1..Len(d) : d[i] = p[i]
          /\ e \in Seq(Names) /\ Len(e) \in 1..(Len(p) - 1) /\ \A i \in 1..Len(e) : e[i] = p[i]
      BY AboveIs
    <2>2. CASE Len(d) < Len(e)
      <3>1. Len(d) \in 1..(Len(e) - 1) /\ \A i \in 1..Len(d) : d[i] = e[i]
        BY <2>1, <2>2
      <3> QED  BY <2>1, <3>1, AboveIs
    <2>3. CASE Len(e) < Len(d)
      <3>1. Len(e) \in 1..(Len(d) - 1) /\ \A i \in 1..Len(e) : e[i] = d[i]
        BY <2>1, <2>3
      <3> QED  BY <2>1, <3>1, AboveIs
    <2>4. CASE Len(d) = Len(e)
      BY <2>1, <2>4
    <2> QED  BY <2>1, <2>2, <2>3, <2>4
  <1> QED  BY <1>3, <1>4, <1>5

(* Below a directory there is one child of it on the way to each path.      *)
LEMMA ChildFacts ==
    ASSUME NEW d \in Seq(Names), NEW e \in Seq(Names), Child(d, e)
    PROVE  /\ e \in AllPaths
           /\ d = Root => Above(e) = {}
           /\ d # Root => Above(e) = Above(d) \cup {d}
           /\ \A f \in Seq(Names) : Child(d, f) => f \notin Above(e)
  <1>1. Len(e) = Len(d) + 1 /\ Len(d) \in Nat /\ \A i \in 1..Len(d) : d[i] = e[i]
    BY ChildIs
  <1>2. e \in AllPaths
    BY <1>1 DEF AllPaths, Root
  <1>3. d = Root => Above(e) = {}
    BY <1>1 DEF Root, Above
  <1>4. ASSUME d # Root  PROVE  Above(e) = Above(d) \cup {d}
    <2>1. Len(d) >= 1
      BY <1>1, <1>4 DEF Root
    <2>2. d \in Above(e)
      BY <1>1, <2>1, AboveIs
    <2>3. \A c \in Above(d) : c \in Above(e)
      BY <2>2, AboveFacts
    <2>4. ASSUME NEW c \in Above(e), c # d  PROVE  c \in Above(d)
      <3>1. c \in Seq(Names) /\ Len(c) \in 1..Len(d) /\ \A i \in 1..Len(c) : c[i] = e[i]
        BY <1>1, AboveIs
      <3>2. \A i \in 1..Len(c) : c[i] = d[i]
        BY <1>1, <3>1
      <3>3. Len(c) # Len(d)
        BY <2>4, <3>1, <3>2
      <3> QED  BY <1>1, <3>1, <3>2, <3>3, AboveIs
    <2> QED  BY <2>2, <2>3, <2>4
  <1>5. ASSUME NEW f \in Seq(Names), Child(d, f)  PROVE  f \notin Above(e)
    BY <1>1, <1>5, AboveIs, ChildIs
  <1> QED  BY <1>2, <1>3, <1>4, <1>5

LEMMA OnTheWay ==
    ASSUME NEW p \in AllPaths, NEW d, d = Root \/ d \in Above(p)
    PROVE  \E e \in AllPaths : Child(d, e) /\ (e = p \/ e \in Above(p))
  <1>1. /\ d \in Seq(Names) /\ Len(d) \in Nat /\ Len(d) < Len(p)
        /\ \A i \in 1..Len(d) : d[i] = p[i]
    <2>1. CASE d = Root
      BY <2>1 DEF Root, AllPaths
    <2>2. CASE d \in Above(p)
      BY <2>2, AboveIs DEF AllPaths
    <2> QED  BY <2>1, <2>2
  <1> DEFINE n == Len(d) + 1
             e == SubSeq(p, 1, n)
  <1>2. p \in Seq(Names) /\ n \in 1..Len(p)
    BY <1>1 DEF AllPaths
  <1>3. e \in Seq(Names) /\ Len(e) = n /\ \A i \in 1..n : e[i] = p[i]
    BY <1>2
  <1> HIDE DEF e
  <1>4. Child(d, e)
    BY <1>1, <1>3, ChildIs
  <1>5. e = p \/ e \in Above(p)
    <2>1. CASE n = Len(p)
      BY <1>2, <1>3, <2>1
    <2>2. CASE n < Len(p)
      BY <1>2, <1>3, <2>2, AboveIs
    <2> QED  BY <1>2, <2>1, <2>2
  <1>6. e \in AllPaths
    BY <1>1, <1>3 DEF AllPaths, Root
  <1> QED  BY <1>4, <1>5, <1>6

-----------------------------------------------------------------------------
(* Trees, and a walk over one of them.                                      *)
LEMMA NodesFacts ==
    ASSUME NEW w, IsTree(w)
    PROVE  /\ DOMAIN w \subseteq AllPaths /\ Nodes(w) \subseteq AllPaths
           /\ DOMAIN w \subseteq Nodes(w)
           /\ \A p \in DOMAIN w : Above(p) \subseteq Nodes(w)
           /\ \A e \in Nodes(w) : e \in DOMAIN w <=> ~IsDir(w, e)
  <1>1. DOMAIN w \subseteq AllPaths
    BY DEF IsTree, AllPaths
  <1>2. \A p \in DOMAIN w : Above(p) \subseteq AllPaths
    BY <1>1, AboveFacts DEF AllPaths
  <1>3. Nodes(w) \subseteq AllPaths /\ DOMAIN w \subseteq Nodes(w)
    BY <1>1, <1>2 DEF Nodes
  <1>4. \A p \in DOMAIN w : Above(p) \subseteq Nodes(w)
    BY DEF Nodes
  <1>5. \A e \in Nodes(w) : e \in DOMAIN w <=> ~IsDir(w, e)
    BY DEF IsTree, IsDir, Nodes
  <1> QED  BY <1>1, <1>3, <1>4, <1>5

LEMMA EntriesFacts ==
    ASSUME NEW w, IsTree(w), NEW d \in Seq(Names)
    PROVE  /\ Entries(w, d) \subseteq Nodes(w)
           /\ \A e \in Entries(w, d) : Child(d, e) /\ e \in AllPaths
           /\ \A e \in Nodes(w) : Child(d, e) => e \in Entries(w, d)
  BY NodesFacts DEF Entries, Child

SelectedIn(w, o) ==
    {p \in DOMAIN w : Keeps(w, o, p) /\ \A d \in Above(p) : ~SkipsDir(w, o, d)}
LeftIn(w, o, T) == {p \in SelectedIn(w, o) : \E e \in T : Below(p, e)}

(* What is left of a walk lies apart, below directories that are entered.   *)
WalkIn(w, o, T) ==
    /\ T \subseteq Nodes(w) /\ \A e, f \in T : e \notin Above(f)
    /\ \A e \in T : \A d \in Above(e) : ~SkipsDir(w, o, d)

LEMMA WalkStarts ==
    ASSUME NEW w, IsTree(w), NEW o
    PROVE  /\ WalkIn(w, o, Entries(w, Root))
           /\ LeftIn(w, o, Entries(w, Root)) = SelectedIn(w, o)
  <1> DEFINE T == Entries(w, Root)
  <1>1. Root \in Seq(Names)
    BY DEF Root
  <1>2. T \subseteq Nodes(w) /\ \A e \in T : Child(Root, e) /\ e \in Seq(Names)
    BY <1>1, EntriesFacts DEF AllPaths
  <1>3. \A e \in T : Above(e) = {}
    BY <1>1, <1>2, ChildFacts
  <1>4. \A p \in DOMAIN w : \E e \in T : Below(p, e)
    <2> SUFFICES ASSUME NEW p \in DOMAIN w  PROVE  \E e \in T : Below(p, e)
      OBVIOUS
    <2>1. PICK e \in AllPaths : Child(Root, e) /\ (e = p \/ e \in Above(p))
      BY OnTheWay, NodesFacts
    <2>2. e \in Nodes(w)
      BY <2>1, NodesFacts
    <2>3. e \in T
      BY <1>1, <2>1, <2>2, EntriesFacts
    <2> QED  BY <2>1, <2>3 DEF Below
  <1> HIDE DEF T
  <1>5. WalkIn(w, o, T)
    BY <1>2, <1>3 DEF WalkIn
  <1>6. LeftIn(w, o, T) = SelectedIn(w, o)
    BY <1>4 DEF LeftIn, SelectedIn
  <1> QED  BY <1>5, <1>6 DEF T

LEMMA WalkNoMore ==
    ASSUME NEW w, NEW o  PROVE  WalkIn(w, o, {}) /\ LeftIn(w, o, {}) = {}
  BY DEF WalkIn, LeftIn

(* A directory is entered or passed over: what is left stays the same.      *)
LEMMA WalkEnters ==
    ASSUME NEW w, IsTree(w), NEW o, NEW T, WalkIn(w, o, T), NEW d \in T, IsDir(w, d)
    PROVE  /\ WalkIn(w, o, Walk(w, o, T, d))
           /\ LeftIn(w, o, Walk(w, o, T, d)) = LeftIn(w, o, T)
           /\ \A e \in Walk(w, o, T, d) : e = d \/ e \in T \/ Child(d, e)
  <1> DEFINE new == Walk(w, o, T, d)
             cs == Entries(w, d)
  <1>1. d \in AllPaths /\ d \in Seq(Names) /\ d # Root /\ T \subseteq AllPaths
    BY NodesFacts DEF WalkIn, AllPaths
  <1>2. cs \subseteq Nodes(w) /\ \A e \in cs : Child(d, e) /\ e \in Seq(Names)
    BY <1>1, EntriesFacts DEF AllPaths
  <1>3. \A e \in cs : Above(e) = Above(d) \cup {d}
    BY <1>1, <1>2, ChildFacts
  <1>4. d \notin DOMAIN w
    BY NodesFacts DEF WalkIn
  <1>5. CASE SkipsDir(w, o, d)
    <2>1. new = T \ {d}
      BY <1>5 DEF Walk
    <2> HIDE DEF new
    <2>2. \A p \in SelectedIn(w, o) : ~Below(p, d)
      BY <1>4, <1>5 DEF SelectedIn, Below
    <2> QED  BY <2>1, <2>2 DEF new, WalkIn, LeftIn
  <1>6. CASE ~SkipsDir(w, o, d)
    <2>1. new = (T \ {d}) \cup cs
      BY <1>6 DEF Walk
    <2> HIDE DEF new
    <2>2. \A e, f \in cs : e \notin Above(f)
      BY <1>1, <1>2, ChildFacts
    <2>3. ASSUME NEW e \in cs, NEW f \in T \ {d}  PROVE  e \notin Above(f) /\ f \notin Above(e)
      <3>1. f \in Seq(Names) /\ d \notin Above(f) /\ f \notin Above(d)
        BY <1>1, <2>3 DEF WalkIn, AllPaths
      <3>2. d \in Above(e)
        BY <1>3
      <3>3. e \notin Above(f)
        BY <3>1, <3>2, AboveFacts
      <3> QED  BY <1>3, <2>3, <3>1, <3>3
    <2>4. \A e \in cs : \A c \in Above(e) : ~SkipsDir(w, o, c)
      BY <1>3, <1>6 DEF WalkIn
    <2>5. WalkIn(w, o, new)
      BY <1>2, <2>1, <2>2, <2>3, <2>4 DEF WalkIn
    <2>6. ASSUME NEW p \in SelectedIn(w, o)
          PROVE  Below(p, d) <=> \E e \in cs : Below(p, e)
      <3>1. p \in DOMAIN w /\ p \in AllPaths /\ p \in Seq(Names) /\ p # d
        BY <1>4, NodesFacts DEF SelectedIn, AllPaths
      <3>2. ASSUME Below(p, d)  PROVE  \E e \in cs : Below(p, e)
        <4>1. d \in Above(p)
          BY <3>1, <3>2 DEF Below
        <4>2. PICK e \in AllPaths : Child(d, e) /\ (e = p \/ e \in Above(p))
          BY <3>1, <4>1, OnTheWay
        <4>3. e \in Nodes(w)
          BY <3>1, <4>2, NodesFacts
        <4>4. e \in cs
          BY <1>1, <4>2, <4>3, EntriesFacts
        <4> QED  BY <4>2, <4>4 DEF Below
      <3>3. ASSUME NEW e \in cs, Below(p, e)  PROVE  Below(p, d)
        <4>1. d \in Above(e)
          BY <1>3
        <4>2. d \in Above(p)
          BY <3>1, <3>3, <4>1, AboveFacts DEF Below
        <4> QED  BY <4>2 DEF Below
      <3> QED  BY <3>2, <3>3
    <2>7. LeftIn(w, o, new) = LeftIn(w, o, T)
      BY <2>1, <2>6 DEF LeftIn
    <2> QED  BY <1>2, <2>1, <2>5, <2>7 DEF new
  <1> QED  BY <1>5, <1>6

(* A file is passed by: it is what is no longer left, if it was selected.   *)
LEMMA WalkPasses ==
    ASSUME NEW w, IsTree(w), NEW o, NEW T, WalkIn(w, o, T), NEW p \in T, ~IsDir(w, p)
    PROVE  /\ p \in DOMAIN w
           /\ WalkIn(w, o, T \ {p})
           /\ LeftIn(w, o, T \ {p}) = LeftIn(w, o, T) \ {p}
           /\ p \in SelectedIn(w, o) <=> Keeps(w, o, p)
           /\ p \in SelectedIn(w, o) <=> p \in LeftIn(w, o, T)
  <1>1. p \in DOMAIN w /\ p \in Seq(Names) /\ T \subseteq AllPaths
    BY NodesFacts DEF WalkIn, AllPaths
  <1>3. WalkIn(w, o, T \ {p})
    BY DEF WalkIn
  <1>4. p \in SelectedIn(w, o) <=> Keeps(w, o, p)
    BY <1>1 DEF WalkIn, SelectedIn
  <1>5. \A q \in DOMAIN w : Below(q, p) => q = p
    BY <1>1 DEF Below, IsTree
  <1>6. \A e \in T \ {p} : ~Below(p, e)
    BY DEF Below, WalkIn
  <1>7. LeftIn(w, o, T \ {p}) = LeftIn(w, o, T) \ {p}
    BY <1>5, <1>6 DEF LeftIn, SelectedIn
  <1>8. p \in SelectedIn(w, o) <=> p \in LeftIn(w, o, T)
    BY DEF LeftIn, Below
  <1> QED  BY <1>1, <1>3, <1>4, <1>7, <1>8

-----------------------------------------------------------------------------
(* What is imported is a tree.                                              *)
LEMMA ChecksumTree ==
    ASSUME NEW w, IsTree(w)
    PROVE  /\ IsTree(Checksum(w))
           /\ \A p \in DOMAIN w :
                 (\A d \in Above(p) : Name(d) \notin IgnoredDirs) =>
                     p \in DOMAIN Checksum(w) /\ Checksum(w)[p] = w[p]
  BY DEF IsTree, Checksum

LEMMA Prefixed ==
    ASSUME NEW e \in Seq(Names), Len(e) = 1, NEW r \in Seq(Names)
    PROVE  /\ e \o r \in Seq(Names) /\ Len(e \o r) = Len(r) + 1
           /\ \A i \in 1..Len(e \o r) : (e \o r)[i] = IF i <= 1 THEN e[i] ELSE r[i - 1]
  <1>1. /\ e \o r \in Seq(Names) /\ Len(e \o r) = Len(e) + Len(r)
        /\ \A i \in 1..Len(e) + Len(r) :
              (e \o r)[i] = IF i <= Len(e) THEN e[i] ELSE r[i - Len(e)]
    BY ConcatProperties
  <1> QED  BY <1>1

LEMMA SingleTop ==
    ASSUME NEW e \in AllPaths, Len(e) = 1, NEW q \in AllPaths, e \in Above(q)
    PROVE  Tail(q) \in AllPaths /\ e \o Tail(q) = q
  <1>1. q \in Seq(Names) /\ e \in Seq(Names) /\ 1 \in 1..(Len(q) - 1) /\ e[1] = q[1]
    BY AboveIs DEF AllPaths
  <1> DEFINE t == Tail(q)
  <1>2. t \in Seq(Names) /\ Len(t) = Len(q) - 1 /\ \A i \in 1..Len(t) : t[i] = q[i + 1]
    BY <1>1
  <1> HIDE DEF t
  <1>3. t \in AllPaths
    BY <1>1, <1>2 DEF AllPaths, Root
  <1> DEFINE c == e \o t
  <1>4. /\ c \in Seq(Names) /\ Len(c) = Len(q)
        /\ \A i \in 1..Len(q) : c[i] = IF i <= 1 THEN e[i] ELSE t[i - 1]
    <2>1. /\ c \in Seq(Names) /\ Len(c) = Len(t) + 1
          /\ \A i \in 1..Len(c) : c[i] = IF i <= 1 THEN e[i] ELSE t[i - 1]
      BY <1>1, <1>2, Prefixed
    <2> HIDE DEF c
    <2>2. Len(c) = Len(q)
      BY <1>1, <1>2, <2>1
    <2> QED  BY <2>1, <2>2
  <1> HIDE DEF c
  <1>5. \A i \in 1..Len(q) : c[i] = q[i]
    BY <1>1, <1>2, <1>4
  <1>6. c = q
    BY <1>1, <1>4, <1>5
  <1> QED  BY <1>3, <1>6 DEF c, t

LEMMA TailAbove ==
    ASSUME NEW e \in AllPaths, Len(e) = 1, NEW p \in AllPaths, NEW q \in AllPaths,
           p \in Above(q)
    PROVE  e \o p \in Above(e \o q)
  <1>1. /\ p \in Seq(Names) /\ q \in Seq(Names) /\ e \in Seq(Names)
        /\ Len(p) \in 1..(Len(q) - 1) /\ \A i \in 1..Len(p) : p[i] = q[i]
    BY AboveIs DEF AllPaths
  <1> DEFINE a == e \o p
             b == e \o q
  <1>2. /\ a \in Seq(Names) /\ Len(a) = Len(p) + 1
        /\ b \in Seq(Names) /\ Len(b) = Len(q) + 1
        /\ \A i \in 1..Len(a) : a[i] = IF i <= 1 THEN e[i] ELSE p[i - 1]
        /\ \A i \in 1..Len(b) : b[i] = IF i <= 1 THEN e[i] ELSE q[i - 1]
    BY <1>1, Prefixed
  <1> HIDE DEF a, b
  <1>3. Len(a) \in 1..(Len(b) - 1)
    BY <1>1, <1>2
  <1>4. ASSUME NEW i \in 1..Len(a)  PROVE  a[i] = b[i]
    <2>1. CASE i <= 1
      BY <1>1, <1>2, <1>3, <2>1
    <2>2. CASE ~(i <= 1)
      <3>1. i - 1 \in 1..Len(p) /\ i \in 1..Len(b)
        BY <1>1, <1>2, <2>2
      <3>2. a[i] = p[i - 1] /\ b[i] = q[i - 1]
        BY <1>2, <2>2, <3>1, Zenon
      <3> QED  BY <1>1, <3>1, <3>2
    <2> QED  BY <2>1, <2>2
  <1>5. a \in Above(b)
    BY <1>2, <1>3, <1>4, AboveIs
  <1> QED  BY <1>5 DEF a, b

LEMMA CollapsedTree ==
    ASSUME NEW w, IsTree(w), NEW zip \in BOOLEAN
    PROVE  IsTree(Collapsed(w, zip))
  <1> DEFINE top == {e \in Entries(w, Root) : ~(zip /\ Name(e) = "__MACOSX")}
             wrapped == {e \in top : top = {e} /\ IsDir(w, e)}
             Inner(e) == {q \in DOMAIN w : e \in Above(q)}
             root == CHOOSE e \in wrapped : TRUE
             files == [p \in {Tail(q) : q \in Inner(root)} |-> w[root \o p]]
  <1>1. Collapsed(w, zip) = IF wrapped = {} THEN w ELSE files
    BY Zenon DEF Collapsed
  <1>2. ASSUME wrapped # {}  PROVE  IsTree(files)
    <2>1. root \in AllPaths /\ Len(root) = 1
      <3>1. root \in Entries(w, Root)
        BY <1>2
      <3>2. Root \in Seq(Names) /\ Len(Root) = 0
        BY DEF Root
      <3> HIDE DEF root
      <3>3. Child(Root, root) /\ root \in AllPaths
        BY <3>1, <3>2, EntriesFacts
      <3>4. Len(root) = Len(Root) + 1
        BY <3>3 DEF Child
      <3> QED  BY <3>2, <3>3, <3>4
    <2> HIDE DEF root
    <2>2. ASSUME NEW p \in DOMAIN files
          PROVE  p \in AllPaths /\ root \o p \in DOMAIN w /\ files[p] = w[root \o p]
      <3>1. PICK q \in Inner(root) : p = Tail(q)
        BY <2>2
      <3>2. q \in AllPaths /\ root \in Above(q) /\ q \in DOMAIN w
        BY <3>1, NodesFacts
      <3> QED  BY <2>1, <2>2, <3>1, <3>2, SingleTop
    <2> HIDE DEF files
    <2>3. \A p, q \in DOMAIN files : p \notin Above(q)
      BY <2>1, <2>2, TailAbove DEF IsTree
    <2>4. files \in [DOMAIN files -> Contents]
      <3>1. files = [p \in DOMAIN files |-> files[p]]
        BY DEF files
      <3>2. \A p \in DOMAIN files : files[p] \in Contents
        BY <2>2 DEF IsTree
      <3> QED  BY <3>1, <3>2
    <2> QED  BY <2>2, <2>3, <2>4 DEF IsTree, AllPaths
  <1> QED  BY <1>1, <1>2

LEMMA ProviderFacts ==
    ASSUME NEW loc
    PROVE  /\ Provider(loc) \in {"local_git", "folder"} => loc.kind = "dir"
           /\ Provider(loc) \in {"git_remote", "zip", "targz"} => loc.kind # "dir"
  BY DEF Provider, IsGitRemote, IsZip, IsTarGz, IsLocalGit, IsFolder

-----------------------------------------------------------------------------
(* The inductive invariant.  What is so whatever the run has done so far.   *)
IsLocal == Provider(source) \in {"local_git", "folder"}
Clean(p) == ToSet(p) \cap IgnoredDirs = {}

WorldOK ==
    /\ pc \in Pc /\ failure \in {"none", "domain", "other"}
    /\ <<source, opts>> \in Requests /\ order \in Orders
    /\ IsTree(tree) /\ IsTree(head) /\ \A p \in DOMAIN tree : Apart(p, source.inside)
    /\ ref.kind \in {"none", "commit", "checksum"} /\ IsTree(ref.files)
    /\ lost \in BOOLEAN /\ edits \in 0..MaxEdits /\ errors \in 0..MaxErrors

(* What is left to copy lies apart, and apart from what is copied and from  *)
(* the workspace.                                                           *)
OpenIn(T, w, inside) ==
    /\ \A e \in T : inside # e.path /\ inside \notin Above(e.path)
    /\ \A e, f \in T : e # f => Apart(e.path, f.path)
    /\ \A e \in T : \A p \in DOMAIN w : Apart(p, e.path)

CopyOK ==
    /\ IsTree(ws)
    /\ open \subseteq [path: AllPaths, dir: BOOLEAN]
    /\ OpenIn(open, ws, source.inside)
    /\ source.inside # Root => \A p \in DOMAIN ws : source.inside \notin Above(p)
    /\ pc = "idle" => ws = NoTree
    /\ pc # "copy" => open = {}
    /\ pc = "copy" => IsLocal
    /\ pc \in {"idle", "copy"} => ref.kind # "checksum"

(* Of a directory that nobody touches all is copied, or something is lost,  *)
(* or the rest is what is left to copy and what lies below it.              *)
Covered(p, T) == \E e \in T : IF e.dir THEN e.path \in Above(p) ELSE e.path = p

CopiedPart(t, w, T, missing) ==
    /\ \A p \in DOMAIN w : p \in DOMAIN t /\ Clean(p) /\ w[p] = t[p]
    /\ \A e \in T : Clean(e.path)
    /\ \A p \in DOMAIN t : Clean(p) => missing \/ p \in DOMAIN w \/ Covered(p, T)

CopiedAll(t, w) == w = [p \in {q \in DOMAIN t : Clean(q)} |-> t[p]]

CopyWhole ==
    edits = 0 =>
        /\ pc = "copy" => CopiedPart(tree, ws, open, lost)
        /\ (IsLocal /\ pc \notin {"idle", "copy", "failed"}) => CopiedAll(tree, ws)

(* The first of the passes counts each selected file as it comes to it.     *)
ParsedIn(w) == {ParsedFile(p, w[p]) : p \in DOMAIN w}

Counts(w, o, files, rest) ==
    /\ files \in Seq(ParsedIn(w)) /\ Paths(files) \cup rest \subseteq SelectedIn(w, o)
    /\ IsFiniteSet(Paths(files) \cup rest)
    /\ Len(files) + Cardinality(rest) = Cardinality(Paths(files) \cup rest)

WalkOK ==
    /\ WalkIn(ws, opts, todo) /\ Counts(ws, opts, parsed, others)
    /\ pc \in {"idle", "copy"} => todo = {} /\ parsed = <<>> /\ others = {}
    /\ pc = "files" => Counted = SelectedIn(ws, opts) \ LeftIn(ws, opts, todo)
    /\ pc \notin {"idle", "copy", "failed", "files"} => Counted = SelectedIn(ws, opts)

(* A checksum is one of the workspace.                                      *)
RefOK == ref.kind = "checksum" => ref.files = Checksum(ws)

(* The findings are the first of the files that were come to.               *)
FoundIn(w, p) == ToSet(SecretsIn(p, w[p]))
AllFound(w, files) == UNION {FoundIn(w, p) : p \in files}

AreFirst(found, w, files) ==
    /\ found \in Seq(AllFound(w, files)) /\ Len(found) <= MaxFindings
    /\ \A i, j \in DOMAIN found : i < j => Precedes(found[i], found[j])
    /\ \A f \in AllFound(w, files) \ ToSet(found) :
          Len(found) = MaxFindings /\ \A i \in DOMAIN found : Precedes(found[i], f)

Come(w, o, T) == SelectedIn(w, o) \ LeftIn(w, o, T)
InOrderUpTo(w, o, T) == \A p \in Come(w, o, T) : \A q \in LeftIn(w, o, T) : Before(p, q)

FindingsOK ==
    /\ pc \in {"idle", "copy", "files", "manifests"} => secrets = <<>>
    /\ pc = "secrets" => todo = {} \/ (opts.scanner /\ ~Full(secrets))
    /\ (opts.scanner /\ errors = 0) =>
          /\ pc = "secrets" => /\ AreFirst(secrets, ws, Come(ws, opts, todo))
                              /\ InOrderUpTo(ws, opts, todo)
          /\ pc \in {"document", "export", "done"} =>
                AreFirst(secrets, ws, SelectedIn(ws, opts))

IInv == WorldOK /\ CopyOK /\ CopyWhole /\ WalkOK /\ RefOK /\ FindingsOK

-----------------------------------------------------------------------------
(* What a directory lists while it is copied.                               *)
LEMMA Joined ==
    ASSUME NEW a \in AllPaths, NEW r \in AllPaths
    PROVE  a \o r \in AllPaths /\ a \in Above(a \o r)
  <1>1. a \in Seq(Names) /\ r \in Seq(Names)
    BY DEF AllPaths
  <1>2. Len(a) \in Nat /\ Len(r) \in Nat /\ Len(a) >= 1 /\ Len(r) >= 1
    BY <1>1 DEF AllPaths, Root
  <1> DEFINE c == a \o r
  <1>3. /\ c \in Seq(Names) /\ Len(c) = Len(a) + Len(r)
        /\ \A i \in 1..Len(a) + Len(r) : c[i] = IF i <= Len(a) THEN a[i] ELSE r[i - Len(a)]
    BY <1>1, ConcatProperties
  <1> HIDE DEF c
  <1>4. Len(a) \in 1..(Len(c) - 1) /\ \A i \in 1..Len(a) : a[i] = c[i]
    BY <1>2, <1>3
  <1>5. a \in Above(c) /\ c \in AllPaths
    BY <1>1, <1>2, <1>3, <1>4, AboveIs DEF AllPaths, Root
  <1> QED  BY <1>5 DEF c

LEMMA ViewFacts ==
    ASSUME IsTree(tree), IsTree(ws), source.inside \in Seq(Names)
    PROVE  /\ DOMAIN View \subseteq AllPaths /\ DOMAIN tree \subseteq DOMAIN View
           /\ \A p \in DOMAIN View : source.inside \notin Above(p) =>
                 p \in DOMAIN tree /\ View[p] = tree[p]
  <1> DEFINE copies == IF source.inside = Root THEN {}
                       ELSE {source.inside \o p : p \in DOMAIN ws}
  <1>1. /\ DOMAIN View = DOMAIN tree \cup copies
        /\ \A p \in DOMAIN View : p \notin copies => View[p] = tree[p]
    BY DEF View
  <1>2. ASSUME NEW p \in copies  PROVE  p \in AllPaths /\ source.inside \in Above(p)
    <2>1. source.inside \in AllPaths
      BY <1>2 DEF AllPaths
    <2>2. PICK r \in DOMAIN ws : p = source.inside \o r
      BY <1>2
    <2>3. r \in AllPaths
      BY NodesFacts
    <2> QED  BY <2>1, <2>2, <2>3, Joined
  <1> HIDE DEF copies
  <1> QED  BY <1>1, <1>2, NodesFacts

(* A directory that is copied: the source, or one apart from the workspace  *)
(* and not in it.                                                           *)
IsOutside(d) ==
    d = Root \/ (d \in AllPaths /\ d # source.inside /\ source.inside \notin Above(d))

LEMMA ListingFacts ==
    ASSUME IsTree(tree), IsTree(ws), source.inside \in Seq(Names),
           NEW d, IsOutside(d), NEW e \in Copied(d)
    PROVE  /\ e \in [path: AllPaths, dir: BOOLEAN] /\ Child(d, e.path)
           /\ e.path # source.inside /\ source.inside \notin Above(e.path)
           /\ Clean(d) => Clean(e.path)
           /\ \A f \in Copied(d) : f.path = e.path => f = e
  <1> DEFINE toInside == {x \in Above(source.inside) \cup {source.inside} : x # Root}
             own == {x \in toInside : Len(x) = Len(d) + 1 /\ SubSeq(x, 1, Len(d)) = d}
  <1>1. \A f \in Listing(d) :
           \E x \in Entries(View, d) \cup own :
              f = [path |-> x, dir |-> x \in own \/ IsDir(View, x)]
    BY Zenon DEF Listing
  <1>2. d \in Seq(Names)
    <2>1. Root \in Seq(Names)
      BY DEF Root
    <2> QED  BY <2>1 DEF IsOutside, AllPaths
  <1>3. \A x \in own : x \in AllPaths /\ Child(d, x)
    BY AboveFacts DEF AllPaths, Child
  <1>4. \A x \in Entries(View, d) : x \in AllPaths /\ Child(d, x)
    <2>1. Nodes(View) \subseteq AllPaths
      BY ViewFacts, AboveFacts DEF Nodes, AllPaths
    <2> QED  BY <2>1 DEF Entries, Child
  <1>5. \A x : (x \in own \/ IsDir(View, x)) \in BOOLEAN
    BY DEF IsDir
  <1> HIDE DEF own
  <1>6. PICK x \in AllPaths : /\ e = [path |-> x, dir |-> x \in own \/ IsDir(View, x)]
                              /\ Child(d, x)
    BY <1>1, <1>3, <1>4 DEF Copied
  <1>7. e.path = x /\ x # source.inside /\ Name(x) \notin IgnoredDirs
    BY <1>6 DEF Copied, Skips
  <1>8. source.inside \notin Above(x)
    BY <1>2, <1>6, ChildFacts DEF IsOutside, AllPaths
  <1>9. Clean(d) => Clean(x)
    <2>1. /\ x \in Seq(Names) /\ Len(x) = Len(d) + 1 /\ Len(d) \in Nat
          /\ \A i \in 1..Len(d) : d[i] = x[i]
      BY <1>2, <1>6, ChildIs DEF AllPaths
    <2>2. \A i \in DOMAIN x : i \in DOMAIN d \/ i = Len(x)
      BY <1>2, <2>1
    <2>3. \A i \in DOMAIN d : d[i] = x[i]
      BY <1>2, <2>1
    <2> QED  BY <1>7, <2>2, <2>3 DEF Clean, ToSet, Name
  <1>10. \A f \in Copied(d) : f.path = x => f = e
    BY <1>1, <1>6 DEF Copied
  <1>11. e \in [path: AllPaths, dir: BOOLEAN]
    BY <1>5, <1>6
  <1> QED  BY <1>6, <1>7, <1>8, <1>9, <1>10, <1>11

(* Each file that is to be copied is in the listing, or below it.           *)
LEMMA ListingFiles ==
    ASSUME IsTree(tree), IsTree(ws), source.inside \in Seq(Names),
           NEW p \in DOMAIN tree, Apart(p, source.inside), Clean(p),
           NEW d, d = Root \/ d \in Above(p)
    PROVE  \E e \in Copied(d) : IF e.dir THEN e.path \in Above(p) ELSE e.path = p
  <1> DEFINE toInside == {x \in Above(source.inside) \cup {source.inside} : x # Root}
             own == {x \in toInside : Len(x) = Len(d) + 1 /\ SubSeq(x, 1, Len(d)) = d}
  <1>1. p \in AllPaths /\ p \in Seq(Names) /\ p \in DOMAIN View
    BY ViewFacts, NodesFacts DEF AllPaths
  <1>2. PICK x \in AllPaths : Child(d, x) /\ (x = p \/ x \in Above(p))
    BY <1>1, OnTheWay
  <1> DEFINE e == [path |-> x, dir |-> x \in own \/ IsDir(View, x)]
  <1>3. x \in Nodes(View)
    BY <1>1, <1>2 DEF Nodes
  <1>4. e \in Listing(d)
    <2>1. x \in Entries(View, d)
      BY <1>2, <1>3 DEF Entries, Child
    <2> QED  BY <2>1, Zenon DEF Listing
  <1>5. own \subseteq Above(source.inside) \cup {source.inside}
    OBVIOUS
  <1> HIDE DEF own
  <1>6. x # source.inside
    BY <1>2 DEF Apart
  <1>7. Name(x) \notin IgnoredDirs
    <2>1. x \in Seq(Names) /\ Len(x) \in 1..Len(p) /\ \A i \in 1..Len(x) : x[i] = p[i]
      <3>1. CASE x = p
        BY <1>1, <3>1 DEF AllPaths, Root
      <3>2. CASE x \in Above(p)
        BY <1>1, <3>2, AboveIs
      <3> QED  BY <1>2, <3>1, <3>2
    <2>2. Len(x) \in DOMAIN p /\ Name(x) = p[Len(x)]
      BY <1>1, <2>1 DEF Name
    <2> QED  BY <2>2 DEF Clean, ToSet
  <1>8. e \in Copied(d)
    BY <1>4, <1>6, <1>7 DEF Copied, Skips
  <1>9. ASSUME x \in Above(p)  PROVE  e.dir
    BY <1>1, <1>9 DEF IsDir
  <1>10. ASSUME x = p  PROVE  ~e.dir
    <2>1. x \notin own
      BY <1>5, <1>10 DEF Apart
    <2>2. ASSUME NEW q \in DOMAIN View  PROVE  p \notin Above(q)
      <3>1. CASE source.inside \in Above(q)
        <4>1. q \in Seq(Names)
          BY ViewFacts DEF AllPaths
        <4> QED  BY <3>1, <4>1, AboveFacts DEF Apart
      <3>2. CASE source.inside \notin Above(q)
        BY <3>2, ViewFacts DEF IsTree
      <3> QED  BY <3>1, <3>2
    <2> QED  BY <1>10, <2>1, <2>2 DEF IsDir
  <1>11. p \notin Above(p)
    BY <1>1, AboveFacts
  <1> QED  BY <1>2, <1>8, <1>9, <1>10, <1>11

-----------------------------------------------------------------------------
LEMMA PcIs ==
    Pc = {"idle", "copy", "files", "manifests", "secrets", "document", "export", "done",
          "failed"}
  <1>1. ToSet(Passes) = {Passes[1], Passes[2], Passes[3], Passes[4]}
    BY DEF ToSet, Passes
  <1>2. ToSet(Passes) = {"files", "manifests", "secrets", "document"}
    BY <1>1 DEF Passes
  <1> QED  BY <1>2 DEF Pc

LEMMA NextPass ==
    ASSUME NEW c, c \in {"files", "manifests", "secrets"}
    PROVE  Passes[1 + CHOOSE i \in 1..3 : Passes[i] = c] =
              CASE c = "files" -> "manifests" [] c = "manifests" -> "secrets"
                [] c = "secrets" -> "document"
  <1> DEFINE k == CHOOSE i \in 1..3 : Passes[i] = c
  <1>1. \E i \in 1..3 : Passes[i] = c
    BY DEF Passes
  <1>2. k \in 1..3 /\ Passes[k] = c
    BY <1>1
  <1> HIDE DEF k
  <1>3. Passes[1 + k] = CASE c = "files" -> "manifests" [] c = "manifests" -> "secrets"
                          [] c = "secrets" -> "document"
    BY <1>2 DEF Passes
  <1> QED  BY <1>3 DEF k

LEMMA NoTreeIsTree == IsTree(NoTree) /\ DOMAIN NoTree = {}
  BY DEF IsTree, NoTree

LEMMA RequestFacts ==
    ASSUME WorldOK
    PROVE  /\ source.inside \in Seq(Names)
           /\ source.inside = Root \/ source.kind = "dir"
  BY RequestsAssumption DEF WorldOK

LEMMA CountsNone == ASSUME NEW w, NEW o  PROVE  Counts(w, o, <<>>, {})
  <1>1. Paths(<<>>) \cup {} = {}
    BY DEF Paths
  <1>2. Cardinality({}) = 0 /\ IsFiniteSet({}) /\ Len(<<>>) = 0
    BY FS_EmptySet
  <1>3. <<>> \in Seq(ParsedIn(w))
    OBVIOUS
  <1>4. IsFiniteSet(Paths(<<>>) \cup {}) /\ Paths(<<>>) \cup {} \subseteq SelectedIn(w, o)
    BY <1>1, <1>2, Zenon
  <1>5. Len(<<>>) + Cardinality({}) = Cardinality(Paths(<<>>) \cup {})
    <2>1. Cardinality(Paths(<<>>) \cup {}) = 0
      BY <1>1, <1>2, Zenon
    <2> QED  BY <1>2, <2>1
  <1> QED  BY <1>3, <1>4, <1>5, Zenon DEF Counts

LEMMA InitOK == ASSUME Init  PROVE  IInv
  <1>1. IsTree(source.tree) /\ \A p \in DOMAIN source.tree : Apart(p, source.inside)
    BY RequestsAssumption DEF Init
  <1>2. <<source, opts>> \in Requests
    BY RequestsAssumption DEF Init
  <1>3. WorldOK
    <2>1. pc \in Pc /\ failure \in {"none", "domain", "other"} /\ order \in Orders
      BY PcIs DEF Init
    <2>2. IsTree(tree) /\ IsTree(head) /\ \A p \in DOMAIN tree : Apart(p, source.inside)
      BY <1>1 DEF Init
    <2>3. ref.kind \in {"none", "commit", "checksum"} /\ IsTree(ref.files)
      BY NoTreeIsTree DEF Init, NoRef
    <2>4. lost \in BOOLEAN /\ edits \in 0..MaxEdits /\ errors \in 0..MaxErrors
      <3>1. edits = 0 /\ errors = 0 /\ lost = FALSE
        BY DEF Init
      <3>2. MaxEdits \in Nat /\ MaxErrors \in Nat
        BY BoundsAssumption
      <3>3. 0 \in 0..MaxEdits /\ 0 \in 0..MaxErrors
        BY <3>2
      <3> QED  BY <3>1, <3>3, Zenon
    <2> QED  BY <1>2, <2>1, <2>2, <2>3, <2>4 DEF WorldOK
  <1>4. CopyOK
    BY NoTreeIsTree DEF Init, CopyOK, OpenIn, NoRef
  <1>5. CopyWhole
    BY DEF Init, CopyWhole
  <1>6. WalkOK
    BY WalkNoMore, CountsNone DEF Init, WalkOK
  <1>7. RefOK
    BY DEF Init, RefOK, NoRef
  <1>8. FindingsOK
    BY DEF Init, FindingsOK
  <1> QED  BY <1>3, <1>4, <1>5, <1>6, <1>7, <1>8 DEF IInv

-----------------------------------------------------------------------------
(* What a step leaves alone.                                                *)
LEMMA WorldStays ==
    ASSUME WorldOK, UNCHANGED <<world, ref, lost, edits>>, pc' \in Pc,
           failure' \in {"none", "domain", "other"}, errors' \in 0..MaxErrors
    PROVE  WorldOK'
  <1>1. /\ source' = source /\ opts' = opts /\ order' = order /\ tree' = tree
        /\ head' = head /\ ref' = ref /\ lost' = lost /\ edits' = edits
    BY DEF world
  <1> QED  BY <1>1 DEF WorldOK

LEMMA ErrorsOK ==
    ASSUME WorldOK, UNCHANGED errors \/ Error
    PROVE  errors' \in 0..MaxErrors /\ (errors # 0 => errors' # 0) /\ (Error => errors' # 0)
  BY BoundsAssumption DEF WorldOK, Error

LEMMA ImportStays ==
    ASSUME CopyOK, CopyWhole, RefOK, UNCHANGED <<world, import, edits>>,
           pc \notin {"idle", "copy"}, pc' \notin {"idle", "copy"},
           pc = "failed" => pc' = "failed"
    PROVE  CopyOK' /\ CopyWhole' /\ RefOK'
  <1>1. /\ source' = source /\ tree' = tree /\ ws' = ws /\ ref' = ref
        /\ open' = open /\ lost' = lost /\ edits' = edits
    BY DEF world, import
  <1>2. CopyOK'
    BY <1>1 DEF CopyOK
  <1>3. CopyWhole'
    BY <1>1 DEF CopyWhole, IsLocal
  <1>4. RefOK'
    BY <1>1 DEF RefOK
  <1> QED  BY <1>2, <1>3, <1>4

LEMMA CountsStay ==
    ASSUME WalkOK, UNCHANGED <<ws, opts, parsed, others>>, WalkIn(ws, opts, todo'),
           pc \in {"manifests", "secrets", "document", "export", "done"},
           pc' \in {"manifests", "secrets", "document", "export", "done"}
    PROVE  WalkOK'
  <1>1. ws' = ws /\ opts' = opts /\ parsed' = parsed /\ others' = others
    OBVIOUS
  <1>2. Counted' = Counted
    BY <1>1 DEF Counted, Paths
  <1> QED  BY <1>1, <1>2 DEF WalkOK

(* A step that fails changes nothing else.                                  *)
LEMMA FailsOK ==
    ASSUME IInv, UNCHANGED <<world, import, todo, parsed, others, secrets, edits>>,
           open = {}, pc' = "failed", failure' \in {"domain", "other"},
           errors' \in 0..MaxErrors
    PROVE  IInv'
  <1> USE DEF IInv
  <1>1. /\ source' = source /\ opts' = opts /\ tree' = tree /\ ws' = ws /\ ref' = ref
        /\ open' = open /\ lost' = lost /\ edits' = edits /\ todo' = todo
        /\ parsed' = parsed /\ others' = others
    BY DEF world, import
  <1>2. WorldOK'
    BY WorldStays, PcIs, <1>1
  <1>3. CopyOK'
    BY <1>1 DEF CopyOK
  <1>4. CopyWhole'
    BY DEF CopyWhole
  <1>5. RefOK'
    BY <1>1 DEF RefOK
  <1>6. WalkOK'
    BY <1>1 DEF WalkOK
  <1>7. FindingsOK'
    BY DEF FindingsOK
  <1> QED  BY <1>2, <1>3, <1>4, <1>5, <1>6, <1>7

-----------------------------------------------------------------------------
(* The import.                                                              *)
LEMMA ImportedOK ==
    ASSUME IInv, pc \in {"idle", "copy"}, open = {}, NEW files, NEW r, Imported(files, r),
           UNCHANGED <<world, open, lost, facts, failure, edits, errors>>,
           IsTree(files), r.kind \in {"none", "commit", "checksum"}, IsTree(r.files),
           r.kind = "checksum" => r.files = Checksum(files),
           source.inside # Root => \A p \in DOMAIN files : source.inside \notin Above(p),
           (IsLocal /\ edits = 0) => CopiedAll(tree, files)
    PROVE  IInv'
  <1> USE DEF IInv
  <1>1. /\ source' = source /\ opts' = opts /\ tree' = tree /\ open' = {} /\ lost' = lost
        /\ edits' = edits /\ errors' = errors /\ failure' = failure /\ secrets' = secrets
        /\ parsed' = parsed /\ others' = others /\ order' = order /\ head' = head
    BY DEF world, facts
  <1>2. pc' = "files" /\ ws' = files /\ ref' = r /\ todo' = Entries(files, Root)
    BY DEF Imported
  <1>3. WorldOK'
    BY <1>1, <1>2, PcIs DEF WorldOK
  <1>4. CopyOK'
    BY <1>1, <1>2 DEF CopyOK, OpenIn
  <1>5. CopyWhole'
    BY <1>1, <1>2 DEF CopyWhole, IsLocal
  <1>6. RefOK'
    BY <1>2 DEF RefOK
  <1>7. WalkOK'
    <2>1. parsed' = <<>> /\ others' = {}
      BY <1>1 DEF WalkOK
    <2>2. WalkIn(ws, opts, todo)' /\ LeftIn(ws, opts, todo)' = SelectedIn(ws, opts)'
      BY <1>2, WalkStarts
    <2>3. Counts(ws, opts, parsed, others)'
      BY <2>1, CountsNone
    <2>4. Counted' = {}
      BY <2>1 DEF Counted, Paths
    <2> QED  BY <1>2, <2>2, <2>3, <2>4 DEF WalkOK
  <1>8. FindingsOK'
    BY <1>1, <1>2 DEF FindingsOK
  <1> QED  BY <1>3, <1>4, <1>5, <1>6, <1>7, <1>8

LEMMA CommitRefFacts ==
    ASSUME WorldOK  PROVE  CommitRef.kind \in {"none", "commit"} /\ IsTree(CommitRef.files)
  BY NoTreeIsTree DEF WorldOK, CommitRef, NoRef

LEMMA ChecksumRefFacts ==
    ASSUME NEW files, IsTree(files)
    PROVE  /\ ChecksumRef(files).kind = "checksum" /\ IsTree(ChecksumRef(files).files)
           /\ ChecksumRef(files).files = Checksum(files)
  BY ChecksumTree DEF ChecksumRef

LEMMA FetchRemoteOK == ASSUME IInv, FetchRemote  PROVE  IInv'
  <1>1. CASE Imported(tree, CommitRef) /\ UNCHANGED failure
    <2>1. pc = "idle" /\ open = {} /\ ~IsLocal
      BY DEF FetchRemote, IInv, CopyOK, IsLocal
    <2>2. UNCHANGED <<world, open, lost, facts, failure, edits, errors>>
      BY <1>1 DEF FetchRemote
    <2>3. IsTree(tree) /\ \A p \in DOMAIN tree : source.inside \notin Above(p)
      BY DEF IInv, WorldOK, Apart
    <2>4. WorldOK
      BY DEF IInv
    <2> QED  BY <1>1, <2>1, <2>2, <2>3, <2>4, CommitRefFacts, ImportedOK
  <1>2. CASE Fail("domain") /\ UNCHANGED <<ws, ref, todo>>
    <2>1. UNCHANGED <<world, import, todo, parsed, others, secrets, edits, errors>>
      BY <1>2 DEF FetchRemote, import, facts
    <2>2. open = {} /\ errors' \in 0..MaxErrors
      BY <2>1 DEF FetchRemote, IInv, CopyOK, WorldOK
    <2> QED  BY <1>2, <2>1, <2>2, FailsOK DEF Fail
  <1> QED  BY <1>1, <1>2 DEF FetchRemote

LEMMA FetchArchiveOK == ASSUME IInv, FetchArchive  PROVE  IInv'
  <1> DEFINE zip == IF Provider(source) = "zip" THEN "zip" ELSE "tar"
             files == Collapsed(tree, zip = "zip")
  <1>1. CASE Imported(files, ChecksumRef(files)) /\ UNCHANGED <<failure, errors>>
    <2>1. pc = "idle" /\ open = {} /\ ~IsLocal /\ Provider(source) \in {"zip", "targz"}
      BY DEF FetchArchive, IInv, CopyOK, IsLocal
    <2>2. UNCHANGED <<world, open, lost, facts, failure, edits, errors>>
      BY <1>1 DEF FetchArchive
    <2>3. IsTree(files)
      BY CollapsedTree DEF IInv, WorldOK
    <2>4. source.inside = Root
      BY <2>1, RequestFacts, ProviderFacts DEF IInv
    <2> HIDE DEF files
    <2> QED  BY <1>1, <2>1, <2>2, <2>3, <2>4, ChecksumRefFacts, ImportedOK
  <1>2. CASE /\ (Fail("domain") /\ UNCHANGED errors) \/ (Fail("other") /\ Error)
             /\ UNCHANGED <<ws, ref, todo>>
    <2>1. UNCHANGED <<world, import, todo, parsed, others, secrets, edits>>
      BY <1>2 DEF FetchArchive, import, facts
    <2>2. open = {} /\ errors' \in 0..MaxErrors
      BY <1>2, ErrorsOK DEF FetchArchive, IInv, CopyOK
    <2> QED  BY <1>2, <2>1, <2>2, FailsOK DEF Fail
  <1> QED  BY <1>1, <1>2, Zenon DEF FetchArchive

LEMMA FetchNothingOK == ASSUME IInv, FetchNothing  PROVE  IInv'
  <1>1. UNCHANGED <<world, import, todo, parsed, others, secrets, edits, errors>>
    BY DEF FetchNothing, facts
  <1>2. open = {} /\ errors' \in 0..MaxErrors
    BY <1>1 DEF FetchNothing, IInv, CopyOK, WorldOK
  <1> QED  BY <1>1, <1>2, FailsOK DEF FetchNothing, Fail

(* What is left to copy, when a directory is opened.                        *)
LEMMA OpensApart ==
    ASSUME IsTree(tree), IsTree(ws), source.inside \in Seq(Names), NEW d, IsOutside(d)
    PROVE  OpenIn(Copied(d), NoTree, source.inside)
  <1>1. d \in Seq(Names)
    <2>1. Root \in Seq(Names)
      BY DEF Root
    <2> QED  BY <2>1 DEF IsOutside, AllPaths
  <1>2. ASSUME NEW e \in Copied(d), NEW f \in Copied(d), e # f
        PROVE  Apart(e.path, f.path)
    <2>1. /\ e.path \in Seq(Names) /\ Child(d, e.path)
          /\ f.path \in Seq(Names) /\ Child(d, f.path) /\ e.path # f.path
      BY <1>2, ListingFacts DEF AllPaths
    <2> QED  BY <1>1, <2>1, ChildFacts DEF Apart
  <1>3. \A e \in Copied(d) : source.inside # e.path /\ source.inside \notin Above(e.path)
    BY ListingFacts
  <1> QED  BY <1>2, <1>3, NoTreeIsTree DEF OpenIn

LEMMA StartCopyOK == ASSUME IInv, StartCopy  PROVE  IInv'
  <1> USE DEF IInv
  <1>1. /\ pc = "idle" /\ IsLocal /\ pc' = "copy" /\ open' = Copied(Root)
        /\ ref' = IF Provider(source) = "local_git" THEN CommitRef ELSE NoRef
    BY DEF StartCopy, IsLocal
  <1>2. /\ source' = source /\ opts' = opts /\ order' = order /\ tree' = tree
        /\ head' = head /\ ws' = ws /\ lost' = lost /\ todo' = todo /\ parsed' = parsed
        /\ others' = others /\ secrets' = secrets /\ failure' = failure
        /\ edits' = edits /\ errors' = errors
    BY DEF StartCopy, world, facts
  <1>3. ws = NoTree /\ IsTree(ws) /\ IsTree(tree) /\ source.inside \in Seq(Names)
    BY <1>1, NoTreeIsTree, RequestFacts DEF CopyOK, WorldOK
  <1>4. IsOutside(Root)
    BY DEF IsOutside
  <1>5. ref'.kind \in {"none", "commit"} /\ IsTree(ref'.files)
    BY <1>1, CommitRefFacts, NoTreeIsTree DEF NoRef
  <1>6. WorldOK'
    BY <1>1, <1>2, <1>5, PcIs DEF WorldOK
  <1>7. CopyOK'
    <2>1. open' \subseteq [path: AllPaths, dir: BOOLEAN]
      BY <1>1, <1>3, <1>4, ListingFacts
    <2>2. OpenIn(open', ws', source'.inside)
      BY <1>1, <1>2, <1>3, <1>4, OpensApart
    <2>3. IsLocal'
      BY <1>1, <1>2 DEF IsLocal
    <2>4. ref'.kind # "checksum"
      BY <1>5
    <2> QED  BY <1>1, <1>2, <1>3, <2>1, <2>2, <2>3, <2>4, NoTreeIsTree DEF CopyOK
  <1>8. CopyWhole'
    <2>1. Root \in Seq(Names) /\ Clean(Root)
      BY DEF Root, Clean, ToSet
    <2>2. \A e \in Copied(Root) : Clean(e.path)
      BY <1>3, <1>4, <2>1, ListingFacts
    <2>3. \A p \in DOMAIN tree : Clean(p) => Covered(p, Copied(Root))
      BY <1>3, ListingFiles DEF Covered, WorldOK
    <2>4. CopiedPart(tree, ws, Copied(Root), lost)
      BY <1>3, <2>2, <2>3, NoTreeIsTree DEF CopiedPart
    <2> QED  BY <1>1, <1>2, <2>4 DEF CopyWhole
  <1>9. WalkOK'
    BY <1>1, <1>2 DEF WalkOK
  <1>10. RefOK' /\ FindingsOK'
    BY <1>1, <1>2, <1>5 DEF RefOK, FindingsOK
  <1> QED  BY <1>6, <1>7, <1>8, <1>9, <1>10

(* A directory that is come to is replaced by what it holds.                *)
LEMMA CopyDirOK ==
    ASSUME IInv, pc = "copy", NEW e \in open, e.dir,
           open' = (open \ {e}) \cup Copied(e.path), lost' \in {lost, TRUE}
    PROVE  /\ open' \subseteq [path: AllPaths, dir: BOOLEAN]
           /\ OpenIn(open', ws, source.inside)
           /\ edits = 0 => CopiedPart(tree, ws, open', lost')
  <1> USE DEF IInv
  <1> DEFINE d == e.path
             new == Copied(d)
  <1>1. /\ IsTree(ws) /\ IsTree(tree) /\ source.inside \in Seq(Names)
        /\ open \subseteq [path: AllPaths, dir: BOOLEAN] /\ OpenIn(open, ws, source.inside)
    BY RequestFacts DEF CopyOK, WorldOK
  <1>2. d \in AllPaths /\ d \in Seq(Names) /\ d # Root /\ IsOutside(d)
    BY <1>1 DEF OpenIn, IsOutside, AllPaths
  <1> HIDE DEF d
  <1>3. new \subseteq [path: AllPaths, dir: BOOLEAN] /\ OpenIn(new, NoTree, source.inside)
    BY <1>1, <1>2, ListingFacts, OpensApart
  <1>4. ASSUME NEW f \in new
        PROVE  f.path \in Seq(Names) /\ Above(f.path) = Above(d) \cup {d}
    <2>1. f.path \in Seq(Names) /\ Child(d, f.path)
      BY <1>1, <1>2, <1>4, ListingFacts DEF AllPaths
    <2> QED  BY <1>2, <2>1, ChildFacts
  <1>5. ASSUME NEW f \in new, NEW q \in Seq(Names), Apart(q, d)  PROVE  Apart(q, f.path)
    <2>1. q \notin Above(f.path) /\ d \in Above(f.path)
      BY <1>4, <1>5 DEF Apart
    <2>2. f.path # q /\ f.path \notin Above(q)
      BY <1>4, <1>5, <2>1, AboveFacts DEF Apart
    <2> QED  BY <2>1, <2>2 DEF Apart
  <1> HIDE DEF new
  <1>6. OpenIn(open', ws, source.inside)
    <2>1. \A f \in open' : source.inside # f.path /\ source.inside \notin Above(f.path)
      BY <1>1, <1>3 DEF OpenIn, new, d
    <2>2. \A f \in open \ {e} : f.path \in Seq(Names) /\ Apart(f.path, d)
      BY <1>1 DEF OpenIn, AllPaths, d
    <2>3. \A f \in open \ {e} : \A g \in new : Apart(f.path, g.path)
      BY <1>5, <2>2
    <2>4. ASSUME NEW f \in open', NEW g \in open', f # g  PROVE  Apart(f.path, g.path)
      <3>1. (f \in open \ {e} \/ f \in new) /\ (g \in open \ {e} \/ g \in new)
        BY DEF new, d
      <3>2. CASE f \in open \ {e} /\ g \in open \ {e}
        BY <1>1, <2>4, <3>2 DEF OpenIn
      <3>3. CASE f \in new /\ g \in new
        BY <1>3, <2>4, <3>3 DEF OpenIn
      <3>4. CASE f \in open \ {e} /\ g \in new
        BY <2>3, <3>4
      <3>5. CASE f \in new /\ g \in open \ {e}
        BY <2>3, <3>5 DEF Apart
      <3> QED  BY <3>1, <3>2, <3>3, <3>4, <3>5
    <2>5. ASSUME NEW f \in open', NEW p \in DOMAIN ws  PROVE  Apart(p, f.path)
      <3>1. p \in Seq(Names)
        BY <1>1, NodesFacts DEF AllPaths
      <3>2. CASE f \in open \ {e}
        BY <1>1, <3>2 DEF OpenIn
      <3>3. CASE f \in new
        BY <1>1, <1>5, <3>1, <3>3 DEF OpenIn, d
      <3> QED  BY <3>2, <3>3 DEF new, d
    <2> QED  BY <2>1, <2>4, <2>5 DEF OpenIn
  <1>7. ASSUME edits = 0  PROVE  CopiedPart(tree, ws, open', lost')
    <2>1. CopiedPart(tree, ws, open, lost)
      BY <1>7 DEF CopyWhole
    <2>2. Clean(d)
      BY <2>1 DEF CopiedPart, d
    <2>3. \A f \in open' : Clean(f.path)
      BY <1>1, <1>2, <2>1, <2>2, ListingFacts DEF CopiedPart, d
    <2>4. ASSUME NEW p \in DOMAIN tree, Clean(p), Covered(p, open)  PROVE  Covered(p, open')
      <3>1. PICK f \in open : IF f.dir THEN f.path \in Above(p) ELSE f.path = p
        BY <2>4 DEF Covered
      <3>2. CASE f # e
        BY <3>1, <3>2 DEF Covered
      <3>3. CASE f = e
        <4>1. d \in Above(p) /\ Apart(p, source.inside)
          BY <3>1, <3>3 DEF d, WorldOK
        <4>2. \E g \in new : IF g.dir THEN g.path \in Above(p) ELSE g.path = p
          BY <1>1, <2>4, <4>1, ListingFiles DEF new
        <4> QED  BY <4>2 DEF Covered, new, d
      <3> QED  BY <3>2, <3>3
    <2>5. CASE lost' = lost
      BY <2>1, <2>3, <2>4, <2>5 DEF CopiedPart
    <2>6. CASE lost' = TRUE
      BY <2>1, <2>3, <2>6 DEF CopiedPart
    <2> QED  BY <2>5, <2>6
  <1> QED  BY <1>1, <1>3, <1>6, <1>7 DEF new, d

(* A file is copied as it is now, or lost.                                  *)
LEMMA CopyFileOK ==
    ASSUME IInv, pc = "copy", NEW e \in open, ~e.dir, CopyFile(e)
    PROVE  /\ open' \subseteq open /\ IsTree(ws') /\ lost' \in BOOLEAN
           /\ OpenIn(open', ws', source.inside)
           /\ source.inside # Root => \A p \in DOMAIN ws' : source.inside \notin Above(p)
           /\ edits = 0 => CopiedPart(tree, ws', open', lost')
           /\ errors' \in 0..MaxErrors
  <1> USE DEF IInv
  <1>1. /\ IsTree(ws) /\ IsTree(tree) /\ source.inside \in Seq(Names) /\ lost \in BOOLEAN
        /\ open \subseteq [path: AllPaths, dir: BOOLEAN] /\ OpenIn(open, ws, source.inside)
        /\ source.inside # Root => \A p \in DOMAIN ws : source.inside \notin Above(p)
    BY RequestFacts DEF CopyOK, WorldOK
  <1>2. open' = open \ {e}
    BY DEF CopyFile
  <1>3. e.path \in AllPaths /\ source.inside \notin Above(e.path) /\ source.inside # e.path
    BY <1>1 DEF OpenIn
  <1>4. \A p \in DOMAIN tree : Covered(p, open) => Covered(p, open') \/ p = e.path
    BY <1>2 DEF Covered
  <1>5. CASE /\ e.path \in DOMAIN View
             /\ ws' = [p \in DOMAIN ws \cup {e.path} |-> IF p = e.path THEN View[p] ELSE ws[p]]
             /\ UNCHANGED <<lost, errors>>
    <2>1. e.path \in DOMAIN tree /\ View[e.path] = tree[e.path]
      BY <1>1, <1>3, <1>5, ViewFacts
    <2>2. /\ DOMAIN ws' = DOMAIN ws \cup {e.path} /\ ws'[e.path] = tree[e.path]
          /\ \A p \in DOMAIN ws \ {e.path} : ws'[p] = ws[p]
      BY <1>5, <2>1
    <2>3. e.path \notin DOMAIN ws /\ e.path \notin Above(e.path)
      BY <1>1, <1>3, AboveFacts DEF OpenIn, Apart, AllPaths
    <2>4. IsTree(ws')
      <3>1. \A p \in DOMAIN ws' : ws'[p] \in Contents
        BY <1>1, <2>1, <2>2 DEF IsTree
      <3>2. ws' \in [DOMAIN ws' -> Contents]
        <4>1. ws' = [p \in DOMAIN ws' |-> ws'[p]]
          BY <1>5
        <4> QED  BY <3>1, <4>1
      <3>3. DOMAIN ws' \subseteq Seq(Names) \ {Root}
        BY <1>1, <1>3, <2>2 DEF IsTree, AllPaths
      <3>4. \A p, q \in DOMAIN ws' : p \notin Above(q)
        BY <1>1, <2>2, <2>3 DEF IsTree, OpenIn, Apart
      <3> QED  BY <3>2, <3>3, <3>4 DEF IsTree
    <2>5. OpenIn(open', ws', source.inside)
      BY <1>1, <1>2, <2>2 DEF OpenIn, Apart
    <2>6. edits = 0 => CopiedPart(tree, ws', open', lost')
      <3> SUFFICES ASSUME edits = 0  PROVE  CopiedPart(tree, ws', open', lost')
        OBVIOUS
      <3>1. CopiedPart(tree, ws, open, lost)
        BY DEF CopyWhole
      <3>2. \A p \in DOMAIN ws' : p \in DOMAIN tree /\ Clean(p) /\ ws'[p] = tree[p]
        BY <2>1, <2>2, <3>1 DEF CopiedPart
      <3>3. \A p \in DOMAIN tree :
               Clean(p) => lost' \/ p \in DOMAIN ws' \/ Covered(p, open')
        BY <1>4, <1>5, <2>2, <3>1 DEF CopiedPart
      <3> QED  BY <1>2, <3>1, <3>2, <3>3 DEF CopiedPart
    <2>7. source.inside # Root => \A p \in DOMAIN ws' : source.inside \notin Above(p)
      BY <1>1, <1>3, <2>2
    <2>8. errors' \in 0..MaxErrors /\ lost' \in BOOLEAN
      BY <1>1, <1>5 DEF WorldOK
    <2> QED  BY <1>2, <2>4, <2>5, <2>6, <2>7, <2>8
  <1>6. CASE /\ IF e.path \in DOMAIN View THEN Error ELSE UNCHANGED errors
             /\ lost' = TRUE
             /\ UNCHANGED ws
    <2>1. OpenIn(open', ws', source.inside)
      BY <1>1, <1>2, <1>6 DEF OpenIn
    <2>2. edits = 0 => CopiedPart(tree, ws', open', lost')
      BY <1>2, <1>6 DEF CopiedPart, CopyWhole
    <2>3. errors' \in 0..MaxErrors
      BY <1>6, ErrorsOK
    <2> QED  BY <1>1, <1>2, <1>6, <2>1, <2>2, <2>3
  <1> QED  BY <1>5, <1>6 DEF CopyFile

LEMMA CopyNextOK == ASSUME IInv, CopyNext  PROVE  IInv'
  <1> USE DEF IInv
  <1>1. pc = "copy" /\ IsLocal /\ todo = {} /\ parsed = <<>> /\ others = {}
    BY DEF CopyNext, CopyOK, WalkOK
  <1>2. PICK e \in open : CopyDir(e) \/ CopyFile(e)
    BY DEF CopyNext
  <1>3. /\ source' = source /\ opts' = opts /\ order' = order /\ tree' = tree
        /\ head' = head /\ ref' = ref /\ todo' = todo /\ parsed' = parsed /\ pc' = pc
        /\ others' = others /\ secrets' = secrets /\ failure' = failure
        /\ edits' = edits
    BY DEF CopyNext, world, facts
  <1>4. /\ open' \subseteq [path: AllPaths, dir: BOOLEAN] /\ IsTree(ws')
        /\ OpenIn(open', ws', source.inside) /\ lost' \in BOOLEAN
        /\ source.inside # Root => \A p \in DOMAIN ws' : source.inside \notin Above(p)
        /\ edits = 0 => CopiedPart(tree, ws', open', lost')
        /\ errors' \in 0..MaxErrors
    <2>1. CASE CopyDir(e)
      <3>1. e.dir /\ open' = (open \ {e}) \cup Copied(e.path)
            /\ ws' = ws /\ lost' \in {lost, TRUE} /\ errors' = errors
        BY <2>1 DEF CopyDir
      <3>2. /\ open' \subseteq [path: AllPaths, dir: BOOLEAN]
            /\ OpenIn(open', ws, source.inside)
            /\ edits = 0 => CopiedPart(tree, ws, open', lost')
        BY <1>1, <3>1, CopyDirOK
      <3> QED  BY <3>1, <3>2 DEF CopyOK, WorldOK
    <2>2. CASE CopyFile(e)
      <3>1. ~e.dir /\ open \subseteq [path: AllPaths, dir: BOOLEAN]
        BY <2>2 DEF CopyFile, CopyOK
      <3>2. /\ open' \subseteq open /\ IsTree(ws') /\ lost' \in BOOLEAN
            /\ OpenIn(open', ws', source.inside)
            /\ source.inside # Root => \A p \in DOMAIN ws' : source.inside \notin Above(p)
            /\ edits = 0 => CopiedPart(tree, ws', open', lost')
            /\ errors' \in 0..MaxErrors
        BY <1>1, <2>2, <3>1, CopyFileOK
      <3> QED  BY <3>1, <3>2
    <2> QED  BY <1>2, <2>1, <2>2
  <1>5. WorldOK'
    BY <1>3, <1>4 DEF WorldOK
  <1>6. CopyOK'
    <2>1. IsLocal'
      BY <1>1, <1>3 DEF IsLocal
    <2>2. ref'.kind # "checksum"
      BY <1>1, <1>3 DEF CopyOK
    <2> QED  BY <1>1, <1>3, <1>4, <2>1, <2>2 DEF CopyOK
  <1>7. CopyWhole'
    BY <1>1, <1>3, <1>4 DEF CopyWhole
  <1>8. WalkOK'
    BY <1>1, <1>3, WalkNoMore, CountsNone DEF WalkOK
  <1>9. RefOK' /\ FindingsOK'
    BY <1>1, <1>3 DEF RefOK, CopyOK, FindingsOK
  <1> QED  BY <1>5, <1>6, <1>7, <1>8, <1>9

LEMMA CopyEndsOK == ASSUME IInv, CopyEnds  PROVE  IInv'
  <1>1. /\ pc = "copy" /\ open = {} /\ IsTree(ws) /\ ref.kind # "checksum"
        /\ ref.kind \in {"none", "commit", "checksum"} /\ IsTree(ref.files)
        /\ source.inside # Root => \A p \in DOMAIN ws : source.inside \notin Above(p)
    BY DEF CopyEnds, IInv, CopyOK, WorldOK
  <1> DEFINE r == IF ref = NoRef THEN ChecksumRef(ws) ELSE ref
  <1>2. CASE lost
    <2>1. Fail("other") /\ UNCHANGED <<ws, ref, todo>>
      BY <1>2 DEF CopyEnds
    <2>2. UNCHANGED <<world, import, todo, parsed, others, secrets, edits, errors>>
      BY <2>1 DEF CopyEnds, import, facts
    <2>3. errors' \in 0..MaxErrors
      BY <2>2 DEF IInv, WorldOK
    <2> QED  BY <1>1, <2>1, <2>2, <2>3, FailsOK DEF Fail
  <1>3. CASE ~lost
    <2>1. Imported(ws, r) /\ UNCHANGED failure
      BY <1>3 DEF CopyEnds
    <2>2. UNCHANGED <<world, open, lost, facts, failure, edits, errors>>
      BY <2>1 DEF CopyEnds
    <2>3. /\ r.kind \in {"none", "commit", "checksum"} /\ IsTree(r.files)
          /\ r.kind = "checksum" => r.files = Checksum(ws)
      BY <1>1, ChecksumRefFacts
    <2>4. edits = 0 => CopiedAll(tree, ws)
      <3> SUFFICES ASSUME edits = 0  PROVE  CopiedAll(tree, ws)
        OBVIOUS
      <3>1. CopiedPart(tree, ws, {}, FALSE)
        BY <1>1, <1>3 DEF IInv, CopyWhole, WorldOK
      <3>2. /\ \A p \in DOMAIN ws : p \in DOMAIN tree /\ Clean(p) /\ ws[p] = tree[p]
            /\ \A p \in DOMAIN tree : Clean(p) => p \in DOMAIN ws
        BY <3>1 DEF CopiedPart, Covered
      <3>3. DOMAIN ws = {q \in DOMAIN tree : Clean(q)}
        BY <3>2
      <3>4. ws = [p \in DOMAIN ws |-> ws[p]]
        BY <1>1 DEF IsTree
      <3> QED  BY <3>2, <3>3, <3>4 DEF CopiedAll
    <2> HIDE DEF r
    <2> QED  BY <1>1, <2>1, <2>2, <2>3, <2>4, ImportedOK
  <1> QED  BY <1>2, <1>3

-----------------------------------------------------------------------------
(* What others do.                                                          *)
LEMMA EditOK == ASSUME IInv, NEW c \in Changes, Edit(c[1], c[2])  PROVE  IInv'
  <1> USE DEF IInv
  <1> DEFINE p == c[1]
             kept == DOMAIN tree \ {p}
             new == IF c[2] = None THEN {} ELSE {p}
  <1>1. p \in AllPaths /\ c[2] \in Contents \cup {None}
    BY RequestsAssumption DEF AllPaths
  <1>2. /\ pc \in {"idle", "copy"} /\ edits < MaxEdits /\ edits' = edits + 1
        /\ IsFilePath(p)
        /\ tree' = [q \in kept \cup new |-> IF q = p THEN c[2] ELSE tree[q]]
    BY DEF Edit
  <1>3. /\ pc' = pc /\ source' = source /\ opts' = opts /\ order' = order /\ head' = head
        /\ ws' = ws /\ ref' = ref /\ open' = open /\ lost' = lost /\ todo' = todo
        /\ parsed' = parsed /\ others' = others /\ secrets' = secrets
        /\ failure' = failure /\ errors' = errors
    BY DEF Edit, import, facts
  <1>4. /\ IsTree(tree) /\ \A q \in DOMAIN tree : Apart(q, source.inside)
        /\ edits \in 0..MaxEdits
    BY DEF WorldOK
  <1>5. /\ \A q \in DOMAIN tree : p \notin Above(q) /\ q \notin Above(p)
        /\ Apart(p, source.inside) /\ p \notin Above(p)
    BY <1>1, <1>2, AboveFacts DEF IsFilePath, IsDir, AllPaths
  <1>6. /\ DOMAIN tree' = kept \cup new
        /\ \A q \in DOMAIN tree' : tree'[q] = IF q = p THEN c[2] ELSE tree[q]
    BY <1>2
  <1> HIDE DEF p
  <1>7. IsTree(tree')
    <2>1. \A q \in DOMAIN tree' : tree'[q] \in Contents
      BY <1>1, <1>4, <1>6 DEF IsTree
    <2>2. tree' \in [DOMAIN tree' -> Contents]
      <3>1. tree' = [q \in DOMAIN tree' |-> tree'[q]]
        BY <1>2
      <3> QED  BY <2>1, <3>1
    <2>3. DOMAIN tree' \subseteq Seq(Names) \ {Root}
      BY <1>1, <1>4, <1>6 DEF IsTree, AllPaths
    <2>4. \A q, r \in DOMAIN tree' : q \notin Above(r)
      BY <1>4, <1>5, <1>6 DEF IsTree
    <2> QED  BY <2>2, <2>3, <2>4 DEF IsTree
  <1>8. WorldOK'
    <2>1. \A q \in DOMAIN tree' : Apart(q, source.inside)
      BY <1>4, <1>5, <1>6
    <2>2. edits' \in 0..MaxEdits
      BY <1>2, <1>4, BoundsAssumption
    <2> QED  BY <1>3, <1>7, <2>1, <2>2 DEF WorldOK
  <1>9. CopyOK'
    BY <1>3 DEF CopyOK, IsLocal
  <1>10. CopyWhole'
    BY <1>2, <1>4 DEF CopyWhole
  <1>11. WalkOK'
    BY <1>2, <1>3 DEF WalkOK
  <1>12. RefOK' /\ FindingsOK'
    BY <1>2, <1>3 DEF RefOK, FindingsOK
  <1> QED  BY <1>8, <1>9, <1>10, <1>11, <1>12

LEMMA CommitOK == ASSUME IInv, Commit  PROVE  IInv'
  <1> USE DEF IInv
  <1>1. pc \in {"idle", "copy"} /\ head' = tree
    BY DEF Commit
  <1>2. /\ pc' = pc /\ source' = source /\ opts' = opts /\ order' = order /\ tree' = tree
        /\ ws' = ws /\ ref' = ref /\ open' = open /\ lost' = lost /\ todo' = todo
        /\ parsed' = parsed /\ others' = others /\ secrets' = secrets
        /\ failure' = failure /\ edits' = edits /\ errors' = errors
    BY DEF Commit, import, facts
  <1>3. WorldOK'
    BY <1>1, <1>2 DEF WorldOK
  <1>4. CopyOK' /\ CopyWhole'
    BY <1>2 DEF CopyOK, CopyWhole, IsLocal
  <1>5. WalkOK' /\ RefOK' /\ FindingsOK'
    BY <1>1, <1>2 DEF WalkOK, RefOK, FindingsOK
  <1> QED  BY <1>3, <1>4, <1>5

LEMMA StutterOK == ASSUME IInv, UNCHANGED vars  PROVE  IInv'
  <1> USE DEF IInv
  <1>1. /\ pc' = pc /\ source' = source /\ opts' = opts /\ order' = order /\ tree' = tree
        /\ head' = head /\ ws' = ws /\ ref' = ref /\ open' = open /\ lost' = lost
        /\ todo' = todo /\ parsed' = parsed /\ others' = others /\ secrets' = secrets
        /\ failure' = failure /\ edits' = edits /\ errors' = errors
    BY DEF vars, world, import, facts
  <1>2. WorldOK' /\ CopyOK' /\ CopyWhole'
    BY <1>1 DEF WorldOK, CopyOK, CopyWhole, IsLocal
  <1>3. Counted' = Counted
    BY <1>1 DEF Counted, Paths
  <1>4. WalkOK' /\ RefOK' /\ FindingsOK'
    BY <1>1, <1>3 DEF WalkOK, RefOK, FindingsOK
  <1> QED  BY <1>2, <1>4

-----------------------------------------------------------------------------
(* The three passes.  What is below a path comes after all that it does.    *)
LEMMA BeforeBelow ==
    ASSUME NEW p \in Seq(Names), NEW e \in Seq(Names), NEW q \in Seq(Names),
           Before(p, e), Below(q, e)
    PROVE  Before(p, q)
  <1>1. Len(e) <= Len(q) /\ \A i \in 1..Len(e) : q[i] = e[i]
    <2>1. CASE q = e
      BY <2>1
    <2>2. CASE e \in Above(q)
      BY <2>2, AboveIs
    <2> QED  BY <2>1, <2>2 DEF Below
  <1>2. PICK i \in 1..Len(p) : /\ i <= Len(e) /\ SubSeq(p, 1, i - 1) = SubSeq(e, 1, i - 1)
                               /\ NameRank[p[i]] < NameRank[e[i]]
    BY DEF Before
  <1>3. i \in 1..Len(e) /\ i <= Len(q) /\ q[i] = e[i]
    BY <1>1, <1>2
  <1>4. SubSeq(q, 1, i - 1) = SubSeq(e, 1, i - 1)
    <2> DEFINE s == SubSeq(q, 1, i - 1)
               t == SubSeq(e, 1, i - 1)
    <2>1. /\ s \in Seq(Names) /\ Len(s) = i - 1 /\ \A j \in 1..(i - 1) : s[j] = q[j]
          /\ t \in Seq(Names) /\ Len(t) = i - 1 /\ \A j \in 1..(i - 1) : t[j] = e[j]
      BY <1>1, <1>3
    <2>2. \A j \in 1..(i - 1) : q[j] = e[j]
      BY <1>1, <1>3
    <2> HIDE DEF s, t
    <2>3. s = t
      BY <2>1, <2>2, SeqEqual
    <2> QED  BY <2>3 DEF s, t
  <1> QED  BY <1>2, <1>3, <1>4 DEF Before

(* The next path of a walk that is in order keeps it in order.              *)
LEMMA OrderGoesOn ==
    ASSUME NEW w, IsTree(w), NEW o, NEW T, WalkIn(w, o, T), InOrderUpTo(w, o, T),
           NEW p, IsNext(p, T), ~IsDir(w, p)
    PROVE  InOrderUpTo(w, o, T \ {p})
  <1>1. p \in T /\ \A e \in T \ {p} : Before(p, e)
    BY DEF IsNext
  <1>2. T \subseteq AllPaths /\ DOMAIN w \subseteq AllPaths
    BY NodesFacts DEF WalkIn
  <1>3. LeftIn(w, o, T \ {p}) = LeftIn(w, o, T) \ {p}
    BY <1>1, WalkPasses
  <1>4. ASSUME NEW q \in LeftIn(w, o, T \ {p})  PROVE  Before(p, q)
    <2>1. PICK e \in T \ {p} : Below(q, e)
      BY <1>4 DEF LeftIn
    <2>2. p \in Seq(Names) /\ e \in Seq(Names) /\ q \in Seq(Names)
      BY <1>1, <1>2, <1>4, <2>1 DEF AllPaths, LeftIn, SelectedIn
    <2> QED  BY <1>1, <2>1, <2>2, BeforeBelow
  <1> QED  BY <1>3, <1>4 DEF InOrderUpTo, Come

LEMMA PathsAppend ==
    ASSUME NEW S, NEW files \in Seq(S), NEW f
    PROVE  Paths(Append(files, f)) = Paths(files) \cup {f.path}
  <1> DEFINE more == Append(files, f)
  <1>1. /\ DOMAIN more = 1..(Len(files) + 1) /\ DOMAIN files = 1..Len(files)
        /\ \A i \in 1..Len(files) : more[i] = files[i]
        /\ more[Len(files) + 1] = f /\ Len(files) \in Nat
    BY AppendProperties
  <1> HIDE DEF more
  <1>2. 1..(Len(files) + 1) = (1..Len(files)) \cup {Len(files) + 1}
    BY <1>1
  <1> QED  BY <1>1, <1>2 DEF Paths, more

LEMMA ParsedPath == ASSUME NEW p, NEW c  PROVE  ParsedFile(p, c).path = p
  BY DEF ParsedFile

(* One more file is counted, once.                                          *)
LEMMA CountsParsed ==
    ASSUME NEW w, NEW o, NEW files, NEW rest, Counts(w, o, files, rest),
           NEW p \in SelectedIn(w, o), p \notin Paths(files) \cup rest
    PROVE  /\ Counts(w, o, Append(files, ParsedFile(p, w[p])), rest)
           /\ Paths(Append(files, ParsedFile(p, w[p]))) = Paths(files) \cup {p}
  <1> DEFINE f == ParsedFile(p, w[p])
             more == Append(files, f)
             C == Paths(files) \cup rest
  <1>1. files \in Seq(ParsedIn(w)) /\ f \in ParsedIn(w) /\ f.path = p
    BY ParsedPath DEF Counts, ParsedIn, SelectedIn
  <1> HIDE DEF f
  <1>2. /\ more \in Seq(ParsedIn(w)) /\ Len(more) = Len(files) + 1
        /\ Paths(more) = Paths(files) \cup {p} /\ Len(files) \in Nat
    BY <1>1, PathsAppend
  <1> HIDE DEF more
  <1>3. Paths(more) \cup rest = C \cup {p}
    BY <1>2
  <1>4. IsFiniteSet(C) /\ Len(files) + Cardinality(rest) = Cardinality(C)
        /\ IsFiniteSet(rest) /\ C \subseteq SelectedIn(w, o)
    BY FS_Subset DEF Counts
  <1>5. /\ IsFiniteSet(C \cup {p}) /\ Cardinality(C \cup {p}) = Cardinality(C) + 1
        /\ Cardinality(C) \in Nat /\ Cardinality(rest) \in Nat
    BY <1>4, FS_AddElement, FS_CardinalityType
  <1>6. Len(more) + Cardinality(rest) = Cardinality(C \cup {p})
    BY <1>2, <1>4, <1>5
  <1> QED  BY <1>2, <1>3, <1>4, <1>5, <1>6, Zenon DEF Counts, more, f

LEMMA CountsOther ==
    ASSUME NEW w, NEW o, NEW files, NEW rest, Counts(w, o, files, rest),
           NEW p \in SelectedIn(w, o), p \notin Paths(files) \cup rest
    PROVE  Counts(w, o, files, rest \cup {p})
  <1> DEFINE C == Paths(files) \cup rest
  <1>1. /\ IsFiniteSet(C) /\ Len(files) + Cardinality(rest) = Cardinality(C)
        /\ IsFiniteSet(rest) /\ C \subseteq SelectedIn(w, o) /\ Len(files) \in Nat
        /\ files \in Seq(ParsedIn(w))
    BY FS_Subset DEF Counts
  <1>2. /\ IsFiniteSet(C \cup {p}) /\ Cardinality(C \cup {p}) = Cardinality(C) + 1
        /\ Cardinality(C) \in Nat /\ Cardinality(rest) \in Nat
        /\ Cardinality(rest \cup {p}) = Cardinality(rest) + 1
    BY <1>1, FS_AddElement, FS_CardinalityType
  <1>3. Paths(files) \cup (rest \cup {p}) = C \cup {p}
    OBVIOUS
  <1>4. Len(files) + Cardinality(rest \cup {p}) = Cardinality(C \cup {p})
    BY <1>1, <1>2
  <1>5. C \cup {p} \subseteq SelectedIn(w, o)
    BY <1>1
  <1> QED  BY <1>1, <1>2, <1>3, <1>4, <1>5, Zenon DEF Counts

(* What the walk passes over is not selected.                               *)
LEMMA PassesBy ==
    ASSUME IsTree(ws), WalkIn(ws, opts, todo), NEW p \in todo, ~Yields(ws, opts, p),
           todo' = Walk(ws, opts, todo, p)
    PROVE  WalkIn(ws, opts, todo') /\ LeftIn(ws, opts, todo') = LeftIn(ws, opts, todo)
  <1>1. CASE IsDir(ws, p)
    BY <1>1, WalkEnters
  <1>2. CASE ~IsDir(ws, p)
    <2>1. p \notin SelectedIn(ws, opts)
      BY <1>2, WalkPasses DEF Yields
    <2>2. p \notin LeftIn(ws, opts, todo)
      BY <2>1 DEF LeftIn
    <2>3. Walk(ws, opts, todo, p) = todo \ {p}
      BY <1>2 DEF Walk
    <2>4. WalkIn(ws, opts, todo \ {p})
      BY <1>2, WalkPasses
    <2>5. LeftIn(ws, opts, todo \ {p}) = LeftIn(ws, opts, todo) \ {p}
      BY <1>2, WalkPasses
    <2> QED  BY <2>2, <2>3, <2>4, <2>5
  <1> QED  BY <1>1, <1>2

LEMMA PassByOK == ASSUME IInv, PassBy  PROVE  IInv'
  <1> USE DEF IInv
  <1>1. PICK p \in todo : ~Yields(ws, opts, p) /\ todo' = Walk(ws, opts, todo, p)
    BY DEF PassBy, Advance
  <1>2. /\ pc \in {"files", "manifests", "secrets"} /\ pc' = pc
        /\ UNCHANGED <<world, import, facts, edits, errors, failure>>
    BY DEF PassBy, InPass
  <1>3. /\ ws' = ws /\ opts' = opts /\ parsed' = parsed /\ others' = others
        /\ secrets' = secrets /\ errors' = errors /\ ref' = ref /\ lost' = lost
    BY <1>2 DEF world, import, facts
  <1>5. WalkIn(ws, opts, todo') /\ LeftIn(ws, opts, todo') = LeftIn(ws, opts, todo)
    BY <1>1, PassesBy DEF CopyOK, WalkOK
  <1>6. WorldOK'
    BY <1>2, <1>3, WorldStays, ErrorsOK, PcIs DEF WorldOK
  <1>7. CopyOK' /\ CopyWhole' /\ RefOK'
    BY <1>2, ImportStays
  <1>8. WalkOK'
    <2>1. Counted' = Counted
      BY <1>3 DEF Counted, Paths
    <2> QED  BY <1>2, <1>3, <1>5, <2>1 DEF WalkOK
  <1>9. FindingsOK'
    BY <1>2, <1>3, <1>5 DEF FindingsOK, InOrderUpTo, Come
  <1> QED  BY <1>6, <1>7, <1>8, <1>9

LEMMA ParseFileOK == ASSUME IInv, NEW p \in todo, ParseFile(p)  PROVE  IInv'
  <1> USE DEF IInv
  <1>1. /\ pc = "files" /\ IsTree(ws) /\ WalkIn(ws, opts, todo) /\ open = {}
        /\ Counts(ws, opts, parsed, others) /\ Keeps(ws, opts, p) /\ ~IsDir(ws, p)
        /\ Counted = SelectedIn(ws, opts) \ LeftIn(ws, opts, todo)
    BY DEF ParseFile, CopyOK, WalkOK, Yields
  <1>2. UNCHANGED <<world, import, secrets, edits>>
    BY DEF ParseFile
  <1>3. /\ WalkIn(ws, opts, todo \ {p}) /\ Walk(ws, opts, todo, p) = todo \ {p}
        /\ p \in SelectedIn(ws, opts) /\ p \in LeftIn(ws, opts, todo)
        /\ LeftIn(ws, opts, todo \ {p}) = LeftIn(ws, opts, todo) \ {p}
    <2>1. Walk(ws, opts, todo, p) = todo \ {p}
      BY <1>1 DEF Walk
    <2> QED  BY <1>1, <2>1, WalkPasses
  <1>4. p \notin Paths(parsed) \cup others
    BY <1>1, <1>3 DEF Counted
  <1>5. ASSUME pc' = pc, UNCHANGED failure, UNCHANGED errors \/ Error, Advance(p),
               Counts(ws, opts, parsed', others'),
               Paths(parsed') \cup others' = Counted \cup {p}
        PROVE  IInv'
    <2>1. ws' = ws /\ opts' = opts /\ secrets' = secrets /\ todo' = todo \ {p}
      BY <1>2, <1>3, <1>5 DEF world, import, Advance
    <2>2. WorldOK'
      <3>1. errors' \in 0..MaxErrors
        BY <1>5, ErrorsOK
      <3> QED  BY <1>1, <1>2, <1>5, <3>1, WorldStays, PcIs DEF WorldOK, import
    <2>3. CopyOK' /\ CopyWhole' /\ RefOK'
      BY <1>1, <1>2, <1>5, ImportStays
    <2>4. WalkOK'
      <3>1. Counted' = Counted \cup {p}
        BY <1>5 DEF Counted, Paths
      <3>2. Counted' = SelectedIn(ws, opts) \ LeftIn(ws, opts, todo')
        BY <1>1, <1>3, <2>1, <3>1
      <3> QED  BY <1>1, <1>3, <1>5, <2>1, <3>2 DEF WalkOK
    <2>5. FindingsOK'
      BY <1>1, <1>5, <2>1 DEF FindingsOK
    <2> QED  BY <2>2, <2>3, <2>4, <2>5
  <1>6. CASE /\ IF Language(p) = "unknown" THEN UNCHANGED errors ELSE Error
             /\ others' = others \cup {p} /\ Advance(p)
             /\ UNCHANGED <<pc, parsed, failure>>
    <2>1. Counts(ws, opts, parsed', others')
      BY <1>1, <1>3, <1>4, <1>6, CountsOther
    <2>2. Paths(parsed') \cup others' = Counted \cup {p}
      BY <1>6 DEF Counted, Paths
    <2> QED  BY <1>5, <1>6, <2>1, <2>2
  <1>7. CASE Fail("other") /\ UNCHANGED <<parsed, others, todo, errors>>
    <2>1. errors' \in 0..MaxErrors
      BY <1>7 DEF WorldOK
    <2> QED  BY <1>1, <1>2, <1>7, <2>1, FailsOK DEF Fail
  <1>8. CASE /\ parsed' = Append(parsed, ParsedFile(p, ws[p])) /\ Advance(p)
             /\ UNCHANGED <<pc, others, failure, errors>>
    <2>1. /\ Counts(ws, opts, parsed', others')
          /\ Paths(parsed') = Paths(parsed) \cup {p}
      BY <1>1, <1>3, <1>4, <1>8, CountsParsed
    <2>2. Paths(parsed') \cup others' = Counted \cup {p}
      BY <1>8, <2>1 DEF Counted
    <2> QED  BY <1>5, <1>8, <2>1, <2>2
  <1> QED  BY <1>6, <1>7, <1>8 DEF ParseFile

LEMMA ReadManifestOK == ASSUME IInv, NEW p \in todo, ReadManifest(p)  PROVE  IInv'
  <1> USE DEF IInv
  <1>1. /\ pc = "manifests" /\ IsTree(ws) /\ WalkIn(ws, opts, todo) /\ open = {}
        /\ ~IsDir(ws, p)
    BY DEF ReadManifest, CopyOK, WalkOK, Yields
  <1>2. UNCHANGED <<world, import, parsed, others, secrets, edits>>
    BY DEF ReadManifest
  <1>3. CASE Fail("other") /\ UNCHANGED <<stacks, deps, todo, errors>>
    <2>1. errors' \in 0..MaxErrors
      BY <1>3 DEF WorldOK
    <2> QED  BY <1>1, <1>2, <1>3, <2>1, FailsOK DEF Fail
  <1>4. CASE pc' = pc /\ UNCHANGED failure /\ Advance(p) /\ (UNCHANGED errors \/ Error)
    <2>1. ws' = ws /\ opts' = opts /\ parsed' = parsed /\ others' = others
          /\ secrets' = secrets /\ todo' = Walk(ws, opts, todo, p)
      BY <1>2, <1>4 DEF world, import, Advance
    <2>2. WalkIn(ws, opts, todo')
      <3>1. todo' = todo \ {p}
        BY <1>1, <2>1 DEF Walk
      <3> QED  BY <1>1, <3>1, WalkPasses
    <2>3. WorldOK'
      <3>1. errors' \in 0..MaxErrors
        BY <1>4, ErrorsOK
      <3> QED  BY <1>1, <1>2, <1>4, <3>1, WorldStays, PcIs DEF WorldOK, import
    <2>4. CopyOK' /\ CopyWhole' /\ RefOK'
      BY <1>1, <1>2, <1>4, ImportStays
    <2>5. WalkOK'
      BY <1>1, <1>4, <2>1, <2>2, CountsStay
    <2>6. FindingsOK'
      BY <1>1, <1>4, <2>1 DEF FindingsOK
    <2> QED  BY <2>3, <2>4, <2>5, <2>6
  <1> QED  BY <1>3, <1>4 DEF ReadManifest

-----------------------------------------------------------------------------
(* The findings of one file, and of a list that they are added to.          *)
LEMMA SecretsFacts ==
    ASSUME NEW p, NEW c \in Contents, NEW s, s = SecretsIn(p, c)
    PROVE  /\ s \in Seq(ToSet(s)) /\ Len(s) \in Nat /\ DOMAIN s = 1..Len(s)
           /\ \A i \in 1..Len(s) : s[i].path = p /\ s[i].line = i
  <1>1. CASE Bytes[c] > MaxSecretBytes
    BY <1>1 DEF SecretsIn, ToSet
  <1>2. CASE ~(Bytes[c] > MaxSecretBytes)
    <2> DEFINE n == Len(Secrets[c])
    <2>1. n \in Nat
      BY FactsAssumption
    <2>2. s = [i \in 1..n |-> [rule |-> Secrets[c][i], path |-> p, line |-> i]]
      BY <1>2, Zenon DEF SecretsIn
    <2> HIDE DEF n
    <2>3. /\ s \in Seq(ToSet(s)) /\ Len(s) = n /\ DOMAIN s = 1..n
      <3>1. DOMAIN s = 1..n /\ s = [i \in 1..n |-> s[i]]
        BY <2>2
      <3>2. \A i \in 1..n : s[i] \in ToSet(s)
        BY <3>1 DEF ToSet
      <3>3. s \in [1..n -> ToSet(s)]
        BY <3>1, <3>2
      <3> QED  BY <2>1, <3>1, <3>3, SeqDef, LenProperties
    <2> QED  BY <2>1, <2>2, <2>3
  <1> QED  BY <1>1, <1>2

LEMMA FoundPath ==
    ASSUME NEW w, IsTree(w), NEW files \in SUBSET DOMAIN w, NEW f \in AllFound(w, files)
    PROVE  f.path \in files
  <1>1. PICK q \in files : f \in FoundIn(w, q)
    BY DEF AllFound
  <1> DEFINE s == SecretsIn(q, w[q])
  <1>2. w[q] \in Contents /\ f \in ToSet(s)
    BY <1>1 DEF IsTree, FoundIn
  <1> HIDE DEF s
  <1>3. DOMAIN s = 1..Len(s) /\ \A i \in 1..Len(s) : s[i].path = q
    BY <1>2, SecretsFacts DEF s
  <1> QED  BY <1>1, <1>2, <1>3 DEF ToSet

LEMMA FindsNext ==
    ASSUME NEW w, IsTree(w), NEW files \in SUBSET DOMAIN w, NEW p \in DOMAIN w,
           NEW found, AreFirst(found, w, files), ~Full(found),
           \A q \in files : Before(q, p)
    PROVE  AreFirst(Capped(found \o SecretsIn(p, w[p])), w, files \cup {p})
  <1> DEFINE s == SecretsIn(p, w[p])
             A == AllFound(w, files)
             B == AllFound(w, files \cup {p})
             c == found \o s
             t == Capped(c)
             n == Len(found)
  <1>1. MaxFindings \in Nat \ {0} /\ w[p] \in Contents
    BY FactsAssumption DEF IsTree
  <1>2. /\ s \in Seq(FoundIn(w, p)) /\ Len(s) \in Nat /\ DOMAIN s = 1..Len(s)
        /\ \A i \in 1..Len(s) : s[i].path = p /\ s[i].line = i
    BY <1>1, SecretsFacts DEF FoundIn
  <1>3. /\ found \in Seq(A) /\ n \in Nat /\ n < MaxFindings /\ DOMAIN found = 1..n
        /\ \A i, j \in DOMAIN found : i < j => Precedes(found[i], found[j])
        /\ A \subseteq ToSet(found)
    <2>1. /\ found \in Seq(A) /\ n \in Nat /\ n < MaxFindings /\ DOMAIN found = 1..n
          /\ \A i, j \in DOMAIN found : i < j => Precedes(found[i], found[j])
      BY <1>1 DEF AreFirst, Full
    <2>2. \A f \in A \ ToSet(found) : n = MaxFindings
      BY DEF AreFirst
    <2> HIDE DEF n
    <2>3. n # MaxFindings
      BY <1>1, <2>1
    <2> QED  BY <2>1, <2>2, <2>3
  <1>4. \A i \in 1..n : found[i] \in A /\ found[i].path \in files
    BY <1>3, FoundPath, ElementOfSeq
  <1>5. B = A \cup FoundIn(w, p)
    BY DEF AllFound
  <1>6. FoundIn(w, p) = {s[i] : i \in DOMAIN s}
    BY DEF FoundIn, ToSet
  <1> HIDE DEF s, A, B
  <1>7. found \in Seq(B) /\ s \in Seq(B)
    BY <1>2, <1>3, <1>5, SeqMonotonic
  <1>8. /\ c \in Seq(B) /\ Len(c) = n + Len(s)
        /\ \A i \in 1..n + Len(s) : c[i] = IF i <= n THEN found[i] ELSE s[i - n]
    BY <1>7, ConcatProperties
  <1> HIDE DEF n, c
  <1>9. ASSUME NEW i \in 1..Len(c), NEW j \in 1..Len(c), i < j
        PROVE  Precedes(c[i], c[j])
    <2>1. CASE j <= n
      <3>1. i \in 1..n /\ j \in 1..n /\ c[i] = found[i] /\ c[j] = found[j]
        BY <1>3, <1>8, <1>9, <2>1
      <3> QED  BY <1>3, <1>9, <3>1
    <2>2. CASE i <= n /\ ~(j <= n)
      <3>1. i \in 1..n /\ j - n \in 1..Len(s) /\ c[i] = found[i] /\ c[j] = s[j - n]
        BY <1>2, <1>3, <1>8, <1>9, <2>2
      <3>2. Before(c[i].path, c[j].path)
        BY <1>2, <1>4, <3>1
      <3> QED  BY <3>2 DEF Precedes
    <2>3. CASE ~(i <= n)
      <3>1. /\ i - n \in 1..Len(s) /\ j - n \in 1..Len(s) /\ i - n < j - n
            /\ c[i] = s[i - n] /\ c[j] = s[j - n]
        BY <1>2, <1>3, <1>8, <1>9, <2>3
      <3>2. c[i].path = c[j].path /\ c[i].line < c[j].line
        BY <1>2, <3>1
      <3> QED  BY <3>2 DEF Precedes
    <2> QED  BY <1>3, <2>1, <2>2, <2>3
  <1>10. /\ t \in Seq(B) /\ Len(t) \in Nat /\ Len(t) <= MaxFindings /\ Len(t) <= Len(c)
         /\ DOMAIN t = 1..Len(t) /\ \A i \in 1..Len(t) : t[i] = c[i]
         /\ Len(t) = Len(c) \/ Len(t) = MaxFindings
    <2>1. CASE Full(c)
      <3>1. t = SubSeq(c, 1, MaxFindings) /\ MaxFindings <= Len(c)
        BY <1>1, <1>8, <2>1 DEF Capped, Full
      <3> QED  BY <1>1, <1>8, <3>1
    <2>2. CASE ~Full(c)
      <3>1. t = c /\ Len(c) < MaxFindings
        BY <1>1, <1>2, <1>3, <1>8, <2>2 DEF Capped, Full
      <3> HIDE DEF t
      <3> QED  BY <1>1, <1>8, <3>1
    <2> QED  BY <2>1, <2>2
  <1> HIDE DEF t
  <1>11. /\ n \in Nat /\ Len(s) \in Nat /\ n < MaxFindings /\ MaxFindings \in Nat
         /\ Len(c) = n + Len(s) /\ Len(t) \in Nat /\ Len(t) <= Len(c)
         /\ Len(t) = Len(c) \/ Len(t) = MaxFindings
    BY <1>1, <1>2, <1>3, <1>8, <1>10
  <1>12. \A i, j \in DOMAIN t : i < j => Precedes(t[i], t[j])
    BY <1>8, <1>9, <1>10
  <1>13. ASSUME NEW f \in B \ ToSet(t)
         PROVE  Len(t) = MaxFindings /\ \A i \in DOMAIN t : Precedes(t[i], f)
    <2>1. f \notin A
      <3> SUFFICES ASSUME f \in A  PROVE  FALSE
        OBVIOUS
      <3>1. f \in ToSet(found)
        BY <1>3
      <3>2. PICK i \in 1..n : f = found[i]
        BY <1>3, <3>1 DEF ToSet
      <3>3. i \in 1..Len(t) /\ i \in 1..n + Len(s) /\ i <= n
        BY <1>11
      <3>4. c[i] = found[i]
        BY <1>8, <3>3, Zenon
      <3> QED  BY <1>10, <1>13, <3>2, <3>3, <3>4 DEF ToSet
    <2>2. PICK k \in 1..Len(s) : f = s[k]
      BY <1>2, <1>5, <1>6, <1>13, <2>1
    <2>3. n + k \in 1..Len(c) /\ c[n + k] = f
      BY <1>2, <1>3, <1>8, <2>2
    <2>4. ~(n + k <= Len(t))
      <3> SUFFICES ASSUME n + k <= Len(t)  PROVE  FALSE
        OBVIOUS
      <3>1. n + k \in DOMAIN t /\ t[n + k] = f
        BY <1>3, <1>10, <2>3
      <3> QED  BY <1>13, <3>1 DEF ToSet
    <2>5. Len(t) = MaxFindings
      BY <1>8, <1>10, <2>3, <2>4
    <2>6. ASSUME NEW i \in DOMAIN t  PROVE  Precedes(t[i], f)
      <3>1. i \in 1..Len(t) /\ t[i] = c[i]
        BY <1>10
      <3>2. i \in 1..Len(c) /\ i < n + k
        BY <1>11, <2>4, <3>1
      <3> QED  BY <1>9, <2>3, <3>1, <3>2
    <2> QED  BY <2>5, <2>6
  <1>14. AreFirst(t, w, files \cup {p})
    BY <1>10, <1>12, <1>13 DEF AreFirst, B
  <1> QED  BY <1>14 DEF t, c, s

(* What is not come to when the list is full adds nothing to it.            *)
LEMMA FindsRest ==
    ASSUME NEW w, IsTree(w), NEW all \in SUBSET DOMAIN w, NEW files \in SUBSET all,
           NEW found, AreFirst(found, w, files), Full(found),
           \A q \in files : \A p \in all \ files : Before(q, p)
    PROVE  AreFirst(found, w, all)
  <1>1. /\ found \in Seq(AllFound(w, files)) /\ Len(found) = MaxFindings
        /\ DOMAIN found = 1..Len(found)
    BY FactsAssumption DEF AreFirst, Full
  <1>2. AllFound(w, files) \subseteq AllFound(w, all)
    BY DEF AllFound
  <1>3. found \in Seq(AllFound(w, all))
    BY <1>1, <1>2, SeqMonotonic
  <1>4. ASSUME NEW f \in AllFound(w, all) \ AllFound(w, files), NEW i \in DOMAIN found
        PROVE  Precedes(found[i], f)
    <2>1. PICK p \in all : f \in FoundIn(w, p)
      BY <1>4 DEF AllFound
    <2>2. p \notin files
      BY <1>4, <2>1 DEF AllFound
    <2>3. f.path = p
      <3>1. {p} \in SUBSET DOMAIN w /\ f \in AllFound(w, {p})
        BY <2>1 DEF AllFound
      <3> QED  BY <3>1, FoundPath
    <2>4. found[i].path \in files
      <3>1. found[i] \in AllFound(w, files) /\ files \in SUBSET DOMAIN w
        BY <1>1, <1>4, ElementOfSeq
      <3> QED  BY <3>1, FoundPath
    <2> QED  BY <2>1, <2>2, <2>3, <2>4 DEF Precedes
  <1> QED  BY <1>1, <1>3, <1>4 DEF AreFirst

LEMMA ScanSecretsOK == ASSUME IInv, NEW p \in todo, ScanSecrets(p)  PROVE  IInv'
  <1> USE DEF IInv
  <1>1. /\ pc = "secrets" /\ IsTree(ws) /\ WalkIn(ws, opts, todo) /\ opts.scanner
        /\ ~IsDir(ws, p) /\ Keeps(ws, opts, p) /\ IsNext(p, todo) /\ ~Full(secrets)
    BY DEF ScanSecrets, CopyOK, WalkOK, Yields, FindingsOK
  <1>2. /\ UNCHANGED <<pc, world, import, parsed, others, failure, edits>>
        /\ \/ secrets' = Capped(secrets \o SecretsIn(p, ws[p])) /\ UNCHANGED errors
           \/ Error
        /\ IF Full(secrets') THEN todo' = {} ELSE Advance(p)
    BY DEF ScanSecrets
  <1>3. /\ ws' = ws /\ opts' = opts /\ parsed' = parsed /\ others' = others
        /\ todo' = IF Full(secrets') THEN {} ELSE todo \ {p}
    BY <1>1, <1>2 DEF world, import, Advance, Walk
  <1>4. /\ p \in SelectedIn(ws, opts) /\ p \in LeftIn(ws, opts, todo)
        /\ WalkIn(ws, opts, todo \ {p})
        /\ LeftIn(ws, opts, todo \ {p}) = LeftIn(ws, opts, todo) \ {p}
    BY <1>1, WalkPasses
  <1>5. WorldOK'
    <2>1. errors' \in 0..MaxErrors
      BY <1>2, ErrorsOK
    <2> QED  BY <1>1, <1>2, <2>1, WorldStays, PcIs DEF WorldOK, import
  <1>6. CopyOK' /\ CopyWhole' /\ RefOK'
    BY <1>1, <1>2, ImportStays
  <1>7. WalkOK'
    <2>1. WalkIn(ws, opts, todo')
      BY <1>3, <1>4, WalkNoMore
    <2> QED  BY <1>1, <1>2, <1>3, <2>1, CountsStay
  <1>8. FindingsOK'
    <2>1. CASE errors' # 0
      BY <1>1, <1>2, <1>3, <2>1 DEF FindingsOK
    <2>2. CASE errors' = 0
      <3>1. errors = 0 /\ secrets' = Capped(secrets \o SecretsIn(p, ws[p]))
        BY <1>2, <2>2, ErrorsOK
      <3> DEFINE files == Come(ws, opts, todo)
      <3>2. AreFirst(secrets, ws, files) /\ InOrderUpTo(ws, opts, todo)
        BY <1>1, <3>1 DEF FindingsOK
      <3>3. /\ \A q \in files : Before(q, p)
            /\ files \in SUBSET DOMAIN ws /\ p \in DOMAIN ws
        BY <1>4, <3>2 DEF InOrderUpTo, Come, SelectedIn
      <3>4. Come(ws, opts, todo \ {p}) = files \cup {p}
        BY <1>4 DEF Come, LeftIn
      <3>5. AreFirst(secrets', ws, files \cup {p})
        BY <1>1, <3>1, <3>2, <3>3, FindsNext
      <3>6. InOrderUpTo(ws, opts, todo \ {p})
        BY <1>1, <3>2, OrderGoesOn
      <3>7. CASE ~Full(secrets')
        BY <1>1, <1>2, <1>3, <3>4, <3>5, <3>6, <3>7 DEF FindingsOK
      <3>8. CASE Full(secrets')
        <4> DEFINE come == Come(ws, opts, todo \ {p})
        <4>1. /\ SelectedIn(ws, opts) \in SUBSET DOMAIN ws
              /\ come \in SUBSET SelectedIn(ws, opts)
              /\ \A q \in come : \A o \in SelectedIn(ws, opts) \ come : Before(q, o)
          BY <3>6 DEF SelectedIn, Come, InOrderUpTo
        <4>2. AreFirst(secrets', ws, come)
          BY <3>4, <3>5
        <4> HIDE DEF come
        <4>3. AreFirst(secrets', ws, SelectedIn(ws, opts))
          BY <1>1, <3>8, <4>1, <4>2, FindsRest
        <4>4. todo' = {} /\ LeftIn(ws, opts, todo') = {}
          BY <1>1, <1>3, <3>8, WalkNoMore
        <4>5. Come(ws, opts, todo') = SelectedIn(ws, opts) /\ InOrderUpTo(ws, opts, todo')
          BY <4>4 DEF Come, InOrderUpTo
        <4> QED  BY <1>1, <1>2, <1>3, <4>3, <4>4, <4>5 DEF FindingsOK
      <3> QED  BY <3>7, <3>8
    <2> QED  BY <2>1, <2>2
  <1> QED  BY <1>5, <1>6, <1>7, <1>8

LEMMA FoundNone ==
    ASSUME NEW w, NEW files, files = {}  PROVE  AreFirst(<<>>, w, files)
  <1>1. AllFound(w, files) = {}
    BY DEF AllFound
  <1>2. <<>> \in Seq(AllFound(w, files)) /\ Len(<<>>) = 0 /\ DOMAIN <<>> = {}
    OBVIOUS
  <1>3. Len(<<>>) <= MaxFindings
    BY <1>2, FactsAssumption
  <1> QED  BY <1>1, <1>2, <1>3 DEF AreFirst

LEMMA EndPassOK == ASSUME IInv, EndPass  PROVE  IInv'
  <1> USE DEF IInv
  <1>1. /\ pc \in {"files", "manifests", "secrets"} /\ IsTree(ws)
        /\ todo = {}
        /\ UNCHANGED <<world, import, facts, failure, edits, errors>>
    BY DEF EndPass, InPass, CopyOK
  <1>2. pc' = CASE pc = "files" -> "manifests" [] pc = "manifests" -> "secrets"
                [] pc = "secrets" -> "document"
    BY <1>1, NextPass DEF EndPass
  <1>3. /\ pc = "files" => pc' = "manifests"
        /\ pc = "manifests" => pc' = "secrets"
        /\ pc = "secrets" => pc' = "document"
    BY <1>2
  <1>4. /\ ws' = ws /\ opts' = opts /\ parsed' = parsed /\ others' = others
        /\ secrets' = secrets /\ errors' = errors
        /\ todo' = IF Walks(pc') THEN Entries(ws, Root) ELSE {}
    BY <1>1 DEF EndPass, world, import, facts
  <1>5. WorldOK'
    <2>1. pc' \in Pc /\ failure' \in {"none", "domain", "other"} /\ errors' \in 0..MaxErrors
      BY <1>1, <1>3, PcIs DEF WorldOK
    <2> QED  BY <1>1, <2>1, WorldStays DEF import
  <1>6. CopyOK' /\ CopyWhole' /\ RefOK'
    BY <1>1, <1>3, ImportStays
  <1>7. WalkIn(ws, opts, todo')
    BY <1>1, <1>4, WalkStarts, WalkNoMore
  <1>8. WalkOK'
    <2>1. Counted = SelectedIn(ws, opts)
      <3>1. CASE pc = "files"
        <4>1. LeftIn(ws, opts, todo) = {}
          BY <1>1, <3>1, WalkNoMore
        <4> QED  BY <3>1, <4>1 DEF WalkOK
      <3>2. CASE pc # "files"
        BY <1>1, <3>2 DEF WalkOK
      <3> QED  BY <3>1, <3>2
    <2>2. Counted' = Counted
      BY <1>4 DEF Counted, Paths
    <2>3. Counts(ws, opts, parsed, others)
      BY DEF WalkOK
    <2> QED  BY <1>1, <1>3, <1>4, <1>7, <2>1, <2>2, <2>3 DEF WalkOK
  <1>9. FindingsOK'
    <2>1. CASE pc = "files"
      BY <1>3, <1>4, <2>1 DEF FindingsOK
    <2>2. CASE pc = "manifests"
      <3>1. secrets = <<>> /\ secrets' = <<>> /\ pc' = "secrets"
        BY <1>3, <1>4, <2>2 DEF FindingsOK
      <3>2. ~Full(<<>>)
        BY FactsAssumption DEF Full
      <3>3. CASE ~opts.scanner
        BY <1>4, <3>1, <3>3 DEF FindingsOK, Walks
      <3>4. CASE opts.scanner
        <4>1. todo' = Entries(ws, Root)
          BY <1>4, <3>1, <3>4 DEF Walks
        <4>2. Come(ws, opts, todo') = {}
          BY <1>1, <4>1, WalkStarts DEF Come
        <4>3. AreFirst(secrets', ws', Come(ws', opts', todo'))
          BY <1>4, <3>1, <4>2, FoundNone
        <4>4. InOrderUpTo(ws', opts', todo')
          BY <1>4, <4>2 DEF InOrderUpTo
        <4> QED  BY <1>4, <3>1, <3>2, <3>4, <4>3, <4>4 DEF FindingsOK
      <3> QED  BY <3>3, <3>4
    <2>3. CASE pc = "secrets"
      <3> SUFFICES ASSUME opts.scanner, errors = 0
                   PROVE  AreFirst(secrets, ws, SelectedIn(ws, opts))
        BY <1>3, <1>4, <2>3 DEF FindingsOK
      <3>1. AreFirst(secrets, ws, Come(ws, opts, todo))
        BY <2>3 DEF FindingsOK
      <3>2. Come(ws, opts, todo) = SelectedIn(ws, opts)
        BY <1>1, WalkNoMore DEF Come
      <3> QED  BY <3>1, <3>2
    <2> QED  BY <1>1, <2>1, <2>2, <2>3
  <1> QED  BY <1>5, <1>6, <1>8, <1>9

(* The documentation and its export leave what they are made from alone.    *)
LEMMA OutputOK == ASSUME IInv, Output  PROVE  IInv'
  <1> USE DEF IInv
  <1>1. /\ pc \in {"document", "export"} /\ UNCHANGED <<world, import, todo, facts, edits>>
        /\ \/ pc' \in {"document", "export", "done"} /\ UNCHANGED <<failure, errors>>
           \/ Error /\ Fail("other")
    <2>1. CASE Document
      BY <2>1 DEF Document
    <2>2. CASE WritePage
      BY <2>2 DEF WritePage
    <2>3. CASE Exported
      BY <2>3 DEF Exported
    <2> QED  BY <2>1, <2>2, <2>3 DEF Output
  <1>2. open = {}
    BY <1>1 DEF CopyOK
  <1>3. CASE Error /\ Fail("other")
    <2>1. errors' \in 0..MaxErrors
      BY <1>3, ErrorsOK
    <2>2. UNCHANGED <<world, import, todo, parsed, others, secrets, edits>>
      BY <1>1 DEF facts
    <2> QED  BY <1>2, <1>3, <2>1, <2>2, FailsOK DEF Fail
  <1>4. CASE pc' \in {"document", "export", "done"} /\ UNCHANGED <<failure, errors>>
    <2>1. /\ ws' = ws /\ opts' = opts /\ parsed' = parsed /\ others' = others
          /\ secrets' = secrets /\ errors' = errors /\ todo' = todo
      BY <1>1, <1>4 DEF world, import, facts
    <2>2. WorldOK'
      <3>1. pc' \in Pc /\ failure' \in {"none", "domain", "other"} /\ errors' \in 0..MaxErrors
        BY <1>4, PcIs DEF WorldOK
      <3> QED  BY <1>1, <3>1, WorldStays DEF import
    <2>3. CopyOK' /\ CopyWhole' /\ RefOK'
      BY <1>1, <1>4, ImportStays
    <2>4. WalkOK'
      <3>1. WalkIn(ws, opts, todo')
        BY <2>1 DEF WalkOK
      <3> QED  BY <1>1, <1>4, <2>1, <3>1, CountsStay
    <2>5. FindingsOK'
      BY <1>1, <1>4, <2>1 DEF FindingsOK
    <2> QED  BY <2>2, <2>3, <2>4, <2>5
  <1> QED  BY <1>1, <1>3, <1>4

LEMMA NextOK == ASSUME IInv, [Next]_vars  PROVE  IInv'
  <1>1. CASE ImportSource
    BY <1>1, FetchRemoteOK, FetchArchiveOK, FetchNothingOK, StartCopyOK, CopyNextOK,
       CopyEndsOK DEF ImportSource
  <1>2. CASE Analyse
    BY <1>2, PassByOK, EndPassOK, ParseFileOK, ReadManifestOK, ScanSecretsOK DEF Analyse
  <1>3. CASE Output
    BY <1>3, OutputOK
  <1>4. CASE \E c \in Changes : Edit(c[1], c[2])
    BY <1>4, EditOK
  <1>5. CASE Commit
    BY <1>5, CommitOK
  <1>6. CASE UNCHANGED vars
    BY <1>6, StutterOK
  <1> QED  BY <1>1, <1>2, <1>3, <1>4, <1>5, <1>6 DEF Next, Run

LEMMA Invariance == Spec => []IInv
  BY InitOK, NextOK, PTL DEF Spec

-----------------------------------------------------------------------------
(* All of the run's state stays of its type, whatever others do to the      *)
(* directory and whatever of the file system fails: what is imported by any *)
(* provider is a tree of files, no file of which is a directory as well,    *)
(* even if it is copied while files and directories come and go.            *)
THEOREM Types == Spec => []TypeOK
  <1>1. ASSUME IInv  PROVE  TypeOK
    <2>1. open \subseteq [path: Seq(Names) \ {Root}, dir: BOOLEAN]
      BY <1>1 DEF IInv, CopyOK, AllPaths
    <2>2. todo \subseteq Nodes(ws)
      BY <1>1 DEF IInv, WalkOK, WalkIn
    <2>3. Counted \subseteq DOMAIN ws /\ others \subseteq DOMAIN ws
      BY <1>1 DEF IInv, WalkOK, Counts, Counted, SelectedIn
    <2> QED  BY <1>1, <2>1, <2>2, <2>3 DEF IInv, WorldOK, CopyOK, TypeOK
  <1> QED  BY <1>1, Invariance, PTL

(* A set of numbers has a least one.                                        *)
LEMMA LeastOf ==
    ASSUME NEW A \in SUBSET Nat, A # {}
    PROVE  \E m \in A : \A x \in A : m <= x
  <1>1. PICK m \in A : \A y \in A : ~(<<y, m>> \in OpToRel(<, Nat))
    BY NatLessThanWellFounded, WFMin
  <1>2. ASSUME NEW y \in A  PROVE  m <= y
    <2>1. <<y, m>>[1] = y /\ <<y, m>>[2] = m /\ <<y, m>> \in Nat \X Nat
      OBVIOUS
    <2>2. ~(y < m)
      BY <1>1, <2>1 DEF OpToRel
    <2> QED  BY <2>2
  <1> QED  BY <1>2

(* A set of numbers has a greatest one, if they are bounded.                *)
LEMMA GreatestOf ==
    ASSUME NEW N \in Nat, NEW S \in SUBSET (1..N), S # {}
    PROVE  Max(S) \in S /\ \A x \in S : Max(S) >= x
  <1> DEFINE A == {k \in 0..N : N - k \in S}
  <1>1. A \in SUBSET Nat
    OBVIOUS
  <1>2. A # {}
    <2>1. PICK x \in S : TRUE
      OBVIOUS
    <2>2. N - x \in 0..N /\ N - (N - x) = x
      OBVIOUS
    <2>3. N - x \in A
      BY <2>2
    <2> QED  BY <2>3
  <1>3. PICK k \in A : \A l \in A : k <= l
    BY <1>1, <1>2, LeastOf
  <1>4. k \in 0..N /\ N - k \in S
    BY <1>3
  <1>5. ASSUME NEW y \in S  PROVE  N - k >= y
    <2>1. N - y \in 0..N /\ N - (N - y) = y
      OBVIOUS
    <2>2. k <= N - y
      BY <1>3, <2>1
    <2> QED  BY <1>4, <2>2
  <1> QED  BY <1>4, <1>5 DEF Max

(* Of the rules for a path the last one decides.                            *)
LEMMA LastDecides ==
    ASSUME NEW n \in Nat, NEW rules, DOMAIN rules = 1..n, NEW p, NEW dir
    PROVE  Ignored(rules, p, dir) <=> IgnoredBy(rules, p, dir)
  <1> DEFINE hits == {i \in DOMAIN rules : Hits(rules[i], p, dir)}
  <1>1. Ignored(rules, p, dir) <=> (hits # {} /\ ~rules[Max(hits)].negated)
    BY DEF Ignored
  <1>2. hits \in SUBSET (1..n)
    OBVIOUS
  <1>3. ASSUME hits # {}  PROVE  Max(hits) \in hits /\ \A j \in hits : Max(hits) >= j
    BY <1>2, <1>3, GreatestOf
  <1>4. ASSUME Ignored(rules, p, dir)  PROVE  IgnoredBy(rules, p, dir)
    <2>1. Max(hits) \in hits /\ (\A j \in hits : Max(hits) >= j) /\ ~rules[Max(hits)].negated
      BY <1>1, <1>3, <1>4
    <2> DEFINE i == Max(hits)
    <2> HIDE DEF i
    <2>2. i \in hits /\ (\A j \in hits : i >= j) /\ ~rules[i].negated
      BY <2>1 DEF i
    <2>3. ASSUME NEW j \in DOMAIN rules, j > i  PROVE  ~Hits(rules[j], p, dir)
      BY <1>2, <2>2, <2>3
    <2> QED  BY <2>2, <2>3 DEF IgnoredBy
  <1>5. ASSUME IgnoredBy(rules, p, dir)  PROVE  Ignored(rules, p, dir)
    <2>1. PICK i \in DOMAIN rules :
              /\ ~rules[i].negated /\ Hits(rules[i], p, dir)
              /\ \A j \in DOMAIN rules : j > i => ~Hits(rules[j], p, dir)
      BY <1>5 DEF IgnoredBy
    <2>2. i \in hits
      BY <2>1
    <2> DEFINE m == Max(hits)
    <2> HIDE DEF m
    <2>3. m \in hits /\ m >= i
      BY <1>3, <2>2 DEF m
    <2>4. m = i
      BY <1>2, <2>1, <2>2, <2>3
    <2> QED  BY <1>1, <2>1, <2>2, <2>4 DEF m
  <1> QED  BY <1>4, <1>5

LEMMA RulesFacts ==
    ASSUME WorldOK, IsTree(ws)
    PROVE  \E n \in Nat : DOMAIN RulesOf(ws, opts) = 1..n
  <1> DEFINE given == IF opts.gitignore /\ <<".gitignore">> \in DOMAIN ws
                      THEN LinesOf[ws[<<".gitignore">>]] ELSE <<>>
             lines == given \o opts.excludes
  <1>1. opts.excludes \in Seq(ToSet(opts.excludes))
    BY RequestsAssumption DEF WorldOK
  <1>2. given \in Seq(ToSet(given))
    <2>1. CASE opts.gitignore /\ <<".gitignore">> \in DOMAIN ws
      <3>1. ws[<<".gitignore">>] \in Contents
        BY <2>1 DEF IsTree
      <3>2. given = LinesOf[ws[<<".gitignore">>]]
        BY <2>1
      <3> QED  BY <3>1, <3>2, SourceTreeAssumption
    <2>2. CASE ~(opts.gitignore /\ <<".gitignore">> \in DOMAIN ws)
      <3>1. given = <<>>
        BY <2>2, Zenon
      <3> HIDE DEF given
      <3> QED  BY <3>1
    <2> QED  BY <2>1, <2>2
  <1>3. RulesOf(ws, opts) = [i \in 1..Len(lines) |-> Rule(lines[i])]
    BY DEF RulesOf, Rules
  <1> HIDE DEF given
  <1>4. Len(lines) \in Nat
    BY <1>1, <1>2, ConcatProperties
  <1> QED  BY <1>3, <1>4

(* The files that Workspace.iter_files yields are those that are selected.  *)
LEMMA SelectedIs == ASSUME WorldOK, IsTree(ws)  PROVE  Selected = SelectedIn(ws, opts)
  <1> DEFINE rules == RulesOf(ws, opts)
  <1>1. PICK n \in Nat : DOMAIN rules = 1..n
    BY RulesFacts
  <1> HIDE DEF rules
  <1>2. \A p, dir : Ignored(rules, p, dir) <=> IgnoredBy(rules, p, dir)
    BY <1>1, LastDecides
  <1>3. \A p : Keeps(ws, opts, p) <=> (Wanted(p) /\ ~IgnoredBy(rules, p, FALSE))
    BY <1>2 DEF Keeps, Wanted, rules
  <1>4. \A d : SkipsDir(ws, opts, d) <=> (Name(d) \in IgnoredDirs \/ IgnoredBy(rules, d, TRUE))
    BY <1>2 DEF SkipsDir, rules
  <1>5. Selected = {p \in DOMAIN ws :
            /\ Wanted(p) /\ ~IgnoredBy(rules, p, FALSE)
            /\ \A d \in Above(p) : Name(d) \notin IgnoredDirs /\ ~IgnoredBy(rules, d, TRUE)}
    BY DEF Selected, rules
  <1> QED  BY <1>3, <1>4, <1>5 DEF SelectedIn

(* The walk of Workspace.iter_files, which opens a directory when it comes  *)
(* to it and passes over those that are ignored, visits each file that the  *)
(* rules and the globs select, and no other, once.                          *)
THEOREM WalkSelects == Spec => []WalkIsSelection
  <1>1. ASSUME IInv  PROVE  WalkIsSelection
    <2>1. Selected = SelectedIn(ws, opts)
      BY <1>1, SelectedIs DEF IInv, CopyOK
    <2>2. {p \in Selected : \E e \in todo : Below(p, e)} = LeftIn(ws, opts, todo)
      BY <2>1 DEF LeftIn
    <2>3. Counted \subseteq Selected /\ LeftIn(ws, opts, todo) \subseteq Selected
      BY <1>1, <2>1 DEF IInv, WalkOK, Counts, Counted, LeftIn
    <2>4. Len(parsed) + Cardinality(others) = Cardinality(Counted)
      BY <1>1 DEF IInv, WalkOK, Counts, Counted
    <2>5. CASE pc = "files"
      <3>1. Counted = Selected \ LeftIn(ws, opts, todo)
        BY <1>1, <2>1, <2>5 DEF IInv, WalkOK
      <3> QED  BY <2>2, <2>3, <2>4, <2>5, <3>1 DEF WalkIsSelection
    <2>6. CASE pc # "files"
      <3>1. pc \notin {"idle", "copy", "failed"} => Counted = Selected
        BY <1>1, <2>1, <2>6 DEF IInv, WalkOK
      <3> QED  BY <2>4, <2>6, <3>1 DEF WalkIsSelection
    <2> QED  BY <2>5, <2>6
  <1> QED  BY <1>1, Invariance, PTL

(* copy_tree copies all of a directory that nobody edits but what is in an  *)
(* ignored directory, never what the copy itself has made, and              *)
(* compute_tree_checksum describes the files that the scan reads.           *)
THEOREM CopyFaithful == Spec => []CopyIsOfSource
  <1>1. ASSUME IInv  PROVE  CopyIsOfSource
    <2>1. source.inside # Root => \A p \in DOMAIN ws : source.inside \notin Above(p)
      BY <1>1 DEF IInv, CopyOK
    <2>2. ASSUME Provider(source) \in {"local_git", "folder"}, edits = 0,
                 pc \notin {"idle", "copy", "failed"}
          PROVE  ws = [p \in {q \in DOMAIN tree : ToSet(q) \cap IgnoredDirs = {}} |-> tree[p]]
      BY <1>1, <2>2 DEF IInv, CopyWhole, IsLocal, CopiedAll, Clean
    <2>3. ASSUME ref.kind = "checksum", NEW p \in Paths(parsed)
          PROVE  p \in DOMAIN ref.files /\ ref.files[p] = ws[p]
      <3>1. ref.files = Checksum(ws) /\ IsTree(ws)
        BY <1>1, <2>3 DEF IInv, RefOK, CopyOK
      <3>2. p \in SelectedIn(ws, opts)
        BY <1>1, <2>3 DEF IInv, WalkOK, Counts
      <3>3. p \in DOMAIN ws /\ \A d \in Above(p) : Name(d) \notin IgnoredDirs
        BY <3>2 DEF SelectedIn, SkipsDir
      <3> QED  BY <3>1, <3>3, ChecksumTree
    <2> QED  BY <2>1, <2>2, <2>3 DEF CopyIsOfSource
  <1> QED  BY <1>1, Invariance, PTL

(* The scan for secrets, which ends with the finding that fills its list,   *)
(* reports the first findings of the selected files and misses none of them *)
(* while there is room, unless a file could not be read.                    *)
THEOREM FindingsFirst == Spec => []FindingsAreFirst
  <1>1. ASSUME IInv  PROVE  FindingsAreFirst
    <2> SUFFICES ASSUME opts.scanner, errors = 0, pc \in {"document", "export", "done"}
                 PROVE  LET all == UNION {FindingsIn(p) : p \in Selected}
                        IN  /\ Len(secrets) <= MaxFindings /\ ToSet(secrets) \subseteq all
                            /\ \A i, j \in DOMAIN secrets :
                                  i < j => Precedes(secrets[i], secrets[j])
                            /\ \A f \in all \ ToSet(secrets) :
                                  /\ Len(secrets) = MaxFindings
                                  /\ \A i \in DOMAIN secrets : Precedes(secrets[i], f)
      BY DEF FindingsAreFirst
    <2> DEFINE all == UNION {FindingsIn(p) : p \in Selected}
    <2>1. Selected = SelectedIn(ws, opts)
      BY <1>1, SelectedIs DEF IInv, CopyOK
    <2>2. all = AllFound(ws, SelectedIn(ws, opts))
      BY <2>1 DEF AllFound, FoundIn, FindingsIn
    <2> HIDE DEF all
    <2>3. AreFirst(secrets, ws, SelectedIn(ws, opts))
      BY <1>1 DEF IInv, FindingsOK
    <2>4. ToSet(secrets) \subseteq all
      <3>1. secrets \in Seq(all)
        BY <2>2, <2>3 DEF AreFirst
      <3> QED  BY <3>1, ElementOfSeq DEF ToSet
    <2>5. /\ Len(secrets) <= MaxFindings /\ ToSet(secrets) \subseteq all
          /\ \A i, j \in DOMAIN secrets : i < j => Precedes(secrets[i], secrets[j])
          /\ \A f \in all \ ToSet(secrets) :
                Len(secrets) = MaxFindings /\ \A i \in DOMAIN secrets : Precedes(secrets[i], f)
      BY <2>2, <2>3, <2>4 DEF AreFirst
    <2> QED  BY <2>5, Zenon DEF all
  <1> QED  BY <1>1, Invariance, PTL

-----------------------------------------------------------------------------
(* The exceptions.  Nothing that the passes have come to raised one.        *)
TooDeepIn(w, p) == Language(p) # "unknown" /\ ParseRaises(p, w[p])

HasCause ==
    \/ lost \/ (ws = NoTree /\ errors > 0)
    \/ \E s \in ToSet(Pages) : bundle[s] = "torn"
    \/ \E p \in SelectedIn(ws, opts) : TooDeepIn(ws, p) \/ ManifestRaises(p, ws[p])

CauseOK ==
    /\ DOMAIN bundle = ToSet(Pages)
    /\ pc # "failed" => failure = "none"
    /\ failure = "other" => HasCause
    /\ pc \notin {"copy", "failed"} => ~lost
    /\ (pc = "files" /\ errors = 0) =>
          \A p \in Come(ws, opts, todo) : ~TooDeepIn(ws, p)
    /\ (pc \in {"manifests", "secrets", "document", "export", "done"} /\ errors = 0) =>
          \A p \in SelectedIn(ws, opts) : ~TooDeepIn(ws, p)
    /\ (pc = "manifests" /\ errors = 0) =>
          \A p \in Come(ws, opts, todo) : ~ManifestRaises(p, ws[p])
    /\ (pc \in {"secrets", "document", "export", "done"} /\ errors = 0) =>
          \A p \in SelectedIn(ws, opts) : ~ManifestRaises(p, ws[p])

LEMMA CauseImported ==
    ASSUME IInv, CauseOK, pc \in {"idle", "copy"}, ~lost, NEW files, IsTree(files), NEW r,
           Imported(files, r), UNCHANGED <<opts, lost, bundle, failure>>
    PROVE  CauseOK'
  <1>1. pc' = "files" /\ ws' = files /\ opts' = opts /\ todo' = Entries(files, Root)
    BY DEF Imported
  <1>2. Come(ws', opts', todo') = {}
    BY <1>1, WalkStarts DEF Come
  <1> QED  BY <1>1, <1>2 DEF CauseOK

LEMMA CauseImport == ASSUME IInv, CauseOK, ImportSource  PROVE  CauseOK'
  <1>1. /\ IsTree(tree) /\ IsTree(ws) /\ errors \in Nat
        /\ pc = "idle" => ws = NoTree
    BY BoundsAssumption DEF IInv, WorldOK, CopyOK
  <1>2. CASE FetchRemote
    <2>1. CASE Imported(tree, CommitRef) /\ UNCHANGED failure
      <3>1. pc = "idle" /\ ~lost /\ UNCHANGED <<opts, lost, bundle, failure>>
        BY <1>2, <2>1 DEF FetchRemote, world, CauseOK
      <3> QED  BY <1>1, <2>1, <3>1, CauseImported
    <2>2. CASE Fail("domain")
      BY <1>2, <2>2 DEF FetchRemote, Fail, CauseOK
    <2> QED  BY <1>2, <2>1, <2>2 DEF FetchRemote
  <1>3. CASE FetchArchive
    <2> DEFINE zip == IF Provider(source) = "zip" THEN "zip" ELSE "tar"
               files == Collapsed(tree, zip = "zip")
    <2>1. pc = "idle" /\ ~lost /\ UNCHANGED <<opts, lost, bundle>>
      BY <1>3 DEF FetchArchive, world, CauseOK
    <2>2. CASE Imported(files, ChecksumRef(files)) /\ UNCHANGED failure
      <3>1. IsTree(files)
        BY CollapsedTree DEF IInv, WorldOK
      <3> HIDE DEF files
      <3> QED  BY <2>1, <2>2, <3>1, CauseImported
    <2>3. CASE Fail("domain")
      BY <2>1, <2>3 DEF Fail, CauseOK
    <2>4. CASE Error /\ Fail("other") /\ UNCHANGED ws
      <3>1. ws' = NoTree /\ errors' > 0 /\ pc' = "failed"
        BY <1>1, <2>1, <2>4 DEF Error, Fail
      <3> QED  BY <2>1, <3>1 DEF CauseOK, HasCause
    <2> QED  BY <1>3, <2>2, <2>3, <2>4, Zenon DEF FetchArchive
  <1>4. CASE FetchNothing
    BY <1>4 DEF FetchNothing, Fail, CauseOK
  <1>5. CASE StartCopy \/ CopyNext
    BY <1>5 DEF StartCopy, CopyNext, CauseOK
  <1>6. CASE CopyEnds
    <2>1. CASE lost
      BY <1>6, <2>1 DEF CopyEnds, Fail, CauseOK, HasCause
    <2>2. CASE ~lost
      <3> DEFINE r == IF ref = NoRef THEN ChecksumRef(ws) ELSE ref
      <3>1. pc = "copy" /\ Imported(ws, r) /\ UNCHANGED <<opts, lost, bundle, failure>>
        BY <1>6, <2>2 DEF CopyEnds, world
      <3> HIDE DEF r
      <3> QED  BY <1>1, <2>2, <3>1, CauseImported
    <2> QED  BY <2>1, <2>2
  <1> QED  BY <1>2, <1>3, <1>4, <1>5, <1>6 DEF ImportSource

(* A file that is read is come to next.                                     *)
LEMMA ComesTo ==
    ASSUME IsTree(ws), WalkIn(ws, opts, todo), NEW p \in todo, Yields(ws, opts, p)
    PROVE  /\ p \in SelectedIn(ws, opts) /\ Walk(ws, opts, todo, p) = todo \ {p}
           /\ Come(ws, opts, todo \ {p}) = Come(ws, opts, todo) \cup {p}
  <1>1. ~IsDir(ws, p) /\ Keeps(ws, opts, p)
    BY DEF Yields
  <1>2. /\ p \in SelectedIn(ws, opts)
        /\ LeftIn(ws, opts, todo \ {p}) = LeftIn(ws, opts, todo) \ {p}
    BY <1>1, WalkPasses
  <1> QED  BY <1>1, <1>2 DEF Walk, Come

LEMMA CauseParse ==
    ASSUME IInv, CauseOK, NEW p \in todo, ParseFile(p)  PROVE  CauseOK'
  <1>1. /\ IsTree(ws) /\ WalkIn(ws, opts, todo) /\ pc = "files" /\ Yields(ws, opts, p)
        /\ ws' = ws /\ opts' = opts /\ lost' = lost /\ bundle' = bundle /\ WorldOK
    BY DEF IInv, CopyOK, WalkOK, ParseFile, world, import
  <1>2. /\ p \in SelectedIn(ws, opts) /\ Walk(ws, opts, todo, p) = todo \ {p}
        /\ Come(ws, opts, todo \ {p}) = Come(ws, opts, todo) \cup {p}
    BY <1>1, ComesTo
  <1>3. CASE Fail("other") /\ TooDeepIn(ws, p)
    BY <1>1, <1>2, <1>3 DEF Fail, CauseOK, HasCause
  <1>4. CASE /\ Advance(p) /\ UNCHANGED <<pc, failure>>
             /\ Error \/ (UNCHANGED errors /\ ~TooDeepIn(ws, p))
    <2>1. todo' = todo \ {p} /\ pc' = "files" /\ failure' = "none"
      BY <1>1, <1>2, <1>4 DEF Advance, CauseOK
    <2>2. errors' = 0 => errors = 0 /\ ~TooDeepIn(ws, p)
      BY <1>1, <1>4, ErrorsOK
    <2> QED  BY <1>1, <1>2, <2>1, <2>2 DEF CauseOK
  <1>5. \/ Fail("other") /\ TooDeepIn(ws, p)
        \/ /\ Advance(p) /\ UNCHANGED <<pc, failure>>
           /\ Error \/ (UNCHANGED errors /\ ~TooDeepIn(ws, p))
    BY DEF ParseFile, TooDeepIn
  <1> QED  BY <1>3, <1>4, <1>5

LEMMA CauseManifest ==
    ASSUME IInv, CauseOK, NEW p \in todo, ReadManifest(p)  PROVE  CauseOK'
  <1>1. /\ IsTree(ws) /\ WalkIn(ws, opts, todo) /\ pc = "manifests" /\ Yields(ws, opts, p)
        /\ ws' = ws /\ opts' = opts /\ lost' = lost /\ bundle' = bundle /\ WorldOK
    BY DEF IInv, CopyOK, WalkOK, ReadManifest, world, import
  <1>2. /\ p \in SelectedIn(ws, opts) /\ Walk(ws, opts, todo, p) = todo \ {p}
        /\ Come(ws, opts, todo \ {p}) = Come(ws, opts, todo) \cup {p}
    BY <1>1, ComesTo
  <1>3. CASE Fail("other") /\ ManifestRaises(p, ws[p])
    BY <1>1, <1>2, <1>3 DEF Fail, CauseOK, HasCause
  <1>4. CASE /\ Advance(p) /\ UNCHANGED <<pc, failure>>
             /\ Error \/ (UNCHANGED errors /\ ~ManifestRaises(p, ws[p]))
    <2>1. todo' = todo \ {p} /\ pc' = "manifests" /\ failure' = "none"
      BY <1>1, <1>2, <1>4 DEF Advance, CauseOK
    <2>2. errors' = 0 => errors = 0 /\ ~ManifestRaises(p, ws[p])
      BY <1>1, <1>4, ErrorsOK
    <2> QED  BY <1>1, <1>2, <2>1, <2>2 DEF CauseOK
  <1>5. \/ Fail("other") /\ ManifestRaises(p, ws[p])
        \/ /\ Advance(p) /\ UNCHANGED <<pc, failure>>
           /\ Error \/ (UNCHANGED errors /\ ~ManifestRaises(p, ws[p]))
    <2>1. Manifest[ws[p]] = Unread => ~ManifestRaises(p, ws[p])
      BY DEF ManifestRaises, Unread
    <2> QED  BY <2>1 DEF ReadManifest
  <1> QED  BY <1>3, <1>4, <1>5

LEMMA CauseEndPass == ASSUME IInv, CauseOK, EndPass  PROVE  CauseOK'
  <1>1. /\ pc \in {"files", "manifests", "secrets"} /\ IsTree(ws) /\ todo = {}
        /\ ws' = ws /\ opts' = opts /\ lost' = lost /\ errors' = errors /\ failure' = failure
        /\ bundle' = bundle
    BY DEF EndPass, InPass, IInv, CopyOK, world, import
  <1>2. pc' = CASE pc = "files" -> "manifests" [] pc = "manifests" -> "secrets"
                [] pc = "secrets" -> "document"
    BY <1>1, NextPass DEF EndPass
  <1>3. Come(ws, opts, todo) = SelectedIn(ws, opts)
    BY <1>1, WalkNoMore DEF Come
  <1>4. pc = "files" => Come(ws, opts, todo') = {}
    <2>1. pc = "files" => todo' = Entries(ws, Root)
      BY <1>2 DEF EndPass, Walks
    <2> QED  BY <1>1, <2>1, WalkStarts DEF Come
  <1>5. failure = "none" /\ ~lost /\ DOMAIN bundle = ToSet(Pages)
    BY <1>1 DEF CauseOK
  <1>6. CASE pc = "files"
    <2>1. pc' = "manifests"
      BY <1>2, <1>6
    <2> QED  BY <1>1, <1>3, <1>4, <1>5, <1>6, <2>1 DEF CauseOK
  <1>7. CASE pc = "manifests"
    <2>1. pc' = "secrets"
      BY <1>2, <1>7
    <2> QED  BY <1>1, <1>3, <1>5, <1>7, <2>1 DEF CauseOK
  <1>8. CASE pc = "secrets"
    <2>1. pc' = "document"
      BY <1>2, <1>8
    <2> QED  BY <1>1, <1>5, <1>8, <2>1 DEF CauseOK
  <1> QED  BY <1>1, <1>6, <1>7, <1>8

LEMMA CauseNext == ASSUME IInv, CauseOK, [Next]_vars  PROVE  CauseOK'
  <1>1. CASE ImportSource
    BY <1>1, CauseImport
  <1>2. CASE PassBy
    <2>1. PICK p \in todo : ~Yields(ws, opts, p) /\ todo' = Walk(ws, opts, todo, p)
      BY <1>2 DEF PassBy, Advance
    <2>2. LeftIn(ws, opts, todo') = LeftIn(ws, opts, todo)
      BY <2>1, PassesBy DEF IInv, CopyOK, WalkOK
    <2>3. /\ pc' = pc /\ ws' = ws /\ opts' = opts /\ lost' = lost /\ errors' = errors
          /\ failure' = failure /\ bundle' = bundle
      BY <1>2 DEF PassBy, world, import
    <2> QED  BY <2>2, <2>3 DEF CauseOK, HasCause, Come
  <1>3. CASE EndPass
    BY <1>3, CauseEndPass
  <1>4. ASSUME NEW p \in todo, ParseFile(p) \/ ReadManifest(p)  PROVE  CauseOK'
    BY <1>4, CauseParse, CauseManifest
  <1>5. CASE \/ \E p \in todo : ScanSecrets(p)
             \/ Document \/ Exported \/ Commit \/ UNCHANGED vars
             \/ \E c \in Changes : Edit(c[1], c[2])
    <2>1. /\ UNCHANGED <<ws, opts, lost, bundle, failure>>
          /\ errors' = errors \/ Error
          /\ \/ pc \notin {"files", "manifests"} /\ pc' = pc
             \/ UNCHANGED <<pc, todo>>
             \/ /\ pc \in {"document", "export"} /\ pc' \in {"export", "done"}
      BY <1>5 DEF ScanSecrets, Document, Exported, Commit, Edit, vars, world, import
    <2>2. errors' = 0 => errors = 0
      BY <2>1, ErrorsOK DEF IInv
    <2>3. HasCause => HasCause'
      <3>1. errors > 0 => errors' > 0
        BY <2>1, BoundsAssumption DEF Error, IInv, WorldOK
      <3> QED  BY <2>1, <3>1 DEF HasCause
    <2> QED  BY <2>1, <2>2, <2>3 DEF CauseOK
  <1>6. CASE WritePage
    <2>1. PICK i \in DOMAIN Pages :
              \/ bundle' = [bundle EXCEPT ![Pages[i]] = "new"] /\ UNCHANGED <<pc, failure, errors>>
              \/ bundle' = [bundle EXCEPT ![Pages[i]] = "torn"] /\ Fail("other")
      BY <1>6 DEF WritePage
    <2>2. /\ pc = "export" /\ UNCHANGED <<ws, opts, lost>> /\ failure = "none"
          /\ DOMAIN bundle = ToSet(Pages) /\ DOMAIN bundle' = DOMAIN bundle
      BY <1>6 DEF WritePage, world, import, CauseOK
    <2>3. CASE UNCHANGED <<pc, failure, errors>>
      BY <2>2, <2>3 DEF CauseOK
    <2>4. CASE bundle' = [bundle EXCEPT ![Pages[i]] = "torn"] /\ Fail("other")
      <3>1. Pages[i] \in ToSet(Pages) /\ pc' = "failed"
        BY <2>4 DEF ToSet, Fail
      <3>2. bundle'[Pages[i]] = "torn"
        BY <2>2, <2>4, <3>1
      <3> QED  BY <2>2, <3>1, <3>2 DEF CauseOK, HasCause
    <2> QED  BY <2>1, <2>3, <2>4
  <1> QED  BY <1>1, <1>2, <1>3, <1>4, <1>5, <1>6 DEF Next, Run, Analyse, Output

(* A scan fails with an exception that nobody catches for the sake of what  *)
(* could not be imported or written, or of a selected file that the parser  *)
(* or the detection of manifests raises for, and of no other.               *)
THEOREM FailuresHaveCauses == Spec => []FailsForACause
  <1>1. ASSUME Init  PROVE  CauseOK
    BY <1>1 DEF Init, CauseOK
  <1>2. Spec => []CauseOK
    BY <1>1, CauseNext, Invariance, PTL DEF Spec
  <1>3. ASSUME IInv, CauseOK  PROVE  FailsForACause
    <2>1. Selected = SelectedIn(ws, opts)
      BY <1>3, SelectedIs DEF IInv, CopyOK
    <2>2. \A p : Fatal(p) <=> (TooDeepIn(ws, p) \/ ManifestRaises(p, ws[p]))
      BY DEF Fatal, TooDeepIn
    <2>3. failure = "other" => HasCause
      BY <1>3 DEF CauseOK
    <2>4. Documented => ~lost
      BY <1>3 DEF CauseOK, Documented
    <2>5. (Documented /\ errors = 0) => \A p \in Selected : ~Fatal(p)
      BY <1>3, <2>1, <2>2 DEF CauseOK, Documented
    <2> QED  BY <2>1, <2>2, <2>3, <2>4, <2>5 DEF FailsForACause, HasCause
  <1> QED  BY <1>2, <1>3, Invariance, PTL

-----------------------------------------------------------------------------
(* The pages.                                                              *)
(* What detect_entrypoints finds in a file is of the file and its module.   *)
EntriesOf(f) ==
    {[name |-> n, kind |-> k, file |-> f.path, module |-> ModuleOf(f)] :
        n \in {ClassName(f), Name(f.path)},
        k \in {"http_endpoint", "app_bootstrap", "cli_main", "ng_module", "ui_component"}}

LEMMA EntriesOfFile == ASSUME NEW f  PROVE  EntrypointsOf(f) \in Seq(EntriesOf(f))
  <1> DEFINE E(k, n) == [name |-> n, kind |-> k, file |-> f.path, module |-> ModuleOf(f)]
             S == EntriesOf(f)
  <1>1. ASSUME NEW n \in {ClassName(f), Name(f.path)},
               NEW k \in {"http_endpoint", "app_bootstrap", "cli_main", "ng_module",
                          "ui_component"}
        PROVE  E(k, n) \in S
    BY DEF EntriesOf
  <1>2. \A x \in S : <<x>> \in Seq(S)
    OBVIOUS
  <1>3. <<>> \in Seq(S)
    OBVIOUS
  <1>4. \A s, t \in Seq(S) : s \o t \in Seq(S)
    BY ConcatProperties
  <1> HIDE DEF S
  <1>5. CASE f.language \in {"java", "kotlin"}
    <2> DEFINE a == If(\E i \in f.imports : IsPrefix(SpringWeb, i.parts),
                       E("http_endpoint", ClassName(f)))
               b == If(\E i \in f.imports : i.parts = SpringBoot /\ ~i.star,
                       E("app_bootstrap", ClassName(f)))
               c == If(Declared(f, "method", "main"), E("cli_main", ClassName(f)))
    <2>1. EntrypointsOf(f) = (a \o b) \o c
      BY <1>5, Zenon DEF EntrypointsOf
    <2>2. a \in {<<E("http_endpoint", ClassName(f))>>, <<>>}
      BY Zenon DEF If
    <2>3. b \in {<<E("app_bootstrap", ClassName(f))>>, <<>>}
      BY Zenon DEF If
    <2>4. c \in {<<E("cli_main", ClassName(f))>>, <<>>}
      BY Zenon DEF If
    <2> HIDE DEF a, b, c, E
    <2>5. a \in Seq(S) /\ b \in Seq(S) /\ c \in Seq(S)
      BY <1>1, <1>2, <1>3, <2>2, <2>3, <2>4
    <2> QED  BY <1>4, <2>1, <2>5 DEF S
  <1>6. CASE f.language \in {"typescript", "tsx"}
    <2> DEFINE a == If(Name(f.path) \in NgModules, E("ng_module", ClassName(f)))
               b == If(Name(f.path) \in NgComponents, E("ui_component", ClassName(f)))
    <2>1. EntrypointsOf(f) = a \o b
      <3>1. f.language \notin {"java", "kotlin"}
        BY <1>6
      <3> QED  BY <1>6, <3>1, Zenon DEF EntrypointsOf
    <2>2. a \in {<<E("ng_module", ClassName(f))>>, <<>>}
      BY Zenon DEF If
    <2>3. b \in {<<E("ui_component", ClassName(f))>>, <<>>}
      BY Zenon DEF If
    <2> HIDE DEF a, b, E
    <2>5. a \in Seq(S) /\ b \in Seq(S)
      BY <1>1, <1>2, <1>3, <2>2, <2>3
    <2> QED  BY <1>4, <2>1, <2>5 DEF S
  <1>7. CASE f.language = "python"
    <2> DEFINE a == If(Declared(f, "function", "main") \/ Name(f.path) = "__main__.py",
                       E("cli_main", Name(f.path)))
    <2>1. EntrypointsOf(f) = a
      <3>1. f.language \notin {"java", "kotlin"} /\ f.language \notin {"typescript", "tsx"}
        BY <1>7
      <3> QED  BY <1>7, <3>1, Zenon DEF EntrypointsOf
    <2>2. a \in {<<E("cli_main", Name(f.path))>>, <<>>}
      BY Zenon DEF If
    <2> HIDE DEF a, E
    <2> QED  BY <1>1, <1>2, <1>3, <2>1, <2>2 DEF S
  <1>8. CASE f.language \notin {"java", "kotlin", "typescript", "tsx", "python"}
    <2>1. EntrypointsOf(f) = <<>>
      <3>1. /\ f.language \notin {"java", "kotlin"} /\ f.language \notin {"typescript", "tsx"}
            /\ f.language # "python"
        BY <1>8
      <3> QED  BY <3>1, Zenon DEF EntrypointsOf
    <2> QED  BY <1>3, <2>1 DEF S
  <1> QED  BY <1>5, <1>6, <1>7, <1>8

(* The list grows by the entrypoints of one file after the other.           *)
IsFound(g, files, n) ==
    g = [k \in 0..n |-> IF k = 0 THEN <<>> ELSE g[k - 1] \o EntrypointsOf(files[k])]

LEMMA FoundExists == ASSUME NEW files, NEW n \in Nat  PROVE  \E g : IsFound(g, files, n)
  <1> DEFINE bad == {k \in Nat : ~\E g : IsFound(g, files, k)}
  <1>1. SUFFICES ASSUME bad # {}  PROVE  FALSE
    BY <1>1
  <1>2. PICK m \in bad : \A k \in bad : m <= k
    BY <1>1, LeastOf
  <1>3. CASE m = 0
    <2> DEFINE g == [k \in 0..0 |-> <<>>]
    <2>1. IsFound(g, files, 0)
      BY DEF IsFound
    <2> QED  BY <1>2, <1>3, <2>1
  <1>4. CASE m # 0
    <2>1. m - 1 \in Nat /\ m \in Nat /\ m - 1 \notin bad
      BY <1>2, <1>4
    <2>2. PICK g : IsFound(g, files, m - 1)
      BY <2>1
    <2> DEFINE h == [k \in 0..m |-> IF k = m THEN g[m - 1] \o EntrypointsOf(files[m]) ELSE g[k]]
    <2>3. ASSUME NEW k \in 0..m
          PROVE  h[k] = IF k = 0 THEN <<>> ELSE h[k - 1] \o EntrypointsOf(files[k])
      <3>1. CASE k = m
        BY <1>4, <2>1, <3>1
      <3>2. CASE k # m
        <4>1. k \in 0..(m - 1) /\ h[k] = g[k]
          BY <2>1, <3>2
        <4>2. g[k] = IF k = 0 THEN <<>> ELSE g[k - 1] \o EntrypointsOf(files[k])
          BY <2>2, <4>1 DEF IsFound
        <4>3. k # 0 => h[k - 1] = g[k - 1]
          BY <2>1, <4>1
        <4> QED  BY <4>1, <4>2, <4>3
      <3> QED  BY <3>1, <3>2
    <2>4. h = [k \in 0..m |-> h[k]]
      OBVIOUS
    <2> HIDE DEF h
    <2>5. IsFound(h, files, m)
      BY <2>3, <2>4 DEF IsFound
    <2> QED  BY <1>2, <2>5
  <1> QED  BY <1>3, <1>4

LEMMA EntrypointsFacts ==
    ASSUME NEW S, NEW files \in Seq(S)
    PROVE  Entrypoints(files) \in Seq(UNION {EntriesOf(f) : f \in ToSet(files)})
  <1> DEFINE N == Len(files)
             g == CHOOSE g : IsFound(g, files, N)
             all == UNION {EntriesOf(f) : f \in ToSet(files)}
  <1>1. N \in Nat /\ DOMAIN files = 1..N
    OBVIOUS
  <1>2. Entrypoints(files) = g[N]
    BY DEF Entrypoints, IsFound
  <1>3. IsFound(g, files, N)
    BY <1>1, FoundExists
  <1> HIDE DEF g
  <1>4. ASSUME NEW k \in 1..N  PROVE  EntrypointsOf(files[k]) \in Seq(all)
    <2>1. files[k] \in ToSet(files)
      BY <1>1 DEF ToSet
    <2>2. EntriesOf(files[k]) \subseteq all
      BY <2>1
    <2> HIDE DEF all
    <2> QED  BY <2>2, EntriesOfFile, SeqMonotonic
  <1> HIDE DEF N
  <1> DEFINE bad == {k \in 0..N : g[k] \notin Seq(all)}
  <1>5. bad = {}
    <2>1. SUFFICES ASSUME bad # {}  PROVE  FALSE
      BY <2>1
    <2>2. bad \in SUBSET Nat
      BY <1>1
    <2>3. PICK m \in bad : \A k \in bad : m <= k
      BY <2>1, <2>2, LeastOf
    <2>4. m \in 0..N /\ g[m] \notin Seq(all)
      BY <2>3
    <2>5. g[m] = IF m = 0 THEN <<>> ELSE g[m - 1] \o EntrypointsOf(files[m])
      BY <1>3, <2>4 DEF IsFound
    <2>6. m # 0
      BY <2>4, <2>5
    <2>7. m - 1 \in 0..N /\ m \in 1..N /\ m - 1 \notin bad
      BY <1>1, <2>3, <2>4, <2>6
    <2>8. g[m - 1] \in Seq(all) /\ EntrypointsOf(files[m]) \in Seq(all)
      BY <1>4, <2>7
    <2> HIDE DEF all
    <2>9. g[m - 1] \o EntrypointsOf(files[m]) \in Seq(all)
      BY <2>8, ConcatProperties
    <2> QED  BY <2>4, <2>5, <2>6, <2>9
  <1> QED  BY <1>1, <1>2, <1>5

-----------------------------------------------------------------------------
(* Dependencies and findings are of selected files, whatever goes wrong.    *)
AllDeps(w, o) ==
    {[name |-> n, manifest |-> p] : n \in UNION {ToSet(Manifest[c].deps) : c \in Contents},
                                    p \in SelectedIn(w, o)}

FactsOK ==
    /\ pc \in {"idle", "copy", "files"} => deps = <<>>
    /\ pc \in {"idle", "copy", "files"} => secrets = <<>>
    /\ deps \in Seq(AllDeps(ws, opts))
    /\ secrets \in Seq(AllFound(ws, SelectedIn(ws, opts)))

LEMMA FactsStay ==
    ASSUME FactsOK, UNCHANGED <<ws, opts, deps, secrets>>,
           pc' \in {"idle", "copy", "files"} => pc \in {"idle", "copy", "files"}
    PROVE  FactsOK'
  BY DEF FactsOK

LEMMA FactsNone ==
    ASSUME FactsOK, UNCHANGED <<deps, secrets>>, pc \in {"idle", "copy", "files"}
    PROVE  FactsOK'
  <1>1. deps' = <<>> /\ secrets' = <<>>
    BY DEF FactsOK
  <1>2. \A S : <<>> \in Seq(S)
    OBVIOUS
  <1> QED  BY <1>1, <1>2 DEF FactsOK

LEMMA DependenciesFacts ==
    ASSUME NEW w, IsTree(w), NEW o, NEW p \in SelectedIn(w, o), NEW m \in {Manifest[w[p]], Unread}
    PROVE  DependenciesIn(p, m) \in Seq(AllDeps(w, o))
  <1> DEFINE N == UNION {ToSet(Manifest[c].deps) : c \in Contents}
             n == Len(m.deps)
  <1>1. w[p] \in Contents
    BY DEF SelectedIn, IsTree
  <1>2. m.deps \in Seq(N)
    <2>1. CASE m = Unread
      BY <2>1 DEF Unread
    <2>2. CASE m = Manifest[w[p]]
      <3>1. m.deps \in Seq(ToSet(m.deps))
        <4>1. \A c \in Contents : Manifest[c].deps \in Seq(ToSet(Manifest[c].deps))
          BY FactsAssumption
        <4> QED  BY <1>1, <2>2, <4>1
      <3>2. ToSet(m.deps) \subseteq N
        BY <1>1, <2>2
      <3> HIDE DEF N
      <3> QED  BY <3>1, <3>2, SeqMonotonic
    <2> QED  BY <2>1, <2>2
  <1>3. \A x \in N : [name |-> x, manifest |-> p] \in AllDeps(w, o)
    BY DEF AllDeps
  <1> HIDE DEF N
  <1>4. n \in Nat /\ \A i \in 1..n : m.deps[i] \in N
    BY <1>2
  <1> DEFINE s == [i \in 1..n |-> [name |-> m.deps[i], manifest |-> p]]
  <1>5. s \in [1..n -> AllDeps(w, o)]
    BY <1>3, <1>4
  <1>6. s \in Seq(AllDeps(w, o))
    <2> HIDE DEF s, n
    <2> QED  BY <1>4, <1>5, SeqDef
  <1>7. <<>> \in Seq(AllDeps(w, o))
    OBVIOUS
  <1>8. DependenciesIn(p, m) = s \/ DependenciesIn(p, m) = <<>>
    BY Zenon DEF DependenciesIn
  <1> HIDE DEF s
  <1> QED  BY <1>6, <1>7, <1>8

LEMMA FactsNext == ASSUME IInv, FactsOK, [Next]_vars  PROVE  FactsOK'
  <1> USE DEF IInv
  <1>1. CASE ImportSource
    <2>1. pc \in {"idle", "copy", "files"} /\ UNCHANGED <<deps, secrets>>
      BY <1>1 DEF ImportSource, FetchRemote, FetchArchive, FetchNothing, StartCopy, CopyNext,
         CopyEnds, facts
    <2> QED  BY <2>1, FactsNone
  <1>2. CASE PassBy \/ (\E p \in todo : ParseFile(p)) \/ Output \/ UNCHANGED vars
              \/ Commit \/ \E c \in Changes : Edit(c[1], c[2])
    <2>1. /\ UNCHANGED <<ws, opts, deps, secrets>>
          /\ pc' \in {"idle", "copy", "files"} => pc \in {"idle", "copy", "files"}
      BY <1>2 DEF PassBy, ParseFile, Fail, Output, Document, WritePage, Exported, vars, Commit,
         Edit, world, import, facts
    <2> QED  BY <2>1, FactsStay
  <1>3. CASE EndPass
    <2>1. UNCHANGED <<ws, opts, deps, secrets>> /\ pc \in {"files", "manifests", "secrets"}
      BY <1>3 DEF EndPass, InPass, world, import, facts
    <2>2. pc' = Passes[1 + CHOOSE i \in 1..3 : Passes[i] = pc]
      BY <1>3 DEF EndPass
    <2>3. pc' \in {"manifests", "secrets", "document"}
      BY <2>1, <2>2, NextPass
    <2> QED  BY <2>1, <2>3, FactsStay
  <1>4. ASSUME NEW p \in todo, ReadManifest(p)  PROVE  FactsOK'
    <2>1. /\ pc = "manifests" /\ IsTree(ws) /\ WalkIn(ws, opts, todo)
          /\ ~IsDir(ws, p) /\ Keeps(ws, opts, p) /\ pc' \notin {"idle", "copy", "files"}
          /\ ws' = ws /\ opts' = opts /\ secrets' = secrets
      BY <1>4 DEF ReadManifest, CopyOK, WalkOK, Yields, Fail, world, import
    <2>2. p \in SelectedIn(ws, opts)
      BY <2>1, WalkPasses
    <2>3. CASE UNCHANGED deps
      BY <2>1, <2>3, FactsStay
    <2>4. CASE \E m \in {Manifest[ws[p]], Unread} : deps' = deps \o DependenciesIn(p, m)
      <3>1. PICK m \in {Manifest[ws[p]], Unread} : deps' = deps \o DependenciesIn(p, m)
        BY <2>4
      <3>2. DependenciesIn(p, m) \in Seq(AllDeps(ws, opts))
        BY <2>1, <2>2, DependenciesFacts
      <3>3. deps' \in Seq(AllDeps(ws, opts))
        BY <3>1, <3>2, ConcatProperties DEF FactsOK
      <3> QED  BY <2>1, <3>3 DEF FactsOK
    <2> QED  BY <1>4, <2>3, <2>4 DEF ReadManifest
  <1>5. ASSUME NEW p \in todo, ScanSecrets(p)  PROVE  FactsOK'
    <2>1. /\ pc = "secrets" /\ IsTree(ws) /\ WalkIn(ws, opts, todo)
          /\ ~IsDir(ws, p) /\ Keeps(ws, opts, p) /\ pc' = pc
          /\ ws' = ws /\ opts' = opts /\ deps' = deps
      BY <1>5 DEF ScanSecrets, CopyOK, WalkOK, Yields, world, import
    <2>2. p \in SelectedIn(ws, opts) /\ ws[p] \in Contents
      BY <2>1, WalkPasses DEF IsTree
    <2>3. CASE secrets' = secrets
      BY <2>1, <2>3, FactsStay
    <2>4. CASE secrets' = Capped(secrets \o SecretsIn(p, ws[p]))
      <3> DEFINE S == AllFound(ws, SelectedIn(ws, opts))
                 c == secrets \o SecretsIn(p, ws[p])
      <3>1. SecretsIn(p, ws[p]) \in Seq(FoundIn(ws, p))
        BY <2>2, SecretsFacts DEF FoundIn
      <3>2. FoundIn(ws, p) \subseteq S
        BY <2>2 DEF AllFound
      <3> HIDE DEF S
      <3>3. SecretsIn(p, ws[p]) \in Seq(S)
        BY <3>1, <3>2, SeqMonotonic
      <3>4. c \in Seq(S) /\ Len(c) \in Nat
        BY <3>3, ConcatProperties DEF FactsOK, S
      <3> HIDE DEF c
      <3>5. MaxFindings \in Nat
        BY FactsAssumption
      <3>6. Capped(c) \in Seq(S)
        <4>1. CASE Full(c)
          <5>1. MaxFindings <= Len(c) /\ Capped(c) = SubSeq(c, 1, MaxFindings)
            BY <3>4, <3>5, <4>1 DEF Full, Capped
          <5> QED  BY <3>4, <3>5, <5>1
        <4>2. CASE ~Full(c)
          BY <3>4, <4>2 DEF Capped
        <4> QED  BY <4>1, <4>2
      <3> QED  BY <2>1, <2>4, <3>6 DEF FactsOK, S, c
    <2> QED  BY <1>5, <2>3, <2>4 DEF ScanSecrets
  <1> QED  BY <1>1, <1>2, <1>3, <1>4, <1>5 DEF Next, Run, Analyse

LEMMA FactsInvariance == Spec => []FactsOK
  <1>1. ASSUME Init  PROVE  FactsOK
    <2>1. \A S : <<>> \in Seq(S)
      OBVIOUS
    <2> QED  BY <1>1, <2>1 DEF Init, FactsOK
  <1> QED  BY <1>1, FactsNext, Invariance, PTL DEF Spec

-----------------------------------------------------------------------------
(* The edges of both graphs are between modules.                            *)
LEMMA ResolveFacts ==
    ASSUME NEW f, NEW imp, NEW index, NEW o  PROVE  Resolve(f, imp, index, o) \subseteq index
  <1>1. ASSUME NEW parts  PROVE  AsPath(parts, index, o) \subseteq index
    BY DEF AsPath, First, Longest
  <1>2. Relative(f, imp, index) \subseteq index
    BY DEF Relative
  <1>3. Dotted(f, imp, index, o) \subseteq index
    BY <1>1 DEF Dotted, OrElse
  <1>4. Absolute(imp, index, o) \subseteq index
    BY <1>1 DEF Absolute, OrElse
  <1>5. Bare(imp, index) \subseteq index
    BY DEF Bare
  <1> QED  BY <1>2, <1>3, <1>4, <1>5, Zenon DEF Resolve

LEMMA EdgesFacts ==
    ASSUME NEW code, NEW o, NEW e \in Edges(code, o)
    PROVE  e[1] \in Modules(code) /\ e[2] \in Modules(code)
  <1>1. PICK f \in code :
           e \in {<<ModuleOf(f), m>> :
                     m \in UNION {Resolve(f, imp, Modules(code), o) : imp \in f.imports}
                              \ {ModuleOf(f)}}
    BY Zenon DEF Edges
  <1>2. PICK m \in UNION {Resolve(f, imp, Modules(code), o) : imp \in f.imports} :
           e = <<ModuleOf(f), m>>
    BY <1>1
  <1>3. m \in Modules(code)
    BY <1>2, ResolveFacts
  <1> QED  BY <1>2, <1>3 DEF Modules

LEMMA CallEdgesFacts ==
    ASSUME NEW files, NEW e \in CallEdges(files)
    PROVE  e[1] \in Modules(ToSet(files)) /\ e[2] \in Modules(ToSet(files))
  <1> DEFINE callable == {"class", "interface", "object", "function"}
             Declarers(name) ==
                 {ModuleOf(f) : f \in {g \in ToSet(files) :
                     \E i \in DOMAIN g.symbols :
                         g.symbols[i].name = name /\ g.symbols[i].kind \in callable}}
             Targets(name) ==
                 IF Cardinality(Declarers(name)) <= MaxDeclModules THEN Declarers(name) ELSE {}
  <1>1. PICK f \in ToSet(files) :
           e \in {<<ModuleOf(f), m>> : m \in UNION {Targets(n) : n \in f.calls} \ {ModuleOf(f)}}
    BY Zenon DEF CallEdges
  <1>2. PICK n, m : m \in Targets(n) /\ e = <<ModuleOf(f), m>>
    BY <1>1
  <1>3. m \in Modules(ToSet(files))
    BY <1>2 DEF Modules
  <1> QED  BY <1>2, <1>3 DEF Modules

LEMMA FlowsFacts ==
    ASSUME NEW eps, NEW edges, NEW flow \in Flows(eps, edges)
    PROVE  flow.entrypoint \in ToSet(eps) /\ flow.edges \subseteq edges
  <1>1. PICK i \in DOMAIN eps :
           flow = [entrypoint |-> eps[i], edges |-> FlowEdges(eps[i].module, edges)]
    BY DEF Flows
  <1> QED  BY <1>1 DEF ToSet, FlowEdges, Among

(* What all pages are made from.                                            *)
LEMMA DocsFacts ==
    LET eps == Entrypoints(parsed)
        imports == Edges(ToSet(parsed), order)
    IN  /\ Docs.modules = ModulesPage(parsed, imports)
        /\ Docs.features = StaticFeatures(eps)
        /\ Docs.entrypoints = ToSet(eps)
        /\ Docs.flows = Flows(eps, imports \cup CallEdges(parsed))
        /\ Docs.api = ApiPage(parsed)
        /\ Docs.dependencies = ToSet(deps)
        /\ Docs.security = SecurityPage(IF opts.scanner THEN secrets ELSE None)
  BY DEF Docs, Documentation, EntrypointsPage, DependenciesPage

LEMMA ModulesPageFacts ==
    ASSUME NEW files, NEW imports
    PROVE  /\ \A m \in ModulesPage(files, imports) :
                 /\ m.module \in Modules(ToSet(files))
                 /\ m.files = {f.path : f \in {g \in ToSet(files) : ModuleOf(g) = m.module}}
                 /\ m.depends_on = {e[2] : e \in {d \in imports : d[1] = m.module}}
           /\ \A id \in Modules(ToSet(files)) :
                 \E m \in ModulesPage(files, imports) : m.module = id
           /\ \A m, n \in ModulesPage(files, imports) : m.module = n.module => m = n
  <1> DEFINE Row(m) ==
                 [module |-> m, files |-> {f.path : f \in {g \in ToSet(files) : ModuleOf(g) = m}},
                  depends_on |-> {e[2] : e \in {d \in imports : d[1] = m}}]
  <1>1. ModulesPage(files, imports) = {Row(m) : m \in Modules(ToSet(files))}
    BY Zenon DEF ModulesPage
  <1>2. ASSUME NEW m
        PROVE  /\ Row(m).module = m
               /\ Row(m).files = {f.path : f \in {g \in ToSet(files) : ModuleOf(g) = m}}
               /\ Row(m).depends_on = {e[2] : e \in {d \in imports : d[1] = m}}
    OBVIOUS
  <1> HIDE DEF Row
  <1> QED  BY <1>1, <1>2

(* A file is parsed once, and has one module.                               *)
LEMMA ParsedOnce ==
    ASSUME IInv
    PROVE  /\ parsed \in Seq(ToSet(parsed))
           /\ \A f, g \in ToSet(parsed) : f.path = g.path => f = g
           /\ Paths(parsed) = {f.path : f \in ToSet(parsed)}
  <1>1. parsed \in Seq(ParsedIn(ws))
    BY DEF IInv, WalkOK, Counts
  <1>2. \A f \in ToSet(parsed) : f \in ParsedIn(ws)
    BY <1>1, ElementOfSeq DEF ToSet
  <1>3. ASSUME NEW f \in ParsedIn(ws)  PROVE  f = ParsedFile(f.path, ws[f.path])
    <2>1. PICK p \in DOMAIN ws : f = ParsedFile(p, ws[p])
      BY DEF ParsedIn
    <2> QED  BY <2>1, ParsedPath
  <1>4. parsed \in [1..Len(parsed) -> ToSet(parsed)] /\ Len(parsed) \in Nat
    BY <1>1 DEF ToSet
  <1>5. parsed \in Seq(ToSet(parsed))
    BY <1>4, SeqDef
  <1>6. \A f, g \in ToSet(parsed) : f.path = g.path => f = g
    BY <1>2, <1>3
  <1>7. Paths(parsed) = {f.path : f \in ToSet(parsed)}
    BY DEF Paths, ToSet
  <1> QED  BY <1>5, <1>6, <1>7

LEMMA RowOfFile ==
    ASSUME IInv, NEW f \in ToSet(parsed)
    PROVE  /\ \E m \in Docs.modules : m.module = ModuleOf(f) /\ f.path \in m.files
           /\ \A m \in Docs.modules : f.path \in m.files => m.module = ModuleOf(f)
           /\ \A m, n \in Docs.modules : m.module = n.module => m = n
  <1> DEFINE P == ModulesPage(parsed, Edges(ToSet(parsed), order))
             In(id) == {h.path : h \in {g \in ToSet(parsed) : ModuleOf(g) = id}}
  <1>1. Docs.modules = P
    BY DocsFacts
  <1>2. ModuleOf(f) \in Modules(ToSet(parsed))
    BY DEF Modules
  <1>3. /\ \A m \in P : m.files = In(m.module)
        /\ \A id \in Modules(ToSet(parsed)) : \E m \in P : m.module = id
        /\ \A m, n \in P : m.module = n.module => m = n
    BY ModulesPageFacts
  <1>4. f.path \in In(ModuleOf(f))
    OBVIOUS
  <1>5. ASSUME NEW id, f.path \in In(id)  PROVE  id = ModuleOf(f)
    <2>1. PICK g \in ToSet(parsed) : ModuleOf(g) = id /\ g.path = f.path
      BY <1>5
    <2>2. g = f
      BY <2>1, ParsedOnce
    <2> QED  BY <2>1, <2>2
  <1> HIDE DEF P, In
  <1> QED  BY <1>1, <1>2, <1>3, <1>4, <1>5

LEMMA HttpFacts ==
    ASSUME NEW files, NEW x \in HttpRoutes(files) \cup HttpCalls(files)
    PROVE  \E f \in ToSet(files) : x.module = ModuleOf(f) /\ x.file = f.path
  <1>1. CASE x \in HttpRoutes(files)
    <2>1. PICK f \in ToSet(files) :
             x \in {[method |-> r.method, path |-> r.path, module |-> ModuleOf(f),
                     file |-> f.path, handler |-> r.handler] : r \in f.routes}
      BY <1>1, Zenon DEF HttpRoutes
    <2>2. PICK r : x = [method |-> r.method, path |-> r.path, module |-> ModuleOf(f),
                        file |-> f.path, handler |-> r.handler]
      BY <2>1
    <2> QED  BY <2>2
  <1>2. CASE x \in HttpCalls(files)
    <2>1. PICK f \in ToSet(files) :
             x \in {[method |-> c.method, path |-> c.path, module |-> ModuleOf(f),
                     file |-> f.path] : c \in f.http_calls}
      BY <1>2, Zenon DEF HttpCalls
    <2>2. PICK c : x = [method |-> c.method, path |-> c.path, module |-> ModuleOf(f),
                        file |-> f.path]
      BY <2>1
    <2> QED  BY <2>2
  <1> QED  BY <1>1, <1>2

LEMMA EntryFacts ==
    ASSUME IInv, NEW x \in ToSet(Entrypoints(parsed))
    PROVE  \E f \in ToSet(parsed) : x.module = ModuleOf(f) /\ x.file = f.path
  <1>1. Entrypoints(parsed) \in Seq(UNION {EntriesOf(f) : f \in ToSet(parsed)})
    BY ParsedOnce, EntrypointsFacts
  <1>2. x \in UNION {EntriesOf(f) : f \in ToSet(parsed)}
    <2> DEFINE S == UNION {EntriesOf(f) : f \in ToSet(parsed)}
    <2> HIDE DEF S
    <2>1. Entrypoints(parsed) \in Seq(S)
      BY <1>1 DEF S
    <2>2. x \in S
      BY <2>1, ElementOfSeq DEF ToSet
    <2> QED  BY <2>2 DEF S
  <1>3. PICK f \in ToSet(parsed) : x \in EntriesOf(f)
    BY <1>2
  <1>4. PICK n, k : x = [name |-> n, kind |-> k, file |-> f.path, module |-> ModuleOf(f)]
    BY <1>3 DEF EntriesOf
  <1> QED  BY <1>4

LEMMA FeatureModules ==
    ASSUME NEW eps
    PROVE  UNION {f.modules : f \in StaticFeatures(eps)} = {e.module : e \in ToSet(eps)}
  <1> DEFINE S == ToSet(eps)
             OfKind(k) == {e \in S : e.kind = k}
             F(k) == [name |-> k, modules |-> {e.module : e \in OfKind(k)},
                      related |-> {e.name : e \in OfKind(k)}]
  <1>1. StaticFeatures(eps) = {F(k) : k \in {e.kind : e \in S}}
    BY Zenon DEF StaticFeatures
  <1>2. \A k : F(k).modules = {e.module : e \in OfKind(k)}
    OBVIOUS
  <1> HIDE DEF F, S
  <1>3. \A k \in {e.kind : e \in S} : F(k).modules \subseteq {e.module : e \in S}
    BY <1>2
  <1>4. \A e \in S : e.module \in F(e.kind).modules
    BY <1>2
  <1> QED  BY <1>1, <1>3, <1>4 DEF S

(* The pages agree, whatever a scan has read, and whatever failed of it.    *)
THEOREM PagesConsistent == Spec => []PagesAgree
  <1>1. ASSUME IInv, FactsOK  PROVE  PagesAgree
    <2> DEFINE docs == Docs
               ids == {m.module : m \in docs.modules}
               imports == Edges(ToSet(parsed), order)
               Holds(module, file) == \E m \in docs.modules : m.module = module /\ file \in m.files
    <2>1. ids = Modules(ToSet(parsed))
      BY DocsFacts, ModulesPageFacts
    <2>2. \A p \in Paths(parsed) : Cardinality({m \in docs.modules : p \in m.files}) = 1
      <3>1. TAKE p \in Paths(parsed)
      <3>2. PICK f \in ToSet(parsed) : f.path = p
        BY <1>1, ParsedOnce
      <3> DEFINE M == {m \in docs.modules : p \in m.files}
      <3>3. PICK m \in docs.modules : m.module = ModuleOf(f) /\ p \in m.files
        BY <1>1, <3>2, RowOfFile
      <3>4. \A n \in docs.modules : p \in n.files => n = m
        BY <1>1, <3>2, <3>3, RowOfFile
      <3>5. M = {m}
        BY <3>3, <3>4
      <3> QED  BY <3>5, FS_Singleton
    <2>3. \A x \in docs.api.routes \cup docs.api.calls \cup docs.entrypoints :
             Holds(x.module, x.file)
      <3>1. TAKE x \in docs.api.routes \cup docs.api.calls \cup docs.entrypoints
      <3>2. /\ docs.api.routes = HttpRoutes(parsed) /\ docs.api.calls = HttpCalls(parsed)
            /\ docs.entrypoints = ToSet(Entrypoints(parsed))
        BY DocsFacts DEF ApiPage
      <3>3. PICK f \in ToSet(parsed) : x.module = ModuleOf(f) /\ x.file = f.path
        BY <1>1, <3>1, <3>2, HttpFacts, EntryFacts
      <3> QED  BY <1>1, <3>3, RowOfFile
    <2>4. \A flow \in docs.flows :
             /\ flow.entrypoint \in docs.entrypoints
             /\ \A e \in flow.edges : {e[1], e[2]} \subseteq ids
      <3>1. TAKE flow \in docs.flows
      <3>2. /\ flow.entrypoint \in ToSet(Entrypoints(parsed))
            /\ flow.edges \subseteq imports \cup CallEdges(parsed)
        BY DocsFacts, FlowsFacts
      <3>3. \A e \in flow.edges :
               e[1] \in Modules(ToSet(parsed)) /\ e[2] \in Modules(ToSet(parsed))
        BY <3>2, EdgesFacts, CallEdgesFacts
      <3> QED  BY <2>1, <3>2, <3>3, DocsFacts
    <2>5. UNION {f.modules : f \in docs.features} = {e.module : e \in docs.entrypoints}
      BY DocsFacts, FeatureModules
    <2>6. UNION {m.depends_on : m \in docs.modules} \subseteq ids
      <3>1. \A m \in docs.modules : m.depends_on = {e[2] : e \in {d \in imports : d[1] = m.module}}
        BY DocsFacts, ModulesPageFacts
      <3>2. \A e \in imports : e[2] \in ids
        BY <2>1, EdgesFacts
      <3> HIDE DEF docs, ids, imports
      <3> QED  BY <3>1, <3>2
    <2>7. {d.manifest : d \in docs.dependencies} \subseteq Selected
      <3>1. docs.dependencies = ToSet(deps) /\ deps \in Seq(AllDeps(ws, opts))
        BY <1>1, DocsFacts DEF FactsOK
      <3>2. \A d \in docs.dependencies : d \in AllDeps(ws, opts)
        BY <3>1, ElementOfSeq DEF ToSet
      <3>3. \A d \in AllDeps(ws, opts) : d.manifest \in SelectedIn(ws, opts)
        BY DEF AllDeps
      <3> QED  BY <1>1, <3>2, <3>3, SelectedIs DEF IInv, CopyOK
    <2>8. {f.path : f \in docs.security} \subseteq Selected
      <3>1. docs.security \subseteq ToSet(secrets)
        BY DocsFacts DEF SecurityPage
      <3>2. \A f \in ToSet(secrets) : f \in AllFound(ws, SelectedIn(ws, opts))
        BY <1>1, ElementOfSeq DEF ToSet, FactsOK
      <3>3. \A f \in AllFound(ws, SelectedIn(ws, opts)) : f.path \in SelectedIn(ws, opts)
        <4>1. SelectedIn(ws, opts) \in SUBSET DOMAIN ws
          BY DEF SelectedIn
        <4> QED  BY <1>1, <4>1, FoundPath DEF IInv, CopyOK
      <3> QED  BY <1>1, <3>1, <3>2, <3>3, SelectedIs DEF IInv, CopyOK
    <2> HIDE DEF docs
    <2>9. {d.manifest : d \in docs.dependencies} \cup {f.path : f \in docs.security}
             \subseteq Selected
      BY <2>7, <2>8
    <2> QED  BY <2>2, <2>3, <2>4, <2>5, <2>6, <2>9, Zenon DEF PagesAgree, docs
  <1> QED  BY <1>1, Invariance, FactsInvariance, PTL

-----------------------------------------------------------------------------
(* The flows.  What holds of 0, and of the next number too, holds up to n.  *)
LEMMA Upwards ==
    ASSUME NEW n \in Nat, NEW A, 0 \in A, \A k \in 0..n : k # 0 /\ k - 1 \in A => k \in A
    PROVE  \A k \in 0..n : k \in A
  <1> DEFINE bad == {k \in 0..n : k \notin A}
  <1>1. SUFFICES ASSUME bad # {}  PROVE  FALSE
    OBVIOUS
  <1>2. bad \in SUBSET Nat
    OBVIOUS
  <1>3. PICK m \in bad : \A k \in bad : m <= k
    BY <1>1, <1>2, LeastOf
  <1>4. m \in 0..n /\ m # 0 /\ m \notin A /\ m - 1 \notin bad
    BY <1>2, <1>3
  <1>5. m - 1 \in 0..n
    BY <1>4
  <1> QED  BY <1>4, <1>5

-----------------------------------------------------------------------------
(* Modules are sorted by their ids, which differ.                           *)
Ranked(M) == /\ IsFiniteSet(M)
             /\ \A m, n \in M : IdRank[m] \in Int /\ (IdRank[m] = IdRank[n] => m = n)

(* A list of modules, none of them twice.                                   *)
Listed(s, M) ==
    /\ s \in Seq(M) /\ \A i, j \in DOMAIN s : s[i] = s[j] => i = j

LEMMA ListedFacts ==
    ASSUME NEW M, IsFiniteSet(M), NEW s, Listed(s, M)
    PROVE  /\ Len(s) \in Nat /\ DOMAIN s = 1..Len(s)
           /\ IsFiniteSet(ToSet(s)) /\ Cardinality(ToSet(s)) = Len(s)
           /\ ToSet(s) \subseteq M
  <1>1. Len(s) \in Nat /\ DOMAIN s = 1..Len(s) /\ \A i \in 1..Len(s) : s[i] \in M
    BY DEF Listed
  <1>2. ToSet(s) \subseteq M
    BY <1>1 DEF ToSet
  <1>3. s \in Bijection(1..Len(s), ToSet(s))
    <2>1. s \in [1..Len(s) -> ToSet(s)]
      BY <1>1 DEF ToSet, Listed
    <2>2. \A x \in ToSet(s) : \E i \in 1..Len(s) : s[i] = x
      BY <1>1 DEF ToSet
    <2>3. \A i, j \in 1..Len(s) : s[i] = s[j] => i = j
      BY <1>1 DEF Listed
    <2> QED  BY <2>1, <2>2, <2>3 DEF Bijection, Injection, Surjection, IsInjective
  <1>4. ExistsBijection(1..Len(s), ToSet(s))
    BY <1>3 DEF ExistsBijection
  <1>5. IsFiniteSet(ToSet(s))
    BY <1>2, FS_Subset
  <1>6. Cardinality(ToSet(s)) = Len(s)
    BY <1>1, <1>4, FS_CountingElements
  <1> QED  BY <1>1, <1>2, <1>5, <1>6

LEMMA ByIdFacts ==
    ASSUME NEW M, Ranked(M), NEW S \in SUBSET M
    PROVE  Listed(ById(S), S) /\ ToSet(ById(S)) = S /\ Len(ById(S)) = Cardinality(S)
  <1> DEFINE Under(x) == {y \in S : IdRank[y] < IdRank[x]}
             n == Cardinality(S)
             At(i) == CHOOSE x \in S : Cardinality(Under(x)) = i - 1
             r == [x \in S |-> Cardinality(Under(x)) + 1]
  <1>1. IsFiniteSet(S) /\ n \in Nat
    BY FS_Subset, FS_CardinalityType DEF Ranked
  <1>2. ById(S) = [i \in 1..n |-> At(i)]
    BY DEF ById, InOrder
  <1>3. \A x \in S : IdRank[x] \in Int
    BY DEF Ranked
  <1>4. ASSUME NEW x \in S
        PROVE  /\ IsFiniteSet(Under(x)) /\ Cardinality(Under(x)) \in Nat
               /\ Cardinality(Under(x)) < n
    <2>1. Under(x) \in SUBSET S /\ x \notin Under(x)
      BY <1>3
    <2> HIDE DEF Under
    <2>2. /\ IsFiniteSet(Under(x)) /\ Cardinality(Under(x)) <= n
          /\ n = Cardinality(Under(x)) => S = Under(x)
      BY <1>1, <2>1, FS_Subset
    <2>3. Cardinality(Under(x)) \in Nat
      BY <2>2, FS_CardinalityType
    <2> QED  BY <1>1, <2>1, <2>2, <2>3
  <1>5. ASSUME NEW x \in S, NEW y \in S, IdRank[x] < IdRank[y]
        PROVE  Cardinality(Under(x)) # Cardinality(Under(y))
    <2>1. Under(x) \in SUBSET Under(y) /\ x \in Under(y) /\ x \notin Under(x)
      BY <1>3, <1>5
    <2> HIDE DEF Under
    <2>2. Cardinality(Under(y)) = Cardinality(Under(x)) => Under(y) = Under(x)
      BY <1>4, <2>1, FS_Subset
    <2> QED  BY <2>1, <2>2
  <1>6. \A x, y \in S : Cardinality(Under(x)) = Cardinality(Under(y)) => x = y
    <2>1. SUFFICES ASSUME NEW x \in S, NEW y \in S, x # y
                   PROVE  Cardinality(Under(x)) # Cardinality(Under(y))
      OBVIOUS
    <2>2. IdRank[x] # IdRank[y] /\ IdRank[x] \in Int /\ IdRank[y] \in Int
      BY <2>1 DEF Ranked
    <2>3. CASE IdRank[x] < IdRank[y]
      BY <1>5, <2>3
    <2>4. CASE IdRank[y] < IdRank[x]
      BY <1>5, <2>4
    <2> QED  BY <2>2, <2>3, <2>4
  <1> HIDE DEF Under
  <1>7. r \in Injection(S, 1..n)
    <2>1. \A x \in S : r[x] \in 1..n
      BY <1>1, <1>4
    <2>2. r \in [S -> 1..n]
      BY <2>1
    <2>3. \A x, y \in S : r[x] = r[y] => x = y
      BY <1>4, <1>6
    <2> HIDE DEF r
    <2> QED  BY <2>2, <2>3 DEF Injection, IsInjective
  <1>8. IsFiniteSet(1..n) /\ Cardinality(1..n) = n
    BY <1>1, FS_Interval
  <1>9. r \in Surjection(S, 1..n)
    <2> HIDE DEF n, r
    <2> QED  BY <1>7, <1>8, FS_Injection DEF n
  <1>10. \A i \in 1..n : \E x \in S : Cardinality(Under(x)) = i - 1
    <2>1. TAKE i \in 1..n
    <2>2. PICK x \in S : r[x] = i
      <3> HIDE DEF r
      <3> QED  BY <1>9 DEF Surjection
    <2> QED  BY <1>4, <2>2
  <1>11. \A i \in 1..n : At(i) \in S /\ Cardinality(Under(At(i))) = i - 1
    BY <1>10
  <1> HIDE DEF At
  <1>12. \A i, j \in 1..n : At(i) = At(j) => i = j
    BY <1>1, <1>11
  <1>13. \A x \in S : \E i \in 1..n : x = At(i)
    <2>1. TAKE x \in S
    <2>2. r[x] \in 1..n /\ Cardinality(Under(x)) = r[x] - 1
      BY <1>1, <1>4
    <2> HIDE DEF r
    <2>3. x = At(r[x])
      BY <1>6, <1>11, <2>2
    <2> QED  BY <2>2, <2>3
  <1> DEFINE s == [i \in 1..n |-> At(i)]
  <1>14. s \in [1..n -> S] /\ DOMAIN s = 1..n
    BY <1>11
  <1>15. s \in Seq(S) /\ Len(s) = n
    <2> HIDE DEF s, n
    <2> QED  BY <1>1, <1>14, SeqDef, LenProperties DEF n
  <1>16. ToSet(s) = S
    BY <1>11, <1>13 DEF ToSet
  <1>17. \A i, j \in DOMAIN s : s[i] = s[j] => i = j
    BY <1>12
  <1>18. ById(S) = s
    BY <1>2, Zenon
  <1> HIDE DEF s
  <1> QED  BY <1>15, <1>16, <1>17, <1>18 DEF Listed

LEMMA Shorter ==
    ASSUME NEW n \in Nat, NEW k \in Nat
    PROVE  Min({n, k}) \in Nat /\ Min({n, k}) <= n /\ Min({n, k}) <= k /\ Min({n, k}) \in {n, k}
  <1>1. \E x \in {n, k} : \A y \in {n, k} : x <= y
    OBVIOUS
  <1> QED  BY <1>1 DEF Min

Between(edges, M) == \A e \in edges : e[1] \in M /\ e[2] \in M

(* A list goes on with the first modules of another one.                    *)
LEMMA Continued ==
    ASSUME NEW M, NEW v, Listed(v, M), NEW t, Listed(t, M), ToSet(t) \cap ToSet(v) = {},
           NEW k \in Nat, k <= Len(t)
    PROVE  LET w == v \o SubSeq(t, 1, k)
           IN  /\ Listed(w, M) /\ Len(w) = Len(v) + k
               /\ ToSet(w) = ToSet(v) \cup {t[i] : i \in 1..k}
  <1> DEFINE u == SubSeq(t, 1, k)
             w == v \o u
             l == Len(v)
  <1>1. /\ v \in Seq(M) /\ l \in Nat /\ DOMAIN v = 1..l
        /\ t \in Seq(M) /\ Len(t) \in Nat /\ DOMAIN t = 1..Len(t)
    BY DEF Listed
  <1>2. u \in Seq(M) /\ Len(u) = k /\ \A i \in 1..k : u[i] = t[i]
    BY <1>1
  <1> HIDE DEF u
  <1>3. /\ w \in Seq(M) /\ Len(w) = l + k
        /\ \A i \in 1..(l + k) : w[i] = IF i <= l THEN v[i] ELSE u[i - l]
    BY <1>1, <1>2, ConcatProperties
  <1>4. \A i \in 1..(l + k) : i <= l \/ i - l \in 1..k
    BY <1>1
  <1>5. DOMAIN w = 1..(l + k)
    BY <1>3
  <1> HIDE DEF w, l
  <1>6. /\ \A i \in 1..(l + k) : i <= l => i \in 1..l /\ w[i] = v[i]
        /\ \A i \in 1..(l + k) : ~(i <= l) => i - l \in 1..k /\ w[i] = t[i - l]
    BY <1>1, <1>2, <1>3, <1>4
  <1>7. /\ \A i \in 1..l : v[i] \in ToSet(v)
        /\ \A i \in 1..k : t[i] \in ToSet(t) /\ i \in DOMAIN t
    BY <1>1 DEF ToSet
  <1>8. ASSUME NEW i \in 1..(l + k), NEW j \in 1..(l + k), w[i] = w[j]
        PROVE  i = j
    <2>1. CASE i <= l /\ j <= l
      BY <1>1, <1>6, <1>8, <2>1 DEF Listed
    <2>2. CASE i <= l /\ ~(j <= l)
      BY <1>6, <1>7, <1>8, <2>2
    <2>3. CASE ~(i <= l) /\ j <= l
      BY <1>6, <1>7, <1>8, <2>3
    <2>4. CASE ~(i <= l) /\ ~(j <= l)
      <3>1. i - l = j - l
        BY <1>6, <1>7, <1>8, <2>4 DEF Listed
      <3> QED  BY <1>1, <3>1
    <2> QED  BY <2>1, <2>2, <2>3, <2>4
  <1>9. Listed(w, M)
    BY <1>3, <1>5, <1>8 DEF Listed
  <1>10. ASSUME NEW i \in 1..k  PROVE  l + i \in 1..(l + k) /\ w[l + i] = t[i]
    <2>1. l + i \in 1..(l + k) /\ ~(l + i <= l) /\ (l + i) - l = i
      BY <1>1
    <2> QED  BY <1>6, <2>1
  <1>11. \A i \in 1..l : i \in 1..(l + k) /\ i <= l
    BY <1>1
  <1>12. ToSet(w) = ToSet(v) \cup {t[i] : i \in 1..k}
    <2>1. ASSUME NEW x \in ToSet(w)  PROVE  x \in ToSet(v) \cup {t[i] : i \in 1..k}
      <3>1. PICK i \in 1..(l + k) : x = w[i]
        BY <1>5 DEF ToSet
      <3> QED  BY <1>6, <1>7, <3>1
    <2>2. ASSUME NEW x \in ToSet(v)  PROVE  x \in ToSet(w)
      <3>1. PICK i \in 1..l : x = v[i]
        BY <1>1 DEF ToSet
      <3> QED  BY <1>5, <1>6, <1>11, <3>1 DEF ToSet
    <2>3. ASSUME NEW i \in 1..k  PROVE  t[i] \in ToSet(w)
      BY <1>5, <1>10 DEF ToSet
    <2> QED  BY <2>1, <2>2, <2>3
  <1> QED  BY <1>3, <1>9, <1>12 DEF w, u, l

(* A node adds all of its targets, or fills the list.                       *)
LEMMA TargetsFacts ==
    ASSUME NEW M, Ranked(M), NEW edges, Between(edges, M), NEW node,
           NEW v, Listed(v, M), Len(v) <= MaxFlowNodes
    PROVE  LET w == v \o NewTargets(v, node, edges)
           IN  /\ Listed(w, M) /\ Len(v) <= Len(w) /\ Len(w) <= MaxFlowNodes
               /\ ToSet(v) \subseteq ToSet(w)
               /\ \A x \in ToSet(w) \ ToSet(v) : \E e \in edges : e[1] = node /\ e[2] = x
               /\ Len(w) = MaxFlowNodes \/ \A e \in edges : e[1] = node => e[2] \in ToSet(w)
  <1> DEFINE w == v \o NewTargets(v, node, edges)
             S == {e[2] : e \in {d \in edges : d[1] = node}} \ ToSet(v)
             t == ById(S)
             n == MaxFlowNodes - Len(v)
             k == Min({n, Len(t)})
  <1>1. S \in SUBSET M /\ \A x \in S : x \notin ToSet(v) /\ \E e \in edges : e[1] = node /\ e[2] = x
    BY DEF Between
  <1>2. \A e \in edges : e[1] = node => e[2] \in ToSet(v) \/ e[2] \in S
    OBVIOUS
  <1>3. w = v \o SubSeq(t, 1, k)
    BY Zenon DEF NewTargets, FirstOf
  <1> HIDE DEF S, w
  <1>4. t \in Seq(S) /\ ToSet(t) = S /\ \A i, j \in DOMAIN t : t[i] = t[j] => i = j
    BY <1>1, ByIdFacts DEF Listed
  <1>5. MaxFlowNodes \in Nat /\ Len(v) \in Nat
    BY CapsAssumption DEF Listed
  <1> HIDE DEF t
  <1>6. n \in Nat /\ Len(t) \in Nat /\ DOMAIN t = 1..Len(t)
    BY <1>4, <1>5
  <1>7. k \in Nat /\ k <= n /\ k <= Len(t) /\ (k = n \/ k = Len(t))
    <2> HIDE DEF n
    <2> QED  BY <1>6, Shorter
  <1> HIDE DEF k
  <1>8. Listed(t, M)
    BY <1>1, <1>4, SeqMonotonic DEF Listed
  <1>9. ToSet(t) \cap ToSet(v) = {}
    BY <1>1, <1>4
  <1>10. /\ Listed(w, M) /\ Len(w) = Len(v) + k
         /\ ToSet(w) = ToSet(v) \cup {t[i] : i \in 1..k}
    <2>1. k \in Nat /\ k <= Len(t)
      BY <1>7, Zenon
    <2> HIDE DEF n
    <2> QED  BY <1>3, <1>8, <1>9, <2>1, Continued
  <1>11. Len(v) <= Len(w) /\ Len(w) <= MaxFlowNodes /\ (k = n => Len(w) = MaxFlowNodes)
    BY <1>5, <1>7, <1>10
  <1> HIDE DEF n
  <1>12. {t[i] : i \in 1..k} \subseteq S
    <2>1. k \in Nat /\ k <= Len(t)
      BY <1>7, Zenon
    <2>2. Len(t) \in Nat /\ DOMAIN t = 1..Len(t)
      BY <1>6, Zenon
    <2>3. \A i \in 1..k : i \in DOMAIN t
      BY <2>1, <2>2
    <2> QED  BY <1>4, <2>3 DEF ToSet
  <1>13. k = Len(t) => {t[i] : i \in 1..k} = S
    BY <1>4, <1>6 DEF ToSet
  <1> QED  BY <1>1, <1>2, <1>7, <1>10, <1>11, <1>12, <1>13 DEF w

(* A round: one node of the frontier after the other.                       *)
IsRound(g, v, nodes, edges, n) ==
    g = [k \in 0..n |-> IF k = 0 THEN v ELSE g[k - 1] \o NewTargets(g[k - 1], nodes[k], edges)]

LEMMA RoundExists ==
    ASSUME NEW v, NEW nodes, NEW edges, NEW n \in Nat
    PROVE  \E g : IsRound(g, v, nodes, edges, n)
  <1> DEFINE A == {k \in Nat : \E g : IsRound(g, v, nodes, edges, k)}
  <1>1. 0 \in A
    <2>1. IsRound([k \in 0..0 |-> v], v, nodes, edges, 0)
      BY DEF IsRound
    <2> QED  BY <2>1
  <1>2. ASSUME NEW m \in 0..n, m # 0, m - 1 \in A  PROVE  m \in A
    <2>1. m \in Nat /\ m - 1 \in Nat
      BY <1>2
    <2>2. PICK g : IsRound(g, v, nodes, edges, m - 1)
      BY <1>2
    <2> DEFINE next(k) == g[k - 1] \o NewTargets(g[k - 1], nodes[k], edges)
               h == [k \in 0..m |-> IF k = m THEN next(m) ELSE g[k]]
    <2>3. ASSUME NEW k \in 0..m
          PROVE  h[k] = IF k = 0 THEN v ELSE h[k - 1] \o NewTargets(h[k - 1], nodes[k], edges)
      <3>1. CASE k = m
        BY <1>2, <2>1, <3>1
      <3>2. CASE k # m
        <4>1. k \in 0..(m - 1) /\ h[k] = g[k]
          BY <2>1, <3>2
        <4>2. g[k] = IF k = 0 THEN v ELSE next(k)
          BY <2>2, <4>1 DEF IsRound
        <4>3. k # 0 => h[k - 1] = g[k - 1]
          BY <2>1, <4>1
        <4> QED  BY <4>1, <4>2, <4>3
      <3> QED  BY <3>1, <3>2
    <2>4. h = [k \in 0..m |-> h[k]]
      OBVIOUS
    <2> HIDE DEF h
    <2>5. IsRound(h, v, nodes, edges, m)
      BY <2>3, <2>4 DEF IsRound
    <2> QED  BY <2>1, <2>5
  <1> HIDE DEF A
  <1>3. n \in A
    BY <1>1, <1>2, Upwards
  <1> QED  BY <1>3 DEF A

(* What a round makes of a list: all targets of the frontier, if there is   *)
(* room for them.                                                           *)
LEMMA RoundFacts ==
    ASSUME NEW M, Ranked(M), NEW edges, Between(edges, M), NEW F \in SUBSET M,
           NEW v, Listed(v, M), Len(v) <= MaxFlowNodes
    PROVE  LET w == Round(v, F, edges)
           IN  /\ Listed(w, M) /\ Len(w) <= MaxFlowNodes
               /\ ToSet(v) \subseteq ToSet(w)
               /\ \A x \in ToSet(w) \ ToSet(v) : \E e \in edges : e[1] \in F /\ e[2] = x
               /\ Len(w) = MaxFlowNodes \/ \A e \in edges : e[1] \in F => e[2] \in ToSet(w)
  <1> DEFINE nodes == ById(F)
             N == Len(nodes)
             g == CHOOSE g : IsRound(g, v, nodes, edges, N)
             Good(w, k) ==
                 /\ Listed(w, M) /\ Len(w) <= MaxFlowNodes
                 /\ ToSet(v) \subseteq ToSet(w)
                 /\ \A x \in ToSet(w) \ ToSet(v) : \E e \in edges : e[1] \in F /\ e[2] = x
                 /\ \/ Len(w) = MaxFlowNodes
                    \/ \A i \in 1..k : \A e \in edges : e[1] = nodes[i] => e[2] \in ToSet(w)
  <1>1. Round(v, F, edges) = g[N]
    BY DEF Round, IsRound
  <1>2. Listed(nodes, F) /\ ToSet(nodes) = F
    BY ByIdFacts
  <1> HIDE DEF nodes
  <1>3. N \in Nat /\ DOMAIN nodes = 1..N
    BY <1>2 DEF Listed
  <1>4. \A i \in 1..N : nodes[i] \in F
    BY <1>2, <1>3 DEF ToSet
  <1>5. \A x \in F : \E i \in 1..N : x = nodes[i]
    BY <1>2, <1>3 DEF ToSet
  <1> HIDE DEF N
  <1>6. IsRound(g, v, nodes, edges, N)
    BY <1>3, RoundExists
  <1> HIDE DEF g
  <1>7. /\ g[0] = v
        /\ \A k \in 1..N : g[k] = g[k - 1] \o NewTargets(g[k - 1], nodes[k], edges)
    BY <1>3, <1>6 DEF IsRound
  <1>8. MaxFlowNodes \in Nat
    BY CapsAssumption
  <1>9. ASSUME NEW k \in 1..N, NEW u, Good(u, k - 1)
        PROVE  Good(u \o NewTargets(u, nodes[k], edges), k)
    <2> DEFINE w == u \o NewTargets(u, nodes[k], edges)
    <2>1. /\ Listed(w, M) /\ Len(u) <= Len(w) /\ Len(w) <= MaxFlowNodes
          /\ ToSet(u) \subseteq ToSet(w)
          /\ \A x \in ToSet(w) \ ToSet(u) : \E e \in edges : e[1] = nodes[k] /\ e[2] = x
          /\ Len(w) = MaxFlowNodes \/ \A e \in edges : e[1] = nodes[k] => e[2] \in ToSet(w)
      BY <1>9, TargetsFacts
    <2> HIDE DEF w
    <2>2. Len(u) \in Nat /\ Len(w) \in Nat
      BY <1>9, <2>1 DEF Listed
    <2>3. Len(u) = MaxFlowNodes => Len(w) = MaxFlowNodes
      BY <1>8, <2>1, <2>2
    <2>4. \A x \in ToSet(w) \ ToSet(v) : \E e \in edges : e[1] \in F /\ e[2] = x
      BY <1>4, <1>9, <2>1
    <2>5. ASSUME Len(w) # MaxFlowNodes, NEW i \in 1..k, NEW e \in edges, e[1] = nodes[i]
          PROVE  e[2] \in ToSet(w)
      <3>1. CASE i = k
        BY <2>1, <2>5, <3>1
      <3>2. CASE i # k
        <4>1. i \in 1..(k - 1)
          BY <1>3, <3>2
        <4> QED  BY <1>9, <2>1, <2>3, <2>5, <4>1
      <3> QED  BY <3>1, <3>2
    <2> QED  BY <1>9, <2>1, <2>4, <2>5 DEF w
  <1>10. Good(v, 0)
    OBVIOUS
  <1> HIDE DEF Good
  <1> DEFINE A == {k \in 0..N : Good(g[k], k)}
  <1>11. 0 \in A
    BY <1>3, <1>7, <1>10
  <1>12. \A k \in 0..N : k # 0 /\ k - 1 \in A => k \in A
    <2>1. TAKE k \in 0..N
    <2>2. HAVE k # 0 /\ k - 1 \in A
    <2>3. k \in 1..N /\ Good(g[k - 1], k - 1)
      BY <1>3, <2>2
    <2> QED  BY <1>7, <1>9, <2>3
  <1> HIDE DEF A
  <1>13. N \in A
    BY <1>3, <1>11, <1>12, Upwards
  <1>14. Good(g[N], N)
    BY <1>13 DEF A
  <1> QED  BY <1>1, <1>5, <1>14 DEF Good

-----------------------------------------------------------------------------
(* What is within so many steps of a module.                                *)
IsReach(r, start, edges, n) ==
    r = [k \in 0..n |->
            IF k = 0 THEN {start}
            ELSE r[k - 1] \cup {e[2] : e \in {d \in edges : d[1] \in r[k - 1]}}]

ReachOf(start, edges) == CHOOSE r : IsReach(r, start, edges, MaxFlowDepth)

LEMMA ReachExists ==
    ASSUME NEW start, NEW edges, NEW n \in Nat  PROVE  \E r : IsReach(r, start, edges, n)
  <1> DEFINE A == {k \in Nat : \E r : IsReach(r, start, edges, k)}
  <1>1. 0 \in A
    <2>1. IsReach([k \in 0..0 |-> {start}], start, edges, 0)
      BY DEF IsReach
    <2> QED  BY <2>1
  <1>2. ASSUME NEW m \in 0..n, m # 0, m - 1 \in A  PROVE  m \in A
    <2>1. m \in Nat /\ m - 1 \in Nat
      BY <1>2
    <2>2. PICK g : IsReach(g, start, edges, m - 1)
      BY <1>2
    <2> DEFINE More(s) == s \cup {e[2] : e \in {d \in edges : d[1] \in s}}
               h == [k \in 0..m |-> IF k = m THEN More(g[m - 1]) ELSE g[k]]
    <2>3. ASSUME NEW k \in 0..m
          PROVE  h[k] = IF k = 0 THEN {start} ELSE More(h[k - 1])
      <3> HIDE DEF More
      <3>1. CASE k = m
        BY <1>2, <2>1, <3>1
      <3>2. CASE k # m
        <4>1. k \in 0..(m - 1) /\ h[k] = g[k]
          BY <2>1, <3>2
        <4>2. g[k] = IF k = 0 THEN {start} ELSE More(g[k - 1])
          BY <2>2, <4>1 DEF IsReach, More
        <4>3. k # 0 => h[k - 1] = g[k - 1]
          BY <2>1, <4>1
        <4> QED  BY <4>1, <4>2, <4>3
      <3> QED  BY <3>1, <3>2
    <2>4. h = [k \in 0..m |-> h[k]]
      OBVIOUS
    <2> HIDE DEF h
    <2>5. IsReach(h, start, edges, m)
      BY <2>3, <2>4 DEF IsReach
    <2> QED  BY <2>1, <2>5
  <1> HIDE DEF A
  <1>3. n \in A
    BY <1>1, <1>2, Upwards
  <1> QED  BY <1>3 DEF A

LEMMA ReachFacts ==
    ASSUME NEW start, NEW edges
    PROVE  LET r == ReachOf(start, edges)
           IN  /\ Reached(start, edges) = r[MaxFlowDepth] /\ r[0] = {start}
               /\ \A k \in 1..MaxFlowDepth :
                     r[k] = r[k - 1] \cup {e[2] : e \in {d \in edges : d[1] \in r[k - 1]}}
  <1>1. MaxFlowDepth \in Nat
    BY CapsAssumption
  <1> DEFINE r == ReachOf(start, edges)
  <1>2. IsReach(r, start, edges, MaxFlowDepth)
    BY <1>1, ReachExists DEF ReachOf
  <1>3. Reached(start, edges) = r[MaxFlowDepth]
    BY DEF Reached, ReachOf, IsReach
  <1> HIDE DEF r
  <1>4. r[0] = {start}
    BY <1>1, <1>2 DEF IsReach
  <1>5. ASSUME NEW k \in 1..MaxFlowDepth
        PROVE  r[k] = r[k - 1] \cup {e[2] : e \in {d \in edges : d[1] \in r[k - 1]}}
    <2>1. k \in 0..MaxFlowDepth /\ k # 0
      BY <1>1
    <2> QED  BY <1>2, <2>1 DEF IsReach
  <1> QED  BY <1>3, <1>4, <1>5 DEF r

(* More edges reach more.                                                   *)
LEMMA ReachGrows ==
    ASSUME NEW start, NEW edges, NEW some \in SUBSET edges
    PROVE  \A k \in 0..MaxFlowDepth : ReachOf(start, some)[k] \subseteq ReachOf(start, edges)[k]
  <1> DEFINE r == ReachOf(start, some)
             q == ReachOf(start, edges)
             A == {k \in 0..MaxFlowDepth : r[k] \subseteq q[k]}
  <1>1. MaxFlowDepth \in Nat
    BY CapsAssumption
  <1>2. 0 \in A
    BY <1>1, ReachFacts
  <1>3. ASSUME NEW k \in 0..MaxFlowDepth, k # 0, k - 1 \in A  PROVE  k \in A
    <2>1. k \in 1..MaxFlowDepth /\ r[k - 1] \subseteq q[k - 1]
      BY <1>1, <1>3
    <2>2. r[k] = r[k - 1] \cup {e[2] : e \in {d \in some : d[1] \in r[k - 1]}}
      BY <2>1, ReachFacts
    <2>3. q[k] = q[k - 1] \cup {e[2] : e \in {d \in edges : d[1] \in q[k - 1]}}
      BY <2>1, ReachFacts
    <2> HIDE DEF r, q
    <2> QED  BY <2>1, <2>2, <2>3
  <1> HIDE DEF A
  <1>4. \A k \in 0..MaxFlowDepth : k \in A
    BY <1>1, <1>2, <1>3, Upwards
  <1> QED  BY <1>4 DEF A

(* What is reached is the start or the end of an edge.                      *)
LEMMA ReachEnds ==
    ASSUME NEW start, NEW edges
    PROVE  \A k \in 0..MaxFlowDepth :
              ReachOf(start, edges)[k] \subseteq {start} \cup {e[2] : e \in edges}
  <1> DEFINE r == ReachOf(start, edges)
             A == {k \in 0..MaxFlowDepth : r[k] \subseteq {start} \cup {e[2] : e \in edges}}
  <1>1. MaxFlowDepth \in Nat
    BY CapsAssumption
  <1>2. 0 \in A
    BY <1>1, ReachFacts
  <1>3. ASSUME NEW k \in 0..MaxFlowDepth, k # 0, k - 1 \in A  PROVE  k \in A
    <2>1. k \in 1..MaxFlowDepth /\ r[k - 1] \subseteq {start} \cup {e[2] : e \in edges}
      BY <1>1, <1>3
    <2>2. r[k] = r[k - 1] \cup {e[2] : e \in {d \in edges : d[1] \in r[k - 1]}}
      BY <2>1, ReachFacts
    <2> HIDE DEF r
    <2> QED  BY <2>1, <2>2
  <1> HIDE DEF A
  <1>4. \A k \in 0..MaxFlowDepth : k \in A
    BY <1>1, <1>2, <1>3, Upwards
  <1> QED  BY <1>4 DEF A

(* The search: a round at each depth.                                       *)
Deepened(s, edges) ==
    IF s.frontier = {} \/ Len(s.visited) >= MaxFlowNodes THEN s
    ELSE After(s, Round(s.visited, s.frontier, edges))
IsSearch(g, start, edges, n) ==
    g = [d \in 0..n |->
            IF d = 0 THEN [visited |-> <<start>>, frontier |-> {start}]
            ELSE Deepened(g[d - 1], edges)]

LEMMA SearchExists ==
    ASSUME NEW start, NEW edges, NEW n \in Nat  PROVE  \E g : IsSearch(g, start, edges, n)
  <1> DEFINE A == {k \in Nat : \E g : IsSearch(g, start, edges, k)}
             from == [visited |-> <<start>>, frontier |-> {start}]
  <1>1. 0 \in A
    <2>1. IsSearch([k \in 0..0 |-> from], start, edges, 0)
      BY DEF IsSearch
    <2> QED  BY <2>1
  <1>2. ASSUME NEW m \in 0..n, m # 0, m - 1 \in A  PROVE  m \in A
    <2>1. m \in Nat /\ m - 1 \in Nat
      BY <1>2
    <2>2. PICK g : IsSearch(g, start, edges, m - 1)
      BY <1>2
    <2> DEFINE h == [k \in 0..m |-> IF k = m THEN Deepened(g[m - 1], edges) ELSE g[k]]
    <2>3. ASSUME NEW k \in 0..m
          PROVE  h[k] = IF k = 0 THEN from ELSE Deepened(h[k - 1], edges)
      <3> HIDE DEF from
      <3>1. CASE k = m
        BY <1>2, <2>1, <3>1
      <3>2. CASE k # m
        <4>1. k \in 0..(m - 1) /\ h[k] = g[k]
          BY <2>1, <3>2
        <4>2. g[k] = IF k = 0 THEN from ELSE Deepened(g[k - 1], edges)
          BY <2>2, <4>1 DEF IsSearch, from
        <4>3. k # 0 => h[k - 1] = g[k - 1]
          BY <2>1, <4>1
        <4> QED  BY <4>1, <4>2, <4>3
      <3> QED  BY <3>1, <3>2
    <2>4. h = [k \in 0..m |-> h[k]]
      OBVIOUS
    <2> HIDE DEF h
    <2>5. IsSearch(h, start, edges, m)
      BY <2>3, <2>4 DEF IsSearch
    <2> QED  BY <2>1, <2>5
  <1> HIDE DEF A
  <1>3. n \in A
    BY <1>1, <1>2, Upwards
  <1> QED  BY <1>3 DEF A

(* All that is visited is reached through what is visited; unless the list  *)
(* is full, all that is within d steps is visited, and what is behind the   *)
(* frontier leads nowhere else.                                             *)
Searched(s, M, start, edges, d) ==
    LET visited == ToSet(s.visited)
    IN  /\ Listed(s.visited, M) /\ Len(s.visited) <= MaxFlowNodes
        /\ start \in visited /\ s.frontier \subseteq visited
        /\ visited \subseteq ReachOf(start, Among(visited, edges))[d]
        /\ \/ Len(s.visited) = MaxFlowNodes
           \/ /\ ReachOf(start, edges)[d] \subseteq visited
              /\ \A e \in edges : e[1] \in visited \ s.frontier => e[2] \in visited

LEMMA SearchStarts ==
    ASSUME NEW M, NEW edges, NEW start \in M
    PROVE  Searched([visited |-> <<start>>, frontier |-> {start}], M, start, edges, 0)
  <1> DEFINE v == <<start>>
  <1>1. v \in Seq(M) /\ Len(v) = 1 /\ DOMAIN v = 1..1 /\ v[1] = start
    OBVIOUS
  <1>2. MaxFlowNodes \in Nat \ {0}
    BY CapsAssumption
  <1> HIDE DEF v
  <1>3. ToSet(v) = {start}
    BY <1>1 DEF ToSet
  <1>4. Listed(v, M) /\ Len(v) <= MaxFlowNodes
    BY <1>1, <1>2 DEF Listed
  <1>5. /\ ReachOf(start, Among(ToSet(v), edges))[0] = {start}
        /\ ReachOf(start, edges)[0] = {start}
    BY ReachFacts
  <1> QED  BY <1>3, <1>4, <1>5 DEF Searched, v

LEMMA SearchDeepens ==
    ASSUME NEW M, Ranked(M), NEW edges, Between(edges, M), NEW start,
           NEW d \in 1..MaxFlowDepth, NEW s, Searched(s, M, start, edges, d - 1)
    PROVE  Searched(Deepened(s, edges), M, start, edges, d)
  <1> DEFINE v == ToSet(s.visited)
             full == Len(s.visited) >= MaxFlowNodes
             all == ReachOf(start, edges)
             mine == ReachOf(start, Among(v, edges))
  <1>1. MaxFlowDepth \in Nat /\ MaxFlowNodes \in Nat
    BY CapsAssumption
  <1>2. /\ all[d] = all[d - 1] \cup {e[2] : e \in {c \in edges : c[1] \in all[d - 1]}}
        /\ mine[d - 1] \subseteq mine[d]
    BY ReachFacts
  <1>3. Among(v, edges) \in SUBSET edges
    BY DEF Among
  <1>4. all[d - 1] = v \/ Len(s.visited) = MaxFlowNodes
    <2>1. d - 1 \in 0..MaxFlowDepth
      BY <1>1
    <2>2. mine[d - 1] \subseteq all[d - 1]
      BY <1>3, <2>1, ReachGrows
    <2> HIDE DEF mine, all
    <2> QED  BY <2>2 DEF Searched, mine, all
  <1>5. Len(s.visited) \in Nat
    BY DEF Searched, Listed
  <1>6. CASE s.frontier = {} \/ full
    <2>1. Deepened(s, edges) = s
      BY <1>6 DEF Deepened
    <2>2. v \subseteq mine[d]
      BY <1>2 DEF Searched
    <2>3. CASE Len(s.visited) = MaxFlowNodes
      BY <2>1, <2>2, <2>3 DEF Searched
    <2>4. CASE Len(s.visited) # MaxFlowNodes
      <3>1. s.frontier = {}
        BY <1>1, <1>5, <1>6, <2>4 DEF Searched
      <3>2. all[d] \subseteq v
        BY <1>2, <1>4, <2>4, <3>1 DEF Searched
      <3> QED  BY <2>1, <2>2, <3>2 DEF Searched
    <2> QED  BY <2>3, <2>4
  <1>7. CASE ~(s.frontier = {} \/ full)
    <2> DEFINE w == Round(s.visited, s.frontier, edges)
               t == After(s, w)
               W == ToSet(w)
    <2>1. Deepened(s, edges) = t
      BY <1>7, Zenon DEF Deepened
    <2>2. t.visited = w /\ t.frontier = W \ v
      BY DEF After
    <2>3. Listed(s.visited, M) /\ Len(s.visited) <= MaxFlowNodes /\ s.frontier \in SUBSET M
      BY DEF Searched, Listed, ToSet
    <2>4. /\ Listed(w, M) /\ Len(w) <= MaxFlowNodes
          /\ v \subseteq W
          /\ \A x \in W \ v : \E e \in edges : e[1] \in s.frontier /\ e[2] = x
          /\ Len(w) = MaxFlowNodes \/ \A e \in edges : e[1] \in s.frontier => e[2] \in W
      BY <2>3, RoundFacts
    <2> HIDE DEF w, t, W
    <2> DEFINE ours == ReachOf(start, Among(W, edges))
    <2>5. v \subseteq ours[d - 1]
      <3>1. Among(v, edges) \in SUBSET Among(W, edges)
        BY <2>4 DEF Among
      <3>2. d - 1 \in 0..MaxFlowDepth
        BY <1>1
      <3>3. mine[d - 1] \subseteq ours[d - 1]
        BY <3>1, <3>2, ReachGrows
      <3> QED  BY <3>3 DEF Searched
    <2>6. ours[d] = ours[d - 1] \cup {e[2] : e \in {c \in Among(W, edges) : c[1] \in ours[d - 1]}}
      BY ReachFacts
    <2>7. W \subseteq ours[d]
      <3>1. SUFFICES ASSUME NEW x \in W, x \notin v  PROVE  x \in ours[d]
        BY <2>5, <2>6
      <3>2. PICK e \in edges : e[1] \in s.frontier /\ e[2] = x
        BY <2>4, <3>1
      <3>3. e[1] \in v /\ e \in Among(W, edges)
        BY <2>4, <3>2 DEF Searched, Among
      <3> HIDE DEF ours
      <3> QED  BY <2>5, <2>6, <3>2, <3>3
    <2>8. start \in W /\ W \ v \subseteq W
      BY <2>4 DEF Searched
    <2>9. ASSUME Len(w) # MaxFlowNodes
          PROVE  /\ all[d] \subseteq W
                 /\ \A e \in edges : e[1] \in W \ (W \ v) => e[2] \in W
      <3>1. Len(s.visited) # MaxFlowNodes
        BY <1>1, <1>5, <1>7
      <3>2. \A e \in edges : e[1] \in v => e[2] \in W
        BY <2>4, <2>9, <3>1 DEF Searched
      <3>3. all[d] \subseteq W
        BY <1>2, <1>4, <2>4, <3>1, <3>2
      <3> QED  BY <2>4, <3>2, <3>3
    <2> HIDE DEF all
    <2> QED  BY <2>1, <2>2, <2>4, <2>7, <2>8, <2>9 DEF Searched, W, all
  <1> QED  BY <1>6, <1>7

LEMMA SearchFacts ==
    ASSUME NEW M, Ranked(M), NEW edges, Between(edges, M), NEW start \in M
    PROVE  \E s : /\ FlowNodes(start, edges) = ToSet(s.visited)
                  /\ Searched(s, M, start, edges, MaxFlowDepth)
  <1> DEFINE g == CHOOSE g : IsSearch(g, start, edges, MaxFlowDepth)
             A == {d \in 0..MaxFlowDepth : Searched(g[d], M, start, edges, d)}
  <1>1. MaxFlowDepth \in Nat
    BY CapsAssumption
  <1>2. FlowNodes(start, edges) = ToSet(g[MaxFlowDepth].visited)
    BY Zenon DEF FlowNodes, IsSearch, Deepened
  <1>3. IsSearch(g, start, edges, MaxFlowDepth)
    BY <1>1, SearchExists
  <1> HIDE DEF g
  <1>4. /\ g[0] = [visited |-> <<start>>, frontier |-> {start}]
        /\ \A d \in 0..MaxFlowDepth : d # 0 => g[d] = Deepened(g[d - 1], edges)
    <2> DEFINE from == [visited |-> <<start>>, frontier |-> {start}]
    <2>1. g = [d \in 0..MaxFlowDepth |-> IF d = 0 THEN from ELSE Deepened(g[d - 1], edges)]
      BY <1>3 DEF IsSearch
    <2> HIDE DEF from
    <2>2. g[0] = from
      BY <1>1, <2>1
    <2>3. ASSUME NEW d \in 0..MaxFlowDepth, d # 0  PROVE  g[d] = Deepened(g[d - 1], edges)
      BY <2>1, <2>3
    <2> QED  BY <2>2, <2>3 DEF from
  <1>5. 0 \in A
    BY <1>1, <1>4, SearchStarts
  <1>6. ASSUME NEW d \in 0..MaxFlowDepth, d # 0, d - 1 \in A  PROVE  d \in A
    <2>1. d \in 1..MaxFlowDepth /\ Searched(g[d - 1], M, start, edges, d - 1)
      BY <1>1, <1>6
    <2>2. Searched(Deepened(g[d - 1], edges), M, start, edges, d)
      BY <2>1, SearchDeepens
    <2> QED  BY <1>4, <1>6, <2>2
  <1> HIDE DEF A
  <1>7. MaxFlowDepth \in A
    BY <1>1, <1>5, <1>6, Upwards
  <1> QED  BY <1>2, <1>7 DEF A

(* A flow is the graph of what its search has reached.                      *)
LEMMA FlowFacts ==
    ASSUME NEW M, Ranked(M), NEW edges, Between(edges, M), NEW flow,
           flow.entrypoint.module \in M, flow.edges = FlowEdges(flow.entrypoint.module, edges)
    PROVE  IsReached(flow, Reached(flow.entrypoint.module, edges))
  <1> DEFINE start == flow.entrypoint.module
             N == FlowNodes(start, edges)
             shown == {start} \cup UNION {{e[1], e[2]} : e \in flow.edges}
             reach == Reached(start, edges)
             D == MaxFlowDepth
  <1> HIDE DEF start
  <1>1. D \in Nat /\ MaxFlowNodes \in Nat /\ start \in M
    BY CapsAssumption DEF start
  <1>2. flow.edges = Among(N, edges)
    BY DEF FlowEdges, start
  <1>3. PICK s : N = ToSet(s.visited) /\ Searched(s, M, start, edges, D)
    BY <1>1, SearchFacts
  <1> HIDE DEF N
  <1>4. /\ start \in N /\ N \subseteq ReachOf(start, flow.edges)[D]
        /\ Listed(s.visited, M) /\ Len(s.visited) <= MaxFlowNodes
        /\ Len(s.visited) = MaxFlowNodes \/ ReachOf(start, edges)[D] \subseteq N
    BY <1>2, <1>3 DEF Searched
  <1>5. /\ Reached(start, flow.edges) = ReachOf(start, flow.edges)[D]
        /\ reach = ReachOf(start, edges)[D]
    BY ReachFacts
  <1> HIDE DEF D, reach
  <1>6. shown = N
    <2>1. \A e \in flow.edges : e[1] \in N /\ e[2] \in N
      BY <1>2 DEF Among
    <2>2. N \subseteq {start} \cup {e[2] : e \in flow.edges}
      BY <1>1, <1>4, ReachEnds DEF D
    <2> QED  BY <1>4, <2>1, <2>2
  <1> HIDE DEF shown
  <1>7. N \subseteq reach
    <2>1. flow.edges \in SUBSET edges
      BY <1>2 DEF Among
    <2>2. ReachOf(start, flow.edges)[D] \subseteq ReachOf(start, edges)[D]
      BY <1>1, <2>1, ReachGrows DEF D
    <2> QED  BY <1>4, <1>5, <2>2
  <1>8. /\ IsFiniteSet(N) /\ Cardinality(N) = Len(s.visited) /\ Len(s.visited) \in Nat
    BY <1>3, <1>4, ListedFacts DEF Ranked
  <1>9. IsFiniteSet(reach) /\ Cardinality(reach) \in Nat
    <2>1. reach \in SUBSET M
      <3>1. reach \subseteq {start} \cup {e[2] : e \in edges}
        BY <1>1, <1>5, ReachEnds DEF D
      <3> QED  BY <1>1, <3>1 DEF Between
    <2> QED  BY <2>1, FS_Subset, FS_CardinalityType DEF Ranked
  <1>10. Cardinality(reach) <= MaxFlowNodes => N = reach
    <2>1. SUFFICES ASSUME Cardinality(reach) <= MaxFlowNodes  PROVE  N = reach
      OBVIOUS
    <2>2. CASE reach \subseteq N
      BY <1>7, <2>2
    <2>3. CASE Len(s.visited) = MaxFlowNodes
      <3>1. /\ Cardinality(N) <= Cardinality(reach)
            /\ Cardinality(reach) = Cardinality(N) => reach = N
        BY <1>7, <1>9, FS_Subset
      <3> QED  BY <1>1, <1>8, <1>9, <2>1, <2>3, <3>1
    <2> QED  BY <1>4, <1>5, <2>2, <2>3
  <1>11. /\ shown \subseteq Reached(start, flow.edges)
         /\ Cardinality(shown) <= MaxFlowNodes
         /\ Cardinality(reach) <= MaxFlowNodes => shown = reach
    BY <1>4, <1>5, <1>6, <1>8, <1>10
  <1> QED  BY <1>11, Zenon DEF IsReached, shown, reach, start

-----------------------------------------------------------------------------
(* The files there can be: an archive that is one directory gives those of  *)
(* that directory.                                                          *)
LEMMA CollapsedPaths ==
    ASSUME NEW w, IsTree(w), NEW zip \in BOOLEAN, DOMAIN w \subseteq Given
    PROVE  DOMAIN Collapsed(w, zip) \subseteq FilePaths
  <1> DEFINE top == {e \in Entries(w, Root) : ~(zip /\ Name(e) = "__MACOSX")}
             wrapped == {e \in top : top = {e} /\ IsDir(w, e)}
             Inner(e) == {q \in DOMAIN w : e \in Above(q)}
             root == CHOOSE e \in wrapped : TRUE
             files == [p \in {Tail(q) : q \in Inner(root)} |-> w[root \o p]]
  <1>1. Collapsed(w, zip) = IF wrapped = {} THEN w ELSE files
    BY Zenon DEF Collapsed
  <1>2. ASSUME NEW q \in Inner(root)  PROVE  Tail(q) \in FilePaths
    <2>1. q \in Seq(Names) /\ root \in Above(q) /\ q \in Given
      BY NodesFacts DEF AllPaths
    <2> HIDE DEF root
    <2>2. Len(root) \in 1..(Len(q) - 1) /\ Len(q) \in Nat
      BY <2>1, AboveIs
    <2>3. Len(q) > 1
      BY <2>2
    <2> QED  BY <2>1, <2>3 DEF FilePaths
  <1>3. DOMAIN files = {Tail(q) : q \in Inner(root)}
    OBVIOUS
  <1> HIDE DEF files
  <1>4. DOMAIN files \subseteq FilePaths
    BY <1>2, <1>3
  <1>5. DOMAIN w \subseteq FilePaths
    BY DEF FilePaths
  <1> QED  BY <1>1, <1>4, <1>5

(* Whatever is done to a location, and imported from it.                    *)
KnownOK == DOMAIN tree \subseteq Given /\ DOMAIN ws \subseteq FilePaths

LEMMA KnownInit == ASSUME Init  PROVE  KnownOK
  <1>1. DOMAIN tree \subseteq Given
    <2>1. PICK r \in Requests : source = r[1]
      BY DEF Init
    <2> QED  BY <2>1 DEF Init, Given
  <1> QED  BY <1>1, NoTreeIsTree DEF Init, KnownOK

LEMMA KnownNext == ASSUME IInv, KnownOK, [Next]_vars  PROVE  KnownOK'
  <1>1. IsTree(tree) /\ IsTree(ws)
    BY DEF IInv, WorldOK, CopyOK
  <1>2. CASE UNCHANGED <<tree, ws>>
    BY <1>2 DEF KnownOK
  <1>3. CASE FetchRemote
    BY <1>2, <1>3 DEF FetchRemote, Imported, KnownOK, FilePaths, world
  <1>4. CASE FetchArchive
    <2> DEFINE zip == IF Provider(source) = "zip" THEN "zip" ELSE "tar"
               files == Collapsed(tree, zip = "zip")
    <2>1. tree' = tree /\ (ws' = files \/ ws' = ws)
      BY <1>4 DEF FetchArchive, Imported, world
    <2>2. DOMAIN files \subseteq FilePaths
      BY <1>1, CollapsedPaths DEF KnownOK
    <2> HIDE DEF files
    <2> QED  BY <2>1, <2>2 DEF KnownOK
  <1>5. CASE CopyNext
    <2>1. PICK e \in open : CopyDir(e) \/ CopyFile(e)
      BY <1>5 DEF CopyNext
    <2>2. tree' = tree /\ source \in {source}
      BY <1>5 DEF CopyNext, world
    <2>3. CASE ws' = ws
      BY <1>2, <2>2, <2>3
    <2>4. CASE /\ e.path \in DOMAIN View
               /\ ws' = [p \in DOMAIN ws \cup {e.path} |-> IF p = e.path THEN View[p] ELSE ws[p]]
      <3>1. source.inside \in Seq(Names) /\ source.inside \notin Above(e.path)
        BY RequestFacts DEF IInv, CopyOK, OpenIn
      <3>2. e.path \in DOMAIN tree
        BY <1>1, <2>4, <3>1, ViewFacts
      <3>3. DOMAIN ws' = DOMAIN ws \cup {e.path}
        BY <2>4
      <3> QED  BY <2>2, <3>2, <3>3 DEF KnownOK, FilePaths
    <2> QED  BY <2>1, <2>3, <2>4 DEF CopyDir, CopyFile
  <1>6. ASSUME NEW c \in Changes, Edit(c[1], c[2])  PROVE  KnownOK'
    <2>1. DOMAIN tree' \subseteq DOMAIN tree \cup {c[1]} /\ ws' = ws
      BY <1>6 DEF Edit, import
    <2>2. c[1] \in Given
      BY DEF Given
    <2> QED  BY <2>1, <2>2 DEF KnownOK
  <1>7. CASE CopyEnds \/ StartCopy \/ FetchNothing
    <2>1. UNCHANGED <<tree, ws>>
      BY <1>7 DEF CopyEnds, Imported, StartCopy, FetchNothing, world, import
    <2> QED  BY <1>2, <2>1
  <1>8. CASE Analyse \/ Output \/ Commit \/ UNCHANGED vars
    <2>1. UNCHANGED <<tree, ws>>
      BY <1>8 DEF Analyse, PassBy, EndPass, ParseFile, ReadManifest, ScanSecrets, Output, Document,
         WritePage, Exported, Commit, vars, world, import
    <2> QED  BY <1>2, <2>1
  <1> QED  BY <1>3, <1>4, <1>5, <1>6, <1>7, <1>8 DEF Next, Run, ImportSource

LEMMA KnownInvariance == Spec => []KnownOK
  BY KnownInit, KnownNext, Invariance, PTL DEF Spec

(* So the modules of what is parsed can be sorted.                          *)
LEMMA ModulesRanked == ASSUME IInv, KnownOK  PROVE  Ranked(Modules(ToSet(parsed)))
  <1> DEFINE n == Len(parsed)
             M == Modules(ToSet(parsed))
             f == [i \in 1..n |-> ModuleOf(parsed[i])]
             ids == {ModuleOf(ParsedFile(p, c)) : p \in FilePaths, c \in Contents}
  <1>1. parsed \in Seq(ParsedIn(ws)) /\ IsTree(ws)
    BY DEF IInv, WalkOK, Counts, CopyOK
  <1>2. n \in Nat /\ ToSet(parsed) = {parsed[i] : i \in 1..n}
    BY <1>1 DEF ToSet
  <1>3. M = {ModuleOf(parsed[i]) : i \in 1..n}
    BY <1>2 DEF Modules
  <1>4. IsFiniteSet(M)
    <2>1. IsFiniteSet(1..n)
      BY <1>2, FS_Interval
    <2>2. f \in [1..n -> M] /\ \A m \in M : \E i \in 1..n : f[i] = m
      BY <1>3
    <2>3. f \in Surjection(1..n, M)
      <3> HIDE DEF f, M
      <3> QED  BY <2>2 DEF Surjection
    <2> HIDE DEF f, M
    <2> QED  BY <2>1, <2>3, FS_Surjection
  <1>5. M \subseteq ids
    <2>1. SUFFICES ASSUME NEW i \in 1..n  PROVE  ModuleOf(parsed[i]) \in ids
      BY <1>3
    <2>2. parsed[i] \in ParsedIn(ws)
      BY <1>1
    <2>3. PICK p \in DOMAIN ws : parsed[i] = ParsedFile(p, ws[p])
      BY <2>2 DEF ParsedIn
    <2>4. p \in FilePaths /\ ws[p] \in Contents
      BY <1>1 DEF KnownOK, IsTree
    <2> QED  BY <2>3, <2>4
  <1>6. \A k, l \in ids : IdRank[k] \in Int /\ (IdRank[k] = IdRank[l] => k = l)
    BY IdsAssumption
  <1> HIDE DEF M, ids
  <1>7. Ranked(M)
    BY <1>4, <1>5, <1>6 DEF Ranked
  <1> QED  BY <1>7 DEF M

(* The page of the modules shows all edges of their graph.                  *)
LEMMA ImportEdges ==
    ASSUME NEW files, NEW o
    PROVE  UNION {{<<m.module, d>> : d \in m.depends_on}
                     : m \in ModulesPage(files, Edges(ToSet(files), o))} = Edges(ToSet(files), o)
  <1> DEFINE E == Edges(ToSet(files), o)
             P == ModulesPage(files, E)
             M == Modules(ToSet(files))
             Rows == UNION {{<<m.module, d>> : d \in m.depends_on} : m \in P}
  <1>1. \A e \in E : e = <<e[1], e[2]>> /\ e[1] \in M
    <2>1. TAKE e \in E
    <2>2. PICK f \in ToSet(files) :
             e \in {<<ModuleOf(f), m>> :
                       m \in UNION {Resolve(f, imp, Modules(ToSet(files)), o) : imp \in f.imports}
                                \ {ModuleOf(f)}}
      BY Zenon DEF Edges
    <2>3. PICK m : e = <<ModuleOf(f), m>>
      BY <2>2
    <2> QED  BY <2>3, EdgesFacts
  <1>2. /\ \A m \in P : m.depends_on = {e[2] : e \in {d \in E : d[1] = m.module}}
        /\ \A id \in M : \E m \in P : m.module = id
    BY ModulesPageFacts
  <1> HIDE DEF E, P, M
  <1>3. ASSUME NEW e \in E  PROVE  e \in Rows
    <2>1. PICK m \in P : m.module = e[1]
      BY <1>1, <1>2
    <2>2. e[2] \in m.depends_on
      BY <1>2, <2>1
    <2> QED  BY <1>1, <2>1, <2>2
  <1>4. ASSUME NEW x \in Rows  PROVE  x \in E
    <2>1. PICK m \in P : x \in {<<m.module, d>> : d \in m.depends_on}
      OBVIOUS
    <2>2. PICK d \in m.depends_on : x = <<m.module, d>>
      BY <2>1
    <2>3. PICK e \in E : e[1] = m.module /\ e[2] = d
      BY <1>2, <2>2
    <2> QED  BY <1>1, <2>2, <2>3
  <1>5. Rows = E
    BY <1>3, <1>4
  <1> QED  BY <1>5 DEF E, P

(* Whatever a codebase has for modules, a flow shows no more of them than   *)
(* there is room for, each within so many steps of the entrypoint, and all  *)
(* of these if there is room.                                               *)
THEOREM FlowsFound == Spec => []FlowsAreReached
  <1>1. ASSUME IInv, KnownOK  PROVE  FlowsAreReached
    <2> DEFINE docs == Docs
               imports == Edges(ToSet(parsed), order)
               M == Modules(ToSet(parsed))
               graph == CallEdges(parsed)
                        \cup UNION {{<<m.module, d>> : d \in m.depends_on} : m \in docs.modules}
    <2>1. graph = imports \cup CallEdges(parsed)
      BY DocsFacts, ImportEdges
    <2>2. Ranked(M) /\ Between(graph, M)
      BY <1>1, <2>1, ModulesRanked, EdgesFacts, CallEdgesFacts DEF Between
    <2>3. ASSUME NEW flow \in docs.flows
          PROVE  IsReached(flow, Reached(flow.entrypoint.module, graph))
      <3>1. flow \in Flows(Entrypoints(parsed), graph)
        BY <2>1, DocsFacts
      <3> HIDE DEF graph, M
      <3>2. PICK i \in DOMAIN Entrypoints(parsed) :
               flow = [entrypoint |-> Entrypoints(parsed)[i],
                       edges |-> FlowEdges(Entrypoints(parsed)[i].module, graph)]
        BY <3>1 DEF Flows
      <3>3. /\ flow.entrypoint \in ToSet(Entrypoints(parsed))
            /\ flow.edges = FlowEdges(flow.entrypoint.module, graph)
        BY <3>2 DEF ToSet
      <3>4. flow.entrypoint.module \in M
        BY <1>1, <3>3, EntryFacts DEF M, Modules
      <3> QED  BY <2>2, <3>3, <3>4, FlowFacts
    <2> HIDE DEF docs
    <2> QED  BY <2>3, Zenon DEF FlowsAreReached, docs
  <1> QED  BY <1>1, Invariance, KnownInvariance, PTL

-----------------------------------------------------------------------------
(* What comes down a syntax tree, computed from the parent of each node.    *)
IsAbove(g, t, D) ==
    g = [n \in D |-> IF t[n].up = 0 THEN {} ELSE {t[n].up} \cup g[t[n].up]]
BaseFrom(g, t, n) ==
    IF t[n].up = 0 THEN Empty
    ELSE IF t[n].type = "class_body" /\ t[t[n].up].type = "class_declaration"
    THEN ClassBase(t, t[n].up, g[t[n].up])
    ELSE g[t[n].up]
IsBase(g, t, D) == g = [n \in D |-> BaseFrom(g, t, n)]
IsDown(t, N) == \A n \in 1..N : t[n].up \in 0..(n - 1)

LEMMA AboveExists ==
    ASSUME NEW t, NEW N \in Nat, IsDown(t, N)
    PROVE  \E g : IsAbove(g, t, 1..N)
  <1> DEFINE A == {k \in 0..N : \E g : IsAbove(g, t, 1..k)}
  <1>1. 0 \in A
    <2> DEFINE g == [n \in 1..0 |-> {}]
    <2>1. IsAbove(g, t, 1..0)
      BY DEF IsAbove
    <2> QED  BY <2>1
  <1>2. ASSUME NEW m \in 0..N, m # 0, m - 1 \in A  PROVE  m \in A
    <2>1. PICK g : IsAbove(g, t, 1..(m - 1))
      BY <1>2
    <2> DEFINE From(f, n) == IF t[n].up = 0 THEN {} ELSE {t[n].up} \cup f[t[n].up]
               h == [n \in 1..m |-> IF n = m THEN From(g, m) ELSE g[n]]
    <2>2. g = [n \in 1..(m - 1) |-> From(g, n)]
      BY <2>1 DEF IsAbove
    <2>3. \A n \in 1..m : t[n].up = 0 \/ (t[n].up \in 1..(m - 1) /\ h[t[n].up] = g[t[n].up])
      BY <1>2 DEF IsDown
    <2>4. \A n \in 1..m : h[n] = From(g, n)
      <3> HIDE DEF From
      <3>1. \A n \in 1..m : n = m \/ n \in 1..(m - 1)
        BY <1>2
      <3>2. \A n \in 1..(m - 1) : g[n] = From(g, n)
        BY <2>2
      <3> QED  BY <3>1, <3>2
    <2>5. \A n \in 1..m : From(h, n) = From(g, n)
      BY <2>3
    <2>6. h = [n \in 1..m |-> h[n]]
      OBVIOUS
    <2> HIDE DEF h, From
    <2>7. h = [n \in 1..m |-> From(h, n)]
      BY <2>4, <2>5, <2>6
    <2>8. IsAbove(h, t, 1..m)
      BY <2>7, Zenon DEF IsAbove, From
    <2> QED  BY <2>8
  <1> HIDE DEF A
  <1>3. N \in A
    BY <1>1, <1>2, Upwards
  <1> QED  BY <1>3 DEF A

LEMMA BaseExists ==
    ASSUME NEW t, NEW N \in Nat, IsDown(t, N)
    PROVE  \E g : IsBase(g, t, 1..N)
  <1> DEFINE A == {k \in 0..N : \E g : IsBase(g, t, 1..k)}
  <1>1. 0 \in A
    <2> DEFINE g == [n \in 1..0 |-> Empty]
    <2>1. IsBase(g, t, 1..0)
      BY DEF IsBase
    <2> QED  BY <2>1
  <1>2. ASSUME NEW m \in 0..N, m # 0, m - 1 \in A  PROVE  m \in A
    <2>1. PICK g : IsBase(g, t, 1..(m - 1))
      BY <1>2
    <2> DEFINE h == [n \in 1..m |-> IF n = m THEN BaseFrom(g, t, m) ELSE g[n]]
    <2>2. g = [n \in 1..(m - 1) |-> BaseFrom(g, t, n)]
      BY <2>1 DEF IsBase
    <2>3. \A n \in 1..m : t[n].up = 0 \/ (t[n].up \in 1..(m - 1) /\ h[t[n].up] = g[t[n].up])
      BY <1>2 DEF IsDown
    <2>4. \A n \in 1..m : h[n] = BaseFrom(g, t, n)
      BY <1>2, <2>2
    <2>5. h = [n \in 1..m |-> h[n]]
      OBVIOUS
    <2> HIDE DEF h
    <2>6. \A n \in 1..m : BaseFrom(h, t, n) = BaseFrom(g, t, n)
      BY <2>3 DEF BaseFrom
    <2>7. IsBase(h, t, 1..m)
      BY <2>4, <2>5, <2>6 DEF IsBase
    <2> QED  BY <2>7
  <1> HIDE DEF A
  <1>3. N \in A
    BY <1>1, <1>2, Upwards
  <1> QED  BY <1>3 DEF A

LEMMA TreeFacts ==
    ASSUME NEW t, IsSyntaxTree(t)
    PROVE  /\ Len(t) \in Nat /\ DOMAIN t = 1..Len(t) /\ IsDown(t, Len(t))
           /\ \A n \in DOMAIN t :
                 /\ Ancestors(t)[n] = IF t[n].up = 0 THEN {}
                                      ELSE {t[n].up} \cup Ancestors(t)[t[n].up]
                 /\ Ancestors(t)[n] \subseteq 1..(n - 1)
                 /\ Base(t)[n] = BaseFrom(Base(t), t, n)
  <1> DEFINE N == Len(t)
  <1>1. N \in Nat /\ DOMAIN t = 1..N
    BY DEF IsSyntaxTree
  <1>2. IsDown(t, N)
    BY <1>1 DEF IsSyntaxTree, IsDown
  <1> HIDE DEF N
  <1>3. Ancestors(t) = CHOOSE g : IsAbove(g, t, DOMAIN t)
    BY Zenon DEF Ancestors, IsAbove
  <1>4. Base(t) = CHOOSE g : IsBase(g, t, DOMAIN t)
    BY Zenon DEF Base, IsBase, BaseFrom
  <1>5. IsAbove(Ancestors(t), t, DOMAIN t)
    BY <1>1, <1>2, <1>3, AboveExists
  <1>6. IsBase(Base(t), t, DOMAIN t)
    BY <1>1, <1>2, <1>4, BaseExists
  <1> DEFINE a == Ancestors(t)
             b == Base(t)
             From(n) == IF t[n].up = 0 THEN {} ELSE {t[n].up} \cup a[t[n].up]
  <1> HIDE DEF a, b
  <1>7. \A n \in DOMAIN t : a[n] = From(n)
    <2>1. a = [n \in DOMAIN t |-> From(n)]
      BY <1>5, Zenon DEF IsAbove, a
    <2> HIDE DEF From
    <2> QED  BY <2>1
  <1>8. \A n \in DOMAIN t : b[n] = BaseFrom(b, t, n)
    <2>1. b = [n \in DOMAIN t |-> BaseFrom(b, t, n)]
      BY <1>6 DEF IsBase, b
    <2> QED  BY <2>1
  <1> DEFINE A == {k \in 0..N : \A n \in 1..k : a[n] \subseteq 1..(n - 1)}
  <1>9. 0 \in A
    BY <1>1
  <1>10. ASSUME NEW k \in 0..N, k # 0, k - 1 \in A  PROVE  k \in A
    <2>1. a[k] \subseteq 1..(k - 1)
      <3> k \in DOMAIN t
        BY <1>1, <1>10
      <3>0. a[k] = From(k)
        BY <1>7
      <3>1. CASE t[k].up = 0
        BY <3>0, <3>1
      <3>2. CASE t[k].up # 0
        <4>1. t[k].up \in 1..(k - 1)
          BY <1>1, <1>2, <1>10, <3>2 DEF IsDown
        <4>2. a[t[k].up] \subseteq 1..(t[k].up - 1)
          BY <1>10, <4>1
        <4>3. a[k] = {t[k].up} \cup a[t[k].up]
          BY <3>0, <3>2
        <4> DEFINE u == t[k].up
        <4> HIDE DEF u
        <4>4. \A x \in 1..(u - 1) : x \in 1..(k - 1)
          BY <1>10, <4>1 DEF u
        <4> QED  BY <4>1, <4>2, <4>3, <4>4 DEF u
      <3> QED  BY <3>1, <3>2
    <2>2. \A n \in 1..k : n = k \/ n \in 1..(k - 1)
      BY <1>10
    <2> QED  BY <1>10, <2>1, <2>2
  <1> HIDE DEF A
  <1>11. N \in A
    BY <1>1, <1>9, <1>10, Upwards
  <1>12. \A n \in DOMAIN t : a[n] \subseteq 1..(n - 1)
    BY <1>1, <1>11 DEF A
  <1> HIDE DEF From
  <1>13. \A n \in DOMAIN t : a[n] = IF t[n].up = 0 THEN {} ELSE {t[n].up} \cup a[t[n].up]
    BY <1>7, Zenon DEF From
  <1> QED  BY <1>1, <1>2, <1>8, <1>12, <1>13 DEF N, a, b

(* A greater number comes last in the order.                                *)
LEMMA OrderGrows ==
    ASSUME NEW S \in SUBSET Nat, IsFiniteSet(S), NEW u \in Nat, \A x \in S : x < u
    PROVE  LET s == InOrder(S, <)
               w == InOrder(S \cup {u}, <)
           IN  /\ Len(s) \in Nat /\ DOMAIN s = 1..Len(s) /\ Len(w) = Len(s) + 1
               /\ \A i \in 1..Len(s) : w[i] = s[i]
               /\ w[Len(s) + 1] = u
  <1> DEFINE T == S \cup {u}
             n == Cardinality(S)
             At(i) == CHOOSE x \in S : Cardinality({y \in S : y < x}) = i - 1
             In(i) == CHOOSE x \in T : Cardinality({y \in T : y < x}) = i - 1
             s == [i \in 1..n |-> At(i)]
             w == [i \in 1..(n + 1) |-> In(i)]
  <1>1. n \in Nat /\ u \notin S /\ Cardinality(T) = n + 1
    BY FS_CardinalityType, FS_AddElement
  <1>2. InOrder(S, <) = s
    BY DEF InOrder
  <1>3. InOrder(T, <) = w
    <2>1. InOrder(T, <) = [i \in 1..Cardinality(T) |-> In(i)]
      BY DEF InOrder
    <2> HIDE DEF In, T
    <2> QED  BY <1>1, <2>1
  <1>4. \A x \in S : {y \in T : y < x} = {y \in S : y < x}
    OBVIOUS
  <1>5. {y \in T : y < u} = S
    <2>1. ~(u < u)
      OBVIOUS
    <2>2. \A y \in T : y \in S \/ y = u
      OBVIOUS
    <2>3. S \subseteq T
      OBVIOUS
    <2> HIDE DEF T
    <2> QED  BY <2>1, <2>2, <2>3
  <1>6. ASSUME NEW i \in 1..n  PROVE  In(i) = At(i)
    <2>1. \A x : (x \in S /\ Cardinality({y \in S : y < x}) = i - 1)
                    <=> (x \in T /\ Cardinality({y \in T : y < x}) = i - 1)
      <3>1. n # i - 1
        BY <1>1
      <3> HIDE DEF n
      <3> QED  BY <1>4, <1>5, <3>1 DEF n
    <2> QED  BY <2>1
  <1>7. In(n + 1) = u
    <2>1. ASSUME NEW x \in S  PROVE  Cardinality({y \in T : y < x}) # n
      <3> DEFINE below == {y \in S : y < x}
      <3>1. below \in SUBSET S /\ x \notin below
        OBVIOUS
      <3> HIDE DEF below
      <3>2. Cardinality(below) # n
        BY <3>1, FS_Subset
      <3> QED  BY <1>4, <3>2 DEF below
    <2>2. \A x \in T : Cardinality({y \in T : y < x}) = n => x = u
      BY <2>1
    <2>3. Cardinality({y \in T : y < u}) = n
      BY <1>5
    <2>4. (n + 1) - 1 = n
      BY <1>1
    <2> HIDE DEF n
    <2> QED  BY <2>2, <2>3, <2>4
  <1> HIDE DEF At, In, n
  <1>8. /\ Len(s) = n /\ DOMAIN s = 1..n /\ Len(w) = n + 1
        /\ \A i \in 1..n : w[i] = s[i]
        /\ w[n + 1] = u
    BY <1>1, <1>6, <1>7
  <1> HIDE DEF s, w
  <1> QED  BY <1>1, <1>2, <1>3, <1>8, Zenon DEF T
(* The paths of the classes around a method, one after the other.           *)
IsPath(g, t, cs, n) ==
    g = [k \in 0..n |-> IF k = 0 THEN <<>> ELSE g[k - 1] \o ClassPath(t, cs[k])]

LEMMA PathExists == ASSUME NEW t, NEW cs, NEW n \in Nat  PROVE  \E g : IsPath(g, t, cs, n)
  <1> DEFINE A == {k \in 0..n : \E g : IsPath(g, t, cs, k)}
  <1>1. 0 \in A
    <2> DEFINE g == [k \in 0..0 |-> <<>>]
    <2>1. IsPath(g, t, cs, 0)
      BY DEF IsPath
    <2> QED  BY <2>1
  <1>2. ASSUME NEW m \in 0..n, m # 0, m - 1 \in A  PROVE  m \in A
    <2>1. PICK g : IsPath(g, t, cs, m - 1)
      BY <1>2
    <2> DEFINE From(f, k) == IF k = 0 THEN <<>> ELSE f[k - 1] \o ClassPath(t, cs[k])
               h == [k \in 0..m |-> IF k = m THEN From(g, m) ELSE g[k]]
    <2>2. g = [k \in 0..(m - 1) |-> From(g, k)]
      BY <2>1, Zenon DEF IsPath
    <2>3. \A k \in 0..m : k = 0 \/ h[k - 1] = g[k - 1]
      BY <1>2
    <2>4. ASSUME NEW k \in 0..m  PROVE  From(h, k) = From(g, k)
      <3> HIDE DEF h
      <3>1. CASE k = 0
        BY <3>1
      <3>2. CASE k # 0
        BY <2>3, <3>2
      <3> QED  BY <3>1, <3>2
    <2> HIDE DEF From
    <2>5. \A k \in 0..m : h[k] = From(g, k)
      <3>1. \A k \in 0..m : k = m \/ k \in 0..(m - 1)
        BY <1>2
      <3>2. \A k \in 0..(m - 1) : g[k] = From(g, k)
        BY <2>2
      <3> QED  BY <3>1, <3>2
    <2>6. h = [k \in 0..m |-> h[k]]
      OBVIOUS
    <2> HIDE DEF h
    <2>7. h = [k \in 0..m |-> From(h, k)]
      BY <2>4, <2>5, <2>6
    <2>8. IsPath(h, t, cs, m)
      BY <2>7, Zenon DEF IsPath, From
    <2> QED  BY <2>8
  <1> HIDE DEF A
  <1>3. n \in A
    BY <1>1, <1>2, Upwards
  <1> QED  BY <1>3 DEF A

LEMMA PathFacts ==
    ASSUME NEW t, NEW cs, Len(cs) \in Nat
    PROVE  \E g : /\ PathOf(t, cs) = g[Len(cs)] /\ g[0] = <<>>
                  /\ \A k \in 1..Len(cs) : g[k] = g[k - 1] \o ClassPath(t, cs[k])
  <1> DEFINE n == Len(cs)
             g == CHOOSE g : IsPath(g, t, cs, n)
             From(f, k) == IF k = 0 THEN <<>> ELSE f[k - 1] \o ClassPath(t, cs[k])
  <1>1. PathOf(t, cs) = g[n]
    BY Zenon DEF PathOf, IsPath
  <1>2. IsPath(g, t, cs, n)
    BY PathExists
  <1> HIDE DEF g
  <1>3. g = [k \in 0..n |-> From(g, k)]
    BY <1>2, Zenon DEF IsPath
  <1> HIDE DEF From
  <1>4. \A k \in 0..n : g[k] = From(g, k)
    BY <1>3
  <1>5. g[0] = <<>>
    BY <1>4 DEF From
  <1>6. ASSUME NEW k \in 1..n  PROVE  g[k] = g[k - 1] \o ClassPath(t, cs[k])
    <2>1. k \in 0..n /\ k # 0
      OBVIOUS
    <2> HIDE DEF n
    <2>2. g[k] = From(g, k)
      BY <1>4, <2>1
    <2> QED  BY <2>1, <2>2, Zenon DEF From
  <1> QED  BY <1>1, <1>5, <1>6

LEMMA PathGoesOn ==
    ASSUME NEW t, NEW s, Len(s) \in Nat, NEW w, Len(w) = Len(s) + 1,
           \A i \in 1..Len(s) : w[i] = s[i]
    PROVE  PathOf(t, w) = PathOf(t, s) \o ClassPath(t, w[Len(s) + 1])
  <1> DEFINE n == Len(s)
  <1>1. PICK g : /\ PathOf(t, s) = g[n] /\ g[0] = <<>>
                 /\ \A k \in 1..n : g[k] = g[k - 1] \o ClassPath(t, s[k])
    BY PathFacts
  <1>2. PICK h : /\ PathOf(t, w) = h[n + 1] /\ h[0] = <<>>
                 /\ \A k \in 1..(n + 1) : h[k] = h[k - 1] \o ClassPath(t, w[k])
    <2>1. Len(w) \in Nat
      OBVIOUS
    <2>2. PICK h : /\ PathOf(t, w) = h[Len(w)] /\ h[0] = <<>>
                   /\ \A k \in 1..Len(w) : h[k] = h[k - 1] \o ClassPath(t, w[k])
      BY <2>1, PathFacts
    <2> QED  BY <2>2
  <1> DEFINE A == {k \in 0..n : g[k] = h[k]}
  <1>3. 0 \in A
    BY <1>1, <1>2
  <1>4. ASSUME NEW k \in 0..n, k # 0, k - 1 \in A  PROVE  k \in A
    <2>1. k \in 1..n /\ k \in 1..(n + 1) /\ g[k - 1] = h[k - 1] /\ w[k] = s[k]
      BY <1>4
    <2>2. g[k] = g[k - 1] \o ClassPath(t, s[k]) /\ h[k] = h[k - 1] \o ClassPath(t, w[k])
      BY <1>1, <1>2, <2>1
    <2> QED  BY <1>4, <2>1, <2>2
  <1>5. n \in 0..n /\ n + 1 \in 1..(n + 1) /\ (n + 1) - 1 = n
    OBVIOUS
  <1> HIDE DEF A, n
  <1>6. n \in A
    BY <1>3, <1>4, <1>5, Upwards DEF n
  <1>7. h[n + 1] = h[n] \o ClassPath(t, w[n + 1])
    BY <1>2, <1>5
  <1>8. g[n] = h[n]
    BY <1>6 DEF A
  <1> QED  BY <1>1, <1>2, <1>7, <1>8 DEF n

(* The path that comes down to a node in the body of each class around it   *)
(* is that of these classes.                                                *)
InBodies(t, m) ==
    \A n \in Ancestors(t)[m] \cup {m} :
        (t[n].up # 0 /\ t[t[n].up].type = "class_declaration") => t[n].type = "class_body"
IsSeq(s) == s \in Seq(ToSet(s))
Around(t, n) == PathOf(t, InOrder(ClassesAround(t, n), <))

LEMMA IsSeqJoined ==
    ASSUME NEW a, IsSeq(a), NEW b, IsSeq(b)
    PROVE  IsSeq(a \o b) /\ a \o <<>> = a
  <1> DEFINE S == ToSet(a) \cup ToSet(b)
             c == a \o b
  <1>1. ToSet(a) \subseteq S /\ ToSet(b) \subseteq S
    OBVIOUS
  <1>2. a \in Seq(ToSet(a)) /\ b \in Seq(ToSet(b))
    BY DEF IsSeq
  <1> HIDE DEF S
  <1>3. a \in Seq(S) /\ b \in Seq(S)
    BY <1>1, <1>2, SeqMonotonic
  <1>4. c \in Seq(S) /\ a \o <<>> = a
    BY <1>3, ConcatProperties
  <1> HIDE DEF c
  <1>5. c \in [1..Len(c) -> ToSet(c)] /\ Len(c) \in Nat
    BY <1>4 DEF ToSet
  <1>6. c \in Seq(ToSet(c))
    BY <1>5, SeqDef
  <1> QED  BY <1>4, <1>6 DEF IsSeq, c

LEMMA BaseFacts ==
    ASSUME NEW t, IsSyntaxTree(t), NEW n \in DOMAIN t, t[n].up # 0,
           t[n].type = "class_body", t[t[n].up].type = "class_declaration",
           IsSeq(Base(t)[t[n].up].segs)
    PROVE  /\ Base(t)[n].segs = Base(t)[t[n].up].segs \o ClassPath(t, t[n].up)
           /\ IsSeq(Base(t)[n].segs)
  <1> DEFINE u == t[n].up
             base == Base(t)[u]
             mapped == {a \in Annotations(t, u) : AnnotationName(t, a) = "RequestMapping"}
  <1>1. Base(t)[n] = ClassBase(t, u, base)
    BY TreeFacts, Zenon DEF BaseFrom
  <1>2. u \in DOMAIN t
    BY TreeFacts DEF IsDown
  <1> HIDE DEF base, u
  <1>3. CASE mapped = {}
    <2>1. ClassPath(t, u) = <<>> /\ ClassBase(t, u, base) = base
      BY <1>3, Zenon DEF ClassPath, ClassBase
    <2> QED  BY <1>1, <2>1, IsSeqJoined DEF base, u
  <1>4. CASE mapped # {}
    <2> DEFINE path == AnnotationPath(t, Max(mapped))
    <2>1. ClassPath(t, u) = path.segs /\ ClassBase(t, u, base) = Join(base, path)
      BY <1>4, Zenon DEF ClassPath, ClassBase
    <2>2. mapped \in SUBSET Annotations(t, u)
      OBVIOUS
    <2>3. Max(mapped) \in mapped
      <3>1. Annotations(t, u) \subseteq DOMAIN t
        BY DEF Annotations, OfType, Children
      <3>2. Len(t) \in Nat /\ mapped \in SUBSET (1..Len(t))
        BY <2>2, <3>1, TreeFacts
      <3> HIDE DEF mapped
      <3> QED  BY <1>4, <3>2, GreatestOf
    <2>4. IsSeq(path.segs)
      BY <1>2, <2>3 DEF IsSyntaxTree, IsSeq
    <2> HIDE DEF path, mapped
    <2>5. Join(base, path).segs = base.segs \o path.segs
      BY DEF Join
    <2> QED  BY <1>1, <2>1, <2>4, <2>5, IsSeqJoined DEF base, u
  <1> QED  BY <1>3, <1>4

LEMMA BaseIsAround ==
    ASSUME NEW t, IsSyntaxTree(t), NEW m \in DOMAIN t, InBodies(t, m)
    PROVE  Base(t)[m].segs = Around(t, m)
  <1> DEFINE N == Len(t)
             Good(n) == InBodies(t, n) => /\ Base(t)[n].segs = Around(t, n)
                                          /\ IsSeq(Base(t)[n].segs)
             A == {k \in 0..N : \A n \in 1..k : Good(n)}
  <1>1. N \in Nat /\ DOMAIN t = 1..N
    BY TreeFacts
  <1>2. 0 \in A
    BY <1>1
  <1>3. ASSUME NEW k \in 0..N, k # 0, k - 1 \in A  PROVE  k \in A
    <2>1. k \in DOMAIN t /\ t[k].up \in 0..(k - 1) /\ Ancestors(t)[k] \subseteq 1..(k - 1)
      <3>1. k \in DOMAIN t /\ k \in 1..Len(t)
        BY <1>1, <1>3
      <3> HIDE DEF N
      <3> QED  BY <3>1, TreeFacts DEF IsDown
    <2>2. CASE t[k].up = 0
      <3>1. Base(t)[k] = Empty /\ ClassesAround(t, k) = {}
        BY <2>1, <2>2, TreeFacts DEF BaseFrom, ClassesAround
      <3>2. IsSeq(<<>>) /\ Empty.segs = <<>>
        BY DEF IsSeq, Empty, ToSet
      <3>3. Len(InOrder({}, <)) = 0
        <4>1. Cardinality({}) = 0
          BY FS_EmptySet
        <4> QED  BY <4>1 DEF InOrder
      <3>4. PathOf(t, InOrder({}, <)) = <<>>
        <4> DEFINE s == InOrder({}, <)
        <4> HIDE DEF s
        <4>1. Len(s) = 0
          BY <3>3 DEF s
        <4>2. Len(s) \in Nat
          BY <4>1
        <4>3. PICK g : PathOf(t, s) = g[Len(s)] /\ g[0] = <<>>
          BY <4>2, PathFacts
        <4> QED  BY <4>1, <4>3 DEF s
      <3>5. Good(k)
        BY <3>1, <3>2, <3>4 DEF Around
      <3> HIDE DEF Good
      <3>6. \A n \in 1..k : n = k \/ n \in 1..(k - 1)
        BY <1>3
      <3> QED  BY <1>3, <3>5, <3>6
    <2>3. CASE t[k].up # 0
      <3> DEFINE u == t[k].up
                 S == ClassesAround(t, u)
      <3>1. u \in 1..(k - 1) /\ u \in DOMAIN t /\ u # 0
        BY <1>1, <1>3, <2>1, <2>3
      <3>2. Ancestors(t)[k] = {u} \cup Ancestors(t)[u] /\ Ancestors(t)[u] \subseteq 1..(u - 1)
        BY <2>1, <2>3, <3>1, TreeFacts
      <3>3. Good(u)
        <4> HIDE DEF Good
        <4> QED  BY <1>3, <3>1
      <3> HIDE DEF u
      <3>4. SUFFICES ASSUME InBodies(t, k)
                     PROVE  Base(t)[k].segs = Around(t, k) /\ IsSeq(Base(t)[k].segs)
        <4>1. Good(k)
          BY <3>4
        <4> HIDE DEF Good
        <4>2. \A n \in 1..k : n = k \/ n \in 1..(k - 1)
          BY <1>3
        <4> QED  BY <1>3, <4>1, <4>2
      <3>5. InBodies(t, u)
        BY <3>2, <3>4 DEF InBodies
      <3>6. Base(t)[u].segs = Around(t, u) /\ IsSeq(Base(t)[u].segs)
        BY <3>3, <3>5
      <3> HIDE DEF Good
      <3>7. CASE t[u].type = "class_declaration"
        <4>1. t[k].type = "class_body"
          BY <2>3, <3>4, <3>7 DEF InBodies, u
        <4>2. /\ Base(t)[k].segs = Base(t)[u].segs \o ClassPath(t, u)
              /\ IsSeq(Base(t)[k].segs)
          BY <2>1, <2>3, <3>6, <3>7, <4>1, BaseFacts DEF u
        <4>3. ClassesAround(t, k) = S \cup {u}
          BY <3>2, <3>7 DEF ClassesAround
        <4>4. S \in SUBSET (1..(u - 1))
          BY <3>2 DEF ClassesAround
        <4>5. S \in SUBSET Nat /\ IsFiniteSet(S) /\ u \in Nat /\ \A x \in S : x < u
          <5>1. IsFiniteSet(1..(u - 1))
            BY <3>1, FS_Interval
          <5> HIDE DEF S
          <5>2. IsFiniteSet(S)
            BY <4>4, <5>1, FS_Subset
          <5>3. u \in Nat
            BY <1>3, <3>1
          <5> QED  BY <4>4, <5>2, <5>3
        <4> HIDE DEF S
        <4> DEFINE s == InOrder(S, <)
                   w == InOrder(S \cup {u}, <)
        <4>6. /\ Len(s) \in Nat /\ Len(w) = Len(s) + 1 /\ \A i \in 1..Len(s) : w[i] = s[i]
              /\ w[Len(s) + 1] = u
          BY <4>5, OrderGrows
        <4>7. Around(t, k) = PathOf(t, w) /\ Around(t, u) = PathOf(t, s)
          BY <4>3, Zenon DEF Around, S
        <4> HIDE DEF s, w
        <4>8. PathOf(t, w) = PathOf(t, s) \o ClassPath(t, u)
          BY <4>6, PathGoesOn
        <4> QED  BY <3>6, <4>2, <4>7, <4>8
      <3>8. CASE t[u].type # "class_declaration"
        <4>1. Base(t)[k] = Base(t)[u]
          BY <2>1, <2>3, <3>8, TreeFacts DEF BaseFrom, u
        <4>2. ClassesAround(t, k) = ClassesAround(t, u)
          BY <3>2, <3>8 DEF ClassesAround
        <4> QED  BY <3>6, <4>1, <4>2 DEF Around
      <3> QED  BY <3>7, <3>8
    <2> QED  BY <2>2, <2>3
  <1> HIDE DEF A, N
  <1>4. N \in A
    BY <1>1, <1>2, <1>3, Upwards
  <1> QED  BY <1>1, <1>4 DEF A
LEMMA RoutesFacts ==
    ASSUME NEW t, IsSyntaxTree(t)
    PROVE  {r.path.segs : r \in JavaRoutes(t)} = MappedPaths(t)
  <1> DEFINE Mapped(n) == {a \in Annotations(t, n) : AnnotationName(t, a) \in DOMAIN SpringMapping}
             Route(n, a) == [method |-> SpringMapping[AnnotationName(t, a)],
                             path |-> Join(Base(t)[n], AnnotationPath(t, a)),
                             handler |-> TheText(t, Field(t, n, "name"))]
             Path(n, a) == Around(t, n) \o AnnotationPath(t, a).segs
  <1>1. JavaRoutes(t) = UNION {{Route(n, a) : a \in Mapped(n)} : n \in Methods(t)}
    BY Zenon DEF JavaRoutes
  <1>2. MappedPaths(t) = UNION {{Path(n, a) : a \in Mapped(n)} : n \in Methods(t)}
    BY Zenon DEF MappedPaths, Around
  <1>3. ASSUME NEW n \in Methods(t), NEW a  PROVE  Route(n, a).path.segs = Path(n, a)
    <2>1. n \in DOMAIN t
      BY DEF Methods, OfType
    <2>2. InBodies(t, n)
      BY DEF IsSyntaxTree, InBodies
    <2>3. Base(t)[n].segs = Around(t, n)
      BY <2>1, <2>2, BaseIsAround
    <2>4. Join(Base(t)[n], AnnotationPath(t, a)).segs = Base(t)[n].segs \o AnnotationPath(t, a).segs
      BY DEF Join
    <2>5. Route(n, a).path = Join(Base(t)[n], AnnotationPath(t, a))
      OBVIOUS
    <2> HIDE DEF Route
    <2> QED  BY <2>3, <2>4, <2>5
  <1> HIDE DEF Mapped, Route, Path
  <1> QED  BY <1>1, <1>2, <1>3

(* The routes of a file are those of its parse.                             *)
LEMMA RoutesOfFile ==
    ASSUME IInv, NEW f \in ToSet(parsed)
    PROVE  {r.path.segs : r \in {q \in HttpRoutes(parsed) : q.file = f.path}}
               = {r.path.segs : r \in f.routes}
  <1> DEFINE Route(g, r) == [method |-> r.method, path |-> r.path, module |-> ModuleOf(g),
                             file |-> g.path, handler |-> r.handler]
  <1>1. HttpRoutes(parsed) = UNION {{Route(g, r) : r \in g.routes} : g \in ToSet(parsed)}
    BY Zenon DEF HttpRoutes
  <1>2. ASSUME NEW g, NEW r  PROVE  Route(g, r).path = r.path /\ Route(g, r).file = g.path
    OBVIOUS
  <1>3. \A g \in ToSet(parsed) : g.path = f.path => g = f
    BY ParsedOnce
  <1> HIDE DEF Route
  <1> QED  BY <1>1, <1>2, <1>3

(* However deep classes are nested in one another, and whatever is mapped   *)
(* on them: the routes are those of the classes around the methods.         *)
THEOREM RoutesMapped == Spec => []RoutesAreMapped
  <1>1. ASSUME IInv  PROVE  RoutesAreMapped
    <2> DEFINE routes == Docs.api.routes
    <2>1. routes = HttpRoutes(parsed)
      BY DocsFacts DEF ApiPage
    <2>2. ASSUME NEW p \in Paths(parsed), Language(p) = "java", IsParsed(p, ws[p])
          PROVE  {r.path.segs : r \in {q \in routes : q.file = p}} = MappedPaths(Ast[ws[p]])
      <3>1. PICK f \in ToSet(parsed) : f.path = p
        BY <1>1, ParsedOnce
      <3>2. f \in ParsedIn(ws) /\ IsTree(ws)
        <4>1. parsed \in Seq(ParsedIn(ws))
          BY <1>1 DEF IInv, WalkOK, Counts
        <4> QED  BY <1>1, <4>1, ElementOfSeq DEF ToSet, IInv, CopyOK
      <3>3. p \in DOMAIN ws /\ f = ParsedFile(p, ws[p])
        <4>1. PICK q \in DOMAIN ws : f = ParsedFile(q, ws[q])
          BY <3>2 DEF ParsedIn
        <4>2. q = p
          BY <3>1, <4>1, ParsedPath
        <4> QED  BY <4>1, <4>2
      <3> DEFINE t == Ast[ws[p]]
      <3>4. f.routes = JavaRoutes(t)
        <4>1. Parse(t, "java").routes = JavaRoutes(t)
          BY DEF Parse
        <4>2. ParsedFile(p, ws[p]).routes = Parse(t, "java").routes
          <5>1. ParsedFile(p, ws[p]).routes
                   = (IF IsParsed(p, ws[p]) THEN Parse(t, Language(p)) ELSE NoFacts).routes
            BY DEF ParsedFile
          <5> QED  BY <2>2, <5>1, Zenon
        <4> QED  BY <3>3, <4>1, <4>2
      <3>5. IsSyntaxTree(t)
        BY <3>2, <3>3, FactsAssumption DEF IsTree
      <3>6. {r.path.segs : r \in {q \in HttpRoutes(parsed) : q.file = p}}
               = {r.path.segs : r \in f.routes}
        BY <1>1, <3>1, RoutesOfFile
      <3> HIDE DEF routes
      <3> QED  BY <2>1, <3>4, <3>5, <3>6, RoutesFacts
    <2> HIDE DEF routes
    <2>3. RoutesAreMapped <=>
             (Documented =>
                 \A p \in {q \in Paths(parsed) : Language(q) = "java" /\ IsParsed(q, ws[q])} :
                     {r.path.segs : r \in {q \in routes : q.file = p}} = MappedPaths(Ast[ws[p]]))
      BY Zenon DEF RoutesAreMapped, routes
    <2> QED  BY <2>2, <2>3
  <1> QED  BY <1>1, Invariance, PTL
=============================================================================
