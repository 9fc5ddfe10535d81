-------------------------- MODULE ConfigLoadProofs --------------------------
(***************************************************************************)
(* Proofs about ConfigLoad, for every set of files, every document an      *)
(* operator may write and any number of loads and changes.                 *)
(***************************************************************************)
EXTENDS ConfigLoad, DataLemmas

-----------------------------------------------------------------------------
(* The listing of a directory *)

\* A list of distinct files of S.
Listing(q, S) ==
  /\ q \in Seq(S)
  /\ \A i, j \in 1..Len(q) : q[i] = q[j] => i = j

\* What the first k files contribute to a listing of S.
ListInv(q, S, k) ==
  /\ q \in Seq(S)
  /\ \A i \in 1..Len(q) : \E j \in 1..k : q[i] = Files[j]
  /\ \A i, j \in 1..Len(q) : q[i] = q[j] => i = j

\* One more file of a listing: it is none of those before it.
LEMMA ListStep ==
  ASSUME NEW S, NEW q, NEW k \in Nat, k + 1 \in 1..Len(Files), ListInv(q, S, k),
         Files[k + 1] \in S
  PROVE  ListInv(Append(q, Files[k + 1]), S, k + 1)
<1> DEFINE f == Files[k + 1]
<1>1. q \in Seq(S) /\ f \in S
  BY Zenon DEF ListInv
<1>2. \A i \in 1..Len(q) : q[i] # f
  <2>1. DOMAIN Files = 1..Len(Files)
    BY LoadAssumption DEF LoadAssumption
  <2>2. \A j \in 1..k : Files[j] # f
    BY <2>1, LoadAssumption DEF LoadAssumption
  <2> QED BY <2>2, Zenon DEF ListInv
<1> HIDE DEF f
<1>3. /\ Append(q, f) \in Seq(S) /\ Len(q) \in Nat /\ Len(Append(q, f)) = Len(q) + 1
      /\ \A i \in 1..Len(q) : Append(q, f)[i] = q[i]
      /\ Append(q, f)[Len(q) + 1] = f
  BY <1>1, AppendProperties
<1>4. \A i \in 1..(Len(q) + 1) : i \in 1..Len(q) \/ i = Len(q) + 1
  BY <1>3
<1>5. \A i \in 1..Len(Append(q, f)) : \E j \in 1..(k + 1) : Append(q, f)[i] = Files[j]
  <2>1. k + 1 \in 1..(k + 1) /\ f = Files[k + 1] /\ 1..k \subseteq 1..(k + 1)
    BY DEF f
  <2>2. \A i \in 1..Len(q) : \E j \in 1..(k + 1) : q[i] = Files[j]
    BY <2>1, Zenon DEF ListInv
  <2> QED BY <1>3, <1>4, <2>1, <2>2, Zenon
<1>6. \A i, j \in 1..Len(Append(q, f)) : Append(q, f)[i] = Append(q, f)[j] => i = j
  BY <1>2, <1>3, <1>4, Zenon DEF ListInv
<1> QED BY <1>3, <1>5, <1>6, Zenon DEF ListInv, f

\* os.ReadDir lists files of the directory only, none of them twice.
LEMMA InOrderIs ==
  ASSUME NEW S
  PROVE  Listing(inOrder(S), S)
<1> DEFINE n == Len(Files)
           ss == [i \in 1..n |-> IF Files[i] \in S THEN <<Files[i]>> ELSE <<>>]
<1>1. n \in Nat
  BY LoadAssumption DEF LoadAssumption
<1>2. inOrder(S) = Concat(ss)
  BY Zenon DEF inOrder
<1>3. \A i \in 1..n : ss[i] = IF Files[i] \in S THEN <<Files[i]>> ELSE <<>>
  OBVIOUS
<1>4. ss = [i \in 1..n |-> ss[i]]
  OBVIOUS
<1> HIDE DEF n, ss
<1>5. Len(ss) = n
  BY <1>1, <1>4, SequenceOf, Zenon
<1>6. PICK g : /\ g[0] = <<>>
               /\ \A i \in 1..n : g[i] = g[i - 1] \o ss[i]
               /\ Concat(ss) = g[n]
  BY <1>1, <1>5, ConcatLoop, Zenon
<1> DEFINE I == {k \in Nat : k <= n => ListInv(g[k], S, k)}
<1>7. 0 \in I
  <2>1. ListInv(<<>>, S, 0)
    BY DEF ListInv
  <2> QED BY <1>6, <2>1, Zenon
<1>8. ASSUME NEW k \in Nat, k \in I PROVE k + 1 \in I
  <2> SUFFICES ASSUME k + 1 <= n PROVE ListInv(g[k + 1], S, k + 1)
    OBVIOUS
  <2>1. ListInv(g[k], S, k) /\ k + 1 \in 1..n /\ (k + 1) - 1 = k
    BY <1>1, <1>8
  <2>2. g[k + 1] = g[k] \o ss[k + 1]
    BY <1>6, <2>1, Zenon
  <2>3. CASE Files[k + 1] \in S
    <3>1. ss[k + 1] = <<Files[k + 1]>>
      BY <1>3, <2>1, <2>3, Zenon
    <3>2. g[k + 1] = Append(g[k], Files[k + 1])
      BY <2>1, <2>2, <2>3, <3>1 DEF ListInv
    <3> QED BY <2>1, <2>3, <3>2, ListStep, Zenon DEF n
  <2>4. CASE Files[k + 1] \notin S
    <3>1. ss[k + 1] = <<>>
      BY <1>3, <2>1, <2>4, Zenon
    <3>2. g[k + 1] = g[k]
      BY <2>1, <2>2, <3>1 DEF ListInv
    <3>3. 1..k \subseteq 1..(k + 1)
      OBVIOUS
    <3> QED BY <2>1, <3>2, <3>3, Zenon DEF ListInv
  <2> QED BY <2>3, <2>4, Zenon
<1>9. Nat \subseteq I
  <2> HIDE DEF I
  <2> QED BY <1>7, <1>8, Induction, Zenon
<1>10. ListInv(inOrder(S), S, n)
  BY <1>1, <1>2, <1>6, <1>9
<1> QED BY <1>10, Zenon DEF ListInv, Listing

-----------------------------------------------------------------------------
(* Reading the directory *)

\* What readProbeDir returns of a directory: the listed files in their order,
\* each once, with their documents.
LEMMA ContentsIs ==
  ASSUME NEW d
  PROVE  LET c == contents(d)
             q == inOrder(present(d))
         IN  /\ IsSeq(c) /\ Listing(q, fileNames) /\ Len(c) = Len(q)
             /\ \A i \in 1..Len(c) : /\ c[i] = [name |-> q[i], doc |-> d[q[i]]]
                                     /\ q[i] \in fileNames /\ d[q[i]] # Absent
<1> DEFINE q == inOrder(present(d))
           c == contents(d)
<1>1. Listing(q, present(d))
  BY InOrderIs, Zenon
<1>2. q \in Seq(present(d)) /\ Len(q) \in Nat /\ \A i \in 1..Len(q) : q[i] \in present(d)
  BY <1>1 DEF Listing
<1>3. c = [i \in 1..Len(q) |-> [name |-> q[i], doc |-> d[q[i]]]]
  BY Zenon DEF contents
<1>4. present(d) \subseteq fileNames /\ \A f \in present(d) : d[f] # Absent
  BY Zenon DEF present
<1> HIDE DEF q, c
<1>5. Len(c) = Len(q) /\ \A i \in 1..Len(q) : c[i] = [name |-> q[i], doc |-> d[q[i]]]
  BY <1>2, <1>3
<1>6. IsSeq(c)
  <2>1. c = [i \in 1..Len(q) |-> c[i]]
    BY <1>3, Zenon
  <2> QED BY <1>2, <2>1, SequenceOf, Zenon
<1>7. Listing(q, fileNames)
  BY <1>1, <1>2, <1>4 DEF Listing
<1> QED BY <1>2, <1>4, <1>5, <1>6, <1>7, Zenon DEF q, c

\* The files of listing q are read in turn: ss holds those read, td those to come.
Named(q, ss, td) ==
  /\ Listing(q, fileNames)
  /\ Len(q) = Len(ss) + Len(td)
  /\ \A i \in 1..Len(ss) : ss[i].name = q[i]
  /\ \A i \in 1..Len(td) : td[i] = q[Len(ss) + i]

\* ss is what a Load of directory d has read, and what is left to read of it is
\* in directory e as it is in d.
Reading(d, ss, td, e) ==
  LET c == contents(d)
  IN  /\ Len(c) = Len(ss) + Len(td)
      /\ \A i \in 1..Len(ss) : ss[i] = c[i]
      /\ \A i \in 1..Len(td) : td[i] = c[Len(ss) + i].name /\ e[td[i]] = d[td[i]]

\* One more file is read.
LEMMA NamedOn ==
  ASSUME NEW q, NEW ss, IsSeq(ss), NEW td, IsSeq(td), td # <<>>, NEW doc, Named(q, ss, td)
  PROVE  Named(q, Append(ss, [name |-> Head(td), doc |-> doc]), Tail(td))
<1> DEFINE x == [name |-> Head(td), doc |-> doc]
           s2 == Append(ss, x)
           t2 == Tail(td)
<1>1. x.name = Head(td)
  OBVIOUS
<1> HIDE DEF x
<1>2. /\ Len(ss) \in Nat /\ Len(s2) = Len(ss) + 1
      /\ \A i \in 1..Len(ss) : s2[i] = ss[i]
      /\ s2[Len(ss) + 1] = x
  BY Appended
<1>3. /\ Len(td) \in Nat /\ Len(td) > 0 /\ Len(t2) = Len(td) - 1 /\ Head(td) = td[1]
      /\ \A i \in 1..Len(t2) : i + 1 \in 1..Len(td) /\ t2[i] = td[i + 1]
  BY Tailed, Zenon
<1> HIDE DEF s2, t2
<1>4. Len(q) = Len(s2) + Len(t2)
  BY <1>2, <1>3 DEF Named
<1>5. 1 \in 1..Len(td) /\ x.name = q[Len(ss) + 1]
  BY <1>1, <1>3 DEF Named
<1>6. ASSUME NEW i \in 1..Len(s2) PROVE s2[i].name = q[i]
  <2>1. CASE i \in 1..Len(ss)
    BY <1>2, <2>1, Zenon DEF Named
  <2>2. CASE i = Len(ss) + 1
    BY <1>2, <1>5, <2>2, Zenon
  <2> QED BY <1>2, <2>1, <2>2
<1>7. ASSUME NEW i \in 1..Len(t2) PROVE t2[i] = q[Len(s2) + i]
  <2>1. t2[i] = q[Len(ss) + (i + 1)]
    BY <1>3, Zenon DEF Named
  <2>2. i \in Nat /\ Len(ss) + (i + 1) = Len(s2) + i
    BY <1>2, <1>3
  <2> QED BY <2>1, <2>2, Zenon
<1> QED BY <1>4, <1>6, <1>7, Zenon DEF Named, s2, t2, x

\* One more file is read: what was read and what the directory would give now
\* still make up the contents.
LEMMA ReadingOn ==
  ASSUME NEW d, NEW e, NEW ss, IsSeq(ss), NEW td, IsSeq(td), td # <<>>, Reading(d, ss, td, e)
  PROVE  Reading(d, Append(ss, [name |-> Head(td), doc |-> e[Head(td)]]), Tail(td), e)
<1> DEFINE x == [name |-> Head(td), doc |-> e[Head(td)]]
           s2 == Append(ss, x)
           t2 == Tail(td)
           c  == contents(d)
           q  == inOrder(present(d))
<1>1. /\ Len(ss) \in Nat /\ Len(s2) = Len(ss) + 1
      /\ \A i \in 1..Len(ss) : s2[i] = ss[i]
      /\ s2[Len(ss) + 1] = x
  BY Appended
<1>2. /\ Len(td) \in Nat /\ Len(td) > 0 /\ Len(t2) = Len(td) - 1 /\ Head(td) = td[1]
      /\ \A i \in 1..Len(t2) : i + 1 \in 1..Len(td) /\ t2[i] = td[i + 1]
  BY Tailed, Zenon
<1>3. /\ Len(c) = Len(ss) + Len(td)
      /\ \A i \in 1..Len(ss) : ss[i] = c[i]
      /\ \A i \in 1..Len(td) : td[i] = c[Len(ss) + i].name /\ e[td[i]] = d[td[i]]
  BY Zenon DEF Reading
<1>4. \A i \in 1..Len(c) : c[i] = [name |-> q[i], doc |-> d[q[i]]]
  BY ContentsIs, Zenon
<1> HIDE DEF c, q
<1>5. 1 \in 1..Len(td) /\ Len(ss) + 1 \in 1..Len(c)
  BY <1>1, <1>2, <1>3
<1>6. x = c[Len(ss) + 1]
  <2>1. c[Len(ss) + 1] = [name |-> q[Len(ss) + 1], doc |-> d[q[Len(ss) + 1]]]
    BY <1>4, <1>5, Zenon
  <2>2. Head(td) = q[Len(ss) + 1] /\ e[Head(td)] = d[Head(td)]
    BY <1>2, <1>3, <1>5, <2>1
  <2> QED BY <2>1, <2>2, Zenon
<1> HIDE DEF x, s2, t2
<1>7. Len(c) = Len(s2) + Len(t2)
  BY <1>1, <1>2, <1>3
<1>8. ASSUME NEW i \in 1..Len(s2) PROVE s2[i] = c[i]
  <2>1. CASE i \in 1..Len(ss)
    BY <1>1, <1>3, <2>1, Zenon
  <2>2. CASE i = Len(ss) + 1
    BY <1>1, <1>6, <2>2, Zenon
  <2> QED BY <1>1, <2>1, <2>2
<1>9. ASSUME NEW i \in 1..Len(t2) PROVE t2[i] = c[Len(s2) + i].name /\ e[t2[i]] = d[t2[i]]
  <2>1. t2[i] = c[Len(ss) + (i + 1)].name /\ e[t2[i]] = d[t2[i]]
    BY <1>2, <1>3
  <2>2. i \in Nat /\ Len(ss) + (i + 1) = Len(s2) + i
    BY <1>1, <1>2
  <2> QED BY <2>1, <2>2, Zenon
<1> QED BY <1>7, <1>8, <1>9, Zenon DEF Reading, s2, t2, x, c

DirOK(d) == DOMAIN d = fileNames /\ \A f \in fileNames : d[f] = Absent \/ IsDoc(d[f])

\* Load reads documents of distinct files, and has seen what the directory holds.
ReadInv ==
  /\ DirOK(dir)
  /\ changes \in Nat
  /\ IsSeq(sources) /\ IsSeq(todo)
  /\ \A i \in 1..Len(sources) : IsDoc(sources[i].doc)
  /\ pc = "list" => sources = <<>>
  /\ pc = "read" => todo # <<>>
  /\ pc = "parse" => todo = <<>>
  /\ pc \in {"read", "parse"} => \E q : Named(q, sources, todo)
  /\ pc \in {"list", "read"} => contents(dir) \in past

\* A Load that saw one change either runs into a file that is gone, or reads
\* the directory as it was before the change or as it is after it.
AtomicInv ==
  /\ pc = "read" /\ changes = 0 => Reading(dir, sources, todo, dir)
  /\ pc = "read" /\ changes = 1 =>
       \/ \E i \in 1..Len(todo) : dir[todo[i]] = Absent
       \/ \E d : contents(d) \in past /\ Reading(d, sources, todo, dir)
  /\ pc = "parse" /\ changes <= 1 => sources \in past

\* No Load runs at the start.
LEMMA ReadInit == Init => ReadInv /\ AtomicInv
<1> SUFFICES ASSUME Init PROVE ReadInv /\ AtomicInv
  OBVIOUS
<1>1. PICK s \in Starts : dir = s.dir
  BY Zenon DEF Init
<1>2. DirOK(dir)
  BY <1>1, LoadAssumption, Zenon DEF LoadAssumption, DirOK
<1>3. pc = "boot" /\ todo = <<>> /\ sources = <<>> /\ changes = 0
  BY Zenon DEF Init
<1>4. IsSeq(<<>>) /\ Len(<<>>) = 0
  BY DEF IsSeq, Elements
<1>5. \A i \in 1..Len(sources) : FALSE
  BY <1>3, <1>4
<1> QED BY <1>2, <1>3, <1>4, <1>5, Zenon DEF ReadInv, AtomicInv

\* A change keeps the documents of the directory documents.
LEMMA DirChanges ==
  ASSUME NEW d, DirOK(d), NEW f \in fileNames, NEW x, x = Absent \/ IsDoc(x)
  PROVE  DirOK([d EXCEPT ![f] = x])
BY Zenon DEF DirOK

\* A change of one file, met while a Load that has seen none reads.
LEMMA FirstChange ==
  ASSUME NEW d, DirOK(d), NEW ss, IsSeq(ss), NEW td, IsSeq(td), Reading(d, ss, td, d),
         NEW f \in fileNames, NEW x, x # d[f]
  PROVE  LET e == [d EXCEPT ![f] = x]
         IN  \/ \E i \in 1..Len(td) : e[td[i]] = Absent
             \/ Reading(d, ss, td, e)
             \/ Reading(e, ss, td, e)
<1> DEFINE e == [d EXCEPT ![f] = x]
           c == contents(d)
           q == inOrder(present(d))
<1>1. DOMAIN d = fileNames /\ DOMAIN e = fileNames /\ e[f] = x /\ \A g \in fileNames \ {f} : e[g] = d[g]
  BY Zenon DEF DirOK
<1>2. /\ Len(c) = Len(ss) + Len(td)
      /\ \A i \in 1..Len(ss) : ss[i] = c[i]
      /\ \A i \in 1..Len(td) : td[i] = c[Len(ss) + i].name
  BY Zenon DEF Reading
<1>3. /\ Listing(q, fileNames) /\ Len(c) = Len(q)
      /\ \A i \in 1..Len(c) : /\ c[i] = [name |-> q[i], doc |-> d[q[i]]]
                              /\ q[i] \in fileNames /\ d[q[i]] # Absent
  BY ContentsIs, Zenon
<1>4. Len(ss) \in Nat /\ Len(td) \in Nat
  BY Appended, Zenon
<1> HIDE DEF e, c
<1>5. \A i \in 1..Len(td) : Len(ss) + i \in 1..Len(c) /\ td[i] = q[Len(ss) + i]
  <2> SUFFICES ASSUME NEW i \in 1..Len(td) PROVE Len(ss) + i \in 1..Len(c) /\ td[i] = q[Len(ss) + i]
    OBVIOUS
  <2>1. Len(ss) + i \in 1..Len(c)
    BY <1>2, <1>4
  <2>2. c[Len(ss) + i] = [name |-> q[Len(ss) + i], doc |-> d[q[Len(ss) + i]]]
    BY <1>3, <2>1, Zenon
  <2> QED BY <1>2, <2>1, <2>2
<1>6. CASE \A i \in 1..Len(td) : td[i] # f
  <2>1. \A i \in 1..Len(td) : td[i] \in fileNames /\ e[td[i]] = d[td[i]]
    BY <1>1, <1>3, <1>5, <1>6, Zenon
  <2>2. Reading(d, ss, td, e)
    BY <1>2, <2>1, Zenon DEF Reading, c
  <2> QED BY <2>2, Zenon DEF e
<1>7. CASE \E j \in 1..Len(td) : td[j] = f
  <2>1. PICK j \in 1..Len(td) : td[j] = f
    BY <1>7, Zenon
  <2>2. CASE x = Absent
    <3>1. e[td[j]] = Absent
      BY <1>1, <2>1, <2>2, Zenon
    <3> QED BY <3>1, Zenon DEF e
  <2>3. CASE x # Absent
    <3>1. Len(ss) + j \in 1..Len(c) /\ f = q[Len(ss) + j] /\ d[f] # Absent
      BY <1>3, <1>5, <2>1, Zenon
    <3>2. present(e) = present(d)
      BY <1>1, <2>3, <3>1, Zenon DEF present
    <3>3. /\ Len(contents(e)) = Len(c)
          /\ \A i \in 1..Len(c) : contents(e)[i] = [name |-> q[i], doc |-> e[q[i]]]
      BY <1>3, <3>2, ContentsIs
    <3>4. ASSUME NEW i \in 1..Len(ss) PROVE ss[i] = contents(e)[i]
      <4>1. i \in 1..Len(c) /\ i # Len(ss) + j
        BY <1>2, <1>4
      <4>2. q[i] # f /\ q[i] \in fileNames
        BY <1>3, <3>1, <4>1, Zenon DEF Listing
      <4>3. e[q[i]] = d[q[i]]
        BY <1>1, <4>2, Zenon
      <4>4. ss[i] = [name |-> q[i], doc |-> d[q[i]]]
        BY <1>2, <1>3, <4>1, Zenon
      <4>5. contents(e)[i] = [name |-> q[i], doc |-> e[q[i]]]
        BY <3>3, <4>1, Zenon
      <4> QED BY <4>3, <4>4, <4>5, Zenon
    <3>5. ASSUME NEW i \in 1..Len(td) PROVE td[i] = contents(e)[Len(ss) + i].name
      <4>1. Len(ss) + i \in 1..Len(c) /\ td[i] = q[Len(ss) + i]
        BY <1>5, Zenon
      <4>2. contents(e)[Len(ss) + i] = [name |-> q[Len(ss) + i], doc |-> e[q[Len(ss) + i]]]
        BY <3>3, <4>1, Zenon
      <4> QED BY <4>1, <4>2
    <3>6. Reading(e, ss, td, e)
      BY <1>2, <3>3, <3>4, <3>5, Zenon DEF Reading
    <3> QED BY <3>6, Zenon DEF e
  <2> QED BY <2>2, <2>3, Zenon
<1> QED BY <1>6, <1>7, Zenon

\* A change of the directory leaves what has been read, and adds to the past of
\* a Load that reads.
LEMMA ChangedInv ==
  ASSUME ReadInv, AtomicInv, NEW n \in Nat, Change(n), DirOK(dir')
  PROVE  ReadInv'
<1>1. /\ changes' = changes + n /\ UNCHANGED <<pc, sources, todo>>
      /\ past' = IF pc \in {"list", "read"} THEN past \cup {contents(dir')} ELSE past
  BY Zenon DEF Change, loadVars
<1>2. changes' \in Nat
  BY <1>1 DEF ReadInv
<1>3. (pc \in {"list", "read"} => contents(dir) \in past)'
  BY <1>1, Zenon
<1> QED BY <1>1, <1>2, <1>3, Zenon DEF ReadInv

\* A file is written or removed while a Load reads, or while none does.
LEMMA EditInv ==
  ASSUME ReadInv, AtomicInv, NEW f \in fileNames, NEW x \in EditDocs \cup {Absent}, Edit(f, x)
  PROVE  ReadInv' /\ AtomicInv'
<1>1. /\ x # dir[f] /\ dir' = [dir EXCEPT ![f] = x] /\ Change(1)
      /\ changes' = changes + 1 /\ UNCHANGED <<pc, sources, todo>>
      /\ past' = IF pc \in {"list", "read"} THEN past \cup {contents(dir')} ELSE past
  BY Zenon DEF Edit, Change, loadVars
<1>2. x = Absent \/ IsDoc(x)
  BY LoadAssumption, Zenon DEF LoadAssumption
<1>3. DirOK(dir) /\ IsSeq(sources) /\ IsSeq(todo) /\ changes \in Nat
  BY Zenon DEF ReadInv
<1>4. DirOK(dir')
  BY <1>1, <1>2, <1>3, DirChanges, Zenon
<1>5. ReadInv'
  BY <1>1, <1>4, ChangedInv, Zenon
<1>6. ASSUME pc = "read", changes' = 1
      PROVE  \/ \E i \in 1..Len(todo) : dir'[todo[i]] = Absent
             \/ \E d : contents(d) \in past' /\ Reading(d, sources, todo, dir')
  <2>1. changes = 0
    BY <1>1, <1>3, <1>6
  <2>2. Reading(dir, sources, todo, dir) /\ contents(dir) \in past
    BY <1>6, <2>1, Zenon DEF AtomicInv, ReadInv
  <2>3. contents(dir) \in past' /\ contents(dir') \in past'
    BY <1>1, <1>6, <2>2, Zenon
  <2>4. \/ \E i \in 1..Len(todo) : dir'[todo[i]] = Absent
        \/ Reading(dir, sources, todo, dir')
        \/ Reading(dir', sources, todo, dir')
    BY <1>1, <1>3, <2>2, FirstChange, Zenon
  <2> QED BY <2>3, <2>4, Zenon
<1>7. changes' # 0 /\ (changes' <= 1 => changes <= 1)
  BY <1>1, <1>3
<1>8. (pc = "parse" /\ changes <= 1 => sources \in past)'
  BY <1>1, <1>7, Zenon DEF AtomicInv
<1> QED BY <1>1, <1>5, <1>6, <1>7, <1>8, Zenon DEF AtomicInv

\* A rename is two changes.
LEMMA RenameInv ==
  ASSUME ReadInv, AtomicInv, NEW f \in fileNames, NEW g \in fileNames, Rename(f, g)
  PROVE  ReadInv' /\ AtomicInv'
<1> DEFINE e == [dir EXCEPT ![f] = Absent]
<1>1. /\ dir' = [e EXCEPT ![g] = dir[f]] /\ Change(2)
      /\ changes' = changes + 2 /\ UNCHANGED <<pc, sources, todo>>
      /\ past' = IF pc \in {"list", "read"} THEN past \cup {contents(dir')} ELSE past
  BY Zenon DEF Rename, Change, loadVars
<1>2. DirOK(dir) /\ changes \in Nat
  BY Zenon DEF ReadInv
<1>3. dir[f] = Absent \/ IsDoc(dir[f])
  BY <1>2, Zenon DEF DirOK
<1>4. DirOK(e)
  BY <1>2, DirChanges, Zenon
<1> HIDE DEF e
<1>5. DirOK(dir')
  BY <1>1, <1>3, <1>4, DirChanges, Zenon
<1>6. ReadInv'
  BY <1>1, <1>5, ChangedInv, Zenon
<1>7. changes' \notin {0, 1} /\ ~(changes' <= 1)
  BY <1>1, <1>2
<1> QED BY <1>6, <1>7, Zenon DEF AtomicInv

\* The directory is listed: all is still to be read.
LEMMA ListInvs ==
  ASSUME ReadInv, AtomicInv, ListDir
  PROVE  ReadInv' /\ AtomicInv'
<1> DEFINE q == inOrder(present(dir))
<1>1. /\ pc = "list" /\ todo' = q /\ UNCHANGED <<dir, sources, changes, past>>
      /\ pc' \in {"read", "up", "exited"}
      /\ pc' = "read" => todo' # <<>>
  BY Zenon DEF ListDir, Reject, disk
<1>2. sources = <<>> /\ DirOK(dir) /\ changes \in Nat /\ contents(dir) \in past
  BY <1>1, Zenon DEF ReadInv
<1>3. /\ Listing(q, fileNames) /\ Len(contents(dir)) = Len(q)
      /\ \A i \in 1..Len(q) : contents(dir)[i] = [name |-> q[i], doc |-> dir[q[i]]]
  BY ContentsIs, Zenon
<1>4. IsSeq(q) /\ Len(q) \in Nat
  BY <1>3, Sequence DEF Listing
<1> HIDE DEF q
<1>5. Len(<<>>) = 0 /\ IsSeq(<<>>)
  BY DEF IsSeq, Elements
<1>6. Len(q) = 0 + Len(q) /\ \A i \in 1..Len(q) : 0 + i = i
  BY <1>4
<1>7. Named(q, <<>>, q)
  BY <1>3, <1>5, <1>6 DEF Named
<1>8. Reading(dir, <<>>, q, dir)
  <2>1. ASSUME NEW i \in 1..Len(q) PROVE contents(dir)[i].name = q[i]
    <3>1. contents(dir)[i] = [name |-> q[i], doc |-> dir[q[i]]]
      BY <1>3, Zenon
    <3> QED BY <3>1
  <2>2. \A i \in 1..Len(q) : q[i] = contents(dir)[Len(<<>>) + i].name
    BY <1>5, <1>6, <2>1, Zenon
  <2>3. \A i \in 1..Len(<<>>) : FALSE
    BY <1>5
  <2>4. Len(contents(dir)) = Len(<<>>) + Len(q)
    BY <1>3, <1>4, <1>5
  <2> QED BY <2>2, <2>3, <2>4, Zenon DEF Reading
<1>9. \A i \in 1..Len(sources) : FALSE
  BY <1>2, <1>5
<1>10. ReadInv'
  BY <1>1, <1>2, <1>4, <1>5, <1>7, <1>9, Zenon DEF ReadInv
<1>11. AtomicInv'
  BY <1>1, <1>2, <1>8, Zenon DEF AtomicInv
<1> QED BY <1>10, <1>11, Zenon

\* The next file is read as it is now, or the Load fails.
LEMMA ReadFileInv ==
  ASSUME ReadInv, AtomicInv, ReadFile
  PROVE  ReadInv' /\ AtomicInv'
<1> DEFINE x == [name |-> Head(todo), doc |-> dir[Head(todo)]]
<1>1. pc = "read" /\ todo' = Tail(todo) /\ UNCHANGED <<dir, changes, past>>
  BY Zenon DEF ReadFile, disk
<1>2. /\ DirOK(dir) /\ IsSeq(sources) /\ IsSeq(todo) /\ todo # <<>> /\ changes \in Nat
      /\ contents(dir) \in past
      /\ \A i \in 1..Len(sources) : IsDoc(sources[i].doc)
  BY <1>1, Zenon DEF ReadInv
<1>3. PICK q : Named(q, sources, todo)
  BY <1>1, Zenon DEF ReadInv
<1>4. /\ IsSeq(Tail(todo)) /\ Len(todo) \in Nat /\ Len(todo) > 0 /\ Head(todo) = todo[1]
      /\ Len(Tail(todo)) = Len(todo) - 1
      /\ \A i \in 1..Len(Tail(todo)) : i + 1 \in 1..Len(todo) /\ Tail(todo)[i] = todo[i + 1]
  BY <1>2, Tailed, Zenon
<1>5. CASE dir[Head(todo)] = Absent
  <2>1. pc' \in {"up", "exited"} /\ sources' = sources
    BY <1>5, Zenon DEF ReadFile, Reject
  <2> QED BY <1>1, <1>2, <1>4, <2>1, Zenon DEF ReadInv, AtomicInv
<1>6. CASE dir[Head(todo)] # Absent
  <2>1. sources' = Append(sources, x) /\ pc' = IF todo' = <<>> THEN "parse" ELSE "read"
    BY <1>6, Zenon DEF ReadFile
  <2>2. Head(todo) \in fileNames
    <3>1. 1 \in 1..Len(todo) /\ Len(sources) \in Nat
      BY <1>2, <1>4, Appended
    <3>2. Len(q) = Len(sources) + Len(todo) /\ q \in Seq(fileNames) /\ Head(todo) = q[Len(sources) + 1]
      BY <1>3, <1>4, <3>1, Zenon DEF Named, Listing
    <3> QED BY <1>4, <3>1, <3>2
  <2>3. IsDoc(x.doc)
    BY <1>2, <1>6, <2>2, Zenon DEF DirOK
  <2>4. Named(q, Append(sources, x), Tail(todo))
    BY <1>2, <1>3, NamedOn, Zenon
  <2>5. \A d : Reading(d, sources, todo, dir) => Reading(d, Append(sources, x), Tail(todo), dir)
    BY <1>2, ReadingOn, Zenon
  <2> HIDE DEF x
  <2>6. /\ IsSeq(Append(sources, x)) /\ Len(sources) \in Nat
        /\ Len(Append(sources, x)) = Len(sources) + 1
        /\ \A i \in 1..Len(sources) : Append(sources, x)[i] = sources[i]
        /\ Append(sources, x)[Len(sources) + 1] = x
    BY <1>2, Appended
  <2>7. \A i \in 1..Len(Append(sources, x)) : IsDoc(Append(sources, x)[i].doc)
    <3>1. \A i \in 1..(Len(sources) + 1) : i \in 1..Len(sources) \/ i = Len(sources) + 1
      BY <2>6
    <3> QED BY <1>2, <2>3, <2>6, <3>1, Zenon
  <2>8. ReadInv'
    BY <1>1, <1>2, <1>4, <2>1, <2>4, <2>6, <2>7, Zenon DEF ReadInv
  <2>9. changes = 0 => Reading(dir, sources', todo', dir)
    BY <1>1, <2>1, <2>5, Zenon DEF AtomicInv
  <2>10. ASSUME changes = 1
         PROVE  \/ todo' # <<>> /\ \E i \in 1..Len(todo') : dir[todo'[i]] = Absent
                \/ \E d : contents(d) \in past /\ Reading(d, sources', todo', dir)
    <3>1. CASE \E d : contents(d) \in past /\ Reading(d, sources, todo, dir)
      BY <1>1, <2>1, <2>5, <3>1, Zenon
    <3>2. CASE \E i \in 1..Len(todo) : dir[todo[i]] = Absent
      <4>1. PICK i \in 1..Len(todo) : dir[todo[i]] = Absent
        BY <3>2, Zenon
      <4>2. i # 1
        BY <1>4, <1>6, <4>1, Zenon
      <4>3. i - 1 \in 1..Len(Tail(todo)) /\ (i - 1) + 1 = i
        BY <1>4, <4>2
      <4>4. dir[Tail(todo)[i - 1]] = Absent
        BY <1>4, <4>1, <4>3, Zenon
      <4>a. Len(Tail(todo)) # 0
        <5>1. PICK m \in Nat : m = Len(todo)
          BY <1>4, Zenon
        <5>2. Len(Tail(todo)) = m - 1 /\ i \in 1..m
          BY <1>4, <5>1, Zenon
        <5> QED BY <4>2, <5>2
      <4>b. Len(<<>>) = 0
        OBVIOUS
      <4>5. Tail(todo) # <<>>
        BY <4>a, <4>b, Zenon
      <4> QED BY <1>1, <4>3, <4>4, <4>5, Zenon
    <3> QED BY <1>1, <2>10, <3>1, <3>2, Zenon DEF AtomicInv
  <2>11. ASSUME todo' = <<>>, changes <= 1 PROVE sources' \in past
    <3>1. PICK d : contents(d) \in past /\ Reading(d, sources', todo', dir)
      BY <1>2, <2>9, <2>10, <2>11
    <3>2. /\ Len(contents(d)) = Len(sources') + Len(todo')
          /\ \A i \in 1..Len(sources') : sources'[i] = contents(d)[i]
      BY <3>1, Zenon DEF Reading
    <3>3. IsSeq(contents(d)) /\ IsSeq(sources')
      BY <2>1, <2>6, ContentsIs, Zenon
    <3>4. Len(sources') \in Nat /\ Len(contents(d)) = Len(sources')
      BY <2>1, <2>6, <2>11, <3>2
    <3>5. sources' = contents(d)
      BY <3>2, <3>3, <3>4 DEF IsSeq
    <3> QED BY <3>1, <3>5, Zenon
  <2> QED BY <1>1, <2>1, <2>8, <2>9, <2>10, <2>11, Zenon DEF AtomicInv
<1> QED BY <1>5, <1>6, Zenon

\* Every step keeps what is known of a Load that reads.
LEMMA ReadNext == ReadInv /\ AtomicInv /\ [Next]_vars => ReadInv' /\ AtomicInv'
<1> SUFFICES ASSUME ReadInv, AtomicInv, [Next]_vars PROVE ReadInv' /\ AtomicInv'
  OBVIOUS
<1>1. ASSUME NEW f \in fileNames, NEW x \in EditDocs \cup {Absent}, Edit(f, x)
      PROVE  ReadInv' /\ AtomicInv'
  BY <1>1, EditInv, Zenon
<1>2. ASSUME NEW f \in fileNames, NEW g \in fileNames, Rename(f, g) PROVE ReadInv' /\ AtomicInv'
  BY <1>2, RenameInv, Zenon
<1>3. CASE UNCHANGED <<dir, pc, todo, sources, changes, past>>
  BY <1>3, Zenon DEF ReadInv, AtomicInv
<1>4. CASE BeginLoad
  <2>1. /\ sources' = <<>> /\ todo' = <<>> /\ pc' = "list"
        /\ past' = {contents(dir)} /\ changes' = 0 /\ dir' = dir
    BY <1>4, Zenon DEF BeginLoad, disk
  <2>2. Len(<<>>) = 0 /\ IsSeq(<<>>)
    BY DEF IsSeq, Elements
  <2>3. \A i \in 1..Len(sources') : FALSE
    BY <2>1, <2>2
  <2> QED BY <2>1, <2>2, <2>3, Zenon DEF ReadInv, AtomicInv
<1>5. CASE ListDir
  BY <1>5, ListInvs, Zenon
<1>6. CASE ReadFile
  BY <1>6, ReadFileInv, Zenon
<1>7. CASE Parse
  <2>1. UNCHANGED <<dir, sources, todo, changes, past>> /\ pc' \in {"up", "exited", "crashed"}
    BY <1>7, Zenon DEF Parse, Apply, Reject, disk, loadVars
  <2> QED BY <2>1, Zenon DEF ReadInv, AtomicInv
<1>8. CASE ResolverChanges \/ \E o \in OpsDocs : EditOps(o)
  BY <1>3, <1>8, Zenon DEF ResolverChanges, EditOps, loadVars, history
<1>9. CASE UNCHANGED vars
  BY <1>3, <1>9, Zenon DEF vars, disk, loadVars, history
<1> QED BY <1>1, <1>2, <1>4, <1>5, <1>6, <1>7, <1>8, <1>9, Zenon DEF Next, Load

\* Hence it holds always.
LEMMA ReadInvariant == Spec => [](ReadInv /\ AtomicInv)
BY ReadInit, ReadNext, PTL DEF Spec

\* For every set of files and documents: when no more than one file was replaced,
\* created or removed since a Load began, the set it parses was the contents of
\* the directory at some moment (readProbeDir lists first and reads file by file).
THEOREM OneChangeAtomic == Spec => []OneChangeIsAtomic
<1>1. AtomicInv => OneChangeIsAtomic
  BY Zenon DEF AtomicInv, OneChangeIsAtomic
<1> QED BY <1>1, ReadInvariant, PTL

-----------------------------------------------------------------------------
(* What Load accepts *)

Keys == {"interval", "packet", "timeout", "count"}

\* What readProbeDir returns: documents of distinct files.
Sourced(q) ==
  /\ IsSeq(q)
  /\ \A i \in 1..Len(q) : IsDoc(q[i].doc)
  /\ \A i, j \in 1..Len(q) : q[i].name = q[j].name => i = j

\* Sources that parseSources accepts when the resolver knows res.
Good(q, res) ==
  /\ Sourced(q)
  /\ \A i \in 1..Len(q) : decode(q[i]) = "ok"
  /\ validSources(q, res)

\* Sources that parse are well formed, decode, and pass the second pass.
LEMMA Accepted ==
  ASSUME NEW o, NEW q, NEW res, Sourced(q), parseSources(o, q, res) = "ok"
  PROVE  Good(q, res)
<1> DEFINE bad == {i \in 1..Len(q) : decode(q[i]) # "ok"}
<1>1. Len(q) \in Nat
  BY Appended, Zenon DEF Sourced
<1>2. bad = {}
  <2> SUFFICES ASSUME bad # {} PROVE FALSE
    OBVIOUS
  <2>1. parseSources(o, q, res) \in {"error", decode(q[Min(bad)])}
    BY Zenon DEF parseSources
  <2>2. \E x \in bad : \A y \in bad : x <= y
    <3>1. bad \in SUBSET (1..Len(q))
      OBVIOUS
    <3> HIDE DEF bad
    <3> QED BY <1>1, <3>1, Least, Zenon
  <2>3. Min(bad) \in bad
    <3> HIDE DEF bad
    <3> QED BY <2>2, Zenon DEF Min
  <2>4. "error" # "ok"
    OBVIOUS
  <2> QED BY <2>1, <2>3, <2>4, Zenon
<1>3. \A i \in 1..Len(q) : decode(q[i]) = "ok"
  BY <1>2, Zenon
<1>4. validSources(q, res)
  <2>1. "error" # "ok"
    OBVIOUS
  <2> QED BY <1>2, <2>1, Zenon DEF parseSources
<1> QED BY <1>3, <1>4, Zenon DEF Good

\* The probes of all files are one list of probes.
LEMMA DeclaredIs ==
  ASSUME NEW q, Sourced(q)
  PROVE  /\ IsSeq(declared(q)) /\ Len(declared(q)) \in Nat
         /\ \A i \in 1..Len(declared(q)) : IsRaw(declared(q)[i])
<1> DEFINE n == Len(q)
           ss == [i \in 1..n |-> rawsOf(q[i])]
           R == {r \in UNION {Elements(ss[i]) : i \in 1..n} : IsRaw(r)}
<1>1. n \in Nat
  BY Appended, Zenon DEF Sourced
<1>2. ASSUME NEW i \in 1..n
      PROVE  IsSeq(ss[i]) /\ \A j \in 1..Len(ss[i]) : IsRaw(ss[i][j])
  <2> DEFINE d == q[i].doc
  <2>1. IsDoc(d) /\ ss[i] = IF q[i].name = GlobalFile \/ d.probes = Absent THEN <<>> ELSE d.probes
    BY Zenon DEF Sourced, rawsOf
  <2> HIDE DEF d, ss
  <2>2. CASE ss[i] = <<>>
    <3>1. IsSeq(<<>>) /\ Len(<<>>) = 0
      BY DEF IsSeq, Elements
    <3> QED BY <2>2, <3>1
  <2>3. CASE ss[i] = d.probes /\ d.probes # Absent
    <3>1. d.probes \in Seq(Range(d.probes)) /\ \A r \in Range(d.probes) : IsRaw(r)
      BY <2>1, <2>3, Zenon DEF IsDoc
    <3>2. PICK ps : ps = d.probes
      OBVIOUS
    <3>3. IsSeq(ps) /\ \A j \in 1..Len(ps) : ps[j] \in Range(ps)
      BY <3>1, <3>2, Sequence
    <3> QED BY <2>3, <3>1, <3>2, <3>3, Zenon
  <2> QED BY <2>1, <2>2, <2>3, Zenon
<1>3. declared(q) = Concat(ss) /\ ss = [i \in 1..n |-> ss[i]]
  BY Zenon DEF declared
<1> HIDE DEF ss, n
<1>4. ASSUME NEW i \in 1..n PROVE ss[i] \in Seq(R)
  <2>1. ss[i] \in Seq(Elements(ss[i]))
    BY <1>2, Zenon DEF IsSeq
  <2>2. \A r \in Elements(ss[i]) : IsRaw(r)
    BY <1>2, Zenon DEF Elements
  <2>3. Elements(ss[i]) \subseteq R
    BY <2>2, Zenon
  <2> HIDE DEF R
  <2> QED BY <2>1, <2>3
<1>5. \A r \in R : IsRaw(r)
  OBVIOUS
<1> HIDE DEF R
<1>6. ss \in Seq(Seq(R))
  BY <1>1, <1>3, <1>4
<1>7. PICK D \in Seq(R) : D = declared(q)
  BY <1>3, <1>6, ConcatType, Zenon
<1>8. IsSeq(D) /\ Len(D) \in Nat /\ \A i \in 1..Len(D) : D[i] \in R
  BY Sequence
<1> QED BY <1>5, <1>7, <1>8, Zenon

\* _global.yaml, wherever it sorts, gives the defaults its keys set and leaves
\* the others; without it the built-in ones are in force.
LEMMA GlobalIs ==
  ASSUME NEW q, Sourced(q), \A i \in 1..Len(q) : decode(q[i]) = "ok"
  PROVE  /\ globalOf(q) \in Global
         /\ \A k \in Keys : globalOf(q)[k] = DefaultFor(k, q)
<1> DEFINE G == {s \in Range(q) : s.name = GlobalFile}
           F(k) == {s \in Range(q) : /\ s.name = GlobalFile
                                     /\ s.doc.global # Absent
                                     /\ s.doc.global[k] # Absent}
<1>1. /\ globalOf(q) = IF G = {} THEN Builtin ELSE overlay((CHOOSE s \in G : TRUE).doc)
      /\ \A k : DefaultFor(k, q) =
                  IF F(k) = {} THEN Builtin[k] ELSE (CHOOSE s \in F(k) : TRUE).doc.global[k]
  BY Zenon DEF globalOf, DefaultFor
<1>2. Builtin \in Global
  BY ConfigAssumption, Zenon DEF ConfigAssumption
<1>3. CASE G = {}
  <2>1. \A k : F(k) = {}
    BY <1>3, Zenon
  <2> QED BY <1>1, <1>2, <1>3, <2>1, Zenon
<1>4. CASE G # {}
  <2>1. PICK s \in G : TRUE
    BY <1>4, Zenon
  <2>2. PICK i \in 1..Len(q) : q[i] = s
    <3>1. DOMAIN q = 1..Len(q)
      BY Appended, Zenon DEF Sourced
    <3> QED BY <2>1, <3>1, Zenon DEF Range
  <2>3. \A t \in G : t = s
    <3> SUFFICES ASSUME NEW t \in G PROVE t = s
      OBVIOUS
    <3>1. DOMAIN q = 1..Len(q)
      BY Appended, Zenon DEF Sourced
    <3>2. PICK j \in 1..Len(q) : q[j] = t
      BY <3>1, Zenon DEF Range
    <3>3. q[i].name = q[j].name
      BY <2>1, <2>2, <3>2, Zenon
    <3> QED BY <2>2, <3>2, <3>3, Zenon DEF Sourced
  <2>4. (CHOOSE t \in G : TRUE) = s
    BY <2>1, <2>3, Zenon
  <2>5. globalOf(q) = overlay(s.doc)
    BY <1>1, <1>4, <2>4, Zenon
  <2>6. IsDoc(s.doc) /\ decode(s) = "ok" /\ s.name = GlobalFile
    BY <2>1, <2>2, Zenon DEF Sourced
  <2>7. s.doc.global # Null
    <3>1. "panic" # "ok" /\ "error" # "ok"
      OBVIOUS
    <3> QED BY <2>6, <3>1, Zenon DEF decode
  <2> DEFINE d == s.doc.global
  <2>8. CASE d = Absent
    <3>1. globalOf(q) = Builtin
      BY <2>5, <2>8, Zenon DEF overlay
    <3>2. \A k : F(k) = {}
      BY <2>3, <2>8, Zenon
    <3> QED BY <1>1, <1>2, <3>1, <3>2, Zenon
  <2>9. CASE d # Absent
    <3>1. globalOf(q) = [k \in DOMAIN Builtin |-> Or(d[k], Builtin[k])]
      BY <2>5, <2>9, Zenon DEF overlay
    <3>2. /\ \A k \in Keys : d[k] \in Int \cup {Absent}
          /\ d.source \in STRING \cup {Absent}
      BY <2>6, <2>7, <2>9, Zenon DEF IsDoc, Keys
    <3>3. ASSUME NEW k \in Keys PROVE Or(d[k], Builtin[k]) = DefaultFor(k, q)
      <4>1. CASE d[k] = Absent
        <5>1. F(k) = {}
          BY <2>3, <4>1, Zenon
        <5> QED BY <1>1, <4>1, <5>1, Zenon DEF Or
      <4>2. CASE d[k] # Absent
        <5>1. s \in F(k) /\ \A t \in F(k) : t = s
          BY <2>1, <2>3, <2>9, <4>2, Zenon
        <5>2. (CHOOSE t \in F(k) : TRUE) = s /\ F(k) # {}
          BY <5>1, Zenon
        <5> QED BY <1>1, <4>2, <5>2, Zenon DEF Or
      <4> QED BY <4>1, <4>2, Zenon
    <3>4. DOMAIN Builtin = Keys \cup {"source"}
      BY <1>2, Zenon DEF Global, Keys
    <3>5. \A k \in Keys : Or(d[k], Builtin[k]) \in Int
      BY <1>2, <3>2, Zenon DEF Or, Global, Keys
    <3>6. Or(d.source, Builtin.source) \in STRING
      BY <1>2, <3>2, Zenon DEF Or, Global
    <3> HIDE DEF d
    <3>7. \A k \in Keys : globalOf(q)[k] = Or(d[k], Builtin[k])
      BY <3>1, <3>4, Zenon
    <3>8. globalOf(q) \in Global
      BY <3>1, <3>4, <3>5, <3>6, Zenon DEF Global, Keys
    <3> QED BY <3>3, <3>7, <3>8, Zenon DEF d
  <2> QED BY <2>8, <2>9, Zenon
<1> QED BY <1>3, <1>4, Zenon

-----------------------------------------------------------------------------
(* What Load makes of it *)

\* A probe's own timing where it has one, the default where it has not.
LEMMA MergedTime ==
  ASSUME NEW r, NEW g
  PROVE  \A k \in Keys : mergeTimings(r, g)[k] = Or(r[k], g[k])
BY DEF mergeTimings, Keys

\* A timing of the probe or of the defaults is a number.
LEMMA MergedInt ==
  ASSUME NEW r, NEW g \in Global, IsRaw(r)
  PROVE  \A k \in Keys : Or(r[k], g[k]) \in Int
<1>1. \A k \in Keys : r[k] \in Int \cup {Absent}
  BY Zenon DEF IsRaw, Keys
<1>2. \A k \in Keys : g[k] \in Int
  BY Zenon DEF Global, Keys
<1> QED BY <1>1, <1>2, Zenon DEF Or

\* The product of two durations that fits into 63 bits is what it should be.
LEMMA WrapIs ==
  ASSUME NEW n \in Nat, n < Word \div 2
  PROVE  Wrap(n) = n
<1>1. Word \in Nat \ {0} /\ Word % 2 = 0
  BY ConfigAssumption, Zenon DEF ConfigAssumption
<1>2. PICK h \in Nat : h = Word \div 2 /\ Word = 2 * h
  BY <1>1
<1>3. (n + h) % Word = n + h
  BY <1>2
<1> QED BY <1>2, <1>3 DEF Wrap

\* The attempts of a probe whose timings pass fit into its timeout, unless the
\* product overflows.
LEMMA TimingsFit ==
  ASSUME NEW t, t.interval \in Int, t.packet \in Int, t.timeout \in Int, t.count \in Int,
         validateTimings(t)
  PROVE  /\ t.packet > 0 /\ t.count > 0
         /\ t.timeout \in 1..(t.interval - 1)
         /\ t.packet * t.count < t.timeout \/ t.packet * t.count >= Word \div 2
<1>1. PICK a \in Int, b \in Int, c \in Int, d \in Int :
        a = t.interval /\ b = t.packet /\ c = t.timeout /\ d = t.count
  OBVIOUS
<1>2. a > 0 /\ b >= Millisecond /\ c > 0 /\ d > 0 /\ Wrap(b * d) < c /\ c < a
  BY <1>1, Zenon DEF validateTimings
<1>3. Millisecond \in 1..((Word \div 2) - 1) /\ Word \in Nat \ {0}
  BY ConfigAssumption, Zenon DEF ConfigAssumption
<1>4. b > 0
  BY <1>2, <1>3
<1>5. PICK n \in Nat : n = b * d
  BY <1>2, <1>4
<1>6. PICK h \in Int : h = Word \div 2
  BY <1>3
<1>7. n < h => n < c
  BY <1>2, <1>5, <1>6, WrapIs, Zenon
<1>8. n < c \/ n >= h
  BY <1>7
<1>9. c \in 1..(a - 1)
  BY <1>2
<1> QED BY <1>1, <1>2, <1>4, <1>5, <1>6, <1>8, <1>9, Zenon

\* The strings the code fills in.
LEMMA Literals == {"http", "https", "GET", "HEAD", "connect", "A", "AAAA"} \subseteq STRING
BY ConfigAssumption, Zenon DEF ConfigAssumption

\* A string in upper or lower case is a string.
LEMMA CaseIs ==
  ASSUME NEW s \in STRING
  PROVE  ToLower(s) \in STRING /\ ToUpper(s) \in STRING
<1>1. \A x \in {"https", "HEAD", "AAAA"} : x \in STRING
  BY Literals, Zenon
<1>2. ToLower(s) \in {"https", s}
  BY Zenon DEF ToLower
<1>3. ToUpper(s) \in {"HEAD", "AAAA", s}
  BY Zenon DEF ToUpper
<1> QED BY <1>1, <1>2, <1>3, Zenon

\* A block that passes is completed to one the probers take.
LEMMA TypedBlockIs ==
  ASSUME NEW r, IsRaw(r), r.type \in KnownTypes, r.type # "icmp", validateProtocolConfig(r)
  PROVE  LET b == typedBlock(r.type, r.block)
         IN  /\ b # Absent
             /\ r.type = "http" => b.scheme \in {"http", "https"} /\ b.method # ""
             /\ r.type = "tcp" => b.mode \in {"connect", "syn"} /\ IsPort(b.port)
<1>1. PICK type, blk : type = r.type /\ blk = r.block
  OBVIOUS
<1>2. type \in {"http", "tcp", "udp", "dns"}
  BY <1>1, Zenon DEF KnownTypes
<1>3. DOMAIN Block = {"http", "tcp", "udp", "dns"}
  BY Zenon DEF Block
<1>4. Absent \notin Block[type]
  BY <1>2, <1>3, ConfigAssumption, Zenon DEF ConfigAssumption
<1>5. blk \in Block[type] \cup {Absent}
  BY <1>1, <1>2, <1>3, Zenon DEF IsRaw
<1>6. validateProtocolConfig(r) = CASE type = "icmp" -> TRUE
        [] type = "http" -> blk # Absent /\ validateHTTPConfig(blk)
        [] type = "tcp"  -> blk # Absent /\ validateTCPConfig(blk)
        [] type = "udp"  -> blk # Absent /\ validateUDPConfig(blk)
        [] type = "dns"  -> blk # Absent /\ validateDNSConfig(blk)
  BY <1>1, Zenon DEF validateProtocolConfig
<1>7. CASE type = "http"
  <2>1. blk \in Block[type] /\ validateHTTPConfig(blk)
    BY <1>5, <1>6, <1>7, Zenon
  <2>2. blk \in [scheme : STRING, port : Int, method : STRING, status : Int, days : Int]
    BY <1>7, <2>1, Zenon DEF Block
  <2> DEFINE b == [blk EXCEPT !.scheme = IF @ = "" THEN "http" ELSE ToLower(@),
                              !.method = IF @ = "" THEN "GET" ELSE ToUpper(@)]
  <2>3. typedBlock(type, blk) = b
    BY <1>7, Zenon DEF typedBlock
  <2>4. /\ b.scheme = (IF blk.scheme = "" THEN "http" ELSE ToLower(blk.scheme))
        /\ b.method = (IF blk.method = "" THEN "GET" ELSE ToUpper(blk.method))
    BY <2>2, Zenon
  <2>5. b \in [scheme : STRING, port : Int, method : STRING, status : Int, days : Int]
    <3>1. PICK x \in STRING, y \in STRING :
            /\ x = (IF blk.scheme = "" THEN "http" ELSE ToLower(blk.scheme))
            /\ y = (IF blk.method = "" THEN "GET" ELSE ToUpper(blk.method))
      BY <2>2, CaseIs, Literals, Zenon
    <3>2. b = [blk EXCEPT !.scheme = x, !.method = y]
      BY <3>1, Zenon
    <3> HIDE DEF b
    <3> QED BY <2>2, <3>2, Zenon
  <2> HIDE DEF b
  <2>6. b \in Block[type]
    BY <1>7, <2>5, Zenon DEF Block
  <2>7. ToLower(blk.scheme) \in {"", "http", "https"}
    BY <2>1, Zenon DEF validateHTTPConfig
  <2>8. b.scheme \in {"http", "https"}
    BY <2>4, <2>7, Zenon DEF ToLower
  <2>9. b.method # ""
    BY <2>4, Zenon DEF ToUpper
  <2>10. b # Absent /\ type # "tcp"
    BY <1>4, <1>7, <2>6, Zenon
  <2> QED BY <1>1, <2>3, <2>8, <2>9, <2>10, Zenon
<1>8. CASE type = "tcp"
  <2>1. blk \in Block[type] /\ validateTCPConfig(blk)
    BY <1>5, <1>6, <1>8, Zenon
  <2>2. blk \in [port : Int, mode : STRING]
    BY <1>8, <2>1, Zenon DEF Block
  <2> DEFINE b == [blk EXCEPT !.mode = IF @ = "" THEN "connect" ELSE @]
  <2>3. typedBlock(type, blk) = b
    BY <1>8, Zenon DEF typedBlock
  <2>4. b.mode = (IF blk.mode = "" THEN "connect" ELSE blk.mode) /\ b.port = blk.port
    BY <2>2, Zenon
  <2>5. b \in [port : Int, mode : STRING]
    <3>1. PICK x \in STRING : x = (IF blk.mode = "" THEN "connect" ELSE blk.mode)
      BY <2>2, Literals, Zenon
    <3>2. b = [blk EXCEPT !.mode = x]
      BY <3>1, Zenon
    <3> HIDE DEF b
    <3> QED BY <2>2, <3>2, Zenon
  <2> HIDE DEF b
  <2>6. b \in Block[type]
    BY <1>8, <2>5, Zenon DEF Block
  <2>7. blk.mode \in {"", "connect", "syn"} /\ IsPort(blk.port)
    BY <2>1, Zenon DEF validateTCPConfig
  <2>8. b.mode \in {"connect", "syn"} /\ IsPort(b.port)
    BY <2>4, <2>7, Zenon
  <2>9. b # Absent /\ type # "http"
    BY <1>4, <1>8, <2>6, Zenon
  <2> QED BY <1>1, <2>3, <2>8, <2>9, Zenon
<1>9. CASE type = "udp"
  <2>1. blk # Absent
    BY <1>5, <1>6, <1>9, Zenon
  <2>2. typedBlock(type, blk) = blk
    BY <1>9, Zenon DEF typedBlock
  <2>3. type # "http" /\ type # "tcp"
    BY <1>9, Zenon
  <2> QED BY <1>1, <2>1, <2>2, <2>3, Zenon
<1>10. CASE type = "dns"
  <2>1. blk \in Block[type]
    BY <1>5, <1>6, <1>10, Zenon
  <2>2. blk \in [record : STRING, resolver : STRING]
    BY <1>10, <2>1, Zenon DEF Block
  <2> DEFINE b == [blk EXCEPT !.record = IF @ = "" THEN "A" ELSE ToUpper(@)]
  <2>3. typedBlock(type, blk) = b
    BY <1>10, Zenon DEF typedBlock
  <2>4. b \in [record : STRING, resolver : STRING]
    <3>1. PICK x \in STRING : x = (IF blk.record = "" THEN "A" ELSE ToUpper(blk.record))
      BY <2>2, CaseIs, Literals, Zenon
    <3>2. b = [blk EXCEPT !.record = x]
      BY <3>1, Zenon
    <3> HIDE DEF b
    <3> QED BY <2>2, <3>2, Zenon
  <2> HIDE DEF b
  <2>5. b \in Block[type]
    BY <1>10, <2>4, Zenon DEF Block
  <2>6. b # Absent /\ type # "http" /\ type # "tcp"
    BY <1>4, <1>10, <2>5, Zenon
  <2> QED BY <1>1, <2>3, <2>6, Zenon
<1> QED BY <1>2, <1>7, <1>8, <1>9, <1>10, Zenon

\* A probe that passes validation is one the probers can run.
LEMMA ProbeRunnable ==
  ASSUME NEW r, IsRaw(r), NEW g \in Global, NEW res, validProbe(r, g, res)
  PROVE  Runnable(mergeProbe(r, g))
<1>1. PICK p : p = mergeProbe(r, g)
  OBVIOUS
<1>2. /\ p.type = r.type /\ p.targets = r.targets /\ p.maxIPs = r.maxIPs
      /\ p.time = mergeTimings(r, g)
      /\ p.block = IF r.type = "icmp" THEN Absent ELSE typedBlock(r.type, r.block)
  BY <1>1, Zenon DEF mergeProbe
<1>3. /\ r.type \in KnownTypes /\ r.targets # <<>> /\ r.maxIPs >= 0
      /\ r.type # "http" => validateTimings(mergeTimings(r, g))
      /\ validateProtocolConfig(r)
  BY Zenon DEF validProbe, validateTargets
<1>4. ASSUME r.type # "icmp"
      PROVE  /\ p.block # Absent
             /\ r.type = "http" => p.block.scheme \in {"http", "https"} /\ p.block.method # ""
             /\ r.type = "tcp" => p.block.mode \in {"connect", "syn"} /\ IsPort(p.block.port)
  BY <1>2, <1>3, <1>4, TypedBlockIs, Zenon
<1>5. "icmp" # "http" /\ "icmp" # "tcp"
  OBVIOUS
<1>6. ASSUME r.type # "http"
      PROVE  /\ p.time.packet > 0 /\ p.time.count > 0
             /\ p.time.timeout \in 1..(p.time.interval - 1)
             /\ \/ p.time.packet * p.time.count < p.time.timeout
                \/ p.time.packet * p.time.count >= Word \div 2
  <2>1. \A k \in Keys : p.time[k] \in Int
    <3>1. \A k \in Keys : mergeTimings(r, g)[k] = Or(r[k], g[k])
      BY MergedTime, Zenon
    <3>2. \A k \in Keys : Or(r[k], g[k]) \in Int
      BY MergedInt, Zenon
    <3> QED BY <1>2, <3>1, <3>2, Zenon
  <2>2. p.time.interval \in Int /\ p.time.packet \in Int /\ p.time.timeout \in Int /\ p.time.count \in Int
    BY <2>1, Zenon DEF Keys
  <2>3. validateTimings(p.time)
    BY <1>2, <1>3, <1>6, Zenon
  <2> QED BY <2>2, <2>3, TimingsFit, Zenon
<1>7. /\ p.type \in KnownTypes /\ p.targets # <<>> /\ p.maxIPs >= 0
      /\ p.type # "icmp" => p.block # Absent
      /\ p.type = "http" => p.block.scheme \in {"http", "https"} /\ p.block.method # ""
      /\ p.type = "tcp" => p.block.mode \in {"connect", "syn"} /\ IsPort(p.block.port)
  BY <1>2, <1>3, <1>4, <1>5, Zenon
<1>8. Runnable(p)
  BY <1>2, <1>6, <1>7, Zenon DEF Runnable
<1> QED BY <1>1, <1>8, Zenon

\* The config made of sources q.
Applied(q) ==
  [probes |-> mergedProbes(q), global |-> globalOf(q), sha |-> fingerprint(q), from |-> q]

\* The fields of a config that is put in force.
LEMMA AppliedIs ==
  ASSUME NEW q
  PROVE  /\ Applied(q) # NoConfig
         /\ Applied(q).probes = mergedProbes(q) /\ Applied(q).global = globalOf(q)
         /\ Applied(q).from = q
<1>1. PICK m, g, s : m = mergedProbes(q) /\ g = globalOf(q) /\ s = fingerprint(q)
  BY Zenon
<1>2. PICK a : a = [probes |-> m, global |-> g, sha |-> s, from |-> q]
  BY Zenon
<1>3. Applied(q) = a
  BY <1>1, <1>2, Zenon DEF Applied
<1>4. a.probes = m /\ a.global = g /\ a.from = q
  BY <1>2, Zenon
<1>5. "from" \in DOMAIN a
  BY <1>2, Zenon
<1>6. DOMAIN NoConfig = {}
  BY DEF NoConfig
<1> QED BY <1>1, <1>3, <1>4, <1>5, <1>6, Zenon

\* The probes of a config, one for every probe declared.
LEMMA MergedIs ==
  ASSUME NEW q, Sourced(q)
  PROVE  /\ IsSeq(mergedProbes(q)) /\ Len(mergedProbes(q)) = Len(declared(q))
         /\ Len(declared(q)) \in Nat
         /\ mergedProbes(q) = [i \in 1..Len(declared(q)) |-> mergeProbe(declared(q)[i], globalOf(q))]
         /\ \A i \in 1..Len(declared(q)) :
              mergedProbes(q)[i] = mergeProbe(declared(q)[i], globalOf(q))
<1>1. PICK rs, g, n, m : rs = declared(q) /\ g = globalOf(q) /\ n = Len(rs) /\ m = mergedProbes(q)
  BY Zenon
<1>2. n \in Nat
  BY <1>1, DeclaredIs, Zenon
<1>3. m = [i \in 1..n |-> mergeProbe(rs[i], g)]
  BY <1>1, Zenon DEF mergedProbes
<1>4. m = [i \in 1..n |-> m[i]] /\ \A i \in 1..n : m[i] = mergeProbe(rs[i], g)
  BY <1>3, Zenon
<1>5. IsSeq(m) /\ Len(m) = n
  BY <1>2, <1>4, SequenceOf, Zenon
<1> QED BY <1>1, <1>2, <1>3, <1>4, <1>5, Zenon

\* The config in force was made of sources that were accepted.
ActiveInv ==
  /\ resolves \in SUBSET Hostname
  /\ pc = "up" => active # NoConfig
  /\ active # NoConfig =>
       active = Applied(active.from) /\ \E res \in SUBSET Hostname : Good(active.from, res)

\* Only a Load that parsed puts a config in force.
LEMMA ActiveStep ==
  ASSUME ActiveInv, ReadInv, [Next]_vars
  PROVE  ActiveInv'
<1>1. ASSUME active' = active, resolves' \in SUBSET Hostname, pc' = pc \/ pc' # "up" \/ active # NoConfig
      PROVE  ActiveInv'
  BY <1>1, Zenon DEF ActiveInv
<1>2. resolves \in SUBSET Hostname
  BY Zenon DEF ActiveInv
<1>3. CASE UNCHANGED <<active, pc, resolves>>
  BY <1>1, <1>2, <1>3, Zenon
<1>4. CASE ResolverChanges
  <2>1. active' = active /\ pc' = pc /\ resolves' \in SUBSET Hostname
    BY <1>4, Zenon DEF ResolverChanges
  <2> QED BY <1>1, <2>1, Zenon
<1>5. ASSUME NEW f \in fileNames, NEW x \in EditDocs \cup {Absent}, Edit(f, x) PROVE ActiveInv'
  BY <1>3, <1>5, Zenon DEF Edit, Change
<1>6. ASSUME NEW f \in fileNames, NEW g \in fileNames, Rename(f, g) PROVE ActiveInv'
  BY <1>3, <1>6, Zenon DEF Rename, Change
<1>7. ASSUME NEW o \in OpsDocs, EditOps(o) PROVE ActiveInv'
  BY <1>3, <1>7, Zenon DEF EditOps
<1>8. CASE BeginLoad
  <2>1. active' = active /\ resolves' = resolves /\ pc' # "up"
    BY <1>8, Zenon DEF BeginLoad, disk
  <2> QED BY <1>1, <1>2, <2>1, Zenon
<1>9. CASE ListDir
  <2>1. active' = active /\ resolves' = resolves /\ (pc' # "up" \/ active # NoConfig)
    BY <1>9, Zenon DEF ListDir, Reject, disk
  <2> QED BY <1>1, <1>2, <2>1, Zenon
<1>10. CASE ReadFile
  <2>1. active' = active /\ resolves' = resolves /\ (pc' # "up" \/ active # NoConfig)
    BY <1>10, Zenon DEF ReadFile, Reject, disk
  <2> QED BY <1>1, <1>2, <2>1, Zenon
<1>11. CASE Parse
  <2> DEFINE verdict == parseSources(opsData, sources, resolves)
  <2>1. /\ pc = "parse" /\ resolves' = resolves
        /\ \/ verdict = "ok" /\ Apply
           \/ active' = active /\ (pc' # "up" \/ active # NoConfig)
    BY <1>11, Zenon DEF Parse, Reject, disk
  <2>2. CASE verdict = "ok" /\ Apply
    <3>1. active' = Applied(sources)
      BY <2>2, Zenon DEF Apply, Applied
    <3>2. Sourced(sources)
      <4>1. PICK q : Named(q, sources, todo)
        BY <2>1, Zenon DEF ReadInv
      <4>2. todo = <<>> /\ IsSeq(sources) /\ \A i \in 1..Len(sources) : IsDoc(sources[i].doc)
        BY <2>1, Zenon DEF ReadInv
      <4>3. Len(sources) \in Nat
        BY <4>2, Appended, Zenon
      <4>4. Len(q) = Len(sources) /\ \A i \in 1..Len(sources) : sources[i].name = q[i]
        BY <4>1, <4>2, <4>3 DEF Named
      <4>5. \A i, j \in 1..Len(sources) : sources[i].name = sources[j].name => i = j
        <5> SUFFICES ASSUME NEW i \in 1..Len(sources), NEW j \in 1..Len(sources),
                            sources[i].name = sources[j].name
                     PROVE  i = j
          OBVIOUS
        <5>1. i \in 1..Len(q) /\ j \in 1..Len(q) /\ q[i] = q[j]
          BY <4>4, Zenon
        <5> QED BY <4>1, <5>1, Zenon DEF Named, Listing
      <4> QED BY <4>2, <4>5, Zenon DEF Sourced
    <3>3. Good(sources, resolves)
      BY <2>2, <3>2, Accepted, Zenon
    <3>4. active' # NoConfig /\ active'.from = sources
      BY <3>1, AppliedIs, Zenon
    <3> QED BY <1>2, <2>1, <3>1, <3>3, <3>4, Zenon DEF ActiveInv
  <2>3. CASE active' = active /\ (pc' # "up" \/ active # NoConfig)
    BY <1>1, <1>2, <2>1, <2>3, Zenon
  <2> QED BY <2>1, <2>2, <2>3, Zenon
<1>12. CASE UNCHANGED vars
  BY <1>3, <1>12, Zenon DEF vars, disk
<1> QED BY <1>4, <1>5, <1>6, <1>7, <1>8, <1>9, <1>10, <1>11, <1>12, Zenon DEF Next, Load

\* Hence the config in force is always one made of sources that passed.
LEMMA ActiveInvariant == Spec => []ActiveInv
<1>1. Init => ActiveInv
  BY Zenon DEF Init, ActiveInv
<1>2. ActiveInv /\ ReadInv /\ [Next]_vars => ActiveInv'
  BY ActiveStep, Zenon
<1> QED BY <1>1, <1>2, ReadInvariant, PTL DEF Spec

\* Whatever files, documents and resolver answers there are, the daemon is up only
\* with a config its probers and its scheduler can run (mergeAndValidateProbe).
THEOREM ActiveConfigRunnable == Spec => []ActiveRunnable
<1>1. ActiveInv => ActiveRunnable
  <2> SUFFICES ASSUME ActiveInv, active # NoConfig
               PROVE  /\ \A i \in 1..Len(active.probes) : Runnable(active.probes[i])
                      /\ \A i, j \in 1..Len(active.probes) :
                           active.probes[i].name = active.probes[j].name => i = j
    BY Zenon DEF ActiveInv, ActiveRunnable
  <2>0. PICK q : q = active.from
    BY Zenon
  <2>1. PICK res \in SUBSET Hostname : Good(q, res) /\ active = Applied(q)
    BY <2>0, Zenon DEF ActiveInv
  <2>2. PICK rs, g, m : rs = declared(q) /\ g = globalOf(q) /\ m = mergedProbes(q)
    BY Zenon
  <2>3. active.probes = m
    BY <2>1, <2>2, AppliedIs, Zenon
  <2>4. g \in Global
    BY <2>1, <2>2, GlobalIs, Zenon DEF Good
  <2>5. Len(m) = Len(rs) /\ \A i \in 1..Len(rs) : m[i] = mergeProbe(rs[i], g)
    BY <2>1, <2>2, MergedIs, Zenon DEF Good
  <2>6. \A i \in 1..Len(rs) : IsRaw(rs[i])
    BY <2>1, <2>2, DeclaredIs, Zenon DEF Good
  <2>7. /\ \A i \in 1..Len(rs) : validProbe(rs[i], g, res)
        /\ \A i, j \in 1..Len(rs) : rs[i].name = rs[j].name => i = j
    BY <2>1, <2>2, Zenon DEF Good, validSources, uniqueNames
  <2>8. \A i \in 1..Len(rs) : Runnable(m[i])
    BY <2>4, <2>5, <2>6, <2>7, ProbeRunnable, Zenon
  <2>9. \A i \in 1..Len(rs) : m[i].name = rs[i].name
    <3> SUFFICES ASSUME NEW i \in 1..Len(rs) PROVE m[i].name = rs[i].name
      OBVIOUS
    <3>1. m[i] = mergeProbe(rs[i], g)
      BY <2>5, Zenon
    <3> QED BY <3>1 DEF mergeProbe
  <2>10. \A i, j \in 1..Len(m) : m[i].name = m[j].name => i = j
    BY <2>5, <2>7, <2>9, Zenon
  <2> QED BY <2>3, <2>5, <2>8, <2>10, Zenon
<1> QED BY <1>1, ActiveInvariant, PTL

\* For every directory: a probe in force has its own timings, and the defaults of
\* _global.yaml, or else the built-in ones, where it has none; none is lost.
THEOREM DefaultsReach == Spec => []DefaultsReachEveryProbe
<1>1. ActiveInv => DefaultsReachEveryProbe
  <2> SUFFICES ASSUME ActiveInv, active # NoConfig
               PROVE  /\ Len(active.probes) = Len(declared(active.from))
                      /\ \A i \in 1..Len(declared(active.from)) : \A k \in Keys :
                           active.probes[i].time[k]
                             = Or(declared(active.from)[i][k], DefaultFor(k, active.from))
    BY Zenon DEF DefaultsReachEveryProbe, Keys
  <2>0. PICK q : q = active.from
    BY Zenon
  <2>1. PICK res \in SUBSET Hostname : Good(q, res) /\ active = Applied(q)
    BY <2>0, Zenon DEF ActiveInv
  <2>2. PICK rs, g, m : rs = declared(q) /\ g = globalOf(q) /\ m = mergedProbes(q)
    BY Zenon
  <2>3. active.probes = m /\ active.from = q
    BY <2>1, <2>2, AppliedIs, Zenon
  <2>4. \A k \in Keys : g[k] = DefaultFor(k, q)
    BY <2>1, <2>2, GlobalIs, Zenon DEF Good
  <2>5. Len(m) = Len(rs) /\ \A i \in 1..Len(rs) : m[i] = mergeProbe(rs[i], g)
    BY <2>1, <2>2, MergedIs, Zenon DEF Good
  <2>6. ASSUME NEW i \in 1..Len(rs), NEW k \in Keys
        PROVE  m[i].time[k] = Or(rs[i][k], DefaultFor(k, q))
    <3>1. m[i] = mergeProbe(rs[i], g)
      BY <2>5, Zenon
    <3>2. m[i].time = mergeTimings(rs[i], g)
      BY <3>1 DEF mergeProbe
    <3>3. mergeTimings(rs[i], g)[k] = Or(rs[i][k], g[k])
      BY MergedTime, Zenon
    <3> QED BY <2>4, <3>2, <3>3, Zenon
  <2> QED BY <2>2, <2>3, <2>5, <2>6, Zenon
<1> QED BY <1>1, ActiveInvariant, PTL

-----------------------------------------------------------------------------
(* The dump of GET /config *)

\* A probe as the operator gets it back.
Rewrite(p) ==
  [name |-> p.name, type |-> p.type, targets |-> p.targets, maxIPs |-> p.maxIPs,
   source |-> p.source, labels |-> p.labels, interval |-> p.time.interval,
   packet |-> p.time.packet, timeout |-> p.time.timeout, count |-> p.time.count,
   block |-> Absent]

\* The source address is completed once.
LEMMA SourceAgain ==
  ASSUME NEW r, NEW w, NEW g, w.source = SourceIP(r, g)
  PROVE  SourceIP(w, g) = SourceIP(r, g)
BY Zenon DEF SourceIP

\* What the dump says of a probe is a probe with the same merged timings.
LEMMA RewriteIs ==
  ASSUME NEW r, IsRaw(r), NEW g \in Global
  PROVE  LET w == Rewrite(mergeProbe(r, g))
         IN  /\ w \in Written
             /\ w.name = r.name /\ w.type = r.type /\ w.targets = r.targets
             /\ w.maxIPs = r.maxIPs /\ w.labels = r.labels /\ w.block = Absent
             /\ w.source = SourceIP(r, g)
             /\ mergeTimings(w, g) = mergeTimings(r, g)
<1>1. PICK p : p = mergeProbe(r, g)
  BY Zenon
<1>2. PICK w : w = Rewrite(p)
  BY Zenon
<1>3. PICK a, b, c, d : /\ a = Or(r.interval, g.interval) /\ b = Or(r.packet, g.packet)
                        /\ c = Or(r.timeout, g.timeout) /\ d = Or(r.count, g.count)
  BY Zenon
<1>4. a \in Int /\ b \in Int /\ c \in Int /\ d \in Int
  <2>1. \A k \in Keys : Or(r[k], g[k]) \in Int
    BY MergedInt, Zenon
  <2> QED BY <1>3, <2>1, Zenon DEF Keys
<1>5. mergeTimings(r, g) = [interval |-> a, packet |-> b, timeout |-> c, count |-> d]
  BY <1>3, Zenon DEF mergeTimings
<1>6. PICK t : t = mergeTimings(r, g)
  BY Zenon
<1>7. t.interval = a /\ t.packet = b /\ t.timeout = c /\ t.count = d
  BY <1>5, <1>6
<1>8. PICK s : s = SourceIP(r, g)
  BY Zenon
<1>9. /\ p.name = r.name /\ p.type = r.type /\ p.targets = r.targets /\ p.maxIPs = r.maxIPs
      /\ p.source = s /\ p.time = t /\ p.labels = r.labels
  BY <1>1, <1>6, <1>8, Zenon DEF mergeProbe
<1>10. w = [name |-> r.name, type |-> r.type, targets |-> r.targets, maxIPs |-> r.maxIPs,
            source |-> s, labels |-> r.labels, interval |-> a, packet |-> b, timeout |-> c,
            count |-> d, block |-> Absent]
  BY <1>2, <1>7, <1>9, Zenon DEF Rewrite
<1>11. /\ r.name \in STRING /\ r.type \in STRING /\ r.targets \in Seq(STRING)
       /\ r.maxIPs \in Int /\ r.labels \in SUBSET STRING /\ s \in STRING
  <2>1. r.source \in STRING /\ g.source \in STRING
    BY Zenon DEF IsRaw, Global
  <2> QED BY <1>8, <2>1, Zenon DEF IsRaw, SourceIP
<1>12. w \in Written
  BY <1>4, <1>10, <1>11, Zenon DEF Written
<1>13. /\ w.name = r.name /\ w.type = r.type /\ w.targets = r.targets
       /\ w.maxIPs = r.maxIPs /\ w.labels = r.labels /\ w.block = Absent /\ w.source = s
       /\ w.interval = a /\ w.packet = b /\ w.timeout = c /\ w.count = d
  BY <1>10, Zenon
<1>14. mergeTimings(w, g) = [interval |-> a, packet |-> b, timeout |-> c, count |-> d]
  <2>1. a # Absent /\ b # Absent /\ c # Absent /\ d # Absent
    BY <1>4, ConfigAssumption, Zenon DEF ConfigAssumption
  <2> QED BY <1>13, <2>1, Zenon DEF mergeTimings, Or
<1> QED BY <1>1, <1>2, <1>5, <1>8, <1>12, <1>13, <1>14, Zenon

\* What becomes of one probe of the dump: an ICMP probe is the same again, any
\* other is refused.
LEMMA ProbeAgain ==
  ASSUME NEW r, IsRaw(r), NEW g \in Global, NEW res \in SUBSET Hostname, validProbe(r, g, res)
  PROVE  LET w == Rewrite(mergeProbe(r, g))
         IN  /\ validProbe(w, g, Hostname) <=> r.type = "icmp"
             /\ r.type = "icmp" => mergeProbe(w, g) = mergeProbe(r, g)
<1>1. PICK w : w = Rewrite(mergeProbe(r, g))
  BY Zenon
<1>2. /\ w.name = r.name /\ w.type = r.type /\ w.targets = r.targets
      /\ w.maxIPs = r.maxIPs /\ w.labels = r.labels /\ w.block = Absent
      /\ w.source = SourceIP(r, g) /\ mergeTimings(w, g) = mergeTimings(r, g)
  BY <1>1, RewriteIs, Zenon
<1>3. SourceIP(w, g) = SourceIP(r, g)
  BY <1>2, SourceAgain, Zenon
<1>4. ASSUME r.type = "icmp" PROVE validProbe(w, g, Hostname)
  <2>1. validateTargets(w, Hostname)
    <3>1. "icmp" # "dns"
      OBVIOUS
    <3>2. r.targets # <<>> /\ \A i \in 1..Len(r.targets) : validateOneTarget(r.targets[i], res)
      BY <1>4, <3>1, Zenon DEF validProbe, validateTargets
    <3>3. \A x : validateOneTarget(x, res) => validateOneTarget(x, Hostname)
      BY Zenon DEF validateOneTarget
    <3> QED BY <1>2, <1>4, <3>1, <3>2, <3>3, Zenon DEF validateTargets
  <2>2. validateProtocolConfig(w)
    BY <1>2, <1>4, Zenon DEF validateProtocolConfig
  <2>3. resolveSourceIP(w, g)
    BY <1>3, Zenon DEF validProbe, resolveSourceIP
  <2>4. /\ w.type \in KnownTypes /\ w.maxIPs >= 0 /\ validateLabels(w.labels)
        /\ w.type # "http" => validateTimings(mergeTimings(w, g))
    BY <1>2, Zenon DEF validProbe
  <2> QED BY <2>1, <2>2, <2>3, <2>4, Zenon DEF validProbe
<1>5. ASSUME r.type # "icmp" PROVE ~validProbe(w, g, Hostname)
  <2>1. PICK type, blk : type = r.type /\ blk = Absent
    BY Zenon
  <2>2. type \in {"http", "tcp", "udp", "dns"}
    BY <1>5, <2>1, Zenon DEF validProbe, KnownTypes
  <2>3. validateProtocolConfig(w) = CASE type = "icmp" -> TRUE
          [] type = "http" -> blk # Absent /\ validateHTTPConfig(blk)
          [] type = "tcp"  -> blk # Absent /\ validateTCPConfig(blk)
          [] type = "udp"  -> blk # Absent /\ validateUDPConfig(blk)
          [] type = "dns"  -> blk # Absent /\ validateDNSConfig(blk)
    BY <1>2, <2>1, Zenon DEF validateProtocolConfig
  <2>4. ~validateProtocolConfig(w)
    <3>1. CASE type = "http"
      BY <2>1, <2>3, <3>1, Zenon
    <3>2. CASE type = "tcp"
      BY <2>1, <2>3, <3>2, Zenon
    <3>3. CASE type = "udp"
      BY <2>1, <2>3, <3>3, Zenon
    <3>4. CASE type = "dns"
      BY <2>1, <2>3, <3>4, Zenon
    <3> QED BY <2>2, <3>1, <3>2, <3>3, <3>4, Zenon
  <2> QED BY <2>4, Zenon DEF validProbe
<1>6. ASSUME r.type = "icmp" PROVE mergeProbe(w, g) = mergeProbe(r, g)
  BY <1>2, <1>3, <1>6, Zenon DEF mergeProbe
<1> QED BY <1>1, <1>4, <1>5, <1>6, Zenon

\* The two files the operator makes of a dump.
Fragment(P) == [name |-> "fragment.yaml", doc |-> [yaml |-> TRUE, global |-> Absent, probes |-> P]]
Defaults(g) == [name |-> GlobalFile, doc |-> [yaml |-> TRUE, global |-> g, probes |-> Absent]]

\* They declare the probes and the defaults of the dump.
LEMMA AgainIs ==
  ASSUME NEW P \in Seq(Written), NEW g \in Global
  PROVE  LET again == <<Fragment(P), Defaults(g)>>
         IN  declared(again) = P /\ globalOf(again) = g
<1>1. PICK a, b : a = Fragment(P) /\ b = Defaults(g)
  BY Zenon
<1>2. PICK again : again = <<a, b>>
  BY Zenon
<1>3. Len(again) = 2 /\ DOMAIN again = 1..2 /\ again[1] = a /\ again[2] = b
  BY <1>2
<1>4. a.name = "fragment.yaml" /\ a.doc.probes = P
  BY <1>1, Zenon DEF Fragment
<1>5. b.name = GlobalFile /\ b.doc.probes = Absent /\ b.doc.global = g
  BY <1>1, Zenon DEF Defaults
<1>6. a.name # GlobalFile
  <2>1. GlobalFile # "fragment.yaml"
    BY LoadAssumption, Zenon DEF LoadAssumption
  <2> QED BY <1>4, <2>1, Zenon
<1>7. P # Absent /\ g # Absent
  BY ConfigAssumption, Zenon DEF ConfigAssumption
<1>8. rawsOf(a) = P /\ rawsOf(b) = <<>>
  BY <1>4, <1>5, <1>6, <1>7, Zenon DEF rawsOf
<1>9. declared(again) = P
  <2>1. PICK ss : ss = [i \in 1..2 |-> rawsOf(again[i])]
    BY Zenon
  <2>2. declared(again) = Concat(ss)
    BY <1>3, <2>1, Zenon DEF declared
  <2>3. ss[1] = P /\ ss[2] = <<>> /\ ss = [i \in 1..2 |-> ss[i]]
    <3>1. 1 \in 1..2 /\ 2 \in 1..2
      OBVIOUS
    <3> QED BY <1>3, <1>8, <2>1, <3>1, Zenon
  <2>4. \A i \in 1..2 : ss[i] \in Seq(Written)
    <3>1. <<>> \in Seq(Written) /\ \A i \in 1..2 : i = 1 \/ i = 2
      OBVIOUS
    <3> QED BY <2>3, <3>1, Zenon
  <2>5. ss \in Seq(Seq(Written)) /\ Len(ss) = 2
    BY <2>3, <2>4
  <2> QED BY <2>2, <2>3, <2>5, ConcatType, Zenon
<1>10. globalOf(again) = g
  <2>1. Range(again) = {a, b}
    <3>1. 1 \in 1..2 /\ 2 \in 1..2 /\ \A i \in 1..2 : i = 1 \/ i = 2
      OBVIOUS
    <3> QED BY <1>3, <3>1, Zenon DEF Range
  <2>2. {s \in Range(again) : s.name = GlobalFile} = {b}
    BY <1>5, <1>6, <2>1, Zenon
  <2>3. (CHOOSE s \in {b} : TRUE) = b /\ {b} # {}
    BY Zenon
  <2>4. globalOf(again) = overlay(b.doc)
    BY <2>2, <2>3, Zenon DEF globalOf
  <2>5. globalOf(again) = [k \in DOMAIN Builtin |-> Or(g[k], Builtin[k])]
    BY <1>5, <1>7, <2>4, Zenon DEF overlay
  <2>6. Builtin \in Global
    BY ConfigAssumption, Zenon DEF ConfigAssumption
  <2>7. DOMAIN Builtin = Keys \cup {"source"} /\ DOMAIN g = Keys \cup {"source"}
    BY <2>6, Zenon DEF Global, Keys
  <2>8. \A k \in Keys \cup {"source"} : g[k] # Absent
    <3>1. \A k \in Keys : g[k] \in Int
      BY Zenon DEF Global, Keys
    <3>2. g["source"] \in STRING
      BY Zenon DEF Global
    <3>3. Absent \notin Int /\ Absent \notin STRING
      BY ConfigAssumption, Zenon DEF ConfigAssumption
    <3> QED BY <3>1, <3>2, <3>3, Zenon
  <2>9. globalOf(again) = [k \in Keys \cup {"source"} |-> g[k]]
    BY <2>5, <2>7, <2>8, Zenon DEF Or
  <2>10. g = [k \in Keys \cup {"source"} |-> g[k]]
    BY <2>7, Zenon DEF Global
  <2> QED BY <2>9, <2>10, Zenon
<1> QED BY <1>1, <1>2, <1>9, <1>10, Zenon

\* For every config in force: its dump, split across _global.yaml and a fragment,
\* gives the same defaults, and when all its probes are ICMP probes it is accepted
\* and gives the same probes (toConfigDump, Load).
THEOREM DumpReturns == Spec => []IcmpDumpFeedsBack
<1>1. ActiveInv => IcmpDumpFeedsBack
  <2> SUFFICES ASSUME ActiveInv, active # NoConfig PROVE IcmpDumpFeedsBack
    BY Zenon DEF IcmpDumpFeedsBack, handleConfig
  <2>0. PICK q : q = active.from
    BY Zenon
  <2>1. PICK res \in SUBSET Hostname : Good(q, res) /\ active = Applied(q)
    BY <2>0, Zenon DEF ActiveInv
  <2>2. PICK rs, g, m : rs = declared(q) /\ g = globalOf(q) /\ m = mergedProbes(q)
    BY Zenon
  <2>3. active.probes = m /\ active.global = g
    BY <2>1, <2>2, AppliedIs, Zenon
  <2>4. g \in Global
    BY <2>1, <2>2, GlobalIs, Zenon DEF Good
  <2>5. PICK n \in Nat : n = Len(rs)
    BY <2>1, <2>2, DeclaredIs, Zenon DEF Good
  <2>6. /\ Len(m) = n /\ m = [i \in 1..n |-> mergeProbe(rs[i], g)]
        /\ \A i \in 1..n : m[i] = mergeProbe(rs[i], g)
    BY <2>1, <2>2, <2>5, MergedIs, Zenon DEF Good
  <2>7. \A i \in 1..n : IsRaw(rs[i])
    BY <2>1, <2>2, <2>5, DeclaredIs, Zenon DEF Good
  <2>8. /\ validateTimings(g)
        /\ \A i \in 1..n : rs[i].name # "" /\ validProbe(rs[i], g, res)
        /\ \A i, j \in 1..n : rs[i].name = rs[j].name => i = j
    BY <2>1, <2>2, <2>5, Zenon DEF Good, validSources, uniqueNames
  <2>9. PICK P : P = [i \in 1..n |-> Rewrite(m[i])]
    BY Zenon
  <2>10. /\ P = [i \in 1..n |-> P[i]]
         /\ \A i \in 1..n : P[i] = Rewrite(mergeProbe(rs[i], g))
    BY <2>6, <2>9, Zenon
  <2>11. \A i \in 1..n : P[i] \in Written /\ P[i].name = rs[i].name
    <3> SUFFICES ASSUME NEW i \in 1..n PROVE P[i] \in Written /\ P[i].name = rs[i].name
      OBVIOUS
    <3>1. PICK r : r = rs[i] /\ IsRaw(r) /\ P[i] = Rewrite(mergeProbe(r, g))
      BY <2>7, <2>10, Zenon
    <3>2. Rewrite(mergeProbe(r, g)) \in Written /\ Rewrite(mergeProbe(r, g)).name = r.name
      BY <2>4, <3>1, RewriteIs, Zenon
    <3> QED BY <3>1, <3>2, Zenon
  <2>12. P \in Seq(Written) /\ Len(P) = n
    BY <2>10, <2>11
  <2>13. PICK again : again = <<Fragment(P), Defaults(g)>>
    BY Zenon
  <2>14. Split(handleConfig) = again
    <3>1. handleConfig = toConfigDump(active)
      BY Zenon DEF handleConfig
    <3>2. PICK D : /\ D = [i \in 1..n |->
                       [name |-> m[i].name, type |-> m[i].type, targets |-> m[i].targets,
                        maxIPs |-> m[i].maxIPs, source |-> m[i].source, labels |-> m[i].labels,
                        interval |-> m[i].time.interval, packet |-> m[i].time.packet,
                        timeout |-> m[i].time.timeout, count |-> m[i].time.count]]
      BY Zenon
    <3>3. toConfigDump(active) = [global |-> g, probes |-> D]
      BY <2>3, <2>6, <3>2, Zenon DEF toConfigDump
    <3>4. PICK dump : dump = [global |-> g, probes |-> D]
      BY Zenon
    <3>5. dump.global = g /\ dump.probes = D
      BY <3>4, Zenon
    <3>6. Len(D) = n
      <4>1. D = [i \in 1..n |-> D[i]]
        BY <3>2, Zenon
      <4> QED BY <4>1, SequenceOf, Zenon
    <3>7. ASSUME NEW i \in 1..n
          PROVE  [name |-> D[i].name, type |-> D[i].type, targets |-> D[i].targets,
                  maxIPs |-> D[i].maxIPs, source |-> D[i].source, labels |-> D[i].labels,
                  interval |-> D[i].interval, packet |-> D[i].packet,
                  timeout |-> D[i].timeout, count |-> D[i].count, block |-> Absent] = P[i]
      <4>1. PICK d : d = D[i]
        BY Zenon
      <4>2. d = [name |-> m[i].name, type |-> m[i].type, targets |-> m[i].targets,
                 maxIPs |-> m[i].maxIPs, source |-> m[i].source, labels |-> m[i].labels,
                 interval |-> m[i].time.interval, packet |-> m[i].time.packet,
                 timeout |-> m[i].time.timeout, count |-> m[i].time.count]
        BY <3>2, <4>1, Zenon
      <4>3. /\ d.name = m[i].name /\ d.type = m[i].type /\ d.targets = m[i].targets
            /\ d.maxIPs = m[i].maxIPs /\ d.source = m[i].source /\ d.labels = m[i].labels
            /\ d.interval = m[i].time.interval /\ d.packet = m[i].time.packet
            /\ d.timeout = m[i].time.timeout /\ d.count = m[i].time.count
        BY <4>2, Zenon
      <4>4. P[i] = Rewrite(m[i])
        BY <2>9, Zenon
      <4> QED BY <4>1, <4>3, <4>4, Zenon DEF Rewrite
    <3>8. [i \in 1..n |-> [name |-> D[i].name, type |-> D[i].type, targets |-> D[i].targets,
                  maxIPs |-> D[i].maxIPs, source |-> D[i].source, labels |-> D[i].labels,
                  interval |-> D[i].interval, packet |-> D[i].packet,
                  timeout |-> D[i].timeout, count |-> D[i].count, block |-> Absent]] = P
      BY <2>10, <3>7, Zenon
    <3>9. Split(dump) = again
      BY <2>13, <3>5, <3>6, <3>8, Zenon DEF Split, Fragment, Defaults
    <3> QED BY <3>1, <3>3, <3>4, <3>9, Zenon
  <2>15. declared(again) = P /\ globalOf(again) = g
    BY <2>4, <2>12, <2>13, AgainIs, Zenon
  <2>16. \A i \in 1..n : /\ validProbe(P[i], g, Hostname) <=> rs[i].type = "icmp"
                         /\ rs[i].type = "icmp" => mergeProbe(P[i], g) = m[i]
    <3> SUFFICES ASSUME NEW i \in 1..n
                 PROVE  /\ validProbe(P[i], g, Hostname) <=> rs[i].type = "icmp"
                        /\ rs[i].type = "icmp" => mergeProbe(P[i], g) = m[i]
      OBVIOUS
    <3>1. PICK r : /\ r = rs[i] /\ IsRaw(r) /\ validProbe(r, g, res) /\ m[i] = mergeProbe(r, g)
                   /\ P[i] = Rewrite(mergeProbe(r, g))
      BY <2>6, <2>7, <2>8, <2>10, Zenon
    <3>2. PICK w : w = Rewrite(mergeProbe(r, g))
      BY Zenon
    <3>3. /\ validProbe(w, g, Hostname) <=> r.type = "icmp"
          /\ r.type = "icmp" => mergeProbe(w, g) = mergeProbe(r, g)
      BY <2>1, <2>4, <3>1, <3>2, ProbeAgain, Zenon
    <3> QED BY <3>1, <3>2, <3>3, Zenon
  <2>17. \A i \in 1..n : m[i].type = rs[i].type
    <3> SUFFICES ASSUME NEW i \in 1..n PROVE m[i].type = rs[i].type
      OBVIOUS
    <3>1. m[i] = mergeProbe(rs[i], g)
      BY <2>6, Zenon
    <3> QED BY <3>1 DEF mergeProbe
  <2> DEFINE icmp == \A i \in 1..n : rs[i].type = "icmp"
  <2>18. validSources(again, Hostname) <=> icmp
    <3>1. validSources(again, Hostname)
            <=> /\ validateTimings(g)
                /\ \A i \in 1..n : P[i].name # "" /\ validProbe(P[i], g, Hostname)
                /\ \A i, j \in 1..n : P[i].name = P[j].name => i = j
      BY <2>12, <2>15, Zenon DEF validSources, uniqueNames
    <3>2. \A i \in 1..n : P[i].name # ""
      BY <2>8, <2>11, Zenon
    <3>3. \A i, j \in 1..n : P[i].name = P[j].name => i = j
      BY <2>8, <2>11, Zenon
    <3> QED BY <2>8, <2>16, <3>1, <3>2, <3>3, Zenon
  <2>19. ASSUME icmp PROVE mergedProbes(again) = m
    <3>1. mergedProbes(again) = [i \in 1..n |-> mergeProbe(P[i], g)]
      BY <2>12, <2>15, Zenon DEF mergedProbes
    <3>2. \A i \in 1..n : mergeProbe(P[i], g) = mergeProbe(rs[i], g)
      BY <2>6, <2>16, <2>19, Zenon
    <3> QED BY <2>6, <3>1, <3>2, Zenon
  <2>20. icmp <=> \A i \in 1..Len(active.probes) : active.probes[i].type = "icmp"
    BY <2>3, <2>6, <2>17, Zenon
  <2> HIDE DEF icmp
  <2> QED BY <2>3, <2>14, <2>15, <2>18, <2>19, <2>20, Zenon DEF IcmpDumpFeedsBack
<1> QED BY <1>1, ActiveInvariant, PTL
=============================================================================
