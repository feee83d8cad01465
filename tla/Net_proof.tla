----------------------------- MODULE Net_proof -----------------------------
(***************************************************************************)
(* Theorems about Net, for any entries, lists of any length, any           *)
(* configuration, any names and any array of the caller.                   *)
(***************************************************************************)
EXTENDS Net, FiniteSetTheorems, SequenceTheorems, TLAPS

USE NetAssumption

(* No entry is twice in a list.                                              *)
Distinct(l) == \A i, j \in 1..Len(l) : l[i] = l[j] => i = j

(* A caller that does not enumerate has nothing of an enumeration.           *)
IdleInv == pc # "enum" => count = 0 /\ answers = <<>> /\ failed = {} /\ steady = {}

NetInv == TypeOK /\ IdleInv /\ SteadyReported
-----------------------------------------------------------------------------
(***************************************************************************)
(* What the two loops count.                                               *)
(***************************************************************************)
LEMMA CountType ==
  ASSUME NEW n \in Int, NEW l, NEW u
  PROVE  /\ IsFiniteSet({i \in 1..n : Usable(l[i], u)})
         /\ max_count(n, l, u) \in Nat
<1>1. IsFiniteSet(1..n)
  BY FS_Interval
<1>2. {i \in 1..n : Usable(l[i], u)} \in SUBSET (1..n)
  OBVIOUS
<1>3. IsFiniteSet({i \in 1..n : Usable(l[i], u)})
  BY <1>1, <1>2, FS_Subset
<1> QED
  BY <1>3, FS_CardinalityType DEF max_count

(* The count never falls on the way through the list.                        *)
LEMMA CountMonotone ==
  ASSUME NEW m \in Int, NEW n \in Int, m <= n, NEW l, NEW u
  PROVE  max_count(m, l, u) <= max_count(n, l, u)
<1>1. IsFiniteSet({i \in 1..n : Usable(l[i], u)})
  BY CountType
<1>2. {i \in 1..m : Usable(l[i], u)} \in SUBSET {i \in 1..n : Usable(l[i], u)}
  OBVIOUS
<1> QED
  BY <1>1, <1>2, FS_Subset DEF max_count

(* A usable entry adds one to it.                                            *)
LEMMA CountStep ==
  ASSUME NEW n \in Nat \ {0}, NEW l, NEW u, Usable(l[n], u)
  PROVE  max_count(n, l, u) = max_count(n - 1, l, u) + 1
<1> DEFINE S == {i \in 1..(n - 1) : Usable(l[i], u)}
<1>1. IsFiniteSet(S)
  <2>1. n - 1 \in Int
    OBVIOUS
  <2> QED
    BY <2>1, CountType
<1>2. {i \in 1..n : Usable(l[i], u)} = S \cup {n}
  OBVIOUS
<1>3. n \notin S
  OBVIOUS
<1> QED
  BY <1>1, <1>2, <1>3, FS_AddElement DEF max_count

(* So the loop of ofc_net_interface_addr_impl ends at one entry at most.     *)
LEMMA FindsOne ==
  ASSUME NEW index, NEW i \in Nat \ {0}, NEW j \in Nat \ {0}, Finds(index, i), Finds(index, j)
  PROVE  i = j
<1>1. ASSUME NEW m \in Nat \ {0}, NEW n \in Nat \ {0}, m < n, Finds(index, m), Finds(index, n)
      PROVE  FALSE
  <2>1. max_count(m, list, up) = max_count(m - 1, list, up) + 1
    BY <1>1, CountStep DEF Finds
  <2>2. m \in Int /\ n - 1 \in Int /\ m - 1 \in Int /\ m <= n - 1
    BY <1>1
  <2>3. max_count(m, list, up) <= max_count(n - 1, list, up)
    BY <2>2, CountMonotone
  <2>4. max_count(m - 1, list, up) \in Nat
    BY <2>2, CountType
  <2> QED
    BY <1>1, <2>1, <2>3, <2>4 DEF Finds
<1> QED
  BY <1>1

(* The place of an entry of a list is the count at its position.             *)
LEMMA PlaceOf ==
  ASSUME NEW l \in Seq(Entry), Distinct(l), NEW u, NEW p \in 1..Len(l)
  PROVE  Place(l[p], l, u) = max_count(p, l, u)
<1>1. (CHOOSE i \in 1..Len(l) : l[i] = l[p]) = p
  BY DEF Distinct
<1> QED
  BY <1>1 DEF Place
-----------------------------------------------------------------------------
(***************************************************************************)
(* The lists of the kernel stay lists of distinct entries.                 *)
(***************************************************************************)
LEMMA InsertEntry ==
  ASSUME NEW l \in Seq(Entry), Distinct(l), NEW e \in Entry, ~InList(e, l),
         NEW i \in 0..Len(l)
  PROVE  LET m == SubSeq(l, 1, i) \o <<e>> \o SubSeq(l, i + 1, Len(l))
         IN  m \in Seq(Entry) /\ Distinct(m)
<1> DEFINE f == SubSeq(l, 1, i)
           g == SubSeq(l, i + 1, Len(l))
           m == f \o <<e>> \o g
<1>1. /\ f \in Seq(Entry) /\ Len(f) = i
      /\ \A j \in 1..i : f[j] = l[j]
  OBVIOUS
<1>2. /\ g \in Seq(Entry) /\ Len(g) = Len(l) - i
      /\ \A j \in 1..(Len(l) - i) : g[j] = l[i + j]
  OBVIOUS
<1> HIDE DEF f, g
<1>3. /\ m \in Seq(Entry) /\ Len(m) = Len(l) + 1
      /\ \A j \in 1..(Len(l) + 1) : m[j] = IF j <= i THEN l[j] ELSE IF j = i + 1 THEN e ELSE l[j - 1]
  <2> DEFINE h == f \o <<e>>
  <2>1. <<e>> \in Seq(Entry) /\ Len(<<e>>) = 1 /\ <<e>>[1] = e
    OBVIOUS
  <2>2. /\ h \in Seq(Entry) /\ Len(h) = i + 1
        /\ \A j \in 1..(i + 1) : h[j] = IF j <= i THEN f[j] ELSE <<e>>[j - i]
    BY <1>1, <2>1, ConcatProperties
  <2> HIDE DEF h
  <2>3. \A j \in 1..(i + 1) : h[j] = IF j <= i THEN l[j] ELSE e
    BY <1>1, <2>1, <2>2
  <2>4. /\ h \o g \in Seq(Entry) /\ Len(h \o g) = Len(l) + 1
        /\ \A j \in 1..(Len(l) + 1) : (h \o g)[j] = IF j <= i + 1 THEN h[j] ELSE g[j - (i + 1)]
    <3> DEFINE q == h \o g
    <3>1. /\ q \in Seq(Entry) /\ Len(q) = Len(h) + Len(g)
          /\ \A j \in 1..(Len(h) + Len(g)) : q[j] = IF j <= Len(h) THEN h[j] ELSE g[j - Len(h)]
      BY <1>2, <2>2, ConcatProperties
    <3>2. Len(h) + Len(g) = Len(l) + 1
      BY <1>2, <2>2
    <3> QED
      BY <2>2, <3>1, <3>2
  <2>5. \A j \in (i + 2)..(Len(l) + 1) : g[j - (i + 1)] = l[j - 1]
    BY <1>2
  <2>6. m = h \o g
    BY DEF h
  <2> HIDE DEF m
  <2> QED
    BY <2>3, <2>4, <2>5, <2>6
<1> HIDE DEF m
<1>4. \A j \in 1..Len(l) : l[j] # e
  BY DEF InList
<1>5. Distinct(m)
  <2> DEFINE at(j) == IF j <= i THEN j ELSE j - 1
  <2>1. \A j \in 1..Len(m) : j # i + 1 => at(j) \in 1..Len(l) /\ m[j] = l[at(j)]
    BY <1>3
  <2>2. m[i + 1] = e
    BY <1>3
  <2>3. ASSUME NEW j \in 1..Len(m), NEW k \in 1..Len(m), m[j] = m[k], j # i + 1, k # i + 1
        PROVE  j = k
    <3>1. at(j) = at(k)
      BY <2>1, <2>3 DEF Distinct
    <3> QED
      BY <2>3, <3>1
  <2>4. \A j \in 1..Len(m) : m[j] = e => j = i + 1
    BY <1>4, <2>1
  <2> QED
    BY <2>2, <2>3, <2>4 DEF Distinct
<1> QED
  BY <1>3, <1>5 DEF m, f, g

LEMMA RemoveEntry ==
  ASSUME NEW l \in Seq(Entry), Distinct(l), NEW i \in 1..Len(l)
  PROVE  LET m == SubSeq(l, 1, i - 1) \o SubSeq(l, i + 1, Len(l))
         IN  m \in Seq(Entry) /\ Distinct(m)
<1> DEFINE f == SubSeq(l, 1, i - 1)
           g == SubSeq(l, i + 1, Len(l))
           m == f \o g
<1>1. /\ f \in Seq(Entry) /\ Len(f) = i - 1
      /\ \A j \in 1..(i - 1) : f[j] = l[j]
  OBVIOUS
<1>2. /\ g \in Seq(Entry) /\ Len(g) = Len(l) - i
      /\ \A j \in 1..(Len(l) - i) : g[j] = l[i + j]
  OBVIOUS
<1> HIDE DEF f, g
<1>3. /\ m \in Seq(Entry) /\ Len(m) = Len(l) - 1
      /\ \A j \in 1..(Len(l) - 1) : m[j] = IF j < i THEN l[j] ELSE l[j + 1]
  <2>1. /\ m \in Seq(Entry) /\ Len(m) = Len(l) - 1
        /\ \A j \in 1..(Len(l) - 1) : m[j] = IF j <= i - 1 THEN f[j] ELSE g[j - (i - 1)]
    <3>1. /\ m \in Seq(Entry) /\ Len(m) = Len(f) + Len(g)
          /\ \A j \in 1..(Len(f) + Len(g)) : m[j] = IF j <= Len(f) THEN f[j] ELSE g[j - Len(f)]
      BY <1>1, <1>2, ConcatProperties
    <3>2. Len(f) + Len(g) = Len(l) - 1
      BY <1>1, <1>2
    <3> HIDE DEF m
    <3> QED
      BY <1>1, <3>1, <3>2
  <2>2. \A j \in i..(Len(l) - 1) : g[j - (i - 1)] = l[j + 1]
    BY <1>2
  <2> QED
    BY <1>1, <2>1, <2>2
<1> HIDE DEF m
<1>4. Distinct(m)
  BY <1>3 DEF Distinct
<1> QED
  BY <1>3, <1>4 DEF m, f, g
-----------------------------------------------------------------------------
(***************************************************************************)
(* The steps.                                                              *)
(***************************************************************************)
(* What the kernel does between two calls.                                   *)
LEMMA KernelStep ==
  ASSUME NetInv, NEW l \in Seq(Entry), Distinct(l), NEW u \in SUBSET Entry, KernelChanges(l, u)
  PROVE  NetInv'
<1> USE DEF KernelChanges, nameVars
<1>1. /\ list' = l /\ up' = u /\ steady' \subseteq steady
      /\ \A e \in steady' : /\ InList(e, l) /\ Usable(e, u)
                            /\ Place(e, l, u) = Place(e, list, up)
      /\ UNCHANGED <<build, pc, count, answers, failed, size, num, cells, found>>
  OBVIOUS
<1>2. \A e : Usable(e, u)' <=> Usable(e, u)
  BY <1>1 DEF Usable, match_families
<1>3. \A e \in steady' : Place(e, list, up)' = Place(e, list, up)
  <2>1. \A e : Place(e, list, up)' = Place(e, l, u)
    BY <1>1 DEF Place, max_count, Usable, match_families
  <2> QED
    BY <1>1, <2>1
<1>4. steady' \in SUBSET {e \in Entry : Usable(e, up)' /\ InList(e, list')}
  BY <1>1, <1>2 DEF NetInv, TypeOK
<1>5. TypeOK'
  BY <1>1, <1>4 DEF NetInv, TypeOK, Distinct
<1>6. IdleInv'
  BY <1>1 DEF NetInv, IdleInv
<1>7. SteadyReported'
  BY <1>1, <1>3 DEF NetInv, SteadyReported
<1> QED
  BY <1>5, <1>6, <1>7 DEF NetInv

LEMMA EntryStep ==
  ASSUME NetInv, NEW e \in Entry, Appear(e) \/ Vanish(e) \/ Flip(e)
  PROVE  NetInv'
<1>1. list \in Seq(Entry) /\ Distinct(list) /\ up \in SUBSET Entry
  BY DEF NetInv, TypeOK, Distinct
<1>2. CASE Appear(e)
  <2>1. PICK i \in 0..Len(list), u \in {up, up \cup {e}} :
          KernelChanges(SubSeq(list, 1, i) \o <<e>> \o SubSeq(list, i + 1, Len(list)), u)
    BY <1>2 DEF Appear
  <2>2. ~InList(e, list) /\ u \in SUBSET Entry
    BY <1>1, <1>2 DEF Appear
  <2> DEFINE m == SubSeq(list, 1, i) \o <<e>> \o SubSeq(list, i + 1, Len(list))
  <2>3. m \in Seq(Entry) /\ Distinct(m)
    BY <1>1, <2>2, InsertEntry
  <2> QED
    BY <2>1, <2>2, <2>3, KernelStep
<1>3. CASE Vanish(e)
  <2>1. PICK i \in 1..Len(list) :
          KernelChanges(SubSeq(list, 1, i - 1) \o SubSeq(list, i + 1, Len(list)), up \ {e})
    BY <1>3 DEF Vanish
  <2> DEFINE m == SubSeq(list, 1, i - 1) \o SubSeq(list, i + 1, Len(list))
  <2>2. m \in Seq(Entry) /\ Distinct(m)
    BY <1>1, RemoveEntry
  <2>3. up \ {e} \in SUBSET Entry
    BY <1>1
  <2> QED
    BY <2>1, <2>2, <2>3, KernelStep
<1>4. CASE Flip(e)
  BY <1>1, <1>4, KernelStep DEF Flip
<1> QED
  BY <1>2, <1>3, <1>4

(* ofc_net_interface_count_impl: every usable entry is within the count.     *)
LEMMA CountCallStep ==
  ASSUME NetInv, interface_count
  PROVE  NetInv'
<1> USE DEF interface_count, nameVars
<1>1. list \in Seq(Entry) /\ Distinct(list) /\ Len(list) \in Nat
  BY DEF NetInv, TypeOK, Distinct
<1>2. /\ answers = <<>> /\ failed = {} /\ pc' = "enum"
      /\ UNCHANGED <<build, list, up, answers, failed, size, num, cells, found>>
  BY DEF NetInv, IdleInv
<1>3. \A e : (Usable(e, up)' <=> Usable(e, up)) /\ Place(e, list, up)' = Place(e, list, up)
  BY <1>2 DEF Usable, match_families, Place, max_count
<1>4. count' \in Nat /\ steady' \in SUBSET {e \in Entry : Usable(e, up)' /\ InList(e, list')}
  <2>1. max_count(Len(list), list, up) \in Nat
    <3>1. Len(list) \in Int
      BY <1>1
    <3> QED
      BY <3>1, CountType
  <2>2. steady' = {} \/ steady' = {e \in Entry : InList(e, list) /\ Usable(e, up)}
    OBVIOUS
  <2> QED
    BY <1>2, <1>3, <2>1, <2>2
<1>5. TypeOK'
  BY <1>2, <1>4 DEF NetInv, TypeOK
<1>6. IdleInv'
  BY <1>2 DEF IdleInv
<1>7. ASSUME NEW e \in steady' PROVE Place(e, list, up) <= count'
  <2>1. /\ count' = max_count(Len(list), list, up)
        /\ InList(e, list)
    BY <1>7
  <2>2. PICK p \in 1..Len(list) : list[p] = e
    BY <2>1 DEF InList
  <2>3. Place(e, list, up) = max_count(p, list, up)
    BY <1>1, <2>2, PlaceOf
  <2>4. p \in Int /\ Len(list) \in Int /\ p <= Len(list)
    BY <1>1
  <2> QED
    BY <2>1, <2>3, <2>4, CountMonotone
<1>8. ASSUME NEW e \in steady' PROVE ~(Place(e, list, up) <= Len(answers'))
  <2>1. PICK p \in 1..Len(list) : list[p] = e /\ Usable(list[p], up)
    BY <1>2, <1>3, <1>4, <1>8 DEF InList
  <2>2. Place(e, list, up) = max_count(p, list, up)
    BY <1>1, <2>1, PlaceOf
  <2>3. p \in Nat \ {0} /\ p - 1 \in Int
    BY <1>1
  <2>4. max_count(p, list, up) = max_count(p - 1, list, up) + 1
    BY <2>1, <2>3, CountStep
  <2>5. max_count(p - 1, list, up) \in Nat
    BY <2>3, CountType
  <2>6. Len(answers') = 0
    BY <1>2
  <2> QED
    BY <2>2, <2>4, <2>5, <2>6
<1>9. SteadyReported'
  BY <1>3, <1>7, <1>8 DEF SteadyReported
<1> QED
  BY <1>5, <1>6, <1>9 DEF NetInv

(* ofc_net_interface_addr_impl: the entry it finds is the steady one at that *)
(* place, if there is one.                                                   *)
LEMMA AddrCallStep ==
  ASSUME NetInv, interface_addr
  PROVE  NetInv'
<1> DEFINE n == Len(answers) + 1
<1>1. /\ list \in Seq(Entry) /\ Distinct(list) /\ Len(list) \in Nat
      /\ answers \in Seq(Answers) /\ Len(answers) \in Nat
  BY DEF NetInv, TypeOK, Distinct
<1>2. /\ pc = "enum" /\ Len(answers) < count
      /\ UNCHANGED <<build, list, up, pc, count, steady, size, num, cells, found>>
  BY DEF interface_addr, nameVars
<1>3. \/ /\ \E i \in 1..Len(list) : Finds(n - 1, i) /\ answers' = Append(answers, Answer(list[i]))
         /\ UNCHANGED failed
      \/ /\ \A i \in 1..Len(list) : ~Finds(n - 1, i)
         /\ answers' = Append(answers, NoAnswer) /\ UNCHANGED failed
      \/ answers' = Append(answers, NoAnswer) /\ failed' = failed \cup {n}
  BY <1>1 DEF interface_addr
<1>4. PICK x \in Answers : answers' = Append(answers, x)
  BY <1>1, <1>3 DEF Answers
<1>5. /\ answers' \in Seq(Answers) /\ Len(answers') = n /\ answers'[n] = x
      /\ \A i \in 1..Len(answers) : answers'[i] = answers[i]
  BY <1>1, <1>4
<1>6. failed \subseteq failed' /\ failed' \subseteq 1..count
  <2>1. failed' = failed \/ failed' = failed \cup {n}
    BY <1>3
  <2>2. failed \subseteq 1..count /\ count \in Nat
    BY DEF NetInv, TypeOK
  <2>3. n \in 1..count
    BY <1>1, <1>2, <2>2
  <2> QED
    BY <2>1, <2>2, <2>3
<1>7. \A e : (Usable(e, up)' <=> Usable(e, up)) /\ Place(e, list, up)' = Place(e, list, up)
  BY <1>2 DEF Usable, match_families, Place, max_count
<1>8. TypeOK'
  BY <1>1, <1>2, <1>5, <1>6, <1>7 DEF NetInv, TypeOK
<1>9. IdleInv'
  BY <1>2 DEF IdleInv
<1>10. ASSUME NEW e \in steady, Place(e, list, up) = n, n \notin failed' PROVE x = Answer(e)
  <2>1. PICK p \in 1..Len(list) : list[p] = e /\ Usable(list[p], up)
    BY <1>10 DEF NetInv, TypeOK, InList
  <2>2. p \in Nat \ {0} /\ p - 1 \in Int
    BY <1>1
  <2>3. max_count(p, list, up) = n
    BY <1>1, <1>10, <2>1, PlaceOf
  <2>4. max_count(p, list, up) = max_count(p - 1, list, up) + 1 /\ max_count(p - 1, list, up) \in Nat
    BY <2>1, <2>2, CountStep, CountType
  <2>5. Finds(n - 1, p)
    BY <2>1, <2>3, <2>4 DEF Finds
  <2>6. PICK i \in 1..Len(list) : Finds(n - 1, i) /\ answers' = Append(answers, Answer(list[i]))
    BY <1>3, <1>10, <2>5
  <2>7. i \in Nat \ {0}
    BY <1>1
  <2>8. i = p
    BY <2>2, <2>5, <2>6, <2>7, FindsOne
  <2>9. answers'[n] = Answer(list[i])
    BY <1>1, <2>6
  <2> QED
    BY <1>5, <2>1, <2>8, <2>9
<1>11. ASSUME NEW e \in steady PROVE Place(e, list, up) \in Nat \ {0}
  <2>1. PICK p \in 1..Len(list) : list[p] = e /\ Usable(list[p], up)
    BY <1>11 DEF NetInv, TypeOK, InList
  <2>2. p \in Nat \ {0} /\ p - 1 \in Int
    BY <1>1
  <2>3. max_count(p, list, up) = max_count(p - 1, list, up) + 1 /\ max_count(p - 1, list, up) \in Nat
    BY <2>1, <2>2, CountStep, CountType
  <2>4. Place(e, list, up) = max_count(p, list, up)
    BY <1>1, <2>1, PlaceOf
  <2> QED
    BY <2>3, <2>4
<1>12. SteadyReported'
  <2> SUFFICES ASSUME NEW e \in steady
               PROVE  LET i == Place(e, list, up)
                      IN  /\ i <= count
                          /\ i <= Len(answers') /\ i \notin failed' => answers'[i] = Answer(e)
    BY <1>2, <1>7 DEF SteadyReported
  <2> DEFINE i == Place(e, list, up)
  <2>1. /\ i <= count /\ i \in Nat \ {0}
        /\ i <= Len(answers) /\ i \notin failed => answers[i] = Answer(e)
    BY <1>11 DEF NetInv, SteadyReported
  <2>2. i = n /\ n \notin failed' => x = Answer(e)
    BY <1>10
  <2> HIDE DEF i
  <2>3. i <= n => i = n \/ i \in 1..Len(answers)
    BY <1>1, <2>1
  <2>4. i <= Len(answers') /\ i \notin failed' => answers'[i] = Answer(e)
    BY <1>5, <1>6, <2>1, <2>2, <2>3
  <2> QED
    BY <2>1, <2>4 DEF i
<1> QED
  BY <1>8, <1>9, <1>12 DEF NetInv

(* ofc_net_resolve_dns_name_impl and the end of an enumeration.              *)
LEMMA NameStep ==
  ASSUME NetInv, Release \/ \E r \in getaddrinfo, n \in Capacity : resolve_dns_name(r, n)
  PROVE  NetInv'
<1>1. CASE Release
  <2>1. steady' = {} /\ pc' = "idle" /\ UNCHANGED <<build, list, up>>
    BY <1>1 DEF Release
  <2>2. TypeOK'
    BY <1>1, <2>1 DEF Release, Unused, NetInv, TypeOK
  <2> QED
    BY <1>1, <2>1, <2>2 DEF Release, NetInv, IdleInv, SteadyReported
<1>2. ASSUME NEW r \in getaddrinfo, NEW n \in Capacity, resolve_dns_name(r, n) PROVE NetInv'
  <2> DEFINE m == IF Len(r) <= n THEN Len(r) ELSE n
  <2>1. /\ pc' = "resolved" /\ pc \in {"idle", "resolved"} /\ size' = n /\ found' = r /\ num' = m
        /\ cells' = [i \in 1..Cells |-> IF i <= m THEN CellOf(r[i]) ELSE cells[i]]
        /\ UNCHANGED <<build, list, up, count, answers, failed, steady>>
    BY <1>2 DEF resolve_dns_name, enumVars
  <2>2. r \in Seq(Entry) /\ n \in Nat /\ Len(r) \in Nat
    <3>1. r = <<>> \/ r \in Seq({e \in Entry : Family[e] \in Inet})
      BY DEF getaddrinfo
    <3>2. \A s \in Seq({e \in Entry : Family[e] \in Inet}) : s \in Seq(Entry)
      OBVIOUS
    <3>3. n \in Nat
      OBVIOUS
    <3>4. <<>> \in Seq(Entry)
      OBVIOUS
    <3>5. r \in Seq(Entry)
      BY <3>1, <3>2, <3>4
    <3> QED
      BY <3>3, <3>5
  <2>3. m \in Nat /\ \A i \in 1..Cells : i <= m => r[i] \in Entry
    BY <2>2
  <2> HIDE DEF m
  <2>4. cells' \in [1..Cells -> {None} \cup {CellOf(e) : e \in Entry}]
    BY <2>1, <2>3 DEF NetInv, TypeOK
  <2>5. steady = {} /\ count = 0 /\ answers = <<>> /\ failed = {}
    BY <2>1 DEF NetInv, IdleInv
  <2>6. TypeOK'
    BY <2>1, <2>2, <2>3, <2>4, <2>5 DEF NetInv, TypeOK
  <2> QED
    BY <2>1, <2>5, <2>6 DEF NetInv, IdleInv, SteadyReported
<1> QED
  BY <1>1, <1>2

(* The inductive invariant of the enumeration.                               *)
THEOREM NetInvariant == Spec => []NetInv
<1>1. Init => NetInv
  BY DEF Init, Unused, NetInv, TypeOK, IdleInv, SteadyReported
<1>2. NetInv /\ [Next]_vars => NetInv'
  <2> SUFFICES ASSUME NetInv, [Next]_vars PROVE NetInv'
    OBVIOUS
  <2>1. CASE UNCHANGED vars
    <3>1. \A e : (Usable(e, up)' <=> Usable(e, up)) /\ Place(e, list, up)' = Place(e, list, up)
      BY <2>1 DEF vars, Usable, match_families, Place, max_count
    <3> QED
      BY <2>1, <3>1 DEF vars, enumVars, nameVars, NetInv, TypeOK, IdleInv, SteadyReported
  <2> QED
    BY <2>1, EntryStep, CountCallStep, AddrCallStep, NameStep DEF Next
<1> QED
  BY <1>1, <1>2, PTL DEF Spec

(* The arrays of callers are used within their bounds, the lists of the      *)
(* kernel have no entry twice, and there are never more answers than were    *)
(* counted.                                                                  *)
THEOREM TypeCorrect == Spec => []TypeOK
<1>1. NetInv => TypeOK
  BY DEF NetInv
<1> QED
  BY <1>1, NetInvariant, PTL

(* However interfaces come, go, rise and fall between the calls of           *)
(* ofc_net_interface_count_impl and ofc_net_interface_addr_impl, one that    *)
(* keeps its place is counted and reported at its own index.                 *)
THEOREM SteadyInterfacesReported == Spec => []SteadyReported
<1>1. NetInv => SteadyReported
  BY DEF NetInv
<1> QED
  BY <1>1, NetInvariant, PTL

(* The broadcast address that is computed from address and mask is the same  *)
(* for two addresses under one mask exactly if they are of one subnet.       *)
LEMMA BroadcastSets ==
  ASSUME NEW A \in SUBSET Bit, NEW B \in SUBSET Bit, NEW M \in SUBSET Bit
  PROVE  (Bit \ M) \cup A = (Bit \ M) \cup B <=> A \cap M = B \cap M
OBVIOUS

(* So it is for what callers get from ofc_net_interface_addr_impl.           *)
THEOREM BroadcastTellsSubnets == Spec => []BroadcastOfSubnet
<1>1. TypeOK => BroadcastOfSubnet
  <2> SUFFICES ASSUME TypeOK, NEW i \in 1..Len(answers), NEW j \in 1..Len(answers),
                      {answers[i].version, answers[j].version} = {"IP"},
                      {None, Loopback4} \cap {answers[i].bcast, answers[j].bcast} = {},
                      answers[i].mask = answers[j].mask
               PROVE  answers[i].bcast = answers[j].bcast
                        <=> answers[i].addr \cap answers[i].mask = answers[j].addr \cap answers[j].mask
    BY Zenon DEF BroadcastOfSubnet
  <2>0. /\ answers[i].version = "IP" /\ answers[i].bcast \notin {None, Loopback4}
        /\ answers[j].version = "IP" /\ answers[j].bcast \notin {None, Loopback4}
    OBVIOUS
  <2>1. ASSUME NEW x \in Answers, x.version = "IP", x.bcast \notin {None, Loopback4}
        PROVE  /\ x.addr \in SUBSET Bit /\ x.mask \in SUBSET Bit
               /\ x.bcast = (Bit \ x.mask) \cup x.addr
    <3>1. x # NoAnswer
      BY <2>1 DEF NoAnswer
    <3>2. PICK e \in Entry : x = Answer(e)
      BY <2>1, <3>1 DEF Answers
    <3>3. Family[e] = "AF_INET"
      BY <2>1, <3>1, <3>2 DEF Answer
    <3>4. /\ x.addr = Addr[e] /\ x.mask = Mask[e] /\ x.bcast = Broadcast(e)
      BY <3>2, <3>3 DEF Answer
    <3>5. e \notin Lo
      BY <2>1, <3>4 DEF Broadcast
    <3> QED
      BY <3>3, <3>4, <3>5 DEF Broadcast
  <2>2. answers[i] \in Answers /\ answers[j] \in Answers
    BY DEF TypeOK
  <2> DEFINE A == answers[i].addr
             B == answers[j].addr
             M == answers[i].mask
  <2>3. A \in SUBSET Bit /\ M \in SUBSET Bit /\ answers[i].bcast = (Bit \ M) \cup A
    BY <2>0, <2>1, <2>2
  <2>4. B \in SUBSET Bit /\ answers[j].bcast = (Bit \ M) \cup B
    BY <2>0, <2>1, <2>2
  <2>5. (Bit \ M) \cup A = (Bit \ M) \cup B <=> A \cap M = B \cap M
    BY <2>3, <2>4, BroadcastSets
  <2> QED
    BY <2>3, <2>4, <2>5
<1> QED
  BY <1>1, TypeCorrect, PTL

(* ofc_net_resolve_dns_name_impl: what *num_addrs says was written, by this  *)
(* call, and is no more than the caller has room for.                        *)
THEOREM ResolvedNamesFit == Spec => []ResolveFits
<1>1. Init => ResolveFits
  BY DEF Init, ResolveFits
<1>2. TypeOK /\ ResolveFits /\ [Next]_vars => ResolveFits'
  <2> SUFFICES ASSUME TypeOK, ResolveFits, [Next]_vars PROVE ResolveFits'
    OBVIOUS
  <2>1. ASSUME NEW r \in getaddrinfo, NEW n \in Capacity, resolve_dns_name(r, n)
        PROVE  ResolveFits'
    <3> DEFINE m == IF Len(r) <= n THEN Len(r) ELSE n
    <3>1. /\ size' = n /\ found' = r /\ num' = m
          /\ cells' = [i \in 1..Cells |-> IF i <= m THEN CellOf(r[i]) ELSE cells[i]]
      BY <2>1 DEF resolve_dns_name
    <3>2. Len(r) \in Nat /\ n \in 0..Cells
      <4>1. r = <<>> \/ r \in Seq({e \in Entry : Family[e] \in Inet})
        BY DEF getaddrinfo
      <4> QED
        BY <4>1
    <3>3. m \in 0..Cells /\ m <= n /\ (m < n => m = Len(r))
      BY <3>2
    <3> HIDE DEF m
    <3>4. \A i \in 1..m : cells'[i] = CellOf(r[i])
      BY <3>1, <3>3
    <3> QED
      BY <3>1, <3>3, <3>4 DEF ResolveFits
  <2>2. CASE Release \/ interface_count
    BY <2>2 DEF Release, interface_count, ResolveFits
  <2>3. CASE UNCHANGED <<pc, size, num, cells, found>>
    BY <2>3 DEF ResolveFits
  <2>4. CASE interface_addr \/ UNCHANGED vars
    BY <2>3, <2>4 DEF interface_addr, vars, nameVars
  <2>5. CASE \E e \in Entry : Appear(e) \/ Vanish(e) \/ Flip(e)
    BY <2>3, <2>5 DEF Appear, Vanish, Flip, KernelChanges, nameVars
  <2> QED
    BY <2>1, <2>2, <2>4, <2>5 DEF Next
<1> QED
  BY <1>1, <1>2, TypeCorrect, PTL DEF Spec
=============================================================================
