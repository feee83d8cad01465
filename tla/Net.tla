-------------------------------- MODULE Net --------------------------------
(***************************************************************************)
(* The network interfaces of src/src/net_darwin.c.  A caller asks for the  *)
(* number of interfaces and then for the address of each index; every one  *)
(* of these calls takes a new list from the kernel (getifaddrs), and       *)
(* interfaces come, go, rise and fall in between.  A caller may also       *)
(* resolve a name into an array of its own.                                *)
(*                                                                         *)
(* An IPv4 address is the set of its bits that are one.  An IPv6 address   *)
(* is only copied, and is any value.                                       *)
(***************************************************************************)
EXTENDS Sequences, FiniteSets, Naturals

CONSTANTS
  Entry,     \* the entries a list of the kernel may have
  Family,    \* ifa_addr->sa_family of each
  Addr,      \* ifa_addr of each
  Mask,      \* ifa_netmask of each
  Scope,     \* sin6_scope_id of each
  Lo,        \* the entries with IFF_LOOPBACK
  En5,       \* the entries that are named "en5"
  MaxList,   \* a bound on the length of the list
  Bit,       \* the bits of an IPv4 address
  Build,     \* the configurations: OFC_LOOPBACK and the OFC_DISCOVER_ families
  Result,    \* what names may resolve to: sequences of entries
  Capacity,  \* the capacities callers give for the addresses of a name
  Cells,     \* how many cells the array of a caller has
  Loopback4, Loopback6, Bcast6, \* OFC_INADDR_LOOPBACK, ofc_in6addr_loopback and _bcast
  None       \* OFC_INADDR_NONE, and a cell that was never written

Inet == {"AF_INET", "AF_INET6"}

ASSUME NetAssumption ==
  /\ Family \in [Entry -> Inet \cup {"AF_LINK"}]
  /\ \A e \in Entry : Family[e] = "AF_INET" => Addr[e] \in SUBSET Bit /\ Mask[e] \in SUBSET Bit
  /\ Lo \subseteq Entry /\ En5 \subseteq Entry
  /\ Build \subseteq [loopback : BOOLEAN, discover : SUBSET Inet]
  /\ Result \subseteq Seq({e \in Entry : Family[e] \in Inet})
  /\ Capacity \subseteq 0..Cells /\ Cells \in Nat /\ MaxList \in Nat

VARIABLES
  build,   \* the configuration, which never changes
  list,    \* the list of the kernel
  up,      \* the entries with IFF_UP
  pc,      \* the caller: "idle", "enum" or "resolved"
  count,   \* what ofc_net_interface_count_impl has returned
  answers, \* what ofc_net_interface_addr_impl has returned, by index
  failed,  \* the indices for which getifaddrs has failed
  steady,  \* history: the interfaces that were counted and have kept their place
  size, num, cells, found \* a resolved name: the capacity given, *num_addrs, ip,
                          \* and what getaddrinfo had

enumVars == <<count, answers, failed, steady>>
nameVars == <<size, num, cells, found>>
vars == <<build, list, up, pc, enumVars, nameVars>>

InList(e, l) == \E i \in 1..Len(l) : l[i] = e
-----------------------------------------------------------------------------
(* match_families.                                                           *)
match_families(e) == Family[e] \in build.discover

(* The entries both loops count, and which stand for the indices.            *)
Usable(e, u) ==
  /\ e \notin En5
  /\ build.loopback \/ e \notin Lo
  /\ e \in u
  /\ match_families(e)

(* max_count of the two loops when they have passed the first n entries.     *)
max_count(n, l, u) == Cardinality({i \in 1..n : Usable(l[i], u)})

(* The number of usable entries up to e, which is one more than its index.   *)
Place(e, l, u) == max_count(CHOOSE i \in 1..Len(l) : l[i] = e, l, u)

(* Mutant: the search for the index does not pass over en5.                  *)
FindsEn5(index, i) ==
  LET counted == {j \in 1..Len(list) : /\ list[j] \in up /\ match_families(list[j])
                                       /\ build.loopback \/ list[j] \notin Lo}
  IN  i \in counted /\ Cardinality({j \in counted : j < i}) = index

(* The loop of ofc_net_interface_addr_impl ends at entry i of the list.      *)
Finds(index, i) == Usable(list[i], up) /\ max_count(i - 1, list, up) = index

(* Mutant: the mask is not inverted.                                         *)
BroadcastNotInverted(e) ==
  IF e \in Lo THEN Loopback4 ELSE Bit \cap (Mask[e] \cup Addr[e])

(* The broadcast address of an IPv4 interface.                               *)
Broadcast(e) ==
  IF e \in Lo THEN Loopback4 ELSE (Bit \ Mask[e]) \cup Addr[e]

(* What the caller gets if there is no such index.                           *)
NoAnswer == [version |-> "IP", addr |-> None, mask |-> None, bcast |-> None, scope |-> None]

(* The three addresses of an interface; all three IPv6 ones get the scope.   *)
Answer(e) ==
  CASE Family[e] = "AF_INET" ->
         [version |-> "IP", addr |-> Addr[e], mask |-> Mask[e],
          bcast |-> Broadcast(e), scope |-> None]
    [] Family[e] = "AF_INET6" ->
         [version |-> "IPV6", addr |-> Addr[e], mask |-> Mask[e],
          bcast |-> IF e \in Lo THEN Loopback6 ELSE Bcast6, scope |-> Scope[e]]
    [] OTHER -> NoAnswer

(* What a cell of the array gets for an address of a name.                   *)
CellOf(e) == [family |-> Family[e], addr |-> Addr[e],
              scope |-> IF Family[e] = "AF_INET6" THEN Scope[e] ELSE None]

Answers == {NoAnswer} \cup {Answer(e) : e \in Entry}

TypeOK ==
  /\ build \in Build
  /\ list \in Seq(Entry) /\ up \in SUBSET Entry
  /\ \A i, j \in 1..Len(list) : list[i] = list[j] => i = j
  /\ pc \in {"idle", "enum", "resolved"}
  /\ count \in Nat /\ Len(answers) <= count
  /\ answers \in Seq(Answers)
  /\ failed \in SUBSET (1..count)
  /\ steady \in SUBSET {e \in Entry : Usable(e, up) /\ InList(e, list)}
  /\ size \in Nat /\ num \in Nat /\ found \in Seq(Entry)
  /\ cells \in [1..Cells -> {None} \cup {CellOf(e) : e \in Entry}]

Unused == [i \in 1..Cells |-> None]

Init == /\ build \in Build /\ list = <<>> /\ up = {} /\ pc = "idle"
        /\ count = 0 /\ answers = <<>> /\ failed = {} /\ steady = {}
        /\ size = 0 /\ num = 0 /\ found = <<>> /\ cells = Unused
-----------------------------------------------------------------------------
(* The kernel has another list, or other flags.                              *)
KernelChanges(l, u) ==
  /\ list' = l /\ up' = u
  /\ steady' = {e \in steady : /\ InList(e, l) /\ Usable(e, u)
                               /\ Place(e, l, u) = Place(e, list, up)}
  /\ UNCHANGED <<build, pc, count, answers, failed, nameVars>>

(* An interface gets an address, ...                                         *)
Appear(e) ==
  /\ ~InList(e, list) /\ Len(list) < MaxList
  /\ \E i \in 0..Len(list), u \in {up, up \cup {e}} :
       KernelChanges(SubSeq(list, 1, i) \o <<e>> \o SubSeq(list, i + 1, Len(list)), u)

(* ... loses it, ...                                                         *)
Vanish(e) ==
  \E i \in 1..Len(list) :
    /\ list[i] = e
    /\ KernelChanges(SubSeq(list, 1, i - 1) \o SubSeq(list, i + 1, Len(list)), up \ {e})

(* ... rises or falls.                                                       *)
Flip(e) ==
  /\ InList(e, list)
  /\ KernelChanges(list, IF e \in up THEN up \ {e} ELSE up \cup {e})
-----------------------------------------------------------------------------
(* ofc_net_interface_count_impl; it says 0 if it gets no list.               *)
interface_count ==
  /\ pc = "idle" /\ pc' = "enum"
  /\ \/ /\ count' = max_count(Len(list), list, up)
        /\ steady' = {e \in Entry : InList(e, list) /\ Usable(e, up)}
     \/ count' = 0 /\ steady' = {}
  /\ UNCHANGED <<build, list, up, answers, failed, nameVars>>

(* ofc_net_interface_addr_impl for the next index: the entry that the loop   *)
(* finds, or none, or no list.                                               *)
interface_addr ==
  /\ pc = "enum" /\ Len(answers) < count
  /\ LET index == Len(answers)
     IN  \/ /\ \E i \in 1..Len(list) :
                 Finds(index, i) /\ answers' = Append(answers, Answer(list[i]))
            /\ UNCHANGED failed
         \/ /\ \A i \in 1..Len(list) : ~Finds(index, i)
            /\ answers' = Append(answers, NoAnswer)
            /\ UNCHANGED failed
         \/ /\ answers' = Append(answers, NoAnswer)
            /\ failed' = failed \cup {index + 1}
  /\ UNCHANGED <<build, list, up, pc, count, steady, nameVars>>
-----------------------------------------------------------------------------
(* What getaddrinfo may return: addresses of the families that are asked for *)
(* and that some interface has (AI_ADDRCONFIG), or an error.                 *)
getaddrinfo ==
  {<<>>} \cup
  {r \in Result : \A i \in 1..Len(r) :
     /\ match_families(r[i])
     /\ \E e \in up \ Lo : InList(e, list) /\ Family[e] = Family[r[i]]}

(* Mutant: the bound of the array is off by one.                             *)
resolve_dns_name_past(result, capacity) ==
  /\ pc \in {"idle", "resolved"} /\ pc' = "resolved"
  /\ size' = capacity
  /\ found' = result
  /\ LET n == IF Len(result) <= capacity THEN Len(result) ELSE capacity + 1
     IN  /\ num' = n
         /\ cells' = [i \in 1..n \cup 1..Cells |->
                       IF i <= n THEN CellOf(result[i]) ELSE cells[i]]
  /\ UNCHANGED <<build, list, up, enumVars>>

(* ofc_net_resolve_dns_name_impl into an array that may have been used       *)
(* before: *num_addrs is the capacity, and then the number of addresses.     *)
resolve_dns_name(result, capacity) ==
  /\ pc \in {"idle", "resolved"} /\ pc' = "resolved"
  /\ size' = capacity
  /\ found' = result
  /\ LET n == IF Len(result) <= capacity THEN Len(result) ELSE capacity
     IN  /\ num' = n
         /\ cells' = [i \in 1..Cells |-> IF i <= n THEN CellOf(result[i]) ELSE cells[i]]
  /\ UNCHANGED <<build, list, up, enumVars>>

(* The caller is done with what it has.                                      *)
Release ==
  /\ pc # "idle" /\ pc' = "idle"
  /\ count' = 0 /\ answers' = <<>> /\ failed' = {} /\ steady' = {}
  /\ size' = 0 /\ num' = 0 /\ found' = <<>> /\ cells' = Unused
  /\ UNCHANGED <<build, list, up>>

Next == \/ \E e \in Entry : Appear(e) \/ Vanish(e) \/ Flip(e)
        \/ interface_count \/ interface_addr \/ Release
        \/ \E r \in getaddrinfo, n \in Capacity : resolve_dns_name(r, n)

Spec == Init /\ [][Next]_vars
-----------------------------------------------------------------------------
(* An interface that is there from the count to the last index is reported,  *)
(* at its index and with its own addresses, whatever happens to the others,  *)
(* as long as its place among the usable ones stays what it was and          *)
(* getifaddrs does not fail: the count, and the search for an index in a     *)
(* list that is newer, agree on what an interface is.                        *)
SteadyReported ==
  \A e \in steady :
    LET i == Place(e, list, up)
    IN  i <= count /\ (i <= Len(answers) /\ i \notin failed => answers[i] = Answer(e))

(* The broadcast addresses tell subnets apart: of two interfaces with the    *)
(* same mask, those of one subnet have the same and others have not.         *)
BroadcastOfSubnet ==
  \A i, j \in 1..Len(answers) :
    LET one == answers[i]
        two == answers[j]
    IN  /\ {one.version, two.version} = {"IP"}
        /\ {None, Loopback4} \cap {one.bcast, two.bcast} = {}
        /\ one.mask = two.mask
        => (one.bcast = two.bcast <=> one.addr \cap one.mask = two.addr \cap two.mask)

(* A resolved name never takes more cells than the capacity, and none of the *)
(* cells it is said to have is left from a name that was resolved before.    *)
ResolveFits ==
  pc = "resolved" =>
    /\ num <= size
    /\ \A i \in 1..num : cells[i] = CellOf(found[i])
    /\ num < size => num = Len(found)
=============================================================================
