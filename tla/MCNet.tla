------------------------------- MODULE MCNet -------------------------------
(* An instance of Net for TLC. *)
EXTENDS Net, TLC

CONSTANTS a, b, c, d, e, k, l, c6, m6, k6

(* Two IPv4 interfaces of one subnet and one of another with the same mask,  *)
(* one with IPv6, en5, a link and lo0.                                       *)
Families == a :> "AF_INET" @@ b :> "AF_INET" @@ c :> "AF_INET6" @@ d :> "AF_INET" @@ e :> "AF_INET"
            @@ k :> "AF_LINK" @@ l :> "AF_INET"
Addrs == a :> {3, 0} @@ b :> {3, 1} @@ c :> c6 @@ d :> {2, 0} @@ e :> {2} @@ k :> k6 @@ l :> {0}
Masks == a :> {3, 2} @@ b :> {3, 2} @@ c :> m6 @@ d :> {3, 2} @@ e :> {3, 2} @@ k :> k6 @@ l :> {3}
Scopes == [x \in Entry |-> IF x = c THEN 1 ELSE 0]

(* The build's defaults, and one that has the loopback and IPv4 alone.       *)
Builds == {[loopback |-> FALSE, discover |-> {"AF_INET", "AF_INET6"}],
           [loopback |-> TRUE, discover |-> {"AF_INET"}]}

(* A name with addresses of both families, of one, and a name with one.      *)
Results == {<<a, c, b>>, <<a, b>>, <<c>>, <<b>>}
=============================================================================
