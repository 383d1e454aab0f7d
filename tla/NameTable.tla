------------------------------ MODULE NameTable ------------------------------
(***************************************************************************)
(* What the DNS cache of netmon promises, without its slices: a set of     *)
(* facts "address k was answered for host h, believed until e".  A host is *)
(* a name up to letter case.  The newest answer about an address and host  *)
(* replaces the older one; learning may cost one other fact about the same *)
(* address, or everything about one other address, and nothing else.       *)
(***************************************************************************)
EXTENDS Naturals

CONSTANTS Key, Host, Expiry, Time

VARIABLE known

Fact(k, h, e) == [key |-> k, host |-> h, expires |-> e]

TableInit == known = {}

(* A DNS answer is recorded; at most one bystander is forgotten for it.    *)
Learn(k, h, e) ==
  LET rest == {x \in known : x.key # k \/ x.host # h}
  IN  \/ known' = rest \cup {Fact(k, h, e)}
      \/ \E x \in rest : /\ x.key = k
                         /\ known' = (rest \ {x}) \cup {Fact(k, h, e)}
      \/ \E v \in Key \ {k} :
           known' = {x \in rest : x.key # v} \cup {Fact(k, h, e)}

(* Everything whose time has come is forgotten, and nothing else.          *)
Expire(t) == known' = {x \in known : x.expires > t}

TableNext ==
  \/ \E k \in Key, h \in Host, e \in Expiry : Learn(k, h, e)
  \/ \E t \in Time : Expire(t)

TableSpec == TableInit /\ [][TableNext]_known

=============================================================================
