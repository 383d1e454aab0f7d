----------------------------- MODULE DnsResponse -----------------------------
(***************************************************************************)
(* What ParseResponse (internal/dnscache/dns.go) does to the cache: every  *)
(* address record is Put under its owner name, and again under the alias   *)
(* of every CNAME record that points at the owner.  The loop over records  *)
(* and the inner loop of insertCNAMEs are one Put per step, in their       *)
(* order: <<i, 0>> is the Put of address record i under its owner and      *)
(* <<i, j>> the one under the alias of CNAME record j.                     *)
(* The miekg/dns decoder is external: a message arrives decoded.           *)
(***************************************************************************)
EXTENDS DnsCache

CONSTANTS
  MaxCnames,    \* CNAME records remembered per message (32)
  Message       \* the DNS messages that can be captured

Record ==
  [type : {"address"}, owner : Hostname, key : Key \cup {NoAddress}, ttl : TTL]
    \cup [type : {"cname"}, owner : Hostname, target : Hostname, ttl : TTL]
    \cup [type : {"other"}]

EmptyMessage == [wellFormed |-> FALSE, response |-> FALSE, answer |-> << >>]

ASSUME ResponseAssumption ==
  /\ MaxCnames \in Nat
  /\ Message \subseteq
       [wellFormed : BOOLEAN, response : BOOLEAN, answer : Seq(Record)]

VARIABLES
  message,      \* the message being parsed
  stamp,        \* its capture timestamp
  todo          \* the Puts still to be made for it

(* The CNAME records kept: the first MaxCnames with usable names.          *)
Cnames(ans) ==
  LET usable == {i \in DOMAIN ans : /\ ans[i].type = "cname"
                                    /\ ans[i].owner # LongName
                                    /\ ans[i].target # LongName}
  IN  {i \in usable : Rank(usable, i) <= MaxCnames}

(* The Puts ParseResponse makes; none for a query or undecodable bytes.    *)
PutPositions(m) ==
  LET ans == m.answer
      adr == {i \in DOMAIN ans : ans[i].type = "address"}
  IN  IF ~ m.wellFormed \/ ~ m.response THEN {}
      ELSE {<<i, 0>> : i \in adr} \cup
           {p \in adr \X Cnames(ans) :
              Fold[ans[p[2]].target] = Fold[ans[p[1]].owner]}

(* Mutant of PutTTL: an alias lives as long as its address record.         *)
PutTTLOfAddress(ans, p) == ans[p[1]].ttl

(* The arguments of one Put.  An alias lives no longer than its CNAME.     *)
PutName(ans, p) == ans[IF p[2] = 0 THEN p[1] ELSE p[2]].owner

PutTTL(ans, p) ==
  IF p[2] # 0 /\ ans[p[2]].ttl < ans[p[1]].ttl THEN ans[p[2]].ttl
  ELSE ans[p[1]].ttl

(* Loop order.                                                             *)
Precedes(p, q) == p[1] < q[1] \/ (p[1] = q[1] /\ p[2] < q[2])

-----------------------------------------------------------------------------

ResponseInit ==
  /\ CacheInit
  /\ message = EmptyMessage
  /\ stamp = 0
  /\ todo = {}

(* Mutant of Hold: the message is released before its Puts are made.       *)
HoldNothing(m, t, ps) ==
  /\ todo' = ps
  /\ message' = EmptyMessage
  /\ stamp' = t

(* The handler holds message m, captured at t, while Puts ps are to come.  *)
Hold(m, t, ps) ==
  /\ todo' = ps
  /\ message' = IF ps = {} THEN EmptyMessage ELSE m
  /\ stamp' = IF ps = {} THEN 0 ELSE t

(* ParseResponse is entered with message m, captured at t.                 *)
Receive(m, t) ==
  /\ todo = {}
  /\ Hold(m, t, PutPositions(m))
  /\ UNCHANGED entries

(* Its next Put; after the last one it returns.                            *)
PutNext ==
  \E p \in todo :
    /\ \A q \in todo \ {p} : Precedes(p, q)
    /\ entries' = Put(entries, message.answer[p[1]].key,
                      PutName(message.answer, p),
                      PutTTL(message.answer, p), stamp)
    /\ Hold(message, stamp, todo \ {p})

(* Between messages the cache is pruned.                                   *)
PruneBetween(t) ==
  /\ todo = {}
  /\ entries' = Prune(entries, t)
  /\ UNCHANGED <<message, stamp, todo>>

ResponseNext ==
  \/ \E m \in Message, t \in Time : Receive(m, t)
  \/ PutNext
  \/ \E t \in Time : PruneBetween(t)

responseVars == <<entries, message, stamp, todo>>

ResponseSpec == ResponseInit /\ [][ResponseNext]_responseVars

-----------------------------------------------------------------------------

(* The Puts outstanding are Puts of the message being parsed.              *)
ResponseTypeOK ==
  /\ CacheTypeOK
  /\ message \in Message \cup {EmptyMessage}
  /\ stamp \in Time \cup {0}
  /\ todo \subseteq PutPositions(message)

=============================================================================
