------------------------------ MODULE DnsMemory ------------------------------
(***************************************************************************)
(* What a reader of the DNS messages would believe, kept in history        *)
(* variables beside the parser of DnsResponse: after each message, the     *)
(* last word on every address and host.  What a message says is read off   *)
(* its records here, not taken from the Puts the parser makes.             *)
(***************************************************************************)
EXTENDS DnsResponse

VARIABLES
  believed,     \* history: the facts told, the latest on each subject
  subjects      \* history: the addresses and hosts ever told of

memoryVars == <<entries, message, stamp, todo, believed, subjects>>

(* The records that tell a host: <<i, 0>> if address record i is its own,  *)
(* <<i, j>> if CNAME record j leads from it to the owner of record i.      *)
Tells(m) ==
  LET ans == m.answer
      short(j) == /\ ans[j].type = "cname"
                  /\ LongName \notin {ans[j].owner, ans[j].target}
  IN  {p \in (DOMAIN ans) \X (0..Len(ans)) :
         /\ m.wellFormed /\ m.response
         /\ ans[p[1]].type = "address" /\ ans[p[1]].key \in Key
         /\ p[2] = 0 => ans[p[1]].owner \in Name
         /\ p[2] > 0 => /\ short(p[2]) /\ ans[p[2]].owner \in Name
                        /\ Fold[ans[p[2]].target] = Fold[ans[p[1]].owner]
                        /\ Cardinality({j \in 1..(p[2] - 1) : short(j)}) < MaxCnames}

(* The address and host told of.                                           *)
Subject(m, p) ==
  [key |-> m.answer[p[1]].key,
   host |-> Fold[IF p[2] = 0 THEN m.answer[p[1]].owner ELSE m.answer[p[2]].owner]]

(* As long as the shortest of the records involved, but never no time.     *)
Lasts(m, p) ==
  LET ttls == {m.answer[p[1]].ttl} \cup
              (IF p[2] = 0 THEN {} ELSE {m.answer[p[2]].ttl})
  IN  IF 0 \in ttls THEN Grace ELSE Min(ttls)

(* q comes after p: in a later record, or for the same by a later CNAME.   *)
Overrides(q, p) == q[1] > p[1] \/ (q[1] = p[1] /\ q[2] > p[2])

(* The last word of message m, captured at t, on each subject.             *)
LastWord(m, t) ==
  {[key |-> Subject(m, p).key, host |-> Subject(m, p).host,
    expires |-> t + Lasts(m, p)] :
     p \in {p \in Tells(m) : \A q \in Tells(m) :
                               Overrides(q, p) => Subject(m, q) # Subject(m, p)}}

-----------------------------------------------------------------------------

MemoryInit == ResponseInit /\ believed = {} /\ subjects = {}

(* A message is believed as a whole when its parsing begins.               *)
Hear(m, t) ==
  LET new == LastWord(m, t) IN
  /\ Receive(m, t)
  /\ believed' = new \cup {x \in believed :
                             \A y \in new : y.key # x.key \/ y.host # x.host}
  /\ subjects' = subjects \cup {[key |-> y.key, host |-> y.host] : y \in new}

HearPut == PutNext /\ UNCHANGED <<believed, subjects>>

HearPrune(t) ==
  /\ PruneBetween(t)
  /\ believed' = {x \in believed : x.expires > t}
  /\ UNCHANGED subjects

MemoryNext ==
  \/ \E m \in Message, t \in Time : Hear(m, t)
  \/ HearPut
  \/ \E t \in Time : HearPrune(t)

MemorySpec == MemoryInit /\ [][MemoryNext]_memoryVars

-----------------------------------------------------------------------------

(* All that was ever told fits the cache.                                  *)
RoomForAll ==
  /\ Cardinality({x.key : x \in subjects}) <= Capacity
  /\ \A k \in Key :
       Cardinality({x.host : x \in {x \in subjects : x.key = k}}) <= MaxNames

(* Between two messages the cache holds only what the messages said: each  *)
(* host an address record names directly or through one CNAME, until the   *)
(* expiry of the last record that says so (dns.go:25-50, 56-67), and       *)
(* nothing of queries or undecodable messages.  With room for every name   *)
(* it holds all of that.                                                   *)
RemembersAnswers ==
  todo = {} => /\ Facts(entries) \subseteq believed
               /\ RoomForAll => believed \subseteq Facts(entries)

=============================================================================
