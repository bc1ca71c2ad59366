---------------------------- MODULE TTLResolver ----------------------------
(***************************************************************************)
(* defaultTTLResolver (dns_resolver.go): the name servers of resolv.conf  *)
(* are asked for A and then for AAAA records, one after the other until   *)
(* one has addresses; the answer is all addresses with the smallest TTL,  *)
(* and the system resolver is the last resort.                            *)
(*                                                                        *)
(* One lookup follows the other; what they share is the configuration,    *)
(* read once.  An address is the record it came from.  The network, the   *)
(* DNS client and the system resolver are modelled from their use: the    *)
(* context may end at any time, and an exchange cut off by it may return  *)
(* the context's error or another one.                                    *)
(***************************************************************************)
EXTENDS Naturals, Sequences, SequencesExt, FiniteSetsExt

CONSTANTS
  NumServers,   \* name servers in resolv.conf
  TTLs,         \* TTLs a record may have
  MaxRRs,       \* bound on the records of one answer
  MaxLookups    \* bound on the number of lookups

ASSUME SizeAssumption == NumServers \in Nat /\ MaxRRs \in Nat /\ MaxLookups \in Nat
ASSUME TTLAssumption == TTLs \subseteq Nat

RR == [type : {"A", "AAAA", "CNAME"}, Ttl : TTLs]
Qtypes == {1, 2}   \* dns.TypeA, dns.TypeAAAA
Servers == 1..NumServers

VARIABLES
  pc,          \* idle, config, query, exchange, fallback or done
  cfg,         \* r.cfg: unread, ok or error
  qtype,       \* the type asked for
  server,      \* the server whose turn it is
  collected,   \* addresses so far
  lowest,      \* minTTL and seenTTL
  ctxDone,     \* the context has ended
  outcome,     \* how the lookup ended
  lookups,     \* lookups begun
  asked,       \* history: servers that were asked, and for what
  first        \* history: per type, the addresses of the first server that had any

shared == <<cfg, lookups>>
answerVars == <<collected, lowest, first>>
vars == <<pc, cfg, qtype, server, collected, lowest, ctxDone, outcome, lookups, asked,
          first>>

Outcome == {"none", "literal", "dns", "std", "error"}
NoTTL == [min |-> 0, seen |-> FALSE]

Addr == {rr \in RR : rr.type \in {"A", "AAAA"}}

TypeOK ==
  /\ pc \in {"idle", "config", "query", "exchange", "fallback", "done"}
  /\ cfg \in {"unread", "ok", "error"}
  /\ qtype \in Qtypes /\ server \in 1..NumServers + 1
  /\ collected \in Seq(Addr) /\ Len(collected) <= 2 * MaxRRs
  /\ lowest \in [min : TTLs \cup {0}, seen : BOOLEAN]
  /\ ctxDone \in BOOLEAN
  /\ outcome \in Outcome
  /\ lookups \in 0..MaxLookups
  /\ asked \in SUBSET (Qtypes \X Servers)
  /\ first \in [Qtypes -> Seq(Addr)]

Init ==
  /\ pc = "idle" /\ cfg = "unread"
  /\ qtype = 1 /\ server = 1
  /\ collected = << >> /\ lowest = NoTTL
  /\ ctxDone = FALSE /\ outcome = "none" /\ lookups = 0
  /\ asked = {} /\ first = [q \in Qtypes |-> << >>]

----------------------------------------------------------------------------
(* Mutant: everything is taken for an address.                            *)
extractAddr_TakesAll(rr) == TRUE

(* extractAddr: what is no address record is skipped.                     *)
extractAddr(rr) == rr.type \in {"A", "AAAA"}

(* Mutant: the TTL seen first is kept.                                    *)
Lower_KeepsFirst(low, ttl) ==
  IF ttl > 0 /\ ~low.seen THEN [min |-> ttl, seen |-> TRUE] ELSE low

(* A TTL of zero is no TTL.                                               *)
Lower(low, ttl) ==
  IF ttl > 0 /\ (~low.seen \/ ttl < low.min) THEN [min |-> ttl, seen |-> TRUE] ELSE low

(* parseAnswers: the addresses and the lowest of their TTLs, so far ...   *)
NothingParsed == [addrs |-> << >>, low |-> NoTTL]
ParseRecord(sofar, rr) ==
  IF extractAddr(rr)
  THEN [addrs |-> Append(sofar.addrs, rr), low |-> Lower(sofar.low, rr.Ttl)]
  ELSE sofar

(* ... and after the loop over the records.                               *)
parseAnswers(rrs) ==
  LET parsed[i \in 0..Len(rrs)] ==
        IF i = 0 THEN NothingParsed ELSE ParseRecord(parsed[i - 1], rrs[i])
      last == parsed[Len(rrs)]
  IN  [addrs |-> last.addrs, ttl |-> last.low.min]

----------------------------------------------------------------------------
(* Lookup begins.                                                         *)
Lookup ==
  /\ pc \in {"idle", "done"}
  /\ lookups < MaxLookups
  /\ lookups' = lookups + 1
  /\ pc' = "config"
  /\ qtype' = 1 /\ server' = 1
  /\ collected' = << >> /\ lowest' = NoTTL
  /\ ctxDone' = FALSE /\ outcome' = "none"
  /\ asked' = {} /\ first' = [q \in Qtypes |-> << >>]
  /\ UNCHANGED cfg

(* The host is an IP address.                                             *)
LookupLiteral ==
  /\ pc = "config"
  /\ pc' = "done"
  /\ outcome' = "literal"
  /\ UNCHANGED <<shared, qtype, server, answerVars, ctxDone, asked>>

(* initConfig: the file is read by the first lookup that gets here, and   *)
(* an error is remembered for good.                                       *)
initConfig ==
  /\ pc = "config"
  /\ cfg' \in IF cfg = "unread" THEN {"ok", "error"} ELSE {cfg}
  /\ pc' = IF cfg' = "ok" THEN "query" ELSE "fallback"
  /\ UNCHANGED <<qtype, server, answerVars, ctxDone, outcome, lookups, asked>>

(* The loop over the servers: the context is checked before each.         *)
NextServer ==
  /\ pc = "query"
  /\ server \in Servers
  /\ pc' = IF ctxDone THEN "fallback" ELSE "exchange"
  /\ asked' = IF ctxDone THEN asked ELSE asked \cup {<<qtype, server>>}
  /\ UNCHANGED <<shared, qtype, server, answerVars, ctxDone, outcome>>

(* The loop over the types: on to AAAA or, after it, the answer: what was *)
(* collected or, if that is nothing, errNoTTLAnswer.                      *)
EndType(addrs) ==
  \/ /\ qtype = 1
     /\ qtype' = 2 /\ server' = 1
     /\ pc' = "query"
     /\ UNCHANGED outcome
  \/ /\ qtype = 2
     /\ pc' = IF addrs = << >> THEN "fallback" ELSE "done"
     /\ outcome' = IF addrs = << >> THEN outcome ELSE "dns"
     /\ UNCHANGED <<qtype, server>>

(* No server is left: queryType returns errNoTTLAnswer, which is skipped. *)
NoServerLeft ==
  /\ pc = "query"
  /\ server \notin Servers
  /\ EndType(collected)
  /\ UNCHANGED <<shared, answerVars, ctxDone, asked>>

(* Mutant: an error of one server ends the lookup.                        *)
ExchangeError_GivesUp ==
  /\ pc = "exchange"
  /\ pc' = "fallback"
  /\ UNCHANGED <<shared, qtype, server, answerVars, ctxDone, outcome, asked>>

(* Mutant: the same server is asked again.                                *)
ExchangeError_Retries ==
  /\ pc = "exchange"
  /\ pc' = "query"
  /\ UNCHANGED <<shared, qtype, server, answerVars, ctxDone, outcome, asked>>

(* The server does not answer, refuses, or has no addresses: the next.    *)
ExchangeError ==
  /\ pc = "exchange"
  /\ pc' = "query"
  /\ server' = server + 1
  /\ UNCHANGED <<shared, qtype, answerVars, ctxDone, outcome, asked>>

(* The context's error ends the lookup, answers so far included.          *)
ExchangeCancelled ==
  /\ pc = "exchange"
  /\ ctxDone
  /\ pc' = "fallback"
  /\ UNCHANGED <<shared, qtype, server, answerVars, ctxDone, outcome, asked>>

(* Mutant: the second answer replaces the first.                          *)
ExchangeOK_Replaces(rrs) ==
  /\ pc = "exchange"
  /\ LET answer == parseAnswers(rrs)
     IN  /\ answer.addrs # << >>
         /\ collected' = answer.addrs
         /\ lowest' = Lower(lowest, answer.ttl)
         /\ first' = [first EXCEPT ![qtype] = answer.addrs]
  /\ EndType(collected')
  /\ UNCHANGED <<shared, ctxDone, asked>>

(* The server has addresses: queryType is done.                           *)
ExchangeOK(rrs) ==
  /\ pc = "exchange"
  /\ LET answer == parseAnswers(rrs)
     IN  /\ answer.addrs # << >>
         /\ collected' = collected \o answer.addrs
         /\ lowest' = Lower(lowest, answer.ttl)
         /\ first' = [first EXCEPT ![qtype] = answer.addrs]
  /\ EndType(collected')
  /\ UNCHANGED <<shared, ctxDone, asked>>

(* The system resolver has the last word; it reports no TTL.              *)
Fallback ==
  /\ pc = "fallback"
  /\ pc' = "done"
  /\ outcome' \in {"std", "error"}
  /\ UNCHANGED <<shared, qtype, server, answerVars, ctxDone, asked>>

(* The caller's context is cancelled or its deadline passes.              *)
EndContext ==
  /\ pc \notin {"idle", "done"}
  /\ ~ctxDone
  /\ ctxDone' = TRUE
  /\ UNCHANGED <<pc, shared, qtype, server, answerVars, outcome, asked>>

----------------------------------------------------------------------------
LookupStep ==
  \/ LookupLiteral \/ initConfig \/ NextServer \/ NoServerLeft
  \/ ExchangeError \/ ExchangeCancelled
  \/ \E rrs \in BoundedSeq(RR, MaxRRs) : ExchangeOK(rrs)
  \/ Fallback

Next == Lookup \/ LookupStep \/ EndContext

(* Exchanges end: the client has a timeout of 5 seconds.                  *)
Spec == Init /\ [][Next]_vars /\ WF_vars(LookupStep)

----------------------------------------------------------------------------
(* Properties.                                                            *)

(* The reported TTL is the smallest over the address records of both      *)
(* types, whatever the order they came in.  An answer in which a TTL of   *)
(* zero stands beside others is left out: dns_resolver.go:35 promises     *)
(* "the minimum TTL among answers" there too, which would be zero, and    *)
(* the code passes the zero over.                                         *)
AnswerTTLs(addrs) == {rr.Ttl : rr \in ToSet(addrs)}
PositiveTTLs(addrs) == AnswerTTLs(addrs) \ {0}
ZeroBesideOthers(addrs) == 0 \in AnswerTTLs(addrs) /\ PositiveTTLs(addrs) # {}
TTLIsMinimum ==
  outcome = "dns" /\ ~ZeroBesideOthers(collected) => lowest.min = Min(AnswerTTLs(collected))

(* "the combined addresses": for each type those of the first server that *)
(* had any, and a type is missing only if every server was asked for it.  *)
AnswerIsComplete ==
  outcome = "dns" =>
    /\ collected = first[1] \o first[2]
    /\ \A q \in Qtypes : first[q] = << >> => {q} \X Servers \subseteq asked

(* A server that is down, refuses or knows nothing costs nothing but its  *)
(* turn: the system resolver is asked only when all servers were in vain, *)
(* the context has ended or there is no configuration.                    *)
FallbackIsLast ==
  pc = "fallback" =>
    cfg = "error" \/ ctxDone \/ (asked = Qtypes \X Servers /\ collected = << >>)

(* Every lookup comes to an end.                                          *)
LookupEnds == (pc \notin {"idle", "done"}) ~> (pc = "done")
============================================================================
