------------------------ MODULE TTLResolverProofs ------------------------
(***************************************************************************)
(* What a lookup returns, for any number of name servers, whatever they   *)
(* answer.  parseAnswers is a loop; what it computes is shown by          *)
(* induction over the records, as a least counterexample.                 *)
(***************************************************************************)
EXTENDS TTLResolver, SequenceTheorems, WellFoundedInduction, TLAPS

----------------------------------------------------------------------------
(* Induction.                                                             *)

(* A set of numbers has a least one.                                      *)
LEMMA LeastNumber ==
  ASSUME NEW T \in SUBSET Nat, T # {}
  PROVE  \E x \in T : \A y \in T : x <= y
<1> DEFINE R == OpToRel(<, Nat)
<1>1. IsWellFoundedOn(R, Nat)
  BY NatLessThanWellFounded
<1>2. \A x, y \in Nat : y < x => <<y, x>> \in R
  BY DEF OpToRel
<1> HIDE DEF R
<1>3. PICK x \in T : \A y \in T : ~ (<<y, x>> \in R)
  BY <1>1, WFMin
<1>4. \A y \in T : ~(y < x)
  BY <1>2, <1>3
<1> QED
  BY <1>4

(* A loop that runs to n gets there.                                      *)
LEMMA LoopInduction ==
  ASSUME NEW n \in Nat, NEW T, 0 \in T, \A i \in 1..n : i - 1 \in T => i \in T
  PROVE  n \in T
<1> SUFFICES ASSUME n \notin T PROVE FALSE
  OBVIOUS
<1> DEFINE Bad == {i \in 0..n : i \notin T}
<1>1. Bad \in SUBSET Nat /\ Bad # {}
  OBVIOUS
<1>2. PICK x \in Bad : \A y \in Bad : x <= y
  BY <1>1, LeastNumber
<1>3. x \in 1..n /\ x - 1 \in 0..n /\ ~(x <= x - 1)
  BY <1>2
<1>4. x - 1 \in T
  BY <1>2, <1>3
<1> QED
  BY <1>2, <1>3, <1>4

----------------------------------------------------------------------------
(* parseAnswers.                                                          *)

(* What the loop has made of the first n records.                         *)
Loop(g, rrs, n) ==
  g = [i \in 0..n |-> IF i = 0 THEN NothingParsed ELSE ParseRecord(g[i - 1], rrs[i])]

(* The loop is well defined ...                                           *)
LEMMA LoopExists ==
  ASSUME NEW rrs, NEW n \in Nat
  PROVE  \E g : Loop(g, rrs, n)
<1> DEFINE T == {k \in 0..n : \E g : Loop(g, rrs, k)}
<1>1. 0 \in T
  <2> DEFINE g == [i \in 0..0 |-> NothingParsed]
  <2>1. Loop(g, rrs, 0)
    BY DEF Loop
  <2> QED
    BY <2>1
<1>2. ASSUME NEW k \in 1..n, k - 1 \in T PROVE k \in T
  <2>1. PICK g : Loop(g, rrs, k - 1)
    BY <1>2
  <2> DEFINE h == [i \in 0..k |-> IF i = k THEN ParseRecord(g[k - 1], rrs[k]) ELSE g[i]]
  <2>2. \A i \in 0..(k - 1) : h[i] = g[i]
    OBVIOUS
  <2>3. ASSUME NEW i \in 0..k
        PROVE  h[i] = IF i = 0 THEN NothingParsed ELSE ParseRecord(h[i - 1], rrs[i])
    <3>1. CASE i = k
      BY <2>2, <3>1
    <3>2. CASE i = 0
      BY <2>1, <2>2, <3>2 DEF Loop
    <3>3. CASE i # k /\ i # 0
      <4>1. i \in 0..(k - 1) /\ i - 1 \in 0..(k - 1)
        BY <3>3
      <4>2. g[i] = ParseRecord(g[i - 1], rrs[i])
        BY <2>1, <3>3, <4>1 DEF Loop
      <4> QED
        BY <2>2, <3>3, <4>1, <4>2
    <3> QED
      BY <3>1, <3>2, <3>3
  <2>4. Loop(h, rrs, k)
    BY <2>3 DEF Loop
  <2> QED
    BY <2>4
<1> HIDE DEF T
<1>3. n \in T
  BY <1>1, <1>2, LoopInduction
<1> QED
  BY <1>3 DEF T

(* ... and parseAnswers returns its result.                               *)
LEMMA ParseIsLoop ==
  ASSUME NEW rrs, Len(rrs) \in Nat
  PROVE  \E g : /\ Loop(g, rrs, Len(rrs))
                /\ parseAnswers(rrs).addrs = g[Len(rrs)].addrs
                /\ parseAnswers(rrs).ttl = g[Len(rrs)].low.min
<1> DEFINE f == CHOOSE g : Loop(g, rrs, Len(rrs))
<1>1. Loop(f, rrs, Len(rrs))
  BY LoopExists
<1>2. parseAnswers(rrs) = [addrs |-> f[Len(rrs)].addrs, ttl |-> f[Len(rrs)].low.min]
  BY DEF parseAnswers, Loop
<1> HIDE DEF f
<1> QED
  BY <1>1, <1>2

(* Nothing has no TTLs.                                                   *)
LEMMA EmptyTTLs == PositiveTTLs(<< >>) = {}
<1>1. ToSet(<< >>) = {}
  BY DEF ToSet
<1> QED
  BY <1>1, Zenon DEF PositiveTTLs, AnswerTTLs

(* TTLs of two sets of records.                                           *)
LEMMA UnionTTLs ==
  ASSUME NEW A, NEW B
  PROVE  {rr.Ttl : rr \in A \cup B} \ {0}
           = ({rr.Ttl : rr \in A} \ {0}) \cup ({rr.Ttl : rr \in B} \ {0})
OBVIOUS

(* Appending an address adds its TTL, unless that is zero.                *)
LEMMA AppendTTLs ==
  ASSUME NEW s \in Seq(Addr), NEW rr \in Addr
  PROVE  PositiveTTLs(Append(s, rr)) = PositiveTTLs(s) \cup ({rr.Ttl} \ {0})
<1>1. /\ DOMAIN s = 1..Len(s) /\ DOMAIN Append(s, rr) = 1..(Len(s) + 1)
      /\ \A i \in 1..Len(s) : Append(s, rr)[i] = s[i]
      /\ Append(s, rr)[Len(s) + 1] = rr /\ Len(s) \in Nat
  OBVIOUS
<1>2. ASSUME NEW i \in 1..(Len(s) + 1) PROVE i \in 1..Len(s) \/ i = Len(s) + 1
  BY <1>1
<1>3. ToSet(Append(s, rr)) \subseteq ToSet(s) \cup {rr}
  BY <1>1, <1>2, Zenon DEF ToSet
<1>4. \A i \in 1..Len(s) : i \in 1..(Len(s) + 1)
  BY <1>1
<1>5. Len(s) + 1 \in 1..(Len(s) + 1)
  BY <1>1
<1>6. ToSet(s) \cup {rr} \subseteq ToSet(Append(s, rr))
  BY <1>1, <1>4, <1>5, Zenon DEF ToSet
<1>7. ToSet(Append(s, rr)) = ToSet(s) \cup {rr}
  BY <1>3, <1>6
<1> QED
  BY <1>7, Zenon DEF PositiveTTLs, AnswerTTLs

(* Two answers together have the TTLs of both.                            *)
LEMMA ConcatTTLs ==
  ASSUME NEW s \in Seq(Addr), NEW t \in Seq(Addr)
  PROVE  PositiveTTLs(s \o t) = PositiveTTLs(s) \cup PositiveTTLs(t)
<1>1. /\ DOMAIN s = 1..Len(s) /\ DOMAIN t = 1..Len(t)
      /\ DOMAIN (s \o t) = 1..(Len(s) + Len(t))
      /\ Len(s) \in Nat /\ Len(t) \in Nat
  OBVIOUS
<1>2. \A i \in 1..Len(s) : i \in 1..(Len(s) + Len(t)) /\ (s \o t)[i] = s[i]
  OBVIOUS
<1>3. \A i \in 1..Len(t) :
        Len(s) + i \in 1..(Len(s) + Len(t)) /\ (s \o t)[Len(s) + i] = t[i]
  OBVIOUS
<1>4. \A i \in 1..(Len(s) + Len(t)) :
        i \in 1..Len(s) \/ \E j \in 1..Len(t) : i = Len(s) + j
  <2> SUFFICES ASSUME NEW i \in 1..(Len(s) + Len(t)), i \notin 1..Len(s)
               PROVE  \E j \in 1..Len(t) : i = Len(s) + j
    OBVIOUS
  <2>1. i - Len(s) \in 1..Len(t) /\ i = Len(s) + (i - Len(s))
    BY <1>1
  <2> QED
    BY <2>1
<1>5. ToSet(s \o t) \subseteq ToSet(s) \cup ToSet(t)
  <2> SUFFICES ASSUME NEW i \in 1..(Len(s) + Len(t))
               PROVE  (s \o t)[i] \in ToSet(s) \cup ToSet(t)
    BY <1>1, Zenon DEF ToSet
  <2>1. CASE i \in 1..Len(s)
    BY <1>1, <1>2, <2>1, Zenon DEF ToSet
  <2>2. ASSUME NEW j \in 1..Len(t), i = Len(s) + j PROVE (s \o t)[i] \in ToSet(t)
    BY <1>1, <1>3, <2>2, Zenon DEF ToSet
  <2> QED
    BY <1>4, <2>1, <2>2
<1>6. ToSet(s) \cup ToSet(t) \subseteq ToSet(s \o t)
  BY <1>1, <1>2, <1>3, Zenon DEF ToSet
<1>7. ToSet(s \o t) = ToSet(s) \cup ToSet(t)
  BY <1>5, <1>6
<1> QED
  BY <1>7, UnionTTLs DEF PositiveTTLs, AnswerTTLs

(* low is minTTL and seenTTL of a loop that has seen these TTLs.          *)
LowestOf(low, ttls) ==
  /\ low \in [min : TTLs \cup {0}, seen : BOOLEAN]
  /\ low.seen => low.min \in ttls /\ \A t \in ttls : low.min <= t
  /\ ~low.seen => low.min = 0 /\ ttls = {}

(* Another TTL, or none, given as zero.                                   *)
LEMMA LowerIsLowest ==
  ASSUME NEW low, NEW ttls \in SUBSET (TTLs \ {0}), LowestOf(low, ttls),
         NEW ttl \in TTLs \cup {0}
  PROVE  LowestOf(Lower(low, ttl), ttls \cup ({ttl} \ {0}))
<1>0. low \in [min : TTLs \cup {0}, seen : BOOLEAN]
  BY DEF LowestOf
<1>1. low.min \in Nat /\ ttl \in Nat /\ ttls \subseteq Nat
  <2>1. TTLs \cup {0} \subseteq Nat
    BY TTLAssumption
  <2>2. low.min \in TTLs \cup {0}
    BY <1>0
  <2> QED
    BY <2>1, <2>2
<1>2. CASE ttl = 0
  BY <1>1, <1>2 DEF Lower, LowestOf
<1>3. CASE ttl # 0 /\ (~low.seen \/ ttl < low.min)
  <2>1. Lower(low, ttl) = [min |-> ttl, seen |-> TRUE]
    BY <1>1, <1>3 DEF Lower
  <2>2. \A t \in ttls \cup {ttl} : ttl <= t
    <3>1. CASE ~low.seen
      BY <1>1, <3>1 DEF LowestOf
    <3>2. CASE low.seen
      <4>1. ttl < low.min /\ \A t \in ttls : low.min <= t
        BY <1>3, <3>2 DEF LowestOf
      <4> QED
        BY <1>1, <4>1
    <3> QED
      BY <3>1, <3>2
  <2>3. /\ [min |-> ttl, seen |-> TRUE] \in [min : TTLs \cup {0}, seen : BOOLEAN]
        /\ {ttl} \ {0} = {ttl}
    BY <1>3
  <2> QED
    BY <2>1, <2>2, <2>3 DEF LowestOf
<1>4. CASE ttl # 0 /\ low.seen /\ ~(ttl < low.min)
  <2>1. Lower(low, ttl) = low
    BY <1>4 DEF Lower
  <2>2. low.min <= ttl
    BY <1>1, <1>4
  <2>3. \A t \in ttls \cup {ttl} : low.min <= t
    BY <1>4, <2>2 DEF LowestOf
  <2>4. {ttl} \ {0} = {ttl}
    BY <1>4
  <2> QED
    BY <1>4, <2>1, <2>3, <2>4 DEF LowestOf
<1> QED
  BY <1>2, <1>3, <1>4

(* TTLs that count are TTLs of records.                                   *)
LEMMA TTLsTyped == ASSUME NEW s \in Seq(Addr) PROVE PositiveTTLs(s) \in SUBSET (TTLs \ {0})
<1>1. \A i \in DOMAIN s : s[i] \in RR /\ s[i].Ttl \in TTLs
  BY DEF Addr, RR
<1> QED
  BY <1>1 DEF PositiveTTLs, AnswerTTLs, ToSet

(* The loop's invariant after i records.                                  *)
ParsedOK(p, i) ==
  /\ p.addrs \in Seq(Addr) /\ Len(p.addrs) <= i
  /\ LowestOf(p.low, PositiveTTLs(p.addrs))

(* What the parse loop has collected stays right with one record more.    *)
LEMMA ParsePreserves ==
  ASSUME NEW p, NEW i \in Nat, ParsedOK(p, i), NEW rr \in RR
  PROVE  ParsedOK(ParseRecord(p, rr), i + 1)
<1>1. CASE ~extractAddr(rr)
  BY <1>1 DEF ParseRecord, ParsedOK
<1>2. CASE extractAddr(rr)
  <2>1. rr \in Addr /\ rr.Ttl \in TTLs
    BY <1>2 DEF extractAddr, Addr, RR
  <2>2. p.addrs \in Seq(Addr) /\ Len(p.addrs) <= i
    BY DEF ParsedOK
  <2>3. Append(p.addrs, rr) \in Seq(Addr) /\ Len(Append(p.addrs, rr)) <= i + 1
    BY <2>1, <2>2
  <2>4. LowestOf(Lower(p.low, rr.Ttl), PositiveTTLs(p.addrs) \cup ({rr.Ttl} \ {0}))
    BY <2>1, <2>2, TTLsTyped, LowerIsLowest DEF ParsedOK
  <2>5. LowestOf(Lower(p.low, rr.Ttl), PositiveTTLs(Append(p.addrs, rr)))
    BY <2>1, <2>2, <2>4, AppendTTLs
  <2> QED
    BY <1>2, <2>3, <2>5 DEF ParseRecord, ParsedOK
<1> QED
  BY <1>1, <1>2

(* parseAnswers returns addresses only, no more than there are records,   *)
(* and the lowest of their TTLs that are not zero.                        *)
LEMMA ParseCorrect ==
  ASSUME NEW rrs \in BoundedSeq(RR, MaxRRs)
  PROVE  /\ parseAnswers(rrs).addrs \in Seq(Addr)
         /\ Len(parseAnswers(rrs).addrs) <= MaxRRs
         /\ \E low : /\ low.min = parseAnswers(rrs).ttl
                     /\ LowestOf(low, PositiveTTLs(parseAnswers(rrs).addrs))
<1>1. rrs \in Seq(RR) /\ Len(rrs) \in 0..MaxRRs
  BY SizeAssumption DEF BoundedSeq, SeqOf
<1>2. PICK g : /\ Loop(g, rrs, Len(rrs))
               /\ parseAnswers(rrs).addrs = g[Len(rrs)].addrs
               /\ parseAnswers(rrs).ttl = g[Len(rrs)].low.min
  BY <1>1, ParseIsLoop
<1> DEFINE T == {i \in 0..Len(rrs) : ParsedOK(g[i], i)}
<1>3. 0 \in T
  <2>1. g[0] = NothingParsed
    BY <1>1, <1>2 DEF Loop
  <2>2. NothingParsed.addrs = << >> /\ NothingParsed.low = NoTTL
    BY DEF NothingParsed
  <2>3. LowestOf(NoTTL, PositiveTTLs(<< >>))
    BY EmptyTTLs DEF LowestOf, NoTTL
  <2>4. ParsedOK(g[0], 0)
    BY <2>1, <2>2, <2>3 DEF ParsedOK
  <2> QED
    BY <1>1, <2>4
<1>4. ASSUME NEW i \in 1..Len(rrs), i - 1 \in T PROVE i \in T
  <2>1. g[i] = ParseRecord(g[i - 1], rrs[i]) /\ rrs[i] \in RR
    BY <1>1, <1>2 DEF Loop
  <2>2. ParsedOK(ParseRecord(g[i - 1], rrs[i]), (i - 1) + 1)
    BY <1>1, <1>4, <2>1, ParsePreserves
  <2>3. (i - 1) + 1 = i
    BY <1>1
  <2> QED
    BY <2>1, <2>2, <2>3
<1>5. Len(rrs) \in T
  <2> HIDE DEF T
  <2> QED
    BY <1>1, <1>3, <1>4, LoopInduction
<1>6. ParsedOK(g[Len(rrs)], Len(rrs))
  BY <1>5
<1> QED
  BY <1>1, <1>2, <1>6, SizeAssumption DEF ParsedOK

----------------------------------------------------------------------------
(* The invariant.                                                         *)

(* The answer so far is what the two types contributed; a type whose turn *)
(* has not come, or is not over, has contributed nothing.                 *)
AnswerInv ==
  /\ collected \in Seq(Addr) /\ first \in [Qtypes -> Seq(Addr)]
  /\ collected = first[1] \o first[2]
  /\ \A q \in Qtypes : Len(first[q]) <= MaxRRs
  /\ pc \in {"idle", "config"} => first[1] = << >>
  /\ pc \in {"query", "exchange"} => first[qtype] = << >>
  /\ pc \in {"idle", "config"} \/ qtype = 1 => first[2] = << >>
  /\ pc \in {"idle", "config"} => qtype = 1 /\ server = 1

(* minTTL and seenTTL are those of the addresses collected.               *)
TTLInv == LowestOf(lowest, PositiveTTLs(collected))

(* The servers before the present one were asked, as were all of them for *)
(* a type that is over and contributed nothing.  An answer has addresses. *)
AskedInv ==
  /\ pc \in {"query", "exchange"} =>
       /\ \A s \in Servers : s < server => <<qtype, s>> \in asked
       /\ qtype = 2 /\ first[1] = << >> => {1} \X Servers \subseteq asked
  /\ pc = "exchange" => server \in Servers /\ <<qtype, server>> \in asked
  /\ pc # "done" => outcome = "none"
  /\ outcome = "dns" => collected # << >>

IInv ==
  /\ TypeOK /\ AnswerInv /\ TTLInv /\ AskedInv
  /\ AnswerIsComplete /\ FallbackIsLast

(* It holds before the first lookup.                                      *)
LEMMA InitIInv == Init => IInv
<1> SUFFICES ASSUME Init PROVE IInv
  OBVIOUS
<1>1. /\ collected = << >> /\ << >> \in Seq(Addr) /\ Len(<< >>) = 0
      /\ first = [q \in Qtypes |-> << >>] /\ first \in [Qtypes -> Seq(Addr)]
      /\ 1 \in Qtypes /\ 2 \in Qtypes /\ qtype = 1 /\ server = 1
  BY DEF Init, Qtypes
<1>2. AnswerInv
  BY <1>1, SizeAssumption DEF AnswerInv
<1>3. TTLInv
  BY <1>1, EmptyTTLs DEF Init, NoTTL, TTLInv, LowestOf
<1>4. AskedInv /\ AnswerIsComplete /\ FallbackIsLast
  BY DEF Init, AskedInv, AnswerIsComplete, FallbackIsLast
<1>5. NoTTL \in [min : TTLs \cup {0}, seen : BOOLEAN]
  BY DEF NoTTL
<1>6. server \in 1..NumServers + 1 /\ 0 <= 2 * MaxRRs /\ 0 \in 0..MaxLookups
  BY <1>1, SizeAssumption
<1>7. TypeOK
  BY <1>1, <1>5, <1>6 DEF Init, TypeOK, Outcome
<1> QED
  BY <1>2, <1>3, <1>4, <1>7 DEF IInv

(* The beginning of a lookup is like that of the first.                   *)
LEMMA LookupIInv == IInv /\ Lookup => IInv'
<1> SUFFICES ASSUME IInv, Lookup PROVE IInv'
  OBVIOUS
<1>1. /\ collected' = << >> /\ << >> \in Seq(Addr) /\ Len(<< >>) = 0
      /\ first' = [q \in Qtypes |-> << >>] /\ first' \in [Qtypes -> Seq(Addr)]
      /\ 1 \in Qtypes /\ 2 \in Qtypes /\ qtype' = 1 /\ server' = 1
      /\ pc' = "config" /\ outcome' = "none" /\ asked' = {} /\ lowest' = NoTTL
      /\ ctxDone' = FALSE /\ lookups' = lookups + 1 /\ cfg' = cfg
  BY DEF Lookup, Qtypes
<1>2. AnswerInv'
  BY <1>1, SizeAssumption DEF AnswerInv
<1>3. TTLInv'
  BY <1>1, EmptyTTLs DEF NoTTL, TTLInv, LowestOf
<1>4. (AskedInv /\ AnswerIsComplete /\ FallbackIsLast)'
  BY <1>1 DEF AskedInv, AnswerIsComplete, FallbackIsLast
<1>5. NoTTL \in [min : TTLs \cup {0}, seen : BOOLEAN]
  BY DEF NoTTL
<1>6. server' \in 1..NumServers + 1 /\ 0 <= 2 * MaxRRs /\ lookups' \in 0..MaxLookups
  BY <1>1, SizeAssumption DEF IInv, TypeOK, Lookup
<1>7. TypeOK'
  BY <1>1, <1>5, <1>6 DEF IInv, TypeOK, Outcome
<1> QED
  BY <1>2, <1>3, <1>4, <1>7 DEF IInv

(* Steps that collect nothing leave the answer and its TTL alone.         *)
LEMMA QuietIInv ==
  ASSUME IInv, UNCHANGED answerVars, AskedInv', AnswerIsComplete', FallbackIsLast',
         pc' \in {"config", "query", "exchange", "fallback", "done"},
         pc' = "config" => pc = "config" /\ UNCHANGED <<qtype, server>>,
         cfg' \in {"unread", "ok", "error"}, qtype' \in Qtypes,
         server' \in 1..NumServers + 1, ctxDone' \in BOOLEAN, outcome' \in Outcome,
         UNCHANGED lookups, asked' \in SUBSET (Qtypes \X Servers),
         qtype' = 1 => qtype = 1,
         pc' \in {"query", "exchange"} => first[qtype'] = << >>
  PROVE  IInv'
<1>1. TypeOK /\ AnswerInv /\ TTLInv
  BY DEF IInv
<1>2. UNCHANGED <<collected, lowest, first>>
  BY DEF answerVars
<1>3. AnswerInv'
  BY <1>1, <1>2 DEF AnswerInv
<1>4. TTLInv'
  BY <1>1, <1>2 DEF TTLInv
<1>5. TypeOK'
  BY <1>1, <1>2 DEF TypeOK
<1> QED
  BY <1>3, <1>4, <1>5 DEF IInv

(* The steps around the servers' answers.                                 *)
LEMMA QuietSteps ==
  ASSUME IInv,
         \/ LookupLiteral \/ initConfig \/ NextServer \/ NoServerLeft \/ ExchangeError
         \/ ExchangeCancelled \/ Fallback \/ EndContext
  PROVE  IInv'
<1>1. TypeOK /\ AnswerInv /\ AskedInv /\ AnswerIsComplete /\ FallbackIsLast
  BY DEF IInv
<1>2. CASE LookupLiteral
  <2>1. UNCHANGED answerVars /\ AskedInv' /\ AnswerIsComplete' /\ FallbackIsLast'
    BY <1>2 DEF LookupLiteral, AskedInv, AnswerIsComplete, FallbackIsLast
  <2> QED
    BY <1>1, <1>2, <2>1, QuietIInv DEF LookupLiteral, TypeOK, shared, Outcome
<1>3. CASE initConfig
  <2>1. pc = "config" /\ qtype = 1 /\ server = 1 /\ first[1] = << >>
    BY <1>1, <1>3 DEF initConfig, AnswerInv
  <2>2. UNCHANGED <<answerVars, qtype, server, ctxDone, outcome, lookups, asked>>
    BY <1>3 DEF initConfig
  <2>3. cfg' \in {"unread", "ok", "error"} /\ pc' = IF cfg' = "ok" THEN "query" ELSE "fallback"
    BY <1>1, <1>3 DEF initConfig, TypeOK
  <2>4. outcome' = "none"
    BY <1>1, <2>1, <2>2 DEF AskedInv
  <2>5. \A s \in Servers : ~(s < 1)
    BY DEF Servers
  <2>6. AskedInv' /\ AnswerIsComplete'
    BY <2>1, <2>2, <2>3, <2>4, <2>5 DEF AskedInv, AnswerIsComplete
  <2>7. FallbackIsLast'
    BY <1>3, <2>3 DEF FallbackIsLast, initConfig
  <2> QED
    BY <1>1, <2>1, <2>2, <2>3, <2>6, <2>7, QuietIInv DEF TypeOK
<1>4. CASE NextServer
  <2>1. pc = "query" /\ server \in Servers /\ outcome = "none"
    BY <1>1, <1>4 DEF NextServer, AskedInv
  <2>2. UNCHANGED <<answerVars, shared, qtype, server, ctxDone, outcome>>
    BY <1>4 DEF NextServer
  <2>3. asked' \in SUBSET (Qtypes \X Servers) /\ asked \subseteq asked'
    BY <1>1, <1>4, <2>1 DEF NextServer, TypeOK
  <2>4. \/ pc' = "fallback" /\ ctxDone
        \/ pc' = "exchange" /\ <<qtype, server>> \in asked'
    BY <1>4 DEF NextServer
  <2>5. AskedInv'
    BY <1>1, <2>1, <2>2, <2>3, <2>4 DEF AskedInv, answerVars
  <2>6. AnswerIsComplete' /\ FallbackIsLast'
    BY <2>1, <2>2, <2>4 DEF AnswerIsComplete, FallbackIsLast
  <2>7. first[qtype] = << >>
    BY <1>1, <2>1 DEF AnswerInv
  <2> QED
    BY <1>1, <2>1, <2>2, <2>3, <2>4, <2>5, <2>6, <2>7, QuietIInv DEF TypeOK, shared
<1>5. CASE NoServerLeft
  <2>1. pc = "query" /\ outcome = "none" /\ first[qtype] = << >>
    BY <1>1, <1>5 DEF NoServerLeft, AskedInv, AnswerInv
  <2>2. UNCHANGED <<answerVars, shared, ctxDone, asked>>
    BY <1>5 DEF NoServerLeft
  <2>3. \A s \in Servers : s < server
    BY <1>1, <1>5, SizeAssumption DEF NoServerLeft, TypeOK, Servers
  <2>4. {qtype} \X Servers \subseteq asked
    BY <1>1, <2>1, <2>3 DEF AskedInv
  <2>5. CASE qtype = 1
    <3>1. qtype' = 2 /\ server' = 1 /\ pc' = "query" /\ outcome' = outcome
      BY <1>5, <2>5 DEF NoServerLeft, EndType
    <3>2. first[2] = << >> /\ 1 \in 1..NumServers + 1
      BY <1>1, <2>5, SizeAssumption DEF AnswerInv
    <3>3. \A s \in Servers : ~(s < 1)
      BY DEF Servers
    <3>4. AskedInv'
      BY <2>1, <2>2, <2>4, <2>5, <3>1, <3>3 DEF AskedInv, answerVars
    <3>5. AnswerIsComplete' /\ FallbackIsLast'
      BY <2>1, <3>1 DEF AnswerIsComplete, FallbackIsLast
    <3> QED
      BY <1>1, <2>2, <3>1, <3>2, <3>4, <3>5, QuietIInv DEF TypeOK, Qtypes, shared
  <2>6. CASE qtype = 2
    <3>1. /\ UNCHANGED <<qtype, server>>
          /\ pc' = IF collected = << >> THEN "fallback" ELSE "done"
          /\ outcome' = IF collected = << >> THEN outcome ELSE "dns"
      BY <1>5, <2>6 DEF NoServerLeft, EndType
    <3>2. /\ collected = first[1] /\ first[2] = << >>
          /\ first[1] = << >> => {1} \X Servers \subseteq asked
      <4>1. first[1] \in Seq(Addr) /\ collected = first[1] \o first[2] /\ first[2] = << >>
        BY <1>1, <2>1, <2>6 DEF AnswerInv, Qtypes
      <4>2. first[1] = << >> => {1} \X Servers \subseteq asked
        BY <1>1, <2>1, <2>6 DEF AskedInv
      <4> QED
        BY <4>1, <4>2, ConcatEmptySeq
    <3>3. AskedInv'
      BY <2>1, <2>2, <3>1 DEF AskedInv, answerVars
    <3>4. AnswerIsComplete'
      <4>1. collected = first[1] \o first[2]
        BY <1>1 DEF AnswerInv
      <4>2. \A q \in Qtypes : first[q] = << >> => {q} \X Servers \subseteq asked
        BY <2>4, <2>6, <3>2 DEF Qtypes
      <4> QED
        BY <2>2, <4>1, <4>2 DEF AnswerIsComplete, answerVars
    <3>5. FallbackIsLast'
      <4>1. first[1] = << >> => asked = Qtypes \X Servers
        BY <1>1, <2>4, <2>6, <3>2 DEF TypeOK, Qtypes
      <4> QED
        BY <2>2, <3>1, <3>2, <4>1 DEF FallbackIsLast, answerVars
    <3> QED
      BY <1>1, <2>1, <2>2, <2>6, <3>1, <3>3, <3>4, <3>5, QuietIInv
      DEF TypeOK, Outcome, shared
  <2> QED
    BY <1>1, <2>5, <2>6 DEF TypeOK, Qtypes
<1>6. CASE ExchangeError
  <2>1. /\ pc = "exchange" /\ pc' = "query" /\ server' = server + 1 /\ outcome = "none"
        /\ server \in Servers /\ <<qtype, server>> \in asked /\ first[qtype] = << >>
    BY <1>1, <1>6 DEF ExchangeError, AskedInv, AnswerInv
  <2>2. UNCHANGED <<answerVars, shared, qtype, ctxDone, outcome, asked>>
    BY <1>6 DEF ExchangeError
  <2>3. server' \in 1..NumServers + 1 /\ \A s \in Servers : s < server' => s < server \/ s = server
    BY <2>1, SizeAssumption DEF Servers
  <2>4. AskedInv'
    BY <1>1, <2>1, <2>2, <2>3 DEF AskedInv, answerVars
  <2>5. AnswerIsComplete' /\ FallbackIsLast'
    BY <2>1, <2>2 DEF AnswerIsComplete, FallbackIsLast
  <2> QED
    BY <1>1, <2>1, <2>2, <2>3, <2>4, <2>5, QuietIInv DEF TypeOK, shared
<1>7. CASE ExchangeCancelled \/ Fallback
  <2>1. /\ UNCHANGED <<answerVars, shared, qtype, server, ctxDone, asked>>
        /\ pc' \in {"fallback", "done"} /\ outcome' \in Outcome
    BY <1>1, <1>7 DEF ExchangeCancelled, Fallback, TypeOK, Outcome
  <2>2. ASSUME ExchangeCancelled PROVE AskedInv' /\ AnswerIsComplete' /\ FallbackIsLast'
    <3>1. pc' = "fallback" /\ outcome' = "none" /\ ctxDone'
      BY <1>1, <2>2 DEF ExchangeCancelled, AskedInv
    <3> QED
      BY <3>1 DEF AskedInv, AnswerIsComplete, FallbackIsLast
  <2>3. ASSUME Fallback PROVE AskedInv' /\ AnswerIsComplete' /\ FallbackIsLast'
    <3>1. pc' = "done" /\ outcome' # "dns"
      BY <2>3 DEF Fallback
    <3> QED
      BY <3>1 DEF AskedInv, AnswerIsComplete, FallbackIsLast
  <2> QED
    BY <1>1, <1>7, <2>1, <2>2, <2>3, QuietIInv DEF TypeOK, shared
<1>8. CASE EndContext
  <2>1. AskedInv' /\ AnswerIsComplete' /\ FallbackIsLast'
    BY <1>1, <1>8 DEF EndContext, AskedInv, AnswerIsComplete, FallbackIsLast, answerVars
  <2> QED
    BY <1>1, <1>8, <2>1, QuietIInv DEF EndContext, TypeOK, AnswerInv, shared
<1> QED
  BY <1>2, <1>3, <1>4, <1>5, <1>6, <1>7, <1>8

(* A server that has addresses: they are added, whole and in order, and   *)
(* the TTL is lowered if theirs is lower.                                 *)
LEMMA ExchangeOKIInv ==
  ASSUME IInv, NEW rrs \in BoundedSeq(RR, MaxRRs), ExchangeOK(rrs)
  PROVE  IInv'
<1> DEFINE new == parseAnswers(rrs).addrs
           ttl == parseAnswers(rrs).ttl
<1>1. TypeOK /\ AnswerInv /\ TTLInv /\ AskedInv
  BY DEF IInv
<1>2. /\ pc = "exchange" /\ new # << >> /\ collected' = collected \o new
      /\ lowest' = Lower(lowest, ttl) /\ first' = [first EXCEPT ![qtype] = new]
      /\ EndType(collected') /\ UNCHANGED <<shared, ctxDone, asked>>
  BY DEF ExchangeOK
<1>3. /\ new \in Seq(Addr) /\ Len(new) <= MaxRRs
      /\ \E low : low.min = ttl /\ LowestOf(low, PositiveTTLs(new))
  BY ParseCorrect
<1> HIDE DEF new, ttl
<1>4. /\ qtype \in Qtypes /\ collected \in Seq(Addr) /\ collected = first[1] \o first[2]
      /\ first \in [Qtypes -> Seq(Addr)] /\ first[qtype] = << >>
      /\ qtype = 1 => first[2] = << >>
      /\ outcome = "none"
  BY <1>1, <1>2 DEF TypeOK, AnswerInv, AskedInv
<1>5. TTLInv'
  <2>1. PICK low : low.min = ttl /\ LowestOf(low, PositiveTTLs(new))
    BY <1>3
  <2>2. ttl \in TTLs \cup {0}
    BY <2>1 DEF LowestOf
  <2>3. ASSUME NEW ttls \in SUBSET (TTLs \ {0}), LowestOf(lowest, ttls)
        PROVE  LowestOf(Lower(lowest, ttl), ttls \cup PositiveTTLs(new))
    <3>1. TTLs \subseteq Nat /\ ttl \in Nat
      BY <2>2, TTLAssumption
    <3>2. LowestOf(Lower(lowest, ttl), ttls \cup ({ttl} \ {0}))
      BY <2>2, <2>3, LowerIsLowest
    <3>3. CASE low.seen
      <4>1. ttl \in PositiveTTLs(new) /\ \A t \in PositiveTTLs(new) : ttl <= t
        BY <2>1, <3>3 DEF LowestOf
      <4>2. PositiveTTLs(new) \subseteq TTLs \ {0}
        BY <1>3, TTLsTyped
      <4>3. ttl # 0 /\ {ttl} \ {0} = {ttl}
        BY <4>1, <4>2
      <4> DEFINE res == Lower(lowest, ttl)
      <4>4. res.seen /\ res.min \in ttls \cup {ttl} /\ \A t \in ttls \cup {ttl} : res.min <= t
        BY <3>2, <4>3 DEF LowestOf
      <4>5. res \in [min : TTLs \cup {0}, seen : BOOLEAN] /\ res.min \in Nat
        BY <3>1, <3>2, <4>4 DEF LowestOf
      <4> HIDE DEF res
      <4>6. \A t \in PositiveTTLs(new) : res.min <= t
        BY <3>1, <4>1, <4>2, <4>4, <4>5
      <4>7. LowestOf(res, ttls \cup PositiveTTLs(new))
        BY <4>1, <4>4, <4>5, <4>6 DEF LowestOf
      <4> QED
        BY <4>7 DEF res
    <3>4. CASE ~low.seen
      <4>1. ttl = 0 /\ PositiveTTLs(new) = {}
        BY <2>1, <3>4 DEF LowestOf
      <4> QED
        BY <3>2, <4>1
    <3> QED
      BY <3>3, <3>4
  <2>4. PositiveTTLs(collected) \in SUBSET (TTLs \ {0})
    BY <1>4, TTLsTyped
  <2>5. PositiveTTLs(collected \o new) = PositiveTTLs(collected) \cup PositiveTTLs(new)
    BY <1>3, <1>4, ConcatTTLs
  <2> QED
    BY <1>1, <1>2, <2>3, <2>4, <2>5 DEF TTLInv
<1>6. /\ collected' \in Seq(Addr) /\ first' \in [Qtypes -> Seq(Addr)]
      /\ first'[qtype] = new
      /\ collected' # << >>
  <2>1. collected \o new \in Seq(Addr) /\ collected \o new # << >>
    BY <1>2, <1>3, <1>4
  <2> QED
    BY <1>2, <1>3, <1>4, <2>1
<1>7. collected' = first'[1] \o first'[2]
  <2>1. CASE qtype = 1
    <3>1. collected = << >> /\ first'[1] = new /\ first'[2] = << >>
      BY <1>2, <1>4, <2>1 DEF Qtypes
    <3> QED
      BY <1>2, <1>3, <3>1, ConcatEmptySeq
  <2>2. CASE qtype = 2
    <3>1. first[1] \in Seq(Addr) /\ first[2] = << >> /\ first'[1] = first[1] /\ first'[2] = new
      BY <1>2, <1>4, <2>2 DEF Qtypes
    <3>2. collected = first[1]
      BY <1>4, <3>1, ConcatEmptySeq
    <3> QED
      BY <1>2, <3>1, <3>2
  <2> QED
    BY <1>4, <2>1, <2>2 DEF Qtypes
<1>8. \A q \in Qtypes : Len(first'[q]) <= MaxRRs
  BY <1>1, <1>2, <1>3, <1>4 DEF AnswerInv
<1>9. Len(collected') <= 2 * MaxRRs
  <2>1. /\ first'[1] \in Seq(Addr) /\ first'[2] \in Seq(Addr)
        /\ Len(first'[1]) <= MaxRRs /\ Len(first'[2]) <= MaxRRs
    BY <1>6, <1>8 DEF Qtypes
  <2>2. Len(first'[1] \o first'[2]) = Len(first'[1]) + Len(first'[2])
    BY <2>1
  <2>3. \A a, b \in Nat : a <= MaxRRs /\ b <= MaxRRs => a + b <= 2 * MaxRRs
    BY SizeAssumption
  <2>4. Len(first'[1]) \in Nat /\ Len(first'[2]) \in Nat
    BY <2>1
  <2>5. Len(first'[1]) + Len(first'[2]) <= 2 * MaxRRs
    BY <2>1, <2>3, <2>4
  <2> QED
    BY <1>7, <2>2, <2>5
<1>10. lowest' \in [min : TTLs \cup {0}, seen : BOOLEAN]
  BY <1>5 DEF TTLInv, LowestOf
<1>11. CASE qtype = 1
  <2>1. qtype' = 2 /\ server' = 1 /\ pc' = "query" /\ outcome' = "none"
    BY <1>2, <1>4, <1>11 DEF EndType
  <2>2. first'[1] = new /\ first'[2] = << >>
    BY <1>2, <1>4, <1>11 DEF Qtypes
  <2>3. \A s \in Servers : ~(s < 1)
    BY DEF Servers
  <2>4. AskedInv'
    BY <1>2, <2>1, <2>2, <2>3 DEF AskedInv
  <2>5. AnswerIsComplete' /\ FallbackIsLast'
    BY <2>1 DEF AnswerIsComplete, FallbackIsLast
  <2>6. AnswerInv'
    BY <1>6, <1>7, <1>8, <2>1, <2>2 DEF AnswerInv
  <2>7. 1 \in 1..NumServers + 1
    BY SizeAssumption
  <2>8. TypeOK'
    BY <1>1, <1>2, <1>6, <1>9, <1>10, <2>1, <2>7 DEF TypeOK, shared, Qtypes, Outcome
  <2> QED
    BY <1>5, <2>4, <2>5, <2>6, <2>8 DEF IInv
<1>12. CASE qtype = 2
  <2>1. UNCHANGED <<qtype, server>> /\ pc' = "done" /\ outcome' = "dns"
    BY <1>2, <1>6, <1>12 DEF EndType
  <2>2. first'[1] = first[1] /\ first'[2] = new
    BY <1>2, <1>4, <1>12 DEF Qtypes
  <2>3. AskedInv' /\ FallbackIsLast'
    BY <1>6, <2>1 DEF AskedInv, FallbackIsLast
  <2>4. first[1] = << >> => {1} \X Servers \subseteq asked
    BY <1>1, <1>2, <1>12 DEF AskedInv
  <2>5. AnswerIsComplete'
    BY <1>2, <1>7, <2>2, <2>4 DEF AnswerIsComplete, Qtypes
  <2>6. AnswerInv'
    BY <1>6, <1>7, <1>8, <1>12, <2>1 DEF AnswerInv
  <2>7. TypeOK'
    BY <1>1, <1>2, <1>6, <1>9, <1>10, <2>1 DEF TypeOK, shared, Outcome
  <2> QED
    BY <1>5, <2>3, <2>5, <2>6, <2>7 DEF IInv
<1> QED
  BY <1>4, <1>11, <1>12 DEF Qtypes

(* The inductive invariant holds of every sequence of lookups.            *)
THEOREM Invariance == Spec => []IInv
<1>1. IInv /\ [Next]_vars => IInv'
  <2> SUFFICES ASSUME IInv, [Next]_vars PROVE IInv'
    OBVIOUS
  <2>1. CASE UNCHANGED vars
    BY <2>1 DEF vars, IInv, TypeOK, AnswerInv, TTLInv, AskedInv, AnswerIsComplete,
       FallbackIsLast
  <2> QED
    BY <2>1, LookupIInv, QuietSteps, ExchangeOKIInv DEF Next, LookupStep
<1> QED
  BY InitIInv, <1>1, PTL DEF Spec

(* The lookup's state keeps its types: nothing but addresses is           *)
(* collected, no more than the two answers had, with a TTL of theirs.     *)
THEOREM TypeCorrect == Spec => []TypeOK
<1>1. IInv => TypeOK
  BY DEF IInv
<1> QED
  BY Invariance, <1>1, PTL

(* An answer has TTLs, and they are numbers.                              *)
LEMMA TTLsExist ==
  ASSUME NEW s \in Seq(Addr), s # << >>
  PROVE  AnswerTTLs(s) # {} /\ AnswerTTLs(s) \subseteq Nat
<1>1. \A i \in DOMAIN s : s[i] \in RR /\ s[i].Ttl \in TTLs
  BY DEF Addr, RR
<1>2. 1 \in DOMAIN s
  OBVIOUS
<1> QED
  BY <1>1, <1>2, TTLAssumption DEF AnswerTTLs, ToSet

(* The smallest of a set is what is in it and below all of it.            *)
LEMMA MinIsLeast ==
  ASSUME NEW T \in SUBSET Nat, NEW m \in T, \A t \in T : m <= t
  PROVE  Min(T) = m
<1>1. \E x \in T : \A t \in T : x <= t
  OBVIOUS
<1>2. Min(T) \in T /\ \A t \in T : Min(T) <= t
  BY <1>1, Zenon DEF Min
<1>3. Min(T) \in Nat /\ m \in Nat /\ Min(T) <= m /\ m <= Min(T)
  BY <1>2
<1> QED
  BY <1>3

(* The TTL reported is the smallest over all address records of both      *)
(* types, unless a TTL of zero stands beside others: parseAnswers passes  *)
(* the zero over (dns_resolver.go:190).                                   *)
THEOREM LowestTTL == Spec => []TTLIsMinimum
<1>1. IInv => TTLIsMinimum
  <2> SUFFICES ASSUME IInv, outcome = "dns", ~ZeroBesideOthers(collected)
               PROVE  lowest.min = Min(AnswerTTLs(collected))
    BY DEF TTLIsMinimum
  <2> DEFINE ttls == AnswerTTLs(collected)
  <2>1. LowestOf(lowest, ttls \ {0})
    BY DEF IInv, TTLInv, PositiveTTLs
  <2>2. ttls # {} /\ ttls \subseteq Nat
    BY TTLsExist DEF IInv, AnswerInv, AskedInv
  <2>3. 0 \notin ttls \/ ttls \ {0} = {}
    BY DEF ZeroBesideOthers, PositiveTTLs
  <2> HIDE DEF ttls
  <2>4. lowest.min \in ttls /\ \A t \in ttls : lowest.min <= t
    <3>1. CASE lowest.seen
      BY <2>1, <2>3, <3>1 DEF LowestOf
    <3>2. CASE ~lowest.seen
      <4>1. lowest.min = 0 /\ ttls = {0}
        BY <2>1, <2>2, <3>2 DEF LowestOf
      <4> QED
        BY <4>1
    <3> QED
      BY <3>1, <3>2
  <2>5. Min(ttls) = lowest.min
    BY <2>2, <2>4, MinIsLeast
  <2> QED
    BY <2>5 DEF ttls
<1> QED
  BY Invariance, <1>1, PTL

(* A result is the addresses of the first server that had any, for A and  *)
(* then for AAAA, and a type is missing only if no server had any.        *)
THEOREM CompleteAnswer == Spec => []AnswerIsComplete
<1>1. IInv => AnswerIsComplete
  BY DEF IInv
<1> QED
  BY Invariance, <1>1, PTL

(* The system resolver is asked only when all servers were, in vain, or   *)
(* the context has ended or there is no configuration.                    *)
THEOREM LastResort == Spec => []FallbackIsLast
<1>1. IInv => FallbackIsLast
  BY DEF IInv
<1> QED
  BY Invariance, <1>1, PTL
============================================================================
