----------------------------- MODULE DnsResolver -----------------------------
(***************************************************************************)
(* resolve_a() of net/dns.rs and the choice of the API's address in        *)
(* shell/agent.rs and shell/commands.rs.  One name is ever resolved, so    *)
(* the cache has one entry in use.  Time is in ticks of the time-to-live.  *)
(***************************************************************************)
EXTENDS Naturals

CONSTANTS
  Address,     \* addresses the name may have
  NoAddress,   \* 0.0.0.0: no address
  Ttl,         \* times-to-live of answers
  TtlCap,      \* the five minutes beyond which no answer is cached
  MaxTime      \* bound: ticks of a behaviour

ASSUME DnsAssumption ==
  /\ NoAddress \notin Address /\ Ttl \subseteq Nat /\ TtlCap \in Nat /\ MaxTime \in Nat

VARIABLES
  now,       \* monotonic_ms()
  manual,    \* API_TARGET_IP, the address set by hand
  cache,     \* DNS_CACHE: the address and when it expires
  query,     \* the query in progress: when it began, or the state of none
  target,    \* the address the API is reached at
  udp        \* UDP sockets in the set

\* The answer in the cache; the code has no such state.
VARIABLE answered   \* when it was asked for and its time-to-live

dnsVars == <<now, manual, cache, query, target, udp, answered>>

NoQuery == [open |-> FALSE, asked |-> 0]
NoEntry == [ip |-> NoAddress, expires |-> 0]

DnsInit ==
  /\ now = 0 /\ manual = NoAddress /\ cache = NoEntry /\ query = NoQuery
  /\ target = NoAddress /\ udp = 0
  /\ answered = [asked |-> 0, ttl |-> 0]

-----------------------------------------------------------------------------
(* Plausible mistakes in the code, each the body of one definition.        *)

Lifetime_Uncapped(ttl) == ttl
-----------------------------------------------------------------------------

Tick == now < MaxTime /\ now' = now + 1
        /\ UNCHANGED <<manual, cache, query, target, udp, answered>>

\* The resolve command sets the address by hand, or unsets it.
SetTarget(ip) ==
  /\ ~query.open
  /\ manual' = ip
  /\ UNCHANGED <<now, cache, query, target, udp, answered>>

\* The address set by hand, or the cached one while it has not expired.
Cached == IF manual # NoAddress THEN {manual}
          ELSE {ip \in {cache.ip} : ip # NoAddress /\ cache.expires > now}

UseCached ==
  /\ ~query.open
  /\ target' \in Cached
  /\ UNCHANGED <<now, manual, cache, query, udp, answered>>

\* The query is sent from a socket of its own.
Ask ==
  /\ ~query.open /\ Cached = {}
  /\ query' = [open |-> TRUE, asked |-> now]
  /\ udp' = udp + 1
  /\ UNCHANGED <<now, manual, cache, target, answered>>

\* The socket is removed on every path.
Drop == udp - 1

\* How long an answer is cached.
Lifetime(ttl) == IF ttl < TtlCap THEN ttl ELSE TtlCap

\* The answer has an address: it is cached from the time of the question.
Answer(ip, ttl) ==
  /\ query.open
  /\ cache' = [ip |-> ip, expires |-> query.asked + Lifetime(ttl)]
  /\ answered' = [asked |-> query.asked, ttl |-> ttl]
  /\ query' = NoQuery /\ target' = ip /\ udp' = Drop
  /\ UNCHANGED <<now, manual>>

\* The socket cannot be bound or used, the answer is malformed, has an error
\* or no address, or none comes within five seconds.
NoAnswer ==
  /\ query.open
  /\ query' = NoQuery /\ target' = NoAddress /\ udp' = Drop
  /\ UNCHANGED <<now, manual, cache, answered>>

-----------------------------------------------------------------------------

DnsTypeOK ==
  /\ now \in 0 .. MaxTime /\ manual \in Address \cup {NoAddress}
  /\ cache \in [ip : Address \cup {NoAddress}, expires : Nat]
  /\ query \in [open : BOOLEAN, asked : Nat] /\ target \in Address \cup {NoAddress}
  /\ udp \in Nat /\ answered \in [asked : Nat, ttl : Nat]

\* An address that is used without a query was set by hand, or is the answer
\* to a question no older than its time-to-live and than the cap, however
\* long that answer took; and every query gives its socket back.
FreshAddress ==
  /\ \A ip \in Cached :
       \/ ip = manual
       \/ now < answered.asked + answered.ttl /\ now < answered.asked + TtlCap
  /\ udp = 0 \/ query.open

\* The inductive invariant of the resolver: the entry expires when its answer
\* does, and the one socket is the one of the query.
DnsIInv ==
  /\ DnsTypeOK
  /\ udp = IF query.open THEN 1 ELSE 0
  /\ cache.ip # NoAddress => cache.expires = answered.asked + Lifetime(answered.ttl)
=============================================================================
