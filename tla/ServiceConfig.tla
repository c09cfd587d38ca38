--------------------------- MODULE ServiceConfig ---------------------------
(***************************************************************************)
(* The configuration of BarvazDNS as data: what a Config holds in memory,  *)
(* what of it reaches config.toml, what reading the file back makes of it, *)
(* and how the service validates and applies a request to change it        *)
(* (src/common/config.rs and the validators of src/service/mod.rs).        *)
(*                                                                         *)
(* Tokens, domain names and the [dashboard] section are opaque values.     *)
(* ipv6 is Option<bool> in the code, which only ever asks whether it is    *)
(* Some(true): a Boolean here.  log_level belongs to logging and is left   *)
(* out.                                                                    *)
(***************************************************************************)
EXTENDS Integers, FiniteSets

CONSTANTS
  Token, NoToken,        \* DuckDNS tokens, and the absence of one
  Domain,                \* the strings a request or the file may name
  ValidDomain,           \* those that is_valid_domain accepts
  MaxDomainCount,        \* consts::MAX_DOMAIN_COUNT
  Interval,              \* durations, in seconds
  MinimalInterval,       \* consts::MINIMAL_INTERVAL
  DefaultInterval,       \* the interval of DEFAULT_CONFIG_CONTENT
  Dashboard, NoDashboard \* values of the [dashboard] section, and its absence

ASSUME ConfigAssumption ==
  /\ NoToken \notin Token
  /\ IsFiniteSet(Domain)
  /\ ValidDomain \subseteq Domain
  /\ MaxDomainCount \in Nat
  /\ Interval \subseteq Nat
  /\ MinimalInterval \in Interval
  /\ DefaultInterval \in Interval
  /\ MinimalInterval <= DefaultInterval
  /\ NoDashboard \in Dashboard

\* What config.toml holds when it parses.
Saved == [token: Token \cup {NoToken}, domain: SUBSET Domain,
          interval: Interval, ipv6: BOOLEAN, dashboard: Dashboard]

\* What the service holds in memory.
Config == [token: Token \cup {NoToken}, domain: SUBSET Domain,
           interval: Interval, ipv6: BOOLEAN, dashboard: Dashboard,
           clear_ip_addresses: BOOLEAN]

InMemory(s, clear) ==
  [token |-> s.token, domain |-> s.domain, interval |-> s.interval,
   ipv6 |-> s.ipv6, dashboard |-> s.dashboard, clear_ip_addresses |-> clear]

\* clear_ip_addresses is skipped by the serializer.
Stored(c) ==
  [token |-> c.token, domain |-> c.domain, interval |-> c.interval,
   ipv6 |-> c.ipv6, dashboard |-> c.dashboard]

SameSettings(c, d) == Stored(c) = Stored(d)

ClampInterval(i) == IF i < MinimalInterval THEN MinimalInterval ELSE i

\* Bug: the file is taken at its word.
ParsedAsIs(s) == InMemory(s, TRUE)

\* Config::read of a file that parses: the interval is clamped, and the next
\* update is told to clear the addresses first.
Parsed(s) == InMemory([s EXCEPT !.interval = ClampInterval(s.interval)], TRUE)

\* What Config::read installs, and returns, when there is no file yet.
DefaultConfig ==
  InMemory([token |-> NoToken, domain |-> {}, interval |-> DefaultInterval,
            ipv6 |-> FALSE, dashboard |-> NoDashboard], FALSE)

\* The update loop only calls DuckDNS with a token and at least one domain.
Ready(c) == c.token # NoToken /\ c.domain # {}
----------------------------------------------------------------------------
Change == [type: {"Interval"}, value: Interval]
          \cup [type: {"Token"}, value: Token]
          \cup [type: {"AddDomain", "RemoveDomain"}, value: Domain]
          \cup [type: {"Ipv6"}, value: BOOLEAN]

ForceUpdate == [type |-> "ForceUpdate"]

\* Bug: one domain too many.
AcceptsOneMore(r, c) ==
  \/ r.type = "Interval" /\ r.value >= MinimalInterval
  \/ r.type \in {"Token", "Ipv6"}
  \/ /\ r.type = "AddDomain"
     /\ r.value \in ValidDomain
     /\ Cardinality(c.domain) <= MaxDomainCount
     /\ r.value \notin c.domain
  \/ r.type = "RemoveDomain" /\ r.value \in c.domain

\* The validators.  A rejected request is answered with an error and changes
\* nothing.
Accepts(r, c) ==
  \/ r.type = "Interval" /\ r.value >= MinimalInterval
  \/ r.type \in {"Token", "Ipv6"}
  \/ /\ r.type = "AddDomain"
     /\ r.value \in ValidDomain
     /\ Cardinality(c.domain) < MaxDomainCount
     /\ r.value \notin c.domain
  \/ r.type = "RemoveDomain" /\ r.value \in c.domain

\* What each of them changes.
Applied(r, c) ==
  [c EXCEPT
     !.interval = IF r.type = "Interval" THEN r.value ELSE @,
     !.token = IF r.type = "Token" THEN r.value ELSE @,
     !.domain = IF r.type = "AddDomain" THEN @ \cup {r.value}
                ELSE IF r.type = "RemoveDomain" THEN @ \ {r.value} ELSE @,
     !.ipv6 = IF r.type = "Ipv6" THEN r.value ELSE @,
     !.clear_ip_addresses = IF r.type = "Ipv6" THEN TRUE ELSE @]
============================================================================
