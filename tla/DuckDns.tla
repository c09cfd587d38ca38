------------------------------ MODULE DuckDns ------------------------------
(***************************************************************************)
(* duckdns::update (src/service/duckdns.rs) and the world it acts on: the  *)
(* records DuckDNS keeps for the domains and the public addresses of the   *)
(* host.  Two callers run update concurrently, the update loop and a       *)
(* ForceUpdate request; each call is a job that looks the public addresses *)
(* up, clears the records if its configuration says so, and sends the      *)
(* update, with an await or a blocking HTTP call between those steps.      *)
(*                                                                         *)
(* The actions take the configuration of the caller as a parameter: update *)
(* borrows it, and the caller does not change it before update returns.    *)
(***************************************************************************)
EXTENDS ServiceConfig

CONSTANTS
  IPv4, IPv6, NoAddr, \* public addresses, and the absence of one
  Faults              \* what may go wrong in this instance

ASSUME DuckDnsAssumption ==
  /\ NoAddr \notin IPv4 \cup IPv6
  /\ Faults \subseteq {"lookup", "refuse", "lost", "hang", "store", "stop", "halt"}

VARIABLES
  dns, \* the A and AAAA record of every domain, at DuckDNS
  ip,  \* the public IPv4 address of the host
  ip6, \* its public IPv6 address, if it has one
  job  \* the call of update each caller is in

dnsVars == <<dns, ip, ip6, job>>

Updater == {"loop", "force"}

Job == [pc: {"idle", "lookup4", "lookup6", "clear", "send", "hung", "ok", "err"},
        v4: IPv4 \cup {NoAddr}, v6: IPv6 \cup {NoAddr}]

JobAt(pc) == [pc |-> pc, v4 |-> NoAddr, v6 |-> NoAddr]

NoRecord == [v4 |-> NoAddr, v6 |-> NoAddr]

DnsTypeOK ==
  /\ dns \in [Domain -> [v4: IPv4 \cup {NoAddr}, v6: IPv6 \cup {NoAddr}]]
  /\ ip \in IPv4
  /\ ip6 \in IPv6 \cup {NoAddr}
  /\ job \in [Updater -> Job]

DnsInit ==
  /\ dns = [d \in Domain |-> NoRecord]
  /\ ip \in IPv4
  /\ ip6 \in IPv6 \cup {NoAddr}
  /\ job = [p \in Updater |-> JobAt("idle")]

\* A call returns: its local variables are gone, its outcome remains.
Return(p, outcome) == job' = [job EXCEPT ![p] = JobAt(outcome)]

\* What DuckDNS does with the two requests.  An update without ipv6= leaves
\* the AAAA record as it is; clear=true removes both records.
Cleared(cfg) ==
  [d \in Domain |-> IF d \in cfg.domain THEN NoRecord ELSE dns[d]]

Published(p, cfg) ==
  [d \in Domain |->
     IF d \in cfg.domain
     THEN [v4 |-> job[p].v4,
           v6 |-> IF job[p].v6 = NoAddr THEN dns[d].v6 ELSE job[p].v6]
     ELSE dns[d]]
----------------------------------------------------------------------------
\* Bug: the records are only cleared for a configuration with IPv6.
FirstRequestOfIpv6(cfg) ==
  IF cfg.clear_ip_addresses /\ cfg.ipv6 THEN "clear" ELSE "send"

\* The step after the URL of the update has been built.
FirstRequest(cfg) == IF cfg.clear_ip_addresses THEN "clear" ELSE "send"

\* generate_request: the IPv4 lookup, then the check that there is a token.
LookupV4(p, cfg) ==
  /\ job[p].pc = "lookup4"
  /\ IF cfg.token = NoToken
     THEN Return(p, "err")
     ELSE job' = [job EXCEPT ![p].v4 = ip,
                    ![p].pc = IF cfg.ipv6 THEN "lookup6" ELSE FirstRequest(cfg)]
  /\ UNCHANGED <<dns, ip, ip6>>

\* generate_request: the IPv6 lookup, only when IPv6 is enabled.  Without a
\* public IPv6 address the whole update fails.
LookupV6(p, cfg) ==
  /\ job[p].pc = "lookup6"
  /\ IF ip6 = NoAddr
     THEN Return(p, "err")
     ELSE job' = [job EXCEPT ![p].v6 = ip6, ![p].pc = FirstRequest(cfg)]
  /\ UNCHANGED <<dns, ip, ip6>>

\* clear_ip_addresses, answered "OK".
HttpClear(p, cfg) ==
  /\ job[p].pc = "clear"
  /\ dns' = Cleared(cfg)
  /\ job' = [job EXCEPT ![p].pc = "send"]
  /\ UNCHANGED <<ip, ip6>>

\* The update request, answered "OK".
HttpUpdate(p, cfg) ==
  /\ job[p].pc = "send"
  /\ dns' = Published(p, cfg)
  /\ Return(p, "ok")
  /\ UNCHANGED <<ip, ip6>>

UpdateStep(p, cfg) ==
  LookupV4(p, cfg) \/ LookupV6(p, cfg) \/ HttpClear(p, cfg) \/ HttpUpdate(p, cfg)

\* A lookup finds no address.
LookupFails(p) ==
  /\ "lookup" \in Faults
  /\ job[p].pc \in {"lookup4", "lookup6"}
  /\ Return(p, "err")
  /\ UNCHANGED <<dns, ip, ip6>>

\* A request does not reach DuckDNS, or DuckDNS answers something else than
\* "OK": update returns at once, whichever of its requests it was.
HttpRefused(p) ==
  /\ "refuse" \in Faults
  /\ job[p].pc \in {"clear", "send"}
  /\ Return(p, "err")
  /\ UNCHANGED <<dns, ip, ip6>>

\* A request is carried out but its answer is lost.
HttpAnswerLost(p, cfg) ==
  /\ "lost" \in Faults
  /\ job[p].pc \in {"clear", "send"}
  /\ dns' = IF job[p].pc = "clear" THEN Cleared(cfg) ELSE Published(p, cfg)
  /\ Return(p, "err")
  /\ UNCHANGED <<ip, ip6>>

\* The server takes a request and never answers: the requests have no timeout.
HttpHangs(p) ==
  /\ "hang" \in Faults
  /\ job[p].pc \in {"clear", "send"}
  /\ job' = [job EXCEPT ![p].pc = "hung"]
  /\ UNCHANGED <<dns, ip, ip6>>

\* The provider gives the host other addresses.
AddressChange ==
  /\ ip' \in IPv4
  /\ ip6' \in IPv6 \cup {NoAddr}
  /\ <<ip', ip6'>> # <<ip, ip6>>
  /\ UNCHANGED <<dns, job>>
============================================================================
