----------------------------- MODULE MCService -----------------------------
(* Instances of Service for TLC. *)
EXTENDS ServiceRefinement

CONSTANTS t1, d1, d2, d3, bad, a1, a2, b1 \* model values

\* Below, at and above MINIMAL_INTERVAL.
MCInterval == {3, 5, 9}
ShortInterval == {3, 5}

Add(d) == [type |-> "AddDomain", value |-> d]
Remove(d) == [type |-> "RemoveDomain", value |-> d]
SetInterval(i) == [type |-> "Interval", value |-> i]
SetToken == [type |-> "Token", value |-> t1]
SetIpv6(b) == [type |-> "Ipv6", value |-> b]

File(t, ds, i, v6) ==
  [token |-> t, domain |-> ds, interval |-> i, ipv6 |-> v6, dashboard |-> NoDashboard]

\* Every kind of change, and one domain more than there may be, from no file or
\* from one written by hand, with too short an interval or too many domains.
SettingsRequests ==
  {SetToken, Add(d1), Add(d2), Add(d3), Add(bad), Remove(d1), SetInterval(3), ForceUpdate}
SettingsFiles == {Absent, File(t1, {d1}, 3, FALSE), File(t1, {d1, d2, bad}, 5, FALSE)}

\* Somebody writes a too short interval, breaks the file, or removes it, while
\* IPv6 is switched on and off.  No request sets a token: after the file was
\* removed nothing is updated until somebody writes one, for NoStaleIpv6 would
\* not survive it (a default file comes without the flag to clear).
EditsRequests == {SetIpv6(TRUE), SetIpv6(FALSE), Add(d1), SetInterval(3), ForceUpdate}
EditsFiles == {Absent, Garbled, File(t1, {}, 3, FALSE)}

\* A configuration that is updated from the start.
ReadyRequests == {SetIpv6(FALSE), SetIpv6(TRUE), ForceUpdate}
ReadyFiles == {File(t1, {d1}, 5, TRUE)}

\* Two domains, of which one comes and goes.
CrashRequests == {Add(d2), Remove(d2), ForceUpdate}
CrashFiles == {File(t1, {d1}, 5, FALSE)}
============================================================================
