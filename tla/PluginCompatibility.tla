------------------------- MODULE PluginCompatibility -------------------------
(***************************************************************************)
(* Which plugin manifests the host accepts                                 *)
(* (packages/plugin-host/src/compatibility.ts, after the schema of         *)
(* packages/schemas/src/plugin/manifest.ts).                               *)
(*                                                                         *)
(* A version is a triple.  A range is what the regular expressions of      *)
(* satisfiesSemver see of a range string: the operator it starts with and  *)
(* its first version; a compound range such as ">=1.0.0 <2.0.0" is its     *)
(* first comparator and upper, the bound that nobody reads.                *)
(***************************************************************************)
EXTENDS Naturals

HostVersion == <<1, 0, 0>>

Older(v, w) ==
  \E i \in 1..3 : v[i] < w[i] /\ \A j \in 1..(i - 1) : v[j] = w[j]

\* An operator the code does not know ("<", ">", "=") falls through to the
\* match of an exact version, which fails, and then every version will do.
SatisfiesSemver(v, range) ==
  CASE range.op = "^"  -> v[1] = range.version[1] /\ v[2] >= range.version[2]
    [] range.op = "~"  -> v[1] = range.version[1] /\ v[2] = range.version[2]
    [] range.op = ">=" -> ~Older(v, range.version)
    [] range.op = ""   -> v = range.version
    [] OTHER           -> TRUE

\* The schema has checked schemaVersion and the capability names already; what
\* is left to reject is the protocol, the range and the form of a checksum.
Compatible(m) ==
  /\ m.protocol = "fuzit-plugin-v1"
  /\ SatisfiesSemver(HostVersion, m.range)
  /\ m.checksum # "malformed"

=============================================================================
