----------------------------- MODULE MCServices -----------------------------
(* A small instance of Services. *)
EXTENDS Services

CONSTANT c1

\* One manifest that fits and one whose range the host does not satisfy.
Within(op, minor) == [op |-> op, version |-> <<1, minor, 0>>]
MCManifests == [protocol : {"fuzit-plugin-v1"}, range : {Within("^", 0), Within("~", 1)},
                checksum : {"none"}]

\* Lines without a call, calls that fail in each of the ways they can, and one
\* that writes.
Plain(method) == [method |-> method, tool |-> "none", root |-> "allowed", argument |-> "valid"]
Call(tool, root, argument) ==
  [method |-> "tools/call", tool |-> tool, root |-> root, argument |-> argument]
MCLines ==
  {Plain(method) : method \in {"garbage", "null", "initialize", "tools/call"}}
    \cup {Call("fuzit_profiles", "invalid", "valid"), Call("fuzit_search", "below", "valid"),
          Call("fuzit_graph_impact", "allowed", "invalid"),
          Call("fuzit_create_bundle", "allowed", "valid")}

Source(form, flaws, repository, origin) ==
  [form |-> form, flaws |-> flaws, repository |-> repository, origin |-> origin]
MCSources == {Source("pullUrl", {}, FALSE, FALSE), Source("issueUrl", {"number"}, FALSE, FALSE),
              Source("hash", {}, FALSE, FALSE), Source("number", {}, FALSE, TRUE),
              Source("treeUrl", {}, FALSE, FALSE)}

Answer(status, location, exhausted, fits, body) ==
  [status |-> status, location |-> location, exhausted |-> exhausted, fits |-> fits,
   body |-> body]
MCResponses ==
  {Answer(200, "none", FALSE, TRUE, "array"), Answer(200, "none", FALSE, FALSE, "array"),
   Answer(200, "none", FALSE, TRUE, "garbage"), Answer(301, "allowed", FALSE, TRUE, "none"),
   Answer(304, "none", FALSE, TRUE, "none"), Answer(403, "none", TRUE, TRUE, "object"),
   Answer(404, "none", FALSE, TRUE, "object"), Answer(500, "none", FALSE, TRUE, "none")}

=============================================================================
