------------------------------ MODULE MCSetup ------------------------------
(* Setup for TLC: the constants that are functions and records.            *)
EXTENDS Setup

Selects(hosts, scheduled, team_root, roots_) ==
    [hosts |-> hosts, scheduler |-> scheduled, team |-> team_root, roots |-> roots_]
MCSelections == {Selects({"h1"}, TRUE, FALSE, 2), Selects({"h1", "h2"}, TRUE, FALSE, 1),
                 Selects({"h1"}, TRUE, FALSE, 1), Selects({"h2"}, FALSE, TRUE, 1)}
MCKind == [hook |-> "hook", skill |-> "owned"]
MCClassOf == [a |-> "notes", b |-> "notes", bad |-> "invalid", art |-> "article"]
MCRecordsOf == [a |-> <<"x", "y">>, b |-> <<"y", "u", "z">>, bad |-> <<>>, art |-> <<"w">>]
MCKindOf == [x |-> "observation", y |-> "policy", u |-> "unscoped", z |-> "refused", w |-> "external"]
=============================================================================
