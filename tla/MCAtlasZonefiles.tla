-------------------------- MODULE MCAtlasZonefiles --------------------------
(***************************************************************************)
(* Instances of AtlasZonefiles for TLC.  The names "x" and "y" own zone    *)
(* files; "a.x" and "b.x" are subdomains of "x".                           *)
(***************************************************************************)
EXTENDS AtlasZonefiles

MCSubdomain == {"a.x", "b.x"}
MCDomainOf == [s \in MCSubdomain |-> "x"]

Rec(fqn, n, owner, signer) == [fqn |-> fqn, n |-> n, owner |-> owner, signer |-> signer]

\* The zone files: "create" makes both subdomains; "keep" and "give" are
\* conflicting successors of a.x, and only the second lets "after" follow.
MCRecords ==
    [create    |-> <<Rec("a.x", 0, "p", "p"), Rec("b.x", 0, "q", "q")>>,
     keep      |-> <<Rec("a.x", 1, "p", "p")>>,
     give      |-> <<Rec("b.x", 1, "q", "q"), Rec("a.x", 1, "q", "p")>>,
     after     |-> <<Rec("a.x", 2, "q", "q"), Rec("a.x", 3, "q", "q")>>,
     elsewhere |-> <<Rec("a.x", 1, "p", "p")>>,
     taken     |-> <<Rec("b.x", 1, "p", "q")>>]
MCHash == DOMAIN MCRecords
MCOrigin == [h \in MCHash |-> IF h \in {"elsewhere", "taken"} THEN "y" ELSE "x"]

Announce(name, hashes, blocks) ==
    [i \in DOMAIN hashes |-> [name |-> name, hash |-> hashes[i], block |-> blocks[i]]]

\* Conflicting successors in both orders; an update in a zone file of another
\* name; a transfer there, which must fail; a zone file announced twice; and a
\* plain update.  The longer the chain, the fewer the faults.
Conflicts ==
    {Announce("x", <<"create", "keep", "give", "after">>, <<1, 2, 2, 3>>),
     Announce("x", <<"create", "give", "keep", "after">>, <<1, 2, 2, 3>>)}
Elsewhere == Announce("x", <<"create">>, <<1>>) \o Announce("y", <<"elsewhere">>, <<2>>)
Taken == Announce("x", <<"create">>, <<1>>) \o Announce("y", <<"taken">>, <<2>>)
Reannounced == Announce("x", <<"create", "create">>, <<1, 2>>)
Updated == Announce("x", <<"create", "give">>, <<1, 2>>)

MCChains == Conflicts \cup {Elsewhere, Taken, Reannounced, Updated}
MCMaxFaults(c) ==
    CASE c = Reannounced -> 2 [] c \in {Elsewhere, Updated} -> 1 [] OTHER -> 0

\* The update in the zone file of another name alone.
ElsewhereChains == {Elsewhere}
=============================================================================
