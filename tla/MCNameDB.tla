------------------------------ MODULE MCNameDB ------------------------------
(***************************************************************************)
(* Instances of NameDB: one namespace, two names, three principals, periods*)
(* of two and three blocks.  Each chain is about one part of the rules; the*)
(* namespace is created as fast as the rules allow.                        *)
(***************************************************************************)
EXTENDS NameDB, TLC

MCNames == {"x", "y"}
MCNamespaces == {"id"}
MCNamespaceOf == [n \in MCNames |-> "id"]
MCPrincipals == {"a", "b", "c"}
MCValues == {"none", "v"}
MCImportKeys == [p \in MCPrincipals |-> IF p = "a" THEN {"a", "c"} ELSE {p}]

MCGenesis ==
    [p \in {"a", "b"} |-> [credit_value |-> 3, debit_value |-> 0,
                           lock_transfer_block_id |-> IF p = "a" THEN 3 ELSE 0,
                           receive_whitelisted |-> p # "b"]]
\* A flat price, in which a name costs one unit of either kind, and a dear one.
MCPricing == {"flat", "dear"}
MCPrice == [c \in MCPricing |-> IF c = "flat" THEN 1 ELSE 2]

MCVesting == (4 :> ("b" :> 1)) @@ (5 :> ("c" :> 1))

\* Operations.
Pre(n, s, r) ==
    [opcode |-> "NAME_PREORDER", name |-> n, sender |-> s, recipient |-> r,
     op_fee |-> 1, burn_address |-> "burn", token_units |-> "BTC", token_fee |-> 0]
PreTokens(n, s, t) ==
    [Pre(n, s, s) EXCEPT !.token_units = "STACKS", !.token_fee = t, !.op_fee = 0]
PreCreator(n, s) == [Pre(n, s, s) EXCEPT !.burn_address = "a"]
Reg(n, s, r) ==
    [opcode |-> "NAME_REGISTRATION", name |-> n, sender |-> s, recipient |-> r,
     value_hash |-> "none"]
Renew(n, s, r, t) ==
    [opcode |-> "NAME_RENEWAL", name |-> n, sender |-> s, recipient |-> r,
     value_hash |-> "none", op_fee |-> 1, burn_address |-> "burn", token_fee |-> t]
Upd(n, s) ==
    [opcode |-> "NAME_UPDATE", name |-> n, sender |-> s, value_hash |-> "v"]
Xfer(n, s, r, k) ==
    [opcode |-> "NAME_TRANSFER", name |-> n, sender |-> s, recipient |-> r,
     keep_data |-> k]
Revoke(n, s) == [opcode |-> "NAME_REVOKE", name |-> n, sender |-> s]
Import(n, s, r) ==
    [opcode |-> "NAME_IMPORT", name |-> n, sender |-> s, recipient |-> r,
     value_hash |-> "v"]
NsPre(s) ==
    [opcode |-> "NAMESPACE_PREORDER", namespace_id |-> "id", sender |-> s,
     recipient |-> s, op_fee |-> 0, burn_address |-> "burn", token_fee |-> 1]
NsPreBurn(s) == [NsPre(s) EXCEPT !.op_fee = 1]
NsReveal(s, v) ==
    [opcode |-> "NAMESPACE_REVEAL", namespace_id |-> "id", sender |-> s,
     recipient |-> s, version |-> v, pricing |-> "flat"]
NsRevealDear(s) == [NsReveal(s, 3) EXCEPT !.pricing = "dear"]
NsReady(s) == [opcode |-> "NAMESPACE_READY", namespace_id |-> "id", sender |-> s]
Tokens(s, r, t) ==
    [opcode |-> "TOKEN_TRANSFER", sender |-> s, recipient |-> r, token_fee |-> t]

\* Blocks of at most one, and of at most two of some operations.
OneOf(S) == {<<>>} \cup {<<op>> : op \in S}
TwoOf(S) == OneOf(S) \cup {<<o, p>> : o, p \in S}

\* Two principals after one name: collisions, preorders, quotas.
Contest ==
    LET regs == {Reg("x", "b", "b"), Reg("x", "c", "c"), Reg("y", "b", "b")}
        pres == {Pre("x", "b", "b"), Pre("x", "c", "c")}
    IN  << {<<NsPre("a"), NsReveal("a", 1)>>},
           {<<NsReady("a"), Pre("x", "b", "b"), Pre("x", "c", "c"), Pre("y", "b", "b")>>},
           TwoOf(regs) \cup
           {<<Pre("x", "b", "c"), Reg("x", "b", "c"), Reg("x", "c", "c")>>,
            <<Reg("x", "b", "b"), Reg("y", "b", "b"), Pre("x", "b", "b")>>},
           TwoOf(regs \cup {Pre("x", "b", "b"), Xfer("x", "c", "b", TRUE)}),
           TwoOf({Reg("y", "b", "b"), Pre("x", "b", "b"), Renew("x", "b", "b", 0)}),
           OneOf(pres \cup {Renew("x", "b", "c", 0), Upd("x", "b")}),
           OneOf(pres),
           TwoOf(regs \cup pres),
           TwoOf(regs \cup pres) >>

\* A name through its lifetime, its grace period and beyond.
Life ==
    LET step == {Upd("x", "b"), Revoke("x", "b"), Renew("x", "b", "b", 0),
                 Xfer("x", "b", "c", TRUE), Xfer("x", "c", "b", FALSE)}
        late == {Pre("x", "c", "c"), Reg("x", "c", "c")}
    IN  << {<<NsPre("a"), NsReveal("a", 1)>>},
           {<<NsReady("a"), Pre("x", "b", "b")>>},
           {<<Reg("x", "b", "b")>>},
           TwoOf(step), TwoOf(step), TwoOf(step), OneOf(step \cup late),
           TwoOf(step \cup late), OneOf(step \cup late), OneOf(step \cup late) >>

\* A namespace revealed, imported, expired, revealed by somebody else, who may
\* have burned another amount and may ask for another price.
Import2 == <<Import("x", "a", "b"), Import("x", "c", "c")>>
Reveals ==
    << {<<NsPre("a"), NsReveal("a", 1)>>, <<NsPre("a"), NsPre("b")>>},
       OneOf({Import("x", "a", "b"), NsReveal("a", 1)}) \cup
       {<<Import("x", "c", "c"), Import("x", "a", "b")>>, Import2,
        <<NsReveal("a", 1), NsReveal("b", 1)>>,
        <<Import("x", "a", "b"), NsReady("a"), Import("y", "a", "b")>>,
        <<Import("x", "a", "b"), NsReady("a"), Pre("x", "c", "c"), Reg("x", "c", "c")>>},
       OneOf({Import("x", "c", "c"), NsReady("a"), NsPre("b"), NsReveal("b", 1)}),
       OneOf({Import("x", "a", "c"), Import("y", "a", "c"), NsReady("a"), NsPre("b"),
            Renew("x", "b", "b", 0)}),
       OneOf({NsPre("b"), NsPre("a"), NsReady("a")}) \cup
       {<<NsPre("b"), NsReveal("b", 2)>>, <<NsPre("b"), NsReveal("b", 3)>>,
        <<NsPreBurn("b"), NsReveal("b", 1)>>, <<NsReveal("a", 1), NsReveal("b", 1)>>},
       OneOf({Import("x", "c", "b"), Import("x", "b", "b"), NsReady("b"),
            NsReveal("b", 2), NsReveal("a", 1), Upd("x", "b")}),
       OneOf({Import("x", "c", "b"), Import("y", "b", "b"), NsReady("b"), Upd("x", "b")}),
       OneOf({NsReady("b"), Xfer("x", "b", "c", TRUE), Pre("x", "c", "c")}),
       OneOf({Import("y", "b", "c"), Reg("x", "c", "c"), Pre("y", "c", "c")}) >>

\* Names paid for with tokens, or to the creator of the namespace.
Payments ==
    << {<<NsPre("a"), NsReveal("a", v)>> : v \in 2..4} \cup
       {<<NsPreBurn("a"), NsRevealDear("a")>>},
       {<<NsReady("a"), PreTokens("x", "b", 1), PreTokens("y", "b", 1)>>,
        <<NsReady("a"), PreCreator("x", "b"), Pre("y", "b", "b")>>,
        <<NsReady("a"), PreTokens("x", "b", 2), PreTokens("y", "b", 2)>>,
        <<NsReady("a"), Tokens("b", "c", 2), PreTokens("x", "b", 2)>>},
       OneOf({Tokens("b", "c", 1), Tokens("a", "c", 1)}) \cup
       {<<Reg("x", "b", "b"), Reg("y", "b", "b")>>,
        <<Tokens("a", "c", 2), Reg("x", "b", "b"), PreTokens("y", "c", 1)>>},
       OneOf({Reg("x", "b", "b"), Reg("y", "c", "c"), Tokens("c", "b", 1),
            Tokens("c", "a", 1), Reg("y", "b", "b")}),
       OneOf({Renew("x", "b", "b", 1), Renew("x", "b", "c", 0), Tokens("c", "a", 1)}) \cup
       {<<Renew("x", "b", "b", 1), Tokens("b", "a", 1), Renew("x", "b", "b", 1)>>} >>

MCChains == [contest |-> Contest, life |-> Life, reveals |-> Reveals,
             payments |-> Payments]
=============================================================================
