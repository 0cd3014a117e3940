----------------------------- MODULE MC_FullState -----------------------------
(***************************************************************************)
(* Blocks of three transactions of two senders on two contracts.           *)
(***************************************************************************)
EXTENDS FullStateInv

CONSTANTS c1, c2, s1, s2, x, y

I(op, account, slot) == [op |-> op, account |-> account, slot |-> slot]
InnerCall(op, callee, body) ==
    <<[op |-> op, account |-> callee, skip |-> Len(body)]>> \o body

CopiesUnlessZero == <<I("SLOAD", c1, x), [op |-> "JUMPI", skip |-> 1], I("SSTORE", c1, y)>>
AsksUnlessZero ==
    <<I("SLOAD", c1, x), [op |-> "JUMPI", skip |-> 3]>>
    \o InnerCall("CALL", c2, <<I("SLOAD", c2, y), [op |-> "RETURN"]>>)
    \o <<I("SSTORE", c1, y)>>
Clears == <<I("CLEAR", c1, y)>>
TriesWrite == InnerCall("CALL", c2, <<I("SSTORE", c2, x), [op |-> "REVERT"]>>) \o <<I("SSTORE", c1, y)>>
TriesRead == InnerCall("CALL", c2, <<I("SLOAD", c2, x), [op |-> "REVERT"]>>) \o <<I("SSTORE", c1, y)>>
Asks ==
    <<I("SLOAD", c1, y)>>
    \o InnerCall("STATICCALL", c2, <<[op |-> "JUMPI", skip |-> 1], I("SLOAD", c2, x), [op |-> "RETURN"]>>)
    \o <<I("SSTORE", c1, x)>>
LooksAt == InnerCall("CALL", s1, <<>>) \o <<I("BALANCE", s1, x), I("SSTORE", c1, x)>>
SetsAndDestroys ==
    InnerCall("STATICCALL", s2, <<>>)
    \o <<I("SSTORE", c1, x), [op |-> "SELFDESTRUCT", account |-> s1], [op |-> "MOVE", account |-> s1]>>
DestroysOwn == <<[op |-> "SELFDESTRUCT", account |-> c1], [op |-> "MOVE", account |-> c1]>>

Kinds ==
    {[program |-> p, limit |-> 9, valid |-> TRUE] :
        p \in {CopiesUnlessZero, AsksUnlessZero, Clears, TriesWrite, TriesRead, Asks, LooksAt, SetsAndDestroys,
                 DestroysOwn}}
    \cup {[program |-> TriesWrite, limit |-> 5, valid |-> TRUE],
          [program |-> Clears, limit |-> 9, valid |-> FALSE]}

Sender(t) == IF t = 2 THEN s2 ELSE s1

Message(t, kind) ==
    [valid |-> kind.valid, from |-> Sender(t), to |-> c1,
     nonce |-> Cardinality({u \in Txs : u < t /\ Sender(u) = Sender(t)}),
     limit |-> kind.limit, price |-> 1, program |-> kind.program]

MCBlocks == {[t \in Txs |-> Message(t, kinds[t])] : kinds \in [Txs -> Kinds]}

\* One of the senders has no account yet.
MCDatabase ==
    [shared |-> FALSE, refund |-> 0,
     accounts |-> [a \in Addresses |->
        [held |-> a # s2, balance |-> IF a = s2 THEN 0 ELSE 2, nonce |-> 0, code |-> a \in {c1, c2}, alive |-> TRUE]],
     slots |-> [k \in Keys |-> IF k = <<c1, x>> THEN Number(0) ELSE Word(-1, <<>>)]]
=============================================================================
