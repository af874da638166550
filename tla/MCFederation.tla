---------------------------- MODULE MCFederation ----------------------------
(* Instances of Federation for TLC. *)
EXTENDS Federation

CONSTANTS b1, b2, o1, o2, u1, u2, alice, bob, ton, sol, d1, d2, g1, s1

MCManifest == <<o1, o2>>
MCOwner == [b \in Box |-> IF b = b1 THEN o1 ELSE o2]
MCClaim == MCOwner

MCAccountFor == [c \in Chain |-> <<"account", c>>]
MCValidAddress == [c \in Chain |-> IF c = "GRAM" THEN {ton} ELSE {sol}]

\* A good deposit, one without a usable memo, a burn on either chain.
MCFact == [e \in Deposit \cup Burn |->
    IF e \in Deposit
    THEN [to |-> MCAccountFor["GRAM"], from |-> alice, amount |-> 5, memo |-> IF e = d1 THEN ton ELSE sol]
    ELSE [chain |-> IF e = g1 THEN "GRAM" ELSE "SOLANA", from |-> ton, home |-> bob, amount |-> 5]]

MCBaseFee == [d \in Deposit |-> 2]

\* Payments as they should be, and with one field wrong.
Bent(a) ==
    {[a EXCEPT !.amount = @ + 1], [a EXCEPT !.recipient = IF @ = alice THEN bob ELSE alice],
     [a EXCEPT !.remoteChain = IF @ = "GRAM" THEN "SOLANA" ELSE "GRAM"],
     [a EXCEPT !.id.padded = TRUE], [a EXCEPT !.digest = <<>>]}
MCWire ==
    UNION {Bent(a) \cup {a} : a \in {Mint(d1), Sweep(d1)}}
      \cup {Refund(d2), [Refund(d2) EXCEPT !.id.padded = TRUE], Return(g1), [Return(g1) EXCEPT !.digest = <<>>],
            canonicalPegOut(s1), [canonicalPegOut(s1) EXCEPT !.recipient = alice], canonicalPegOut(g1), Mint(d2)}

\* A node with everything, one that has pruned its history, one whose bob
\* exists.
MCViews ==
    {[history |-> Deposit \cup Burn, blockLog |-> Deposit, accounts |-> {}],
     [history |-> Burn, blockLog |-> Deposit, accounts |-> {}],
     [history |-> Deposit \cup Burn, blockLog |-> {}, accounts |-> {alice, bob}]}
=============================================================================
