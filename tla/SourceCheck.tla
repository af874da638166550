---------------------------- MODULE SourceCheck -----------------------------
(***************************************************************************)
(* What a signer compares before it signs.  An action comes over the wire; *)
(* the signer re-reads its source event from its own nodes, derives the    *)
(* action that event warrants, and refuses anything else.  The operators   *)
(* follow sourceValidator.ts, canonical.ts and the chains' single-event    *)
(* readers; Warranted says what they are for, without their case analysis. *)
(***************************************************************************)
EXTENDS Integers

CONSTANTS
    Deposit,       \* VIZ transfers to a backing account
    Burn,          \* TON and Solana transfers out of circulation
    Fact,          \* Fact[e]: what the chain says of event e
    AccountFor,    \* AccountFor[chain]: the backing account
    ValidAddress,  \* ValidAddress[chain]: well-formed addresses of a chain
    BaseFee,       \* BaseFee[d]
    RefundFee,
    FeesGate,
    NoName         \* the empty destination

Chain == {"GRAM", "SOLANA"}

\* GatewayAccounts: one account per chain, no two the same.
ASSUME AccountsAssumption ==
    /\ DOMAIN AccountFor = Chain /\ DOMAIN ValidAddress = Chain
    /\ \A c, d \in Chain : AccountFor[c] = AccountFor[d] => c = d
    /\ \A c \in Chain : NoName \notin ValidAddress[c]

\* Amounts and the fee are bigint milli-VIZ.
ASSUME AmountsAssumption ==
    RefundFee \in Int /\ \A e \in Deposit \cup Burn : Fact[e].amount \in Int

-----------------------------------------------------------------------------
(* Own-node reads.  A view is what one node shows: which events it has in  *)
(* its history, which deposits only in its block log, which accounts.      *)

chainFor(account) == CHOOSE c \in Chain : AccountFor[c] = account

\* depositFromOps: the chain is the receiving account's, the destination
\* the memo, and a memo that is no address of that chain is none.
deposit(d) ==
    LET chain == chainFor(Fact[d].to)
        valid == Fact[d].memo \in ValidAddress[chain]
    IN  [remoteChain |-> chain, from |-> Fact[d].from, amount |-> Fact[d].amount,
         destinationValid |-> valid, remoteDestination |-> IF valid THEN Fact[d].memo ELSE NoName]

\* By the history index, whose answer has to carry the id that was asked for.
inHistory(d, view) == d \in view.history

\* In the block the hint names, if a transaction of it has this id when the
\* id is computed anew.
inBlock(d, view, hint) == hint = d /\ d \in view.blockLog

getDeposit(d, view, hint) == d \in Deposit /\ (inHistory(d, view) \/ inBlock(d, view, hint))

\* getBurn (TON): among the gateway wallet's latest transactions, and final.
getBurn(b, view) == b \in Burn /\ Fact[b].chain = "GRAM" /\ b \in view.history

\* getDepositTransfer (Solana): final, and into the deposit account that is
\* derived from this VIZ name.
getDepositTransfer(b, name, view) ==
    b \in Burn /\ Fact[b].chain = "SOLANA" /\ b \in view.history /\ Fact[b].home = name

\* parentPegInIdOf: what a VIZ block backs.  Releases and returns have none.
parentPegIn(a) ==
    IF a.direction = "PEG_IN" \/ a.id.suffix \in {":refund", ":fee"} THEN a.id.event ELSE NoName

\* resolveSourceHint: the block the coordinator sends along, here the
\* deposit that is in it; the row's number goes before the operators' file.
resolveSourceHint(a, row, file) ==
    IF parentPegIn(a) = NoName THEN NoName ELSE IF row # NoName THEN row ELSE file

\* Length-prefixed fields under SHA-256: equal only if the fields are.
digestOf(direction, e, chain, recipient, amount) == <<direction, e, chain, recipient, amount>>
bind(digest, suffix) == <<digest, suffix>>

\* padded: a spelling of the id that parses to the same event.
Id(e, suffix) == [event |-> e, suffix |-> suffix, padded |-> FALSE]

canonicalPegIn(d) ==
    LET f == deposit(d)
    IN  [direction |-> "PEG_IN", id |-> Id(d, ""), remoteChain |-> f.remoteChain,
         recipient |-> f.remoteDestination, amount |-> f.amount,
         digest |-> digestOf("PEG_IN", d, f.remoteChain, f.remoteDestination, f.amount)]

canonicalPegOut(b) ==
    [direction |-> "PEG_OUT", id |-> Id(b, ""), remoteChain |-> Fact[b].chain,
     recipient |-> Fact[b].home, amount |-> Fact[b].amount,
     digest |-> digestOf("PEG_OUT", b, Fact[b].chain, Fact[b].home, Fact[b].amount)]

-----------------------------------------------------------------------------
(* The validators. *)

\* Seeded fault: ids are compared as the events they parse to.
SameEvent(derived, wire) == derived.id.event = wire.id.event /\ derived.digest = wire.digest

\* Field by field, the id as spelled included.
assertSameAction(derived, wire) == derived = wire

validatePegIn(a, view, hint) ==
    /\ getDeposit(a.id.event, view, hint)
    /\ deposit(a.id.event).destinationValid
    /\ assertSameAction(canonicalPegIn(a.id.event), a)

\* reReadParentPegIn: the parent from the own node, and the one spelling of
\* the child's id.
reReadParentPegIn(a, suffix, view, hint) ==
    /\ getDeposit(a.id.event, view, hint)
    /\ a.id = Id(a.id.event, suffix)

validateFeeSweep(a, view, hint) ==
    /\ reReadParentPegIn(a, ":fee", view, hint)
    /\ a.remoteChain = deposit(a.id.event).remoteChain
    /\ a.recipient = FeesGate
    /\ a.digest = bind(canonicalPegIn(a.id.event).digest, ":fee")
    /\ a.amount = BaseFee[a.id.event]

validateRefund(a, view, hint) ==
    /\ reReadParentPegIn(a, ":refund", view, hint)
    /\ LET f == deposit(a.id.event)
       IN  /\ a.remoteChain = f.remoteChain
           /\ a.recipient = f.from
           /\ f.amount - RefundFee > 0
           /\ a.amount = f.amount - RefundFee
    /\ a.digest = bind(canonicalPegIn(a.id.event).digest, ":refund")

\* A burn whose account exists is released, never returned.  (A TON hash
\* has one spelling only.)
validateGramReturn(a, view) ==
    /\ getBurn(a.id.event, view) /\ ~a.id.padded
    /\ Fact[a.id.event].home \notin view.accounts
    /\ a.remoteChain = Fact[a.id.event].chain
    /\ a.recipient = Fact[a.id.event].from
    /\ Fact[a.id.event].amount - RefundFee > 0
    /\ a.amount = Fact[a.id.event].amount - RefundFee
    /\ a.digest = bind(canonicalPegOut(a.id.event).digest, ":return")

\* Solana: the deposit address is derived from the wire recipient, so a
\* transfer found there names the recipient.
validateSolanaPegOut(a, view) ==
    /\ getDepositTransfer(a.id.event, a.recipient, view)
    /\ assertSameAction([canonicalPegOut(a.id.event) EXCEPT !.id = a.id, !.recipient = a.recipient], a)

validateTonPegOut(a, view) ==
    /\ getBurn(a.id.event, view) /\ ~a.id.padded
    /\ assertSameAction(canonicalPegOut(a.id.event), a)

\* Dispatch on the direction, then on the shape of the id; an id of no
\* known shape is refused.
validateAction(a, view, hint) ==
    \/ a.direction = "PEG_IN" /\ a.id.suffix = "" /\ validatePegIn(a, view, hint)
    \/ /\ a.direction # "PEG_IN"
       /\ \/ a.id.suffix = ":fee" /\ validateFeeSweep(a, view, hint)
          \/ a.id.suffix = ":refund" /\ validateRefund(a, view, hint)
          \/ a.id.suffix = ":return" /\ validateGramReturn(a, view)
          \/ /\ a.id.suffix = "" /\ a.id.event \in Burn
             /\ \/ Fact[a.id.event].chain = "SOLANA" /\ ~a.id.padded /\ validateSolanaPegOut(a, view)
                \/ Fact[a.id.event].chain = "GRAM" /\ validateTonPegOut(a, view)

-----------------------------------------------------------------------------
(* What the validators are for: the five payments an event warrants.       *)

Mint(d) == canonicalPegIn(d)

Sweep(d) ==
    [direction |-> "PEG_OUT", id |-> Id(d, ":fee"), remoteChain |-> chainFor(Fact[d].to),
     recipient |-> FeesGate, amount |-> BaseFee[d], digest |-> bind(Mint(d).digest, ":fee")]

Refund(d) ==
    [direction |-> "PEG_OUT", id |-> Id(d, ":refund"), remoteChain |-> chainFor(Fact[d].to),
     recipient |-> Fact[d].from, amount |-> Fact[d].amount - RefundFee,
     digest |-> bind(Mint(d).digest, ":refund")]

Return(b) ==
    [direction |-> "GRAM_RETURN", id |-> Id(b, ":return"), remoteChain |-> "GRAM",
     recipient |-> Fact[b].from, amount |-> Fact[b].amount - RefundFee,
     digest |-> bind(canonicalPegOut(b).digest, ":return")]

Warranted ==
    {Mint(d) : d \in {x \in Deposit : deposit(x).destinationValid}}
      \cup {Sweep(d) : d \in Deposit}
      \cup {Refund(d) : d \in {x \in Deposit : Fact[x].amount > RefundFee}}
      \cup {canonicalPegOut(b) : b \in Burn}
      \cup {Return(b) : b \in {x \in Burn : Fact[x].chain = "GRAM" /\ Fact[x].amount > RefundFee}}
=============================================================================
