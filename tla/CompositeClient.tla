-------------------------- MODULE CompositeClient --------------------------
\* The transaction path of the C++ client: CompositeClient (composite_
\* client.h) driving SignMessage / SignMessageProto (proto.cpp) with the
\* caller's AccountInfo (account_info.h/.cpp), against a chain node that
\* is over-approximated as an environment.
\* 
\* The state that matters is the AccountInfo the caller passes by
\* reference: its account_number and sequence are signed into every
\* transaction, and CompositeClient increments the sequence after every
\* broadcast of a message kind that consumes one.  The data of orders and
\* transfers (symbols, prices, sizes, amounts) is abstracted away: only
\* the kind of message, the sequence and account number it is signed with
\* and whether its gas was estimated are kept.
EXTENDS Naturals

CONSTANTS
    ChainAccountNumber,   \* the account number the chain assigns to the address
    MaxSequence,          \* bound on sequence numbers (client and chain)
    MayRejectOther,       \* the node may reject a tx for a reason other than
                          \* its signature or sequence (funds, order validity)
    MayLoseResponse,      \* the connection may fail after the node took the tx
    InitialExists,        \* whether the account is on chain when the caller
                          \* first retrieves it: a subset of BOOLEAN
    UnknownAccountNumber  \* AccountInfo::Retrieve writes -1 into a uint32_t
                          \* AccountNumber when the node answers with an error
                          \* "code": 2^32 - 1, beyond TLC's integers, so the
                          \* MC module gives it as a model value

ASSUME /\ MaxSequence \in Nat \ {0}
       /\ MayRejectOther \in BOOLEAN
       /\ MayLoseResponse \in BOOLEAN
       /\ InitialExists \subseteq BOOLEAN /\ InitialExists # {}
       /\ UnknownAccountNumber # ChainAccountNumber

\* The public operations of CompositeClient that sign and broadcast.
PlaceShortTerm == "PlaceShortTerm"
CancelShortTerm == "CancelShortTerm"
PlaceLongTerm == "PlaceLongTerm"
CancelLongTerm == "CancelLongTerm"
Transfer == "Transfer"
Deposit == "Deposit"
Withdraw == "Withdraw"

OrderOps == {PlaceShortTerm, CancelShortTerm, PlaceLongTerm, CancelLongTerm}
BalanceOps == {Transfer, Deposit, Withdraw}
Ops == OrderOps \cup BalanceOps
NoOp == "none"

VARIABLES
    account,   \* the caller's AccountInfo: [number, sequence]
    pc,        \* where the running CompositeClient call is
    op,        \* which CompositeClient call is running
    tx,        \* the transaction signed by the running call
    result,    \* what the last call returned: a response code or an exception
    chain,     \* the node's view of the account: [exists, sequence]
    rejectedSinceSync,  \* ghost: 1 once a sequence-checked tx was rejected (and
                        \* the client heard it) since the last Retrieve, else 0
    lostSinceSync       \* ghost: 1 once an accepted tx's response never arrived
                        \* since the last Retrieve, else 0

clientVars == <<account, pc, op, tx, result>>
ghostVars == <<rejectedSinceSync, lostSinceSync>>
vars == <<account, pc, op, tx, result, chain, rejectedSinceSync, lostSinceSync>>

NoTx == [op |-> NoOp, sequence |-> 0, number |-> 0, gas |-> "zero"]
Results == {"none", "accepted", "rejected", "exception"}

TypeOK ==
    /\ account \in [number : {ChainAccountNumber, UnknownAccountNumber},
                    sequence : 0..MaxSequence]
    /\ pc \in {"idle", "simulate", "broadcast"}
    /\ op \in Ops \cup {NoOp}
    /\ tx \in [op : Ops, sequence : 0..MaxSequence,
               number : {ChainAccountNumber, UnknownAccountNumber},
               gas : {"zero", "estimated"}] \cup {NoTx}
    /\ result \in Results
    /\ chain \in [exists : BOOLEAN, sequence : 0..MaxSequence]
    /\ rejectedSinceSync \in {0, 1}
    /\ lostSinceSync \in {0, 1}

\* The dYdX chain's ante handler skips the sequence check (and does not
\* consume a sequence) for short-term order placements and cancellations.
ChecksSequence(o) == o \notin {PlaceShortTerm, CancelShortTerm}

\* What CheckTx makes of a signed tx: the account must exist, the signature
\* (over the SignDoc with its account number) must verify, and the
\* sequence must be the account's when it is checked.
NodeAccepts(t) ==
    /\ chain.exists
    /\ t.number = ChainAccountNumber
    /\ ChecksSequence(t.op) => t.sequence = chain.sequence

\* /simulate checks the account and its sequence but not the signature.
SimulationSucceeds(t) ==
    /\ chain.exists
    /\ t.sequence = chain.sequence

\* The verdicts the node may reach on a tx that reaches it.
NodeVerdicts(t) == {NodeAccepts(t)} \cup (IF MayRejectOther THEN {FALSE} ELSE {})

\* Whether the response reaches the client once the node has the tx.
Deliveries == IF MayLoseResponse THEN BOOLEAN ELSE {TRUE}

\* Client code

\* Mutant: every call bumps the sequence, short-term orders included.
IncrementsSequenceAll(o) == TRUE

\* Mutant: Transfer forgets its account_info.IncreaseSequence().
IncrementsSequenceNoTransfer(o) == o \in {PlaceLongTerm, CancelLongTerm, Deposit, Withdraw}

\* The CompositeClient calls that end in account_info.IncreaseSequence():
\* every overload taking a non-const AccountInfo&, i.e. all but the two
\* short-term ones.
IncrementsSequence(o) == o \in {PlaceLongTerm, CancelLongTerm, Transfer, Deposit, Withdraw}

\* Mutant: IncreaseSequence leaves the sequence as it is.
IncreaseSequenceNoop(s) == s

\* AccountInfo::IncreaseSequence.
IncreaseSequence(s) == s + 1

\* Mutant: the second pass keeps the gas limit of the first.
SignTxZeroGas(o, gas) ==
    [op |-> o, sequence |-> account.sequence, number |-> account.number, gas |-> "zero"]

\* SignMessageProto: the signer info carries the account's sequence, the
\* SignDoc its account number; gas_limit is 0 on the first pass.
SignTx(o, gas) ==
    [op |-> o, sequence |-> account.sequence, number |-> account.number, gas |-> gas]

\* Mutant: account_number and sequence parsed from each other's field.
RetrievedAccountSwapped ==
    IF chain.exists
    THEN [number |-> chain.sequence, sequence |-> ChainAccountNumber]
    ELSE [number |-> UnknownAccountNumber, sequence |-> 0]

\* The AccountInfo that AccountInfo::Retrieve builds from the node's answer
\* to GetAccount: the account's number and sequence, or, for an error
\* object with a "code" (account unknown to the node), -1 and 0.
RetrievedAccount ==
    IF chain.exists
    THEN [number |-> ChainAccountNumber, sequence |-> chain.sequence]
    ELSE [number |-> UnknownAccountNumber, sequence |-> 0]

\* AccountInfo::Retrieve, as the caller's re-synchronisation: GetAccount
\* either throws (the caller keeps its old AccountInfo) or answers.
Retrieve ==
    /\ pc = "idle"
    /\ \/ /\ result' = "exception"
          /\ UNCHANGED <<account, ghostVars>>
       \/ /\ account' = RetrievedAccount
          /\ result' = "none"
          /\ rejectedSinceSync' = 0
          /\ lostSinceSync' = 0
    /\ UNCHANGED <<pc, op, tx, chain>>

\* PlaceOrder / CancelOrder: ConvertToLowLevel and GetInstrumentInfo may
\* throw (block-height query failure for short-term defaults, unknown
\* symbol: std::map::at); otherwise the message is built and signed once
\* with gas_limit 0 (CreatePlaceOrderMessage, CreateCancelOrderMessage).
StartOrder(o) ==
    /\ pc = "idle"
    /\ o \in OrderOps
    /\ IncrementsSequence(o) => account.sequence < MaxSequence
    /\ \/ /\ result' = "exception"
          /\ UNCHANGED <<pc, op, tx>>
       \/ /\ tx' = SignTx(o, "zero")
          /\ op' = o
          /\ pc' = "broadcast"
          /\ UNCHANGED result
    /\ UNCHANGED <<account, chain, ghostVars>>

\* Transfer / DepositToSubaccount / WithdrawFromSubaccount: SignMessage with
\* no gas_limit first signs the message with gas_limit 0 for simulation.
StartBalanceOp(o) ==
    /\ pc = "idle"
    /\ o \in BalanceOps
    /\ account.sequence < MaxSequence
    /\ tx' = SignTx(o, "zero")
    /\ op' = o
    /\ pc' = "simulate"
    /\ UNCHANGED <<account, result, chain, ghostVars>>

\* GetGasLimitEstimator's lambda on the node's answer to /simulate: the gas
\* limit is gas_info.gas_used times 1.65 when the simulation succeeded; a
\* failed simulation answers with an error object without gas_info, and the
\* lambda throws reading it.
GetGasLimitEstimator(t) == IF SimulationSucceeds(t) THEN "estimated" ELSE "throws"

\* SignMessage, gas estimation: the estimator (GetGasLimitEstimator) posts
\* the gas-0 transaction to /simulate and reads gas_info.gas_used.  A
\* transport failure, or an error object without gas_info (the node's
\* simulation failed), throws out of the call.  On success the message is
\* signed again, with the same AccountInfo, and the estimated gas.
Simulate ==
    /\ pc = "simulate"
    /\ \/ /\ GetGasLimitEstimator(tx) = "estimated"
          /\ tx' = SignTx(op, GetGasLimitEstimator(tx))
          /\ pc' = "broadcast"
          /\ UNCHANGED <<op, result>>
       \/ /\ result' = "exception"
          /\ pc' = "idle"
          /\ op' = NoOp
          /\ tx' = NoTx
    /\ UNCHANGED <<account, chain, ghostVars>>

\* BroadcastTransaction followed, in the calls that have it, by
\* account_info.IncreaseSequence().  The increment runs whenever
\* BroadcastTransaction returns, whatever code the response carries; it is
\* skipped only when the request throws.  The node's side of the exchange
\* happens in the same step: the client is blocked on the request.
Broadcast ==
    /\ pc = "broadcast"
    /\ \/ \* the request never reaches the node: connect/write throws
          /\ result' = "exception"
          /\ UNCHANGED <<account, chain, ghostVars>>
       \/ \E accepted \in NodeVerdicts(tx), delivered \in Deliveries :
            /\ chain' = IF accepted /\ ChecksSequence(tx.op)
                         THEN [chain EXCEPT !.sequence = @ + 1]
                         ELSE chain
            /\ IF delivered
               THEN /\ result' = IF accepted THEN "accepted" ELSE "rejected"
                    /\ account' = IF IncrementsSequence(op)
                                   THEN [account EXCEPT !.sequence = IncreaseSequence(@)]
                                   ELSE account
               ELSE /\ result' = "exception"
                    /\ UNCHANGED account
            /\ rejectedSinceSync' =
                   IF delivered /\ ~accepted /\ ChecksSequence(tx.op) THEN 1 ELSE rejectedSinceSync
            /\ lostSinceSync' =
                   IF ~delivered /\ accepted /\ ChecksSequence(tx.op) THEN 1 ELSE lostSinceSync
    /\ pc' = "idle"
    /\ op' = NoOp
    /\ tx' = NoTx

\* Environment: the node and the chain account

\* The faucet (or any transfer to the address) creates the account.
Fund ==
    /\ ~chain.exists
    /\ chain' = [exists |-> TRUE, sequence |-> 0]
    /\ UNCHANGED <<clientVars, ghostVars>>

Init ==
    /\ chain \in [exists : InitialExists, sequence : {0}]
    \* the caller starts from AccountInfo::Retrieve on this chain (main.cpp)
    /\ account = RetrievedAccount
    /\ pc = "idle"
    /\ op = NoOp
    /\ tx = NoTx
    /\ result = "none"
    /\ rejectedSinceSync = 0
    /\ lostSinceSync = 0

Next ==
    \/ Retrieve
    \/ \E o \in Ops : StartOrder(o) \/ StartBalanceOp(o)
    \/ Simulate
    \/ Broadcast
    \/ Fund

Spec == Init /\ [][Next]_vars

\* Properties

\* The refinement mapping: the gas-0 pass of a balance operation, which
\* only serves the simulation, is hidden; while the call is in "simulate"
\* the abstract signer is still idle.
Signer == INSTANCE AtomicSigner WITH
    pc <- IF pc = "simulate" THEN "idle" ELSE pc,
    op <- IF pc = "simulate" THEN NoOp ELSE op,
    tx <- IF pc = "simulate" THEN NoTx ELSE tx

\* The two-pass SignMessage of Transfer, Deposit and Withdraw and the
\* one-pass signing of orders implement the atomic signer: every broadcast
\* transaction carries the AccountInfo's current number and sequence, a
\* balance operation's carries the estimated gas of a simulation of the same
\* transaction, and a call moves the sequence by at most one, at its end.
SignsAtomically == Signer!Spec

\* The client never falls behind the chain unless a response was lost: as
\* long as every accepted sequence-checked broadcast was answered since the
\* last Retrieve, the AccountInfo sequence is at least the chain's, so the
\* client never signs a sequence the chain has already consumed.  This is
\* what the IncreaseSequence() after BroadcastTransaction in the long-term
\* PlaceOrder/CancelOrder and in Transfer/Deposit/Withdraw must guarantee.
NoSequenceReuse ==
    lostSinceSync = 0 => account.sequence >= chain.sequence

\* The client runs ahead of the chain only after a rejection: as long as no
\* sequence-checked broadcast was answered with a rejection since the last
\* Retrieve, the AccountInfo sequence is at most the chain's.  It fails if
\* the sequence were bumped for a tx the chain does not count (short-term
\* orders) or for a call whose broadcast threw.
RunsAheadOnlyAfterRejection ==
    rejectedSinceSync = 0 => account.sequence <= chain.sequence

\* A broadcast the node accepts and the client hears about leaves the
\* client's AccountInfo sequence equal to the chain's: a successful
\* long-term order, cancel, transfer, deposit or withdrawal never leaves
\* the caller with a sequence the next transaction will be rejected for.
AcceptedKeepsSync ==
    [][pc = "broadcast" /\ result' = "accepted" /\ ChecksSequence(tx.op)
         => account'.sequence = chain'.sequence]_vars

\* Whenever no call is running and the account is on chain, the caller's
\* AccountInfo holds the chain's sequence: spec section 3 has the sequence
\* incremented once per signed transaction "expected to land on-chain".
InSync ==
    pc = "idle" /\ chain.exists => account.sequence = chain.sequence

\* Once the address exists on chain, every transaction the client signs
\* carries the account number the chain assigned to it (spec section 3:
\* chain-assigned, fetched externally), so that its signature can verify.
\* A step that signs (tx changes to a transaction) while the account exists
\* must sign with that number. It is about the AccountInfo that
\* AccountInfo::Retrieve builds from a "code" answer and that
\* SignMessageProto signs with unchecked.
SignsWithAssignedNumber ==
    [][tx' # NoTx /\ tx' # tx /\ chain.exists => tx'.number = ChainAccountNumber]_vars

=============================================================================
