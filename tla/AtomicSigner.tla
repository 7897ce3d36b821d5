---- MODULE AtomicSigner ----
\* What a CompositeClient transaction call promises, as spec section 4.5
\* states the signer: one atomic step signs the message with the caller's
\* AccountInfo as it is (its account number and sequence) and hands it to the
\* broadcaster. A balance operation is signed with an estimated gas limit,
\* obtained by simulating that same transaction; an order is signed with gas
\* limit 0 and never simulated. A call ends by changing the AccountInfo's
\* sequence by at most one. A call may instead throw, with no effect.
\* The chain is the same environment as in CompositeClient, and moves its
\* sequence by at most one per transaction, only for one carrying its
\* sequence.
EXTENDS Naturals

CONSTANTS
    ChainAccountNumber,
    UnknownAccountNumber,
    MaxSequence,
    OrderOps,
    BalanceOps,
    NoOp

VARIABLES
    account,   \* the caller's AccountInfo: [number, sequence]
    pc,        \* "idle" or "broadcast": a signed transaction is on its way
    op,        \* the call whose transaction is on its way
    tx,        \* that transaction
    result,    \* what the last call returned
    chain      \* the node's view of the account: [exists, sequence]

vars == <<account, pc, op, tx, result, chain>>

NoTx == [op |-> NoOp, sequence |-> 0, number |-> 0, gas |-> "zero"]
Numbers == {ChainAccountNumber, UnknownAccountNumber}
Results == {"none", "accepted", "rejected", "exception"}

\* The gas limit a call's broadcast transaction carries.
GasOf(o) == IF o \in BalanceOps THEN "estimated" ELSE "zero"

\* The node's /simulate succeeds on a transaction with this sequence.
Simulates(s) == chain.exists /\ s = chain.sequence

Init ==
    /\ account \in [number : Numbers, sequence : {0}]
    /\ pc = "idle"
    /\ op = NoOp
    /\ tx = NoTx
    /\ result = "none"
    /\ chain \in [exists : BOOLEAN, sequence : {0}]

\* The call signs with the AccountInfo as it is now.
Sign(o) ==
    /\ pc = "idle"
    /\ o \in BalanceOps => Simulates(account.sequence)
    /\ pc' = "broadcast"
    /\ op' = o
    /\ tx' = [op |-> o, sequence |-> account.sequence, number |-> account.number,
              gas |-> GasOf(o)]
    /\ UNCHANGED <<account, result, chain>>

\* The call throws before anything reached the node.
Throw ==
    /\ pc = "idle"
    /\ result' = "exception"
    /\ UNCHANGED <<account, pc, op, tx, chain>>

\* The broadcast ends the call: the chain takes the transaction at most once
\* and the AccountInfo's sequence moves by at most one.
Complete ==
    /\ pc = "broadcast"
    /\ chain' \in {chain} \cup
         (IF chain.exists /\ tx.sequence = chain.sequence
          THEN {[chain EXCEPT !.sequence = @ + 1]} ELSE {})
    /\ account' \in {account, [account EXCEPT !.sequence = @ + 1]}
    /\ result' \in Results
    /\ pc' = "idle"
    /\ op' = NoOp
    /\ tx' = NoTx

\* AccountInfo::Retrieve replaces the AccountInfo.
Retrieve ==
    /\ pc = "idle"
    /\ account' \in [number : Numbers, sequence : 0..MaxSequence]
    /\ result' = "none"
    /\ UNCHANGED <<pc, op, tx, chain>>

\* The account is created on chain.
Fund ==
    /\ ~chain.exists
    /\ chain' = [exists |-> TRUE, sequence |-> 0]
    /\ UNCHANGED <<account, pc, op, tx, result>>

Next ==
    \/ \E o \in OrderOps \cup BalanceOps : Sign(o)
    \/ Throw
    \/ Complete
    \/ Retrieve
    \/ Fund

Spec == Init /\ [][Next]_vars
====
