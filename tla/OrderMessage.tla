---- MODULE OrderMessage ----
\* The order-message builder: CompositeClient::ConvertToLowLevel (good-till
\* defaults), CreatePlaceOrderMessage / CreateCancelOrderMessage in
\* encoding/proto.cpp, and CreateProtoMsgPlaceOrder / CreateProtoMsgCancelOrder
\* in encoding/proto_constructors.cpp; and the balance messages of
\* Transfer, DepositToSubaccount and WithdrawFromSubaccount.
\*
\* A built message is kept with the order id it carries (client id, order
\* flags, clob pair id; the subaccount is fixed), its two good-till fields
\* (0 when unset, as protobuf reads an unset field) and, as a ghost, the order
\* the caller meant: symbol, client id, term and whether it is conditional.
\* A placement also carries its protobuf time in force and client metadata.
\* Prices,
\* sizes, side and reduce-only are left out: no property here tells them
\* apart (Quantization covers prices and sizes).
EXTENDS Naturals, FiniteSets, TLC

CONSTANTS
    ClobPairIdOf,    \* symbol -> clob_pair_id: the ExchangeInfo's instruments
    Symbols,         \* symbols callers use, some unknown to the ExchangeInfo
    Cids,            \* client order ids
    GoodTillBlocks,  \* explicit good_till_block values callers pass
    GoodTillTimes,   \* explicit good_till_timestamp values callers pass
    LatestHeights,   \* block heights the node may report
    ClientMetadatas, \* explicit client_metadata values callers pass
    MaxMessages,     \* bound on the messages built in one behaviour
    Now,             \* std::time(0)
    Me,              \* the signing account: its address and subaccount number
    Recipients,      \* Subaccount values callers pass to Transfer
    AssetIds,        \* asset ids callers pass to the balance operations
    Amounts,         \* whole amounts callers pass (uint64_t / Quantums)
    NDEBUG           \* TRUE for a build with assert compiled out

ASSUME GoodTillBlocks \cup GoodTillTimes \subseteq Nat \ {0}

\* constants.h
SHORT_TERM_TIME_TO_LIVE_BLOCKS == 15
LONG_TERM_TIME_TO_LIVE_SECONDS == 24 * 60 * 60

\* PlaceOrderTimeInForce (encoding/proto.h) and ToProtoTimeInForce's map onto
\* the protobuf Order_TimeInForce.
PlaceOrderTimeInForce == {"UNSPECIFIED", "IOC", "POST_ONLY", "FILL_OR_KILL"}
ToProtoTimeInForce ==
    ("UNSPECIFIED" :> "TIME_IN_FORCE_UNSPECIFIED") @@ ("IOC" :> "TIME_IN_FORCE_IOC")
    @@ ("POST_ONLY" :> "TIME_IN_FORCE_POST_ONLY")
    @@ ("FILL_OR_KILL" :> "TIME_IN_FORCE_FILL_OR_KILL")

\* ConditionType and the protobuf Order_ConditionType.
ConditionTypes == {"STOP_LOSS", "TAKE_PROFIT"}
UNSPECIFIED == "UNSPECIFIED"

\* constants.h: the quote asset's id.
ASSET_USDC == 0

VARIABLES
    messages,   \* the messages built so far
    outcome     \* "none", "built", "exception" or "abort": how the last call
                \* ended; "abort" is a failed assert, which ends the process

vars == <<messages, outcome>>

\* A std::optional<T> is the set of at most one value it holds.
Optionals(S) == {{}} \cup {{v} : v \in S}
ValueOr(o, default) == IF o = {} THEN default ELSE CHOOSE v \in o : TRUE

\* ExchangeInfo::GetInstrumentInfo is std::map::at: it throws for a symbol
\* the ExchangeInfo does not know.
KnownSymbol(symbol) == symbol \in DOMAIN ClobPairIdOf

\* CompositeClient::GetGoodTillBlock and GetGoodTillTimestamp.
GetGoodTillBlock(latest) == latest + SHORT_TERM_TIME_TO_LIVE_BLOCKS
GetGoodTillTimestamp == Now + LONG_TERM_TIME_TO_LIVE_SECONDS

\* CompositeClient::GetClientMetadata: 1 for IOC and FILL_OR_KILL, else 0.
GetClientMetadata(time_in_force) ==
    IF time_in_force \in {"IOC", "FILL_OR_KILL"} THEN 1 ELSE 0

\* ConvertToLowLevel for a placement: the caller's client_metadata if set,
\* else the default for its time in force.
ClientMetadataOf(tif, md) == ValueOr(md, GetClientMetadata(tif))

\* A mutant: the order flags without the long-term tag.
OrderFlagsNoLongTerm(condition_type, long_term) ==
    IF condition_type = UNSPECIFIED THEN 0 ELSE 32

\* CreateProtoMsgPlaceOrder, line 38.
OrderFlags(condition_type, long_term) ==
    IF condition_type = UNSPECIFIED THEN (IF long_term THEN 64 ELSE 0) ELSE 32

\* A mutant: the two tags combined as bits.
CancelOrderFlagsOr(conditional, long_term) ==
    (IF conditional THEN 32 ELSE 0) + (IF long_term THEN 64 ELSE 0)

\* A mutant: the long-term test made before the conditional one.
CancelOrderFlagsSwapped(conditional, long_term) ==
    IF long_term THEN 64 ELSE (IF conditional THEN 32 ELSE 0)

\* CreateProtoMsgCancelOrder, line 73.
CancelOrderFlags(conditional, long_term) ==
    IF conditional THEN 32 ELSE (IF long_term THEN 64 ELSE 0)

\* Both constructors: a long-term message sets good_til_block_time, a
\* short-term one good_til_block.
GoodTillFields(long_term, good_till) ==
    IF long_term THEN [good_til_block |-> 0, good_til_block_time |-> good_till]
    ELSE [good_til_block |-> good_till, good_til_block_time |-> 0]

\* CreateProtoMsgPlaceOrder; order is the ghost.
CreateProtoMsgPlaceOrder(order, cid, clob, tif, good_till, condition_type, long_term, md_out) ==
    [kind |-> "place", order |-> order,
     time_in_force |-> tif, client_metadata |-> md_out,
     id |-> [client_id |-> cid, order_flags |-> OrderFlags(condition_type, long_term),
             clob_pair_id |-> clob],
     good_til_block |-> GoodTillFields(long_term, good_till).good_til_block,
     good_til_block_time |-> GoodTillFields(long_term, good_till).good_til_block_time]

\* CreateProtoMsgCancelOrder; order is the ghost.
CreateProtoMsgCancelOrder(order, cid, clob, good_till, conditional, long_term) ==
    [kind |-> "cancel", order |-> order,
     id |-> [client_id |-> cid, order_flags |-> CancelOrderFlags(conditional, long_term),
             clob_pair_id |-> clob],
     good_til_block |-> GoodTillFields(long_term, good_till).good_til_block,
     good_til_block_time |-> GoodTillFields(long_term, good_till).good_til_block_time]

\* The two kinds of account a balance message names: a bank address, and a
\* subaccount (owner address, subaccount number).
BankAccount(address) == [owner |-> address]
SubaccountId(address, number) == [owner |-> address, number |-> number]

\* The signer's subaccount: AccountInfo::GetAccountAddress and
\* GetSubaccountNumber.
OwnSubaccount == SubaccountId(Me.owner, Me.number)

\* ToProtoQuantumsUSDC on a whole amount: amount x 10^6, exact (Quantization
\* covers fractional amounts).
QuoteQuantums(amount) == amount * 1000000

\* CreateProtoMsgCreateTransfer: from the caller's subaccount to the
\* recipient subaccount; to is the caller's recipient, a ghost.
CreateProtoMsgCreateTransfer(address, subaccount_number, to, amount, asset_id) ==
    [kind |-> "transfer", to |-> to,
     sender |-> SubaccountId(address, subaccount_number),
     recipient |-> SubaccountId(to.owner, to.number),
     asset_id |-> asset_id, amount |-> amount]

\* CreateProtoMsgDepositToSubaccount: from the caller's bank address to its
\* own subaccount.
CreateProtoMsgDepositToSubaccount(address, subaccount_number, quantums, asset_id) ==
    [kind |-> "deposit",
     sender |-> BankAccount(address),
     recipient |-> SubaccountId(address, subaccount_number),
     asset_id |-> asset_id, amount |-> quantums]

\* A mutant: the withdrawal built the way round of a deposit.
CreateProtoMsgWithdrawFromSubaccountSwapped(address, subaccount_number, quantums, asset_id) ==
    [kind |-> "withdraw",
     sender |-> BankAccount(address),
     recipient |-> SubaccountId(address, subaccount_number),
     asset_id |-> asset_id, amount |-> quantums]

\* CreateProtoMsgWithdrawFromSubaccount: from the caller's subaccount to its
\* own bank address.
CreateProtoMsgWithdrawFromSubaccount(address, subaccount_number, quantums, asset_id) ==
    [kind |-> "withdraw",
     sender |-> SubaccountId(address, subaccount_number),
     recipient |-> BankAccount(address),
     asset_id |-> asset_id, amount |-> quantums]

Order(symbol, cid, long_term, conditional) ==
    [symbol |-> symbol, cid |-> cid, long_term |-> long_term, conditional |-> conditional]

Init ==
    /\ messages = {}
    /\ outcome = "none"

\* A call ends in an exception before anything is built: GetGoodTillBlock's
\* node query failed, or GetInstrumentInfo did not know the symbol.
Throw ==
    /\ outcome' = "exception"
    /\ UNCHANGED messages

\* assert(asset_id == ASSET_USDC) at the top of the three Create...Message
\* functions: it aborts the process, unless the build defines NDEBUG.
AssertAbort ==
    /\ outcome' = "abort"
    /\ UNCHANGED messages

Build(msg) ==
    /\ Cardinality(messages) < MaxMessages
    /\ messages' = messages \cup {msg}
    /\ outcome' = "built"

\* ConvertToLowLevel(PlaceShortTermOrderParams), then CreatePlaceOrderMessage.
PlaceShortTermOrder ==
    /\ \E symbol \in Symbols, cid \in Cids, gtb \in Optionals(GoodTillBlocks),
          tif \in PlaceOrderTimeInForce, md \in Optionals(ClientMetadatas) :
         \/ /\ gtb = {} \/ ~KnownSymbol(symbol)
            /\ Throw
         \/ /\ KnownSymbol(symbol)
            /\ \E latest \in LatestHeights :
                 Build(CreateProtoMsgPlaceOrder(Order(symbol, cid, FALSE, FALSE),
                         cid, ClobPairIdOf[symbol], ToProtoTimeInForce[tif],
                         ValueOr(gtb, GetGoodTillBlock(latest)), UNSPECIFIED, FALSE,
                         ClientMetadataOf(tif, md)))

\* ConvertToLowLevel(PlaceLongTermOrderParams), then CreatePlaceOrderMessage.
PlaceLongTermOrder ==
    /\ \E symbol \in Symbols, cid \in Cids, gtt \in Optionals(GoodTillTimes),
          cond \in Optionals(ConditionTypes),
          tif \in PlaceOrderTimeInForce, md \in Optionals(ClientMetadatas) :
         \/ /\ ~KnownSymbol(symbol)
            /\ Throw
         \/ /\ KnownSymbol(symbol)
            /\ Build(CreateProtoMsgPlaceOrder(Order(symbol, cid, TRUE, cond # {}),
                       cid, ClobPairIdOf[symbol], ToProtoTimeInForce[tif],
                       ValueOr(gtt, GetGoodTillTimestamp),
                       ValueOr(cond, UNSPECIFIED), TRUE,
                       ClientMetadataOf(tif, md)))

\* ConvertToLowLevel(CancelShortTermOrderParams), then CreateCancelOrderMessage.
CancelShortTermOrder ==
    /\ \E symbol \in Symbols, cid \in Cids, gtb \in Optionals(GoodTillBlocks) :
         \/ /\ gtb = {} \/ ~KnownSymbol(symbol)
            /\ Throw
         \/ /\ KnownSymbol(symbol)
            /\ \E latest \in LatestHeights :
                 Build(CreateProtoMsgCancelOrder(Order(symbol, cid, FALSE, FALSE),
                         cid, ClobPairIdOf[symbol],
                         ValueOr(gtb, GetGoodTillBlock(latest)), FALSE, FALSE))

\* ConvertToLowLevel(CancelLongTermOrderParams), then CreateCancelOrderMessage.
CancelLongTermOrder ==
    /\ \E symbol \in Symbols, cid \in Cids, gtt \in Optionals(GoodTillTimes),
          conditional \in BOOLEAN :
         \/ /\ ~KnownSymbol(symbol)
            /\ Throw
         \/ /\ KnownSymbol(symbol)
            /\ Build(CreateProtoMsgCancelOrder(Order(symbol, cid, TRUE, conditional),
                       cid, ClobPairIdOf[symbol],
                       ValueOr(gtt, GetGoodTillTimestamp), conditional, TRUE))

\* Transfer, DepositToSubaccount and WithdrawFromSubaccount up to the built
\* message: CreateTransferMessage and its siblings pass the account's address
\* and subaccount number and ToProtoQuantumsUSDC(amount). Deposit and
\* Withdraw take Quantums, which the message builder scales again by 10^6.
BalanceOperation ==
    /\ \E asset_id \in AssetIds, amount \in Amounts :
         \/ /\ asset_id # ASSET_USDC /\ ~NDEBUG
            /\ AssertAbort
         \/ /\ asset_id = ASSET_USDC \/ NDEBUG
            /\ \/ \E to \in Recipients :
                    Build(CreateProtoMsgCreateTransfer(Me.owner, Me.number, to,
                            QuoteQuantums(amount), asset_id))
               \/ Build(CreateProtoMsgDepositToSubaccount(Me.owner, Me.number,
                            QuoteQuantums(amount), asset_id))
               \/ Build(CreateProtoMsgWithdrawFromSubaccount(Me.owner, Me.number,
                            QuoteQuantums(amount), asset_id))

Running == outcome # "abort"

Next ==
    /\ Running
    /\ \/ PlaceShortTermOrder
       \/ PlaceLongTermOrder
       \/ CancelShortTermOrder
       \/ CancelLongTermOrder
       \/ BalanceOperation

Spec == Init /\ [][Next]_vars

\* Properties.

OrderMessages == {m \in messages : m.kind \in {"place", "cancel"}}

\* Type invariant. Every message's order_flags is one of the protocol's three
\* tags 0, 64 and 32 (CreateProtoMsgPlaceOrder line 38 and
\* CreateProtoMsgCancelOrder line 73); the chain rejects any other value.
TypeOK ==
    /\ outcome \in {"none", "built", "exception", "abort"}
    /\ \A m \in OrderMessages :
         /\ m.id.order_flags \in {0, 32, 64}
         /\ m.good_til_block \in Nat /\ m.good_til_block_time \in Nat
    /\ \A m \in messages \ OrderMessages :
         /\ m.kind \in {"transfer", "deposit", "withdraw"}
         /\ m.amount \in Nat

\* Every message sets exactly one good-till field, and the one its order
\* flags call for: good_til_block for a short-term id (flags 0), and
\* good_til_block_time for a long-term or conditional id. The flags and the
\* field are chosen by separate expressions in both constructors.
GoodTillMatchesFlags ==
    \A m \in OrderMessages :
      /\ (m.good_til_block = 0) # (m.good_til_block_time = 0)
      /\ (m.id.order_flags = 0) <=> (m.good_til_block # 0)

\* A cancel built for an order (same symbol and client id, same term, and
\* conditional exactly when the placement had conditional_order_params)
\* carries the placement's order id. The place and cancel paths compute the
\* flags with different expressions from different parameters.
CancelMatchesPlacement ==
    \A p, c \in messages :
      (p.kind = "place" /\ c.kind = "cancel" /\ p.order = c.order) => c.id = p.id

\* A balance message only ever debits one of the signer's own accounts: a
\* transfer moves from the signer's subaccount to the recipient the caller
\* named, a deposit from the signer's bank address to its subaccount, and a
\* withdrawal the other way, so a withdrawal undoes a deposit of the same
\* amount (spec, MessageBuilder). The three constructors fill sender and
\* recipient from different parameters, and the signature covers whatever
\* they wrote.
BalanceMovesOwnFunds ==
    /\ \A m \in messages \ OrderMessages :
         /\ m.sender \in {BankAccount(Me.owner), OwnSubaccount}
         /\ m.kind = "transfer" => m.sender = OwnSubaccount /\ m.recipient = m.to
         /\ m.kind = "deposit" => m.recipient = OwnSubaccount
    /\ \A d, w \in messages :
         (d.kind = "deposit" /\ w.kind = "withdraw" /\ d.amount = w.amount) =>
           d.sender = w.recipient /\ d.recipient = w.sender
====
