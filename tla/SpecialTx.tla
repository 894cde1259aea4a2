------------------------------- MODULE SpecialTx -------------------------------
(***************************************************************************)
(* The special transactions of Dash (tx_dash.py) and AXE (tx_axe.py): a    *)
(* transaction whose type is not 0 ends in a payload of that type.  For    *)
(* each class of payload there is what its serialize writes, in cells as   *)
(* in TxFormats, and the fields that its read_tx_extra reads, as widths    *)
(* and names; a width of 0 is that of a field after its length.            *)
(***************************************************************************)
EXTENDS TxFormats

\* Fields that are written, in order.
Fixed(width, name) == <<Data(width, name, 0)>>
Variable(name) == VarBytes(3, name, 0)
U16(name, n) == <<Data(2, name, n)>>

-----------------------------------------------------------------------------
(* Payloads: p has a version, and a type, 1 if it has the fields of the      *)
(* platform                                                                  *)

PlatformWritten == Fixed(20, "platformNodeID") \o Fixed(2, "platformP2PPort") \o Fixed(2, "platformHTTPPort")
PlatformRead == <<<<20, "platformNodeID">>, <<2, "platformP2PPort">>, <<2, "platformHTTPPort">>>>

\* The ports of a payload without platform are written as 0, its ID as nothing.
PlatformOf(p) == IF p.type = 1 THEN PlatformWritten ELSE U16("no port", 0) \o U16("no port", 0)

ProRegHead(p) ==
    U16("version", p.version) \o U16("type", p.type) \o Fixed(2, "mode") \o Fixed(32, "hash") \o Fixed(4, "index")
    \o Fixed(16, "ipAddress") \o Fixed(2, "port") \o Fixed(20, "KeyIdOwner") \o Fixed(48, "PubKeyOperator")
    \o Fixed(20, "KeyIdVoting") \o Fixed(2, "operatorReward") \o Variable("scriptPayout") \o Fixed(32, "inputsHash")
ProRegFields ==
    <<<<2, "version">>, <<2, "type">>, <<2, "mode">>, <<32, "hash">>, <<4, "index">>, <<16, "ipAddress">>, <<2, "port">>,
      <<20, "KeyIdOwner">>, <<48, "PubKeyOperator">>, <<20, "KeyIdVoting">>, <<2, "operatorReward">>,
      <<0, "scriptPayout">>, <<32, "inputsHash">>>>

DashProRegWritten(p) ==
    ProRegHead(p) \o (IF p.version >= 2 THEN PlatformOf(p) ELSE <<>>) \o Variable("payloadSig")

\* Mutant of DashProRegRead: as it was before there was a platform.
DashProRegReadOld(version, type) == Append(ProRegFields, <<0, "payloadSig">>)

DashProRegRead(version, type) ==
    ProRegFields \o (IF version >= 2 /\ type = 1 THEN PlatformRead ELSE <<>>) \o <<<<0, "payloadSig">>>>

AxeProRegWritten(p) == ProRegHead(p) \o Variable("payloadSig")
AxeProRegRead(version, type) == Append(ProRegFields, <<0, "payloadSig">>)

ProUpServBody ==
    Fixed(32, "proTxHash") \o Fixed(16, "ipAddress") \o Fixed(2, "port") \o Variable("scriptOperatorPayout")
    \o Fixed(32, "inputsHash")
ProUpServFields ==
    <<<<32, "proTxHash">>, <<16, "ipAddress">>, <<2, "port">>, <<0, "scriptOperatorPayout">>, <<32, "inputsHash">>>>

DashProUpServWritten(p) ==
    U16("version", p.version) \o (IF p.version >= 2 THEN U16("type", p.type) ELSE <<>>) \o ProUpServBody
    \o (IF p.version >= 2 THEN PlatformOf(p) ELSE <<>>) \o Fixed(96, "payloadSig")
DashProUpServRead(version, type) ==
    <<<<2, "version">>>> \o (IF version >= 2 THEN <<<<2, "type">>>> ELSE <<>>) \o ProUpServFields
    \o (IF version >= 2 /\ type = 1 THEN PlatformRead ELSE <<>>) \o <<<<96, "payloadSig">>>>

AxeProUpServWritten(p) == U16("version", p.version) \o ProUpServBody \o Fixed(96, "payloadSig")
AxeProUpServRead(version, type) == <<<<2, "version">>>> \o ProUpServFields \o <<<<96, "payloadSig">>>>

ProUpRegWritten(p) ==
    U16("version", p.version) \o Fixed(32, "proTxHash") \o Fixed(2, "mode") \o Fixed(48, "PubKeyOperator")
    \o Fixed(20, "KeyIdVoting") \o Variable("scriptPayout") \o Fixed(32, "inputsHash") \o Variable("payloadSig")
ProUpRegRead(version, type) ==
    <<<<2, "version">>, <<32, "proTxHash">>, <<2, "mode">>, <<48, "PubKeyOperator">>, <<20, "KeyIdVoting">>,
      <<0, "scriptPayout">>, <<32, "inputsHash">>, <<0, "payloadSig">>>>

ProUpRevWritten(p) ==
    U16("version", p.version) \o Fixed(32, "proTxHash") \o Fixed(2, "reason") \o Fixed(32, "inputsHash")
    \o Fixed(96, "payloadSig")
ProUpRevRead(version, type) ==
    <<<<2, "version">>, <<32, "proTxHash">>, <<2, "reason">>, <<32, "inputsHash">>, <<96, "payloadSig">>>>

AxeCbWritten(p) ==
    U16("version", p.version) \o Fixed(4, "height") \o Fixed(32, "merkleRootMNList")
    \o (IF p.version > 1 THEN Fixed(32, "merkleRootQuorums") ELSE <<>>)
AxeCbRead(version, type) ==
    <<<<2, "version">>, <<4, "height">>, <<32, "merkleRootMNList">>>>
    \o (IF version > 1 THEN <<<<32, "merkleRootQuorums">>>> ELSE <<>>)

DashCbWritten(p) ==
    AxeCbWritten(p) \o (IF p.version > 2 THEN Fixed(1, "bestCLHeightDiff") \o Fixed(96, "bestCLSignature")
                                              \o Fixed(8, "assetLockedAmount") ELSE <<>>)
DashCbRead(version, type) ==
    AxeCbRead(version, type) \o
    (IF version > 2 THEN <<<<1, "bestCLHeightDiff">>, <<96, "bestCLSignature">>, <<8, "assetLockedAmount">>>> ELSE <<>>)

SubTxRegisterWritten(p) ==
    U16("version", p.version) \o Variable("userName") \o Fixed(48, "pubKey") \o Fixed(96, "payloadSig")
SubTxRegisterRead(version, type) ==
    <<<<2, "version">>, <<0, "userName">>, <<48, "pubKey">>, <<96, "payloadSig">>>>

SubTxTopupWritten(p) == U16("version", p.version) \o Fixed(32, "regTxHash")
SubTxTopupRead(version, type) == <<<<2, "version">>, <<32, "regTxHash">>>>

SubTxHead(p) ==
    U16("version", p.version) \o Fixed(32, "regTxHash") \o Fixed(32, "hashPrevSubTx") \o Fixed(8, "creditFee")
SubTxFields == <<<<2, "version">>, <<32, "regTxHash">>, <<32, "hashPrevSubTx">>, <<8, "creditFee">>>>

SubTxResetKeyWritten(p) == SubTxHead(p) \o Fixed(48, "newPubKey") \o Fixed(96, "payloadSig")
SubTxResetKeyRead(version, type) == SubTxFields \o <<<<48, "newPubKey">>, <<96, "payloadSig">>>>

SubTxCloseAccountWritten(p) == SubTxHead(p) \o Fixed(96, "payloadSig")
SubTxCloseAccountRead(version, type) == Append(SubTxFields, <<96, "payloadSig">>)

-----------------------------------------------------------------------------
(* SPEC_TX_HANDLERS                                                          *)

SpecialCoins == {"dash", "axe"}
Handled(coin) == IF coin = "dash" THEN 1 .. 5 ELSE 1 .. 5 \cup 8 .. 11

\* What is written of the payload of a transaction, which has no form of its own
\* if its type has no handler.
PayloadWritten(coin, tx_type, p) ==
    CASE tx_type \notin Handled(coin) -> Fixed(7, "payload")
      [] tx_type = 1 -> IF coin = "dash" THEN DashProRegWritten(p) ELSE AxeProRegWritten(p)
      [] tx_type = 2 -> IF coin = "dash" THEN DashProUpServWritten(p) ELSE AxeProUpServWritten(p)
      [] tx_type = 3 -> ProUpRegWritten(p)
      [] tx_type = 4 -> ProUpRevWritten(p)
      [] tx_type = 5 -> IF coin = "dash" THEN DashCbWritten(p) ELSE AxeCbWritten(p)
      [] tx_type = 8 -> SubTxRegisterWritten(p)
      [] tx_type = 9 -> SubTxTopupWritten(p)
      [] tx_type = 10 -> SubTxResetKeyWritten(p)
      [] tx_type = 11 -> SubTxCloseAccountWritten(p)

PayloadRead(coin, tx_type, version, type) ==
    CASE tx_type \notin Handled(coin) -> <<<<7, "payload">>>>
      [] tx_type = 1 -> IF coin = "dash" THEN DashProRegRead(version, type) ELSE AxeProRegRead(version, type)
      [] tx_type = 2 -> IF coin = "dash" THEN DashProUpServRead(version, type) ELSE AxeProUpServRead(version, type)
      [] tx_type = 3 -> ProUpRegRead(version, type)
      [] tx_type = 4 -> ProUpRevRead(version, type)
      [] tx_type = 5 -> IF coin = "dash" THEN DashCbRead(version, type) ELSE AxeCbRead(version, type)
      [] tx_type = 8 -> SubTxRegisterRead(version, type)
      [] tx_type = 9 -> SubTxTopupRead(version, type)
      [] tx_type = 10 -> SubTxResetKeyRead(version, type)
      [] tx_type = 11 -> SubTxCloseAccountRead(version, type)

-----------------------------------------------------------------------------
(* Transactions: version, tx_type and, if the latter is not 0, payload       *)

\* Inputs, outputs and lock time, which are those of other coins.
Core == Fixed(60, "inputs, outputs, locktime")

\* DashTx.serialize: two halves of a version, or version and type.
SpecialWire(coin, tx) ==
    IF tx.tx_type = 0
    THEN U16("half", tx.version % 65536) \o U16("half", tx.version \div 65536) \o Core
    ELSE LET payload == PayloadWritten(coin, tx.tx_type, tx.payload)
         IN  U16("half", tx.version) \o U16("half", tx.tx_type) \o Core \o <<Num(Size(payload))>> \o payload

\* Old transactions may have anything in the upper half of their version.
IsSpecial(low, high) == high # 0 /\ low >= 3

\* The fields read one after the other: where that ends, the names and what was
\* there, unless the widths differ from what was written.
ReadFields(fields, cells, start) ==
    FoldLeft(LAMBDA read, field :
                LET at == IF field[1] = 0 THEN read.at + 1 ELSE read.at
                    right == at <= Len(cells) /\ (field[1] = 0 \/ cells[at][1] = field[1])
                IN  IF read.right /\ right
                    THEN [read EXCEPT !.at = at + 1, !.found = @ \cup {<<field[2], cells[at][2]>>}]
                    ELSE [read EXCEPT !.right = FALSE],
             [at |-> start, found |-> {}, right |-> TRUE], fields)

\* DeserializerDash.read_tx, which asserts that the payload has its size.
ReadSpecial(coin, cells, start) ==
    LET low == cells[start][2][2]
        high == cells[start + 1][2][2]
        payload == start + 4
        p == [version |-> cells[payload][2][2], type |-> cells[payload + 1][2][2]]
        read == ReadFields(PayloadRead(coin, high, p.version, p.type), cells, payload)
    IN  IF IsSpecial(low, high)
        THEN [version |-> low, tx_type |-> high, found |-> read.found, next |-> read.at,
              right |-> read.right /\ Size(Slice(cells, payload, read.at)) = Number(cells[start + 3])]
        ELSE [version |-> low + 65536 * high, tx_type |-> 0, found |-> {}, next |-> start + 3, right |-> TRUE]
=============================================================================
